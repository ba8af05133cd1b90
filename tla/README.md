# Mallory: a TLA+ development

Mallory (`src/src/`) is an intercepting TCP and UDP proxy: it sits between
*victims* (clients) and the servers they want, hands the bytes that pass to rules
and to a human operator, and sends on what they make of them. It is a Python 2
program of many threads that share objects with hardly a lock. This directory
holds TLA+ models of its core, TLC configurations that check them on small
instances, and proofs for every instance that TLAPS checks. Paths below are
relative to `src/src/`.

## 1. Inventory

### Components, their state and operations

| component | source | state | operations |
|---|---|---|---|
| accept loop | `mallory.py` | `protoinstances`, `configured_protos`, `connCount`, the locals `shost`, `sport` (kept from round to round) | accept, destination lookup, choose a class, copy the rules, attach the instance to its publishers, connect, start two pumps, `cleanup_proto` |
| TCP pumps | `protocol/base.py:419-776` | per instance `done`, `debugon`, `rules`, `waitfor`, `debugqs`; per pump `string`, `msgCnt` | recv, rules, `waitfordebug`, sendall, store, and four ways to end |
| UDP | `protocol/base.py:90-378` | the table `session` and its lock; per receive thread `failticks` | `forward_any` (one thread), `getsession`, `addsession`, `delsession`, `spawn_recv_thread` (one thread per session) |
| Debugger | `debug.py` | `debugon`, the queue of events, observers | `setdebug`, `getdebugq`, `send_de` (remote calls), `update` |
| Subject | `observer.py` | `_observers` | `attach`, `notify` |
| stream tab | `gui/guimain.py` | the table of events with a status each, `curdebugevent`, autosend | a polling thread; send, clear, intercept buttons |
| rules | `rule.py`, `muckpipe.py`, `fuzz.py`, `config_rule.py` | the array of `Rule` objects; `Muck.mp` in each muck action | `match`, `execute`, `update_rules` |
| protocol configuration | `config_proto.py`, `mallory.py:181-264` | `protos.ini`, `protocols`, `configured_protos` | save, load (which makes the accept loop's object build a new list) |
| interfaces tab | `config_if.py`, `gui/`, `cmdexec.py` | interface lists, and the tables of iptables | refresh, set a role, save (a list of shell commands, results ignored) |
| database thread | `trafficdb.py` | five queues, one sqlite3 file for each run | one loop that drains the queues one after the other and commits |
| HTTP | `protocol/http.py`, `plugin_managers/` | parser state of one stream | read a request or a response, plugins, change headers, send |
| SSH | `protocol/ssh.py` | two paramiko transports, a channel each | set-up with callbacks, `shell()` (one thread, both directions), `provideshell` |
| HTTPS, SSL | `protocol/https.py`, `sslproto.py` | wrapped sockets | configure the server's, then the victim's socket |
| DNS | `protocol/dnsp.py` | none | two transformations of a datagram |
| certificates | `cert_auth.py`, `x509.py` | certificates by subject, files | make a fake certificate |
| plugins | `plugin_managers/` | the plugins of a port | a chain of transformations |

`PROJECT.json` lists the remaining parts (editors, generated widgets, vendored
Pyro and dnspython, snippets) with the reason they are left alone.

### How they interact

* The **accept loop** makes one protocol instance per connection and runs its two
  directions in two threads. They share the instance: `done` is set by one and
  ends nothing in the other, but lets `cleanup_proto`, at the next client, close
  both sockets.
* A **pump** that is to be debugged publishes an event (`notify`), which
  `Debugger.update` queues; the **GUI** polls `getdebugq` over Pyro, shows it and
  some time later calls `send_de`, which notifies *all* instances; the one that
  recognises event and direction puts the text in the queue its pump polls.
* **setdebug** and **update_rules** go through the list of observers, one after
  the other, while pumps run and the accept loop appends to that list. A new
  instance copies the rules (`mallory.py:402`) before it is attached (414).
* **load_config** replaces the list of protocols while the accept loop goes
  through it; it does so three times for each connection, with a blocking
  `connect` between the last two.
* The **UDP** main thread and the receive threads meet in the session table. The
  lock covers single operations on it, not the look-up and the use of its result.
* Everybody puts rows in the queues of the **database thread**; a chunk that was
  fuzzed makes two rows in two queues, a connection's row is queued before any of
  its flows'. Nobody waits for the thread, and nobody notices when it ends.
* **HTTP** replaces both pumps: they meet only through the two peers, and in one
  instance, whose sockets they close or shut down.
* An **SSH** instance is set up by the accept loop, which waits for the victim
  meanwhile; paramiko's threads call back into it; its single pump serves both
  directions; and `provideshell`, a thread of its own, picks servers out of the
  accept loop's `protoinstances`.
* The **interfaces tab** talks to the kernel only, by shell commands. It never
  reads back what they did.

### What is hard

Interleavings of threads on unlocked objects (all of the above); values read and
used later (`debugon`, `rules`, `configured_protos`, a session's port, the number
of an SSH session); exceptions half-way through a handler, most of them swallowed;
commands that fail without anybody looking; connections that end in one direction
first; time-outs that race late answers; waits without a time-out, which only the
operator can end; a program that is killed between a queue and the disk, or
between two shell commands. `PROJECT.json` lists the hazards that order, timing and
failure bring about, each at its line; section 5 those that a reader sees in one place.

### What makes each component correct

* Pumps: each chunk goes out once, in order, on its own stream, with its own text;
  one that was intercepted not before the operator returned it; a waiting pump is
  released when its event is returned.
* Accept loop: a client is connected to the server it wanted; sockets are closed
  only when nobody needs them, and then really; the loop itself survives; rows in
  the database can be joined.
* UDP: one session, port and thread per victim; every session ends; nobody's
  datagrams use another's port.
* Debugger and GUI: a click reaches everyone; autosend needs no operator.
* Rules: exactly the chain that the array says acts on a chunk, on that chunk's
  bytes, and what was done is recorded; an update reaches every instance.
* Protocol configuration: one class per port; a connection gets what the list in
  force says, as a whole.
* Interfaces: no interface is on both sides; what is redirected has a way out; what
  was saved is what the kernel does.
* Database: rows reach the file in order and once, those that belong together
  together; no run touches another's file.
* HTTP: the client can make sense of what it is sent, and is answered.
* SSH: a password is tried only on a transport that is there; a second shell is at
  the server the operator was shown.

## 2. Modules

| module | models | checked by |
|---|---|---|
| `OrderedRelay` | abstract: what a pair of pumps promises | `RelaySpec` of the next three |
| `StreamDebugger` | pumps, Debugger, Subject, GUI, attaching by the accept loop | `stream`, `stream_live`, `viol_event_lost` |
| `TcpSessions` (`MCTcpSessions`) | accept loop, life and death of pumps, peers | `tcp`, `tcp_live` |
| `SshSessions` (`MCSshSessions`) | SSH set-up, callbacks, its pump, `provideshell`, among other instances | `ssh` |
| `UdpSessions` | UDP main and receive threads, table, sockets | `udp` |
| `RuleChain` (`MCRuleChain`) | rules, muck pipes, rule updates, attaching for them | `rules` |
| `ProtocolConfig` (`MCProtocolConfig`) | protocol lists, choice of class, socket configuration | `protocols` |
| `DurableLog` | abstract: what the database promises for each kind of row | `LogSpec` of `TrafficDb` |
| `TrafficDb` (`MCTrafficDb`) | the database thread, those who queue rows, restarts | `database` |
| `InterfaceConfig` (`MCInterfaceConfig`) | the interfaces tab and the kernel's tables | `interfaces` |
| `HttpExchange` (`MCHttpExchange`) | one HTTP connection between its two peers | `http` |
| `X_proofs` | TLAPS proofs about module `X`; `HttpDb_proofs` about `HttpExchange` and `TrafficDb` (section 4) | `tlapm` |

The MC modules only define the values of constants. The modules overlap in the
pumps on purpose: `StreamDebugger` keeps what happens between `recv` and
`sendall` in full and lets a stream end anywhere; `TcpSessions` keeps every way to
end and abstracts what happens in between to "the chunk, changed or emptied";
`SshSessions` has the pump that is one thread for two directions. All three are
shown to implement `OrderedRelay`, with

* `taken` the chunks received (`nmsg`, `recvd`), and
* `given` the origin of what was sent (from `out`).

`RuleChain` is the part of that abstraction that rules are responsible for, and
`ProtocolConfig` is the part of the accept loop that `TcpSessions!Create` and
`TcpSessions!Connect` pass over. `TrafficDb` begins where `TcpSessions!Store` ends:
in the queues.

### State and actions

Names follow the source wherever possible; variables commented `history` in the
modules exist only for the properties. One action is one stretch of a thread's
code between two points where another thread may see or change shared state.

* **`StreamDebugger`.** `CopyFlag`, `Attach`, `StartPumps` are the accept loop
  (`mallory.py:402-429, 484-488`). `Recv` to `SendFails` are one round of
  `forward_any` with `waitfordebug` inside: `TestFlag` (689), `Notify` (698-709),
  `Register` (711, the assignment to `waitfor`), `GetReply` (713-720), `Resume`
  (721-723), `Send`. A Pyro proxy lets one call through at a time: `rpc` is the
  call, `Visit` the step in which its `notify` comes to the next observer,
  `NotifyEnds` the end of that loop (`observer.py:53`) and `Return` the later moment
  in which the call comes back to the GUI; instances may be attached in between.
  `overtaken` remembers which instances had copied the flag and were not attached yet
  when the loop of a `setdebug` ended. `Polling` is the GUI's thread, `Operator` its
  buttons. A reply's text is `as is`, `edited` or `empty` (a run may leave some out);
  its `of` says which event it came with.
* **`TcpSessions`.** `mainpc` goes round `CleanupProto`, `Accept`, `Create`,
  `Connect`, which is `ServerAnswers` (the row for the database, the counter) and
  `StartPumps`. `ConnectFails` and `MainDies` are the exception handler at
  `mallory.py:463-471`, which itself raises when there is no instance yet; an
  `accept` or a constructor that raises, and a thread that does not start
  (`ThreadFails`), end `main` as well. Between the constructor and the append at 429
  there are only assignments and attaches, which are part of `Create`. A pump is
  `Start` (getpeername, the log line), then a loop of `CallRecv`, `RecvChunk`, `Send`,
  `Store`, left by `RecvError`, `RecvEof`, `SendError`, an empty chunk, or
  `ProcessRaises`: `processrules` and `waitfordebug` are called outside any `try`
  (`base.py:551-558`) and raise when the rules are taken away in the middle, when a
  muck expression is bad, and when a peer is gone (`getpeername`, 700-701). What of
  these happens when is up to `RuleChain` and `StreamDebugger`. Peers send, half-close
  and reset at any time.
* **`UdpSessions`.** One program counter for the main thread, one per receive
  thread. A socket is its port; it stays bound as long as the table, a thread or
  the local variable `dest` refers to it, which is what makes `bind` fail.
* **`RuleChain`.** An array of rules is known by the number of the update that
  brought it; instances hold numbers. `UpdateRules`, `Tell`, `NotifyEnds` are a call of
  `update_rules`, of which several may be in progress; `SetRules` and `Attach` are
  the accept loop's two steps for a new instance. `MatchRules` and the `Act...`
  actions are `processrules`; `NewPipe`, `SetData`, `Muck` are the three lines of
  `Muck.execute` that touch `self.mp`. A rule whose action is `bad muck` has an
  expression or a group reference that `re.sub` refuses (`muckpipe.py:13`), which
  nobody looks at before: `MuckRaises`, which ends a TCP thread and is caught in the
  UDP ones (`base.py:228`, `289`). A chunk is its thread and number: the model
  says *whose* bytes a variable holds, not which. Two differences between TCP and
  UDP are kept (`IsUdp`): the debugger, and when fuzz rows are queued. A rule loaded
  from `rules.ini` keeps the text of `passthru`, where any text is true; one that
  came from the GUI had it converted (`make_bool`).
* **`ProtocolConfig`.** List objects are numbered, variables hold numbers, and a
  `for` loop holds the list it began with: a reload that binds a new list does not
  disturb a loop in progress. `Choose`, `ConfigureServer`, `ConfigureClient` are one
  round each of the three loops. In the last a
  certificate may fail to be made (`sslproto.py:38`), which is not in its `try`.
* **`TrafficDb`.** `Open` to `CommitFails` are `fillDB` (`trafficdb.py:87-143`):
  the name of the file, the directory, and then rounds in which `Insert` takes rows
  of one kind until `Drained`, in the order `qConn`, `qFlow`, `dgram`, `qfuzztcp`,
  `qfuzzudp`, and `Commit` ends. `MkdirFails`, `OpenFails`, `InsertFails` and
  `CommitFails` end the thread, as an exception does in the code. `Connect`, `ProcessRules` and
  `Store` are the accept loop, the pumps and a UDP thread as far as they queue rows.
  On TCP the last fuzz rule decides whether there is a row (`base.py:646`, `660-663`):
  a chunk that an earlier one changed and the last one did not is `overlooked` and gets
  none. The rows that a UDP thread queues for one datagram, one for each fuzz rule that
  changed it, count as one.
  `Restart` ends the program at any point and starts it again: queues and the open
  transaction are gone, files stay.
* **`InterfaceConfig`.** `ToggleMitm` and `ToggleOutbound` are the two check boxes,
  `Refresh` reads the interfaces there are. `Save` computes the commands; each is
  an action (`Clear`, `Forward`, `Masquerade`, `Redirect`) with a twin that fails.
  `RestartGui` loses the roles, wherever the save was, and leaves the kernel as it
  is.
* **`SshSessions`.** `mainpc` follows `configure_server_socket` and
  `configure_client_socket` through `init_ssh_client`, the start of the server, the
  wait for a channel and for the shell request, and `open_session`, any of which may
  raise. `victim[i]` is where the victim's transport is; its callbacks run in
  paramiko's thread. `StartShell`, `Recv`, `Send`, `ShellEnds` are `shell()`;
  `Begin`, `List`, `Pick`, `OpenHijack` are `provideshell`, one element of
  `protoinstances` at a time.
* **`HttpExchange`.** A message is its head and the pieces of its body; of its
  headers only those that say how long it is or how it is coded are kept, and how
  they are spelt. `ReadRequest` to `SendRequest` are `forward_c2s`, `ReadStatus` to
  `Shutdown` are `forward_s2c` with the reader of the response inside.
  `S2cRaises`, `UnlistedStatus`, `SendRaises` and `RemoveRaises` are exceptions, which
  end the thread and close nothing; the last is a header that two tests match and the
  code removes twice (`http.py:240-242`). `ClientCutsHead` and `ServerCutsHead` are
  streams that end within a head. Left out are a status line cut so short that it
  reads as one of HTTP/0.9, and resets.

### Abstractions worth knowing

* Bytes are represented by their origin. What a muck expression, the fuzzer or a
  parser makes of bytes is not modelled.
* CPython's global lock makes single operations on lists and dictionaries atomic;
  so they are in the models. Nothing larger is, unless the code takes a lock.
* A pump that waits polls its queue, as the code does; a step that finds nothing
  is left out.
* The network loses nothing within a TCP stream; it ends streams anywhere. UDP
  datagrams are counted, and may be lost by not being sent.
* sqlite3 keeps a transaction whole: what was not committed when the program ended
  is not in the file. paramiko calls back in the order of its protocol: the
  password, a channel, a shell.

## 3. Runs

| run | instance | what it shows |
|---|---|---|
| `stream` | 1 connection, 2 chunks each way, events returned once, 2 clicks | the implementation of `OrderedRelay`; interception holds a stream; own bytes only |
| `stream_live` | 1 connection, 1 chunk each way, 3 clicks | a click reaches whoever is attached when its loop ends or has not copied the flag by then; autosend releases a pump |
| `tcp` | 2 connections, 2 chunks on one of them | closing, leaking, rows, relaying |
| `tcp_live` | 2 connections, no data | a failed set-up is cleaned; pumps end |
| `udp` | 2 victims, 2 ports, 3 ticks, 3 datagrams, 3 answers | table, threads and ports fit together; sessions expire |
| `rules` | a TCP and a UDP thread, arrays of 0 or 2 rules, 2 updates, 1 chunk each | chains, muck pipes, fuzz rows, the debug flag, whom an update reaches |
| `protocols` | 5 files, 2 ports, 2 reloads | choice of class, wrapped sockets, lists |
| `database` | 2 runs of the program: 1 datagram; 2 connections of 2 and 1 chunks | the implementation of `DurableLog`; rows that belong together; files are kept; the thread catches up |
| `ssh` | 3 connections, 2 of them SSH, 1 chunk | set-up against callbacks, relaying by one thread, hijacking by number |
| `interfaces` | 3 interfaces (symmetric), anybody may have changed one table and one policy | roles, a way out at every moment, what a save leaves behind |
| `http` | every kind of request, every response with at most two of the three headers, bodies of two pieces | the client can read the answer, and gets one |

Bounds and why they are enough. Two chunks per stream are what it takes to mix up
or reorder; two connections or victims are what it takes for one to be mistaken
for the other, or for one to make the accept loop tidy up the other; the third
datagram meets a session that was just removed. Two rules show order and
`passthru`; the arrays include the empty one, which some updates bring; two updates
are what it takes to overlap. Two reloads let a loop that began with the first list
end under the third. The number of failed ticks (five in the code) is three: the
threshold is passed, met and missed. Two runs of the program are what it takes to
meet a file that is there already; the second run has the connections, because what
it shares with the first is only the file. Among three instances one can be removed
in front of the one that was shown and picked. Three interfaces allow one on each
side and one to move between them; the tables that others change are treated alike,
so one that save needs (`nat`) and one policy stand for all. Two pieces of a body
allow it to be cut short in the middle. The bound of each run is a constant in its
`.cfg` or MC module.

Deadlock is not checked, except in `interfaces`: once the bounded number of
clients, chunks or updates is used up the models stop, and so does the system when
nobody connects.

One run, `viol_event_lost`, states what a comment in the source says of the code
(`base.py:731`, no event gets lost), and TLC finds a behaviour that refutes it:
`waitfor` is assigned after `notify`; a reply in between is dropped and the pump
waits for ever.

Other disagreements of the source with its comments, met on the way and without a
run of their own:

* `base.py:716-717` asserts that the queued reply is the awaited one and the only
  one: an event returned twice leaves a second copy, which answers the next chunk
  (`StreamDebugger` with `MaxSends = 2`);
* `base.py:424` calls the destination the intended server: after a failed lookup
  (`mallory.py:388`) it is the last connection's (`TcpSessions!Accept`);
* `rule.py:77-79` calls mucking stateless data modification: two threads in one muck action swap
  their bytes (`RuleChain!Muck`; `LoneMuckOwnData` says when they do not);
* `mallory.py:515`, `--proto` configures a protocol, but `main` replaces the list it
  was added to (`ProtocolConfig!AddCommandLine`);
* the debugging flag copied at `mallory.py:405` is stale if the loop of a click ends
  before the attach at 417 (`overtaken`);
* `done` ("Done processing data", `base.py:444`) is set while the other direction
  still carries data;
* the session found by `getsession` may be gone when it is read without the lock
  (`base.py:271`);
* a receive thread gives up one time-out earlier than the comment at `base.py:221`
  says, once it has had an answer;
* an SSH instance is never done once its pumps run: `ssh.py:164` misspells what
  would say so (`SshSessions!ShellEnds`).

### Fairness

* `StreamDebugger`: a pump that is not waiting for the network goes on; so do the
  polling thread and a call in progress. The polling thread drains the queue and
  then sends everything unsent before it drains again (`guimain.py:237-242`); the
  model lets new events arrive in between, and their number is bounded. Nothing is
  assumed of the operator.
* `TcpSessions`: `cleanup_proto` and the pumps go on; the pumps only for as long
  as `main` does, whose end is that of the process. `accept` and `connect` wait for
  others and are not fair; nor are peers.
* `UdpSessions`: a receive thread goes on, because its `select` has a time-out. The
  main thread owes nothing.
* `TrafficDb`: `fillDB` goes on: it waits for nothing but 100 ms of sleep. Nothing
  is assumed of whether inserts and commits succeed; `CatchesUp` allows for the
  thread having ended.
* `HttpExchange`: both threads go on when there is something to read. The server
  goes on sending (the property is about servers that do); the client owes nothing,
  and closing is nobody's duty.

## 4. Proofs

What TLC checks on the instances above is proved, where this prover can do it, for
every value of the constants. `PROJECT.json` lists the theorems; each `X_proofs`
module states what it needs in lemmas and ends with them. The only assumptions are
the `ASSUME`s of the modules, which TLC evaluates on every run: bounds are natural
numbers, model values such as "none" are not members of the sets they stand apart
from, and inputs have the form that the code that makes them gives them. Two theorems
are about the behaviours in which the GUI returns no event twice (see
`StreamDebugger_proofs`).

A property that speaks of what was sent, closed or saved is not inductive. Each
module therefore proves that a stronger invariant holds initially and is kept by
every action, and derives its theorems from that.

**`StreamDebugger_proofs`**, `OwnInv == TypeOK /\ Progress /\ OwnWait /\ OwnReplies
/\ OwnHeld /\ OwnBytes`. The bytes have to be followed from where they come:
`Progress` says that a pump has sent all it received but for the chunk it holds;
`OwnWait` that it waits for an event of its own, of a chunk already received;
`OwnReplies` that so are the replies queued for it (`update` compares the event with
`waitfor` before it queues the text); `OwnHeld` that so are the bytes it is about to
send. That a second copy of a reply may be sent in the place of a *later* chunk is
allowed by all of these (`<=`), as it must be.

From there on the module needs `OnceInv == CallInv /\ Returned /\ \A p : Once(p)`.
`CallInv` adds that no instance is attached twice, that everyone a `setdebug` has been
round to has the new flag (`Setting`; whoever attaches meanwhile is
appended, so the call comes to him), and `SetDebugReachesAll` itself, which leaves out
those the end of the loop has overtaken. `Once(p)` says that a pump gets one reply to its
event: `update` is called once for each observer in a call, and the event it compares
with is awaited only then. Hence `HeldAlways` and the refinement `PumpRelays`, which
are about the behaviours in which no event is returned twice (`[]ReturnedOnce`),
whatever `MaxSends` allows: nothing in the GUI keeps the operator from sending an event
again, and then neither property holds (section 3). The runs have `MaxSends = 1`.

**`TcpSessions_proofs`**, `Inv == Types /\ SetupOrder /\ DoneByPump /\ LeakNeedsFault
/\ ConnRows /\ Relaying /\ Counted /\ Numbered`. `SetupOrder` says what an instance
that is still being set up does not have yet, `DoneByPump` that only a pump that
ended marks a connected instance as done (so `cleanup_proto` closes no live one),
`LeakNeedsFault` that one which ended otherwise met one of four accidents, and the
last three follow a chunk from `recv` through `sendall` to its row. `PumpsRelay`
proves the refinement of `OrderedRelay`, step by step: every action is a `Take`, a
`Give` or neither.

**`UdpSessions_proofs`**, `Inv == TypeOK /\ Table /\ TicksCounted`. The table is
inspected in one step and changed in another, with other threads in between, so no
property of it is inductive alone. `MainKnows` is what the main thread has learnt and
may still rely on: from `getsession` to `addsession` its victim has no session (nobody
else adds any), and the port it has bound is in no session and no thread (or `bind`
had raised). `ThreadKnows` is what a receive thread may rely on: its session is there
until it removes it itself, before it lets go of the socket. `TicksCounted` relates
the code's counter to the time-outs there really were. Two consequences that no run
checks are proved as well: `ThreadServes` and `PortFree`.

**`RuleChain_proofs`**, `Inv == Types /\ Told /\ LoopEntered /\ OnChain /\ Debugs
/\ Fuzzes /\ PipesPut /\ OwnPipe /\ Meeting /\ DiesInTwoWays`. What
`MatchingRules` returns, for arrays of any length, is proved by induction
(`LoopAlwaysEnds`, `ChainOf`, `MatchingIsChain`); as the library's induction theorems
take an operator as a parameter, the induction is done by the least counterexample
(`Least`, from the well-foundedness of the naturals). `OnChain` then says that what a
thread has acted on, followed by what it has yet to act on, is the chain of its
array; `Debugs` and `Fuzzes` what it remembers meanwhile. `PipesPut` says where a
pipe may be found: in the Muck object its maker was at, and nowhere before its maker
was there; so whoever was alone there finds his own (`OwnPipe`, `Meeting`). `Told`
says that whoever has not got the newest array will be told, and `LoopEntered` what a
thread knows that saw rules; with the muck that raises, that is all a thread can die
of in there (`DiesInTwoWays`).

**`ProtocolConfig_proofs`**, `Inv /\ Conf /\ Conn`. `Inv`: nobody touches a list before
`main` has configured the protocols, and from then on only the RPC thread does, which
fills the list in force and never an earlier one. `Conf`: every list is a prefix of
the one that the file gave, and no port is claimed twice in that; what the recursive
`Kept` computes is found by the least counterexample again (`KeptExists`, `KeptIs`,
`ParseGood`). `Conn` says what each of the three loops has made of the lines it has
seen (`Choosing`, `Wrapping`); it survives the list growing under the loop.

**`InterfaceConfig_proofs`**, `Inv == TypeOK /\ RolesExclude /\ Saving /\ SoundSoFar
/\ SavedSoFar /\ RedirectedHaveWayOut`. `Saving`, `SoundSoFar` and `SavedSoFar` say
what the commands run so far have made of the kernel, from any state before, whether
or not some of them failed; the theorems are what is left of that at the end.

**`SshSessions_proofs`**, `Inv == Types /\ SetupOrder /\ AuthFindsTransport
/\ LoggedIn /\ Relaying`: when a callback may run against how far the accept loop is;
and, as for TCP, that `shell()` implements `OrderedRelay` (`ShellRelays`). `Showing`
says that each number listed leads to its session for as long as nothing was removed
from the list; `KeptType` that what `cleanup_proto` leaves of the list is one again.

**`HttpDb_proofs`** has the theorems of two small modules, `HttpExchange` and
`TrafficDb`, which share no variable (`HttpExchange` calls its specification
`HttpSpec`, so that one module can extend both).

For the exchange, `HttpInv == Meaningful(resp) /\ HeadFirst /\ BodyWhole /\ AnswerMade
/\ EndsLast`: no body is read before the head is there, what was read is the body
announced, what is sent is what was read under the headers passed on, and the stream
is ended last.

For the database, `DbInv == DbTypes /\ OwnFile /\ Accounted /\ OwnRows /\
QueuedInOrder /\ DrainedInOrder /\ FuzzExplained`. That a chunk which the last of its
fuzz rules changed is explained by its row (`FuzzExplained`) is a race between those
who queue rows and the thread that drains the queues one after the other, and is
decided by two orders. `QueuedInOrder`: a chunk's row in `fuzztcp` is queued before
its own, which comes after the row of its connection. `DrainedInOrder`: in a round,
what the queues drained so far have put into the transaction, with what is in the
file, holds every row that the rows of the queues drained *before* refer to; the
commit then makes it a fact about the file. Both speak of queues, transaction and file
together, which takes `Accounted`: as long as the thread lives, what was queued is the
file, then the transaction, then the queue, in order and each row once. That a row of
an earlier run does no harm takes `OwnFile` (each run's file is new, and numbers of
runs only grow) and `OwnRows` (a row bears the number of the run that queued it). From
the same invariant follow the action properties `OrphansJoinedNextCommit` and
`FilesKept`, and the refinement of `DurableLog` (`DatabaseIsLog`): a round in the
database is a stutter until its commit, a `Flush`; those who queue a row do an
`Enqueue`; a restart is an `EndRun`. TLC checked `DbInv` on the instance of the
`database` run before it was proved.

### Only model-checked

* Liveness under fairness, which is out of this prover's reach: `AutoSendReleases`,
  `FailedSetupCleaned`, `PumpsEnd`, `SessionExpires`, `CatchesUp`, `RequestAnswered`.

## 5. Not modelled, and the plan

Most of the lines under `src/` are not Mallory's own: Pyro (`src/src/Pyro`, the
remote calls), dnspython (`src/src/dns`), and modules that Qt's compiler generated
from form descriptions (`gui/*_rc.py`, the forms). They are libraries that the models
use by what they promise (one call through a proxy at a time; a call may take any
time), and their code is nobody's concern here. Of Mallory's own code these are left
out:

* **string processing**: what a muck expression or the fuzzer makes of bytes,
  parsing and printing of rules and of HTTP heads, cookies, DNS questions and answers,
  images. There is a function to test, and no step of another thread in it.
* **certificates** (`cert_auth.py`): asked for by the accept loop only, so nothing
  interleaves; what could go wrong is a field, or two files written at first start.
* **the rule editor, the database tab and the hex editor**: widgets on top of one
  list; what they send (`update_rules`) is an input of `RuleChain`.
* **the daemons, the command-line client, `snippets` and set-up scripts**: they are
  sequential and share nothing with the proxy but the remote calls modelled already.
* **`netfilter.py`**: one system call; its failure is `TcpSessions!Accept`.
* **plugins**: `HttpExchange` sees of them that a body was changed or not.
* **the log**: at higher debug levels log lines raise in a few places
  (`base.py:667-682`, which `RuleChain!MatchRules` keeps); the others are left out.

Some hazards need no model to be seen, and a property would only restate them:
observers are never detached, so that every finished connection is kept in memory
and told of every event (`observer.py:25`); when the first lookup of a destination
fails, the handler itself raises and the accept loop ends (`mallory.py:465`); a
failed lookup later leaves the address of the connection before (388); `--proto` adds
to a list that is replaced (526); the SSH set-up keeps the only accept loop waiting
for up to thirty seconds (`ssh.py:98`); a status without a name raises after the body
was read (`http.py:260`), and headers in an unusual spelling are passed on although
the body was decoded (237); a cookie may be listed twice (`session_hijack.py:34`),
and the push of an object to the GUI has no time-out (`edit_object.py:47`); the
certificate of the authority is written before its key (`cert_auth.py:49`), and fake
certificates are found by subject alone (237); the database tab opens one fixed name
(`DbGui.py:63`).

What would come next:

1. `StreamDebugger` with the GUI's second thread that writes the table of events
   (`guimain.py`), as far as Qt lets them interleave.
2. `--proxify` and the interruption of the accept loop by the keyboard
   (`mallory.py:430-462`), in `TcpSessions`.
