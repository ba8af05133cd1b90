---------------------------- MODULE SshSessions ----------------------------
(***************************************************************************)
(* SSHProtocol: the accept loop sets up an SSH client to the real server   *)
(* and an SSH server for the victim, waiting for the victim meanwhile;     *)
(* paramiko's thread of the victim's transport calls back for the          *)
(* password; one pump relays both directions of the shell; and the thread  *)
(* of provideshell opens second shells on servers that a victim logged in  *)
(* to, for an operator who picks one from a list of numbers.               *)
(*                                                                         *)
(* The connections of other protocols are here because they share          *)
(* protoinstances: they are set up at once and are done at some point.     *)
(* The operator is taken to pick one of the numbers he was shown.          *)
(***************************************************************************)
EXTENDS Naturals, Sequences

CONSTANTS
    NumConns,   \* bound: connections the victims open
    Ssh,        \* those of them that are to port 22
    MaxChunks   \* bound: chunks each end of each connection sends

Conns   == 1 .. NumConns
Streams == Conns \X {"c2s", "s2c"}
None    == 0

ASSUME BoundsAssumption ==
    NumConns \in Nat /\ Ssh \subseteq Conns /\ MaxChunks \in [Streams -> Nat]

VARIABLES
    mainpc,         \* where the accept loop is
    accepted,       \* connections accepted; the last one is being set up
    protoinstances, \* the instances, in the order in which they were appended
    done,           \* instances that are done
    destt,          \* the transport to the server: "none", "bad", "up", or
                    \* "authed" once the server took the password
    victim,         \* what the victim's transport got to: "off", "up",
                    \* "authed", "channel", "shell", or "dead"
    channels,       \* connections whose destschan and sourceschan are set
    pump,           \* where shell() is
    taken,          \* chunks read from each stream
    given,          \* history: chunks sent on, as <<stream, number>>
    operator,       \* where provideshell is
    pos,            \* its index into protoinstances
    shown,          \* the numbers it listed, with the connection of each
    picked,         \* the number chosen, with the connection shown and the
                    \* one found
    shifted         \* history: instances were removed since the list began

mainVars  == <<mainpc, accepted, protoinstances, done>>
setupVars == <<destt, victim, channels>>
pumpVars  == <<pump, taken, given>>
opVars    == <<operator, pos, shown, picked>>
vars      == <<mainVars, setupVars, pumpVars, opVars, shifted>>

c == accepted

Init ==
    /\ mainpc = "cleanup"
    /\ accepted = 0
    /\ protoinstances = <<>>
    /\ done = {}
    /\ destt = [i \in Conns |-> "none"]
    /\ victim = [i \in Conns |-> "off"]
    /\ channels = {}
    /\ pump = [i \in Conns |-> "off"]
    /\ taken = [s \in Streams |-> 0]
    /\ given = [s \in Streams |-> <<>>]
    /\ operator = "accept"
    /\ pos = 0
    /\ shown = {}
    /\ picked = <<None, None, None>>
    /\ shifted = FALSE

(***************************************************************************)
(* The accept loop.                                                        *)
(***************************************************************************)

\* The instances that are not done, in their order.
Kept(s) ==
    LET kept[n \in 0 .. Len(s)] ==
            IF n = 0 THEN <<>>
            ELSE IF s[n] \in done THEN kept[n - 1] ELSE Append(kept[n - 1], s[n])
    IN kept

CleanupProto ==
    /\ mainpc = "cleanup"
    /\ mainpc' = "accept"
    /\ protoinstances' = Kept(protoinstances)[Len(protoinstances)]
    /\ shifted' = (shifted \/ protoinstances' # protoinstances)
    /\ UNCHANGED <<accepted, done, setupVars, pumpVars, opVars>>

\* An instance is made and appended before it is connected to its server.
Accept ==
    /\ mainpc = "accept"
    /\ accepted < NumConns
    /\ accepted' = accepted + 1
    /\ protoinstances' = Append(protoinstances, accepted + 1)
    /\ mainpc' = "connect"
    /\ UNCHANGED <<done, setupVars, pumpVars, opVars, shifted>>

At(pc, next) == mainpc = pc /\ mainpc' = next /\ UNCHANGED <<accepted, protoinstances>>

Connect ==
    /\ At("connect", IF c \in Ssh THEN "client" ELSE "cleanup")
    /\ UNCHANGED <<done, setupVars, pumpVars, opVars, shifted>>

\* Faulty variant: the server for the victim is started before.
InitSshClientLate ==
    /\ \/ At("client", "server") /\ victim' = [victim EXCEPT ![c] = "up"]
                                 /\ UNCHANGED destt
       \/ At("server", "channel") /\ destt' = [destt EXCEPT ![c] = "up"]
                                  /\ UNCHANGED victim
    /\ UNCHANGED <<done, channels, pumpVars, opVars, shifted>>

\* init_ssh_client: that negotiation with the server failed is only logged.
InitSshClient ==
    /\ At("client", "server")
    /\ \E r \in {"up", "bad"} : destt' = [destt EXCEPT ![c] = r]
    /\ UNCHANGED <<done, victim, channels, pumpVars, opVars, shifted>>

\* start_server: if it raises SSHException, configure_client_socket returns and
\* the pumps are started all the same.
StartServer ==
    /\ \/ At("server", "channel") /\ victim' = [victim EXCEPT ![c] = "up"]
       \/ At("server", "pumps") /\ victim' = [victim EXCEPT ![c] = "dead"]
    /\ UNCHANGED <<done, destt, channels, pumpVars, opVars, shifted>>

\* accept(20).  sys.exit if no channel came, which main catches like the rest.
AcceptChannel ==
    /\ At("channel", "request")
    /\ victim[c] \in {"channel", "shell"}
    /\ UNCHANGED <<done, setupVars, pumpVars, opVars, shifted>>

\* event.wait(10) and what comes after it, without which the pumps start too.
WaitForShell ==
    /\ \/ At("request", "open") /\ victim[c] = "shell"
       \/ At("request", "pumps")
    /\ UNCHANGED <<done, setupVars, pumpVars, opVars, shifted>>

\* A shell at the server, which has one only for those who logged in.
OpenSession ==
    /\ At("open", "pumps")
    /\ destt[c] = "authed"
    /\ channels' = channels \cup {c}
    /\ UNCHANGED <<done, destt, victim, pumpVars, opVars, shifted>>

\* Whatever raises while an instance is set up: it is done, and not served.
SetupRaises ==
    /\ mainpc \in {"connect", "client", "server", "channel", "open"}
    /\ mainpc' = "cleanup"
    /\ done' = done \cup {c}
    /\ destt' = [destt EXCEPT ![c] = IF mainpc = "client" THEN "bad" ELSE @]
    /\ UNCHANGED <<accepted, protoinstances, victim, channels, pumpVars, opVars, shifted>>

\* The thread of the other direction returns at once.
StartPumps ==
    /\ At("pumps", "cleanup")
    /\ pump' = [pump EXCEPT ![c] = "start"]
    /\ UNCHANGED <<done, setupVars, taken, given, opVars, shifted>>

\* A pump of another protocol sees the end of its stream.
OtherDone(i) ==
    /\ i \in 1 .. accepted \ Ssh /\ i \notin done
    /\ ~(i = c /\ mainpc = "connect")
    /\ done' = done \cup {i}
    /\ UNCHANGED <<mainpc, accepted, protoinstances, setupVars, pumpVars, opVars,
                   shifted>>

(***************************************************************************)
(* paramiko's thread of a victim's transport.                              *)
(***************************************************************************)

Callback(i, from, to) ==
    /\ victim[i] = from
    /\ victim' = [victim EXCEPT ![i] = to]
    /\ UNCHANGED <<mainVars, channels, pumpVars, opVars, shifted>>

\* check_auth_password asks the server; a rejected victim may try again.  On a
\* transport that is not up it raises, which ends the thread.
CheckAuthPassword(i) ==
    /\ IF destt[i] \in {"up", "authed"}
       THEN /\ Callback(i, "up", "authed")
            /\ destt' = [destt EXCEPT ![i] = "authed"]
       ELSE Callback(i, "up", "dead") /\ UNCHANGED destt

\* The one key that check_auth_publickey knows; the server is not asked.
CheckAuthPublickey(i) == Callback(i, "up", "authed") /\ UNCHANGED destt

CheckChannelRequest(i) == Callback(i, "authed", "channel") /\ UNCHANGED destt

CheckShellRequest(i) == Callback(i, "channel", "shell") /\ UNCHANGED destt

\* The victim leaves, or a handler raises, as the one of a changed window does
\* before destschan is set.
VictimDies(i) ==
    /\ victim[i] # "off"
    /\ Callback(i, victim[i], "dead")
    /\ UNCHANGED destt

(***************************************************************************)
(* shell().                                                                *)
(***************************************************************************)

Goto(i, from, to) ==
    /\ pump[i] = from
    /\ pump' = [pump EXCEPT ![i] = to]
    /\ UNCHANGED <<mainVars, setupVars, opVars, shifted>>

\* Without channels, destschan.settimeout raises.
StartShell(i) ==
    /\ Goto(i, "start", IF i \in channels THEN "select" ELSE "over")
    /\ UNCHANGED <<taken, given>>

\* recv on the channel that select found ready.
Recv(i, d) ==
    /\ taken[<<i, d>>] < MaxChunks[<<i, d>>]
    /\ Goto(i, "select", d)
    /\ taken' = [taken EXCEPT ![<<i, d>>] = @ + 1]
    /\ UNCHANGED given

\* Faulty variant: what did not fit is tried again, whole.
SendAgain(i, d) ==
    /\ \E to \in {"select", d} : Goto(i, d, to)
    /\ given' = [given EXCEPT ![<<i, d>>] = Append(@, <<<<i, d>>, taken[<<i, d>>]>>)]
    /\ UNCHANGED taken

\* send takes as much of the chunk as fits into the window; the rest is lost.
Send(i, d) ==
    /\ Goto(i, d, "select")
    /\ given' = [given EXCEPT ![<<i, d>>] = Append(@, <<<<i, d>>, taken[<<i, d>>]>>)]
    /\ UNCHANGED taken

\* An end of stream; a closed channel; no room at all in the server's window,
\* where send times out at once.  Neither channel is closed: the branch for the
\* end of the server's stream misspells both names.
ShellEnds(i) ==
    /\ \E pc \in {"select", "c2s", "s2c"} : Goto(i, pc, "over")
    /\ UNCHANGED <<taken, given>>

(***************************************************************************)
(* provideshell.                                                           *)
(***************************************************************************)

Operator(from, to) ==
    /\ operator = from
    /\ operator' = to
    /\ UNCHANGED <<mainVars, setupVars, pumpVars>>

\* An operator connects; the list of instances is gone through from its start.
Begin ==
    /\ Operator("accept", "list")
    /\ pos' = 1
    /\ shown' = {}
    /\ picked' = <<None, None, None>>
    /\ shifted' = FALSE

\* The socket to the server has a peer name.
Connected(i) == IF i \in done THEN destt[i] # "none" ELSE i # c \/ mainpc # "connect"

\* Faulty variant: the sessions that are shown are numbered one after the other.
ListCounted ==
    /\ pos <= Len(protoinstances)
    /\ Operator("list", "list")
    /\ LET i == protoinstances[pos]
       IN  shown' = IF i \in Ssh THEN shown \cup {<<1 + Len(SelectSeq(
                         SubSeq(protoinstances, 1, pos - 1), LAMBDA j : j \in Ssh)), i>>}
                    ELSE shown
    /\ pos' = pos + 1
    /\ UNCHANGED <<picked, shifted>>

\* The next instance of the list, which the accept loop may be changing.
List ==
    /\ pos <= Len(protoinstances)
    /\ Operator("list", "list")
    /\ LET i == protoinstances[pos]
       IN  /\ i \in Ssh => Connected(i)
           /\ shown' = IF i \in Ssh THEN shown \cup {<<pos, i>>} ELSE shown
    /\ pos' = pos + 1
    /\ UNCHANGED <<picked, shifted>>

Listed ==
    /\ pos > Len(protoinstances)
    /\ Operator("list", "ask")
    /\ UNCHANGED <<pos, shown, picked, shifted>>

\* The operator answers, and the number is looked up in the list of now.
Pick ==
    /\ Operator("ask", "open")
    /\ \E x \in shown :
         /\ x[1] <= Len(protoinstances)
         /\ picked' = <<x[1], x[2], protoinstances[x[1]]>>
    /\ UNCHANGED <<pos, shown, shifted>>

\* A second session with the same server, if it is an SSH server and its sockets
\* are not closed yet.
OpenHijack ==
    /\ Operator("open", "shell")
    /\ picked[3] \in Ssh
    /\ destt[picked[3]] = "authed"
    /\ \E n \in 1 .. Len(protoinstances) : protoinstances[n] = picked[3]
    /\ UNCHANGED <<pos, shown, picked, shifted>>

\* An exception (an instance not connected yet has no peer name; another
\* protocol has no transport; no such number), or the end of the shell.
Bombed ==
    /\ operator # "accept"
    /\ Operator(operator, "accept")
    /\ UNCHANGED <<pos, shown, picked, shifted>>

-----------------------------------------------------------------------------

Main == CleanupProto \/ Accept \/ Connect \/ InitSshClient \/ StartServer \/ AcceptChannel
        \/ WaitForShell \/ OpenSession \/ SetupRaises \/ StartPumps

Victim(i) == CheckAuthPassword(i) \/ CheckAuthPublickey(i) \/ CheckChannelRequest(i)
             \/ CheckShellRequest(i) \/ VictimDies(i)

Shell(i) == \/ StartShell(i) \/ ShellEnds(i)
            \/ \E d \in {"c2s", "s2c"} : Recv(i, d) \/ Send(i, d)

ProvideShell == Begin \/ List \/ Listed \/ Pick \/ OpenHijack \/ Bombed

Next == Main \/ ProvideShell \/ (\E i \in Conns : Victim(i) \/ Shell(i) \/ OtherDone(i))

Spec == Init /\ [][Next]_vars

(***************************************************************************)
(* Properties.                                                             *)
(***************************************************************************)

\* ssh.py:157-174: both directions of a shell share a thread; each relays its
\* chunks in order and once, if not whole, and never to the other side.
Relay == INSTANCE OrderedRelay

RelaySpec == Relay!Spec

\* ssh.py:82 "client must init before the server start. A race condition was
\* created between the server and the client": whenever the victim's thread may
\* ask for the password to be tried, start_client has come back, be it in vain.
AuthFindsTransport == \A i \in Conns : victim[i] = "up" => destt[i] # "none"

\* ssh.py:224-242: the number an operator answers with is looked up in a list
\* that may have changed since he saw it.  What he gets is in any case a server
\* at which a victim logged in with his password; and it is the one he was
\* shown, unless instances were removed meanwhile.
HijackedAsShown ==
    operator = "shell" =>
        /\ destt[picked[3]] = "authed"
        /\ ~shifted => picked[2] = picked[3]

=============================================================================
