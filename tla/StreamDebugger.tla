--------------------------- MODULE StreamDebugger ---------------------------
(***************************************************************************)
(* Interactive interception of TCP streams.  Four kinds of thread meet:    *)
(*                                                                         *)
(*   - the accept loop of Mallory.main, which copies the debugging flag    *)
(*     into a new protocol instance and then attaches it to the Debugger;  *)
(*   - two data pumps per connection (TcpProtocol.forward_any), one per    *)
(*     direction, which pause in waitfordebug until the operator returns   *)
(*     the event made for the chunk they hold;                             *)
(*   - the RPC thread of the Debugger (send_de, setdebug), which tells     *)
(*     every observer in turn;                                             *)
(*   - the GUI: the polling thread (check_for_de, with autosend) and the   *)
(*     operator's clicks.  They share one Pyro proxy, whose lock lets one  *)
(*     call through at a time: rpc is that call.                           *)
(*                                                                         *)
(* The uuid of an event is the pair <<pump, number of the chunk>>.  Bytes  *)
(* are the event they came from and what the operator made of them.        *)
(***************************************************************************)
EXTENDS Naturals, Sequences

CONSTANTS
    Conns,       \* the protocol instances
    Texts,       \* what the bytes of an event may become: "as is", "empty", ...
    MaxMsgs,     \* bound: chunks a pump may receive
    MaxSends,    \* bound: how often the GUI may return one event
    MaxToggles,  \* bound: clicks on "intercept" and on "autosend"
    NoEvent      \* the empty string in TcpProtocol.waitfor

Dirs  == {"c2s", "s2c"}
Pumps == Conns \X Dirs
Event == Pumps \X (1 .. MaxMsgs)
Bytes == [of : Event, text : Texts]
Calls == [op : {"idle", "send_de", "setdebug", "return"},
          de : Event \cup {NoEvent}, text : Texts]

ASSUME BoundsAssumption ==
    MaxMsgs \in Nat /\ MaxSends \in Nat /\ MaxToggles \in Nat
ASSUME NoEventAssumption == NoEvent \notin Event
ASSUME TextsAssumption == "as is" \in Texts

VARIABLES
    debugon,    \* Debugger.debugon
    observers,  \* Debugger._observers, in attach order
    phase,      \* how far the accept loop got with each instance
    flag,       \* TcpProtocol.debugon of each instance
    pc,         \* where each pump is
    nmsg,       \* chunks each pump has received
    held,       \* the local variable string of each pump
    waitfor,    \* TcpProtocol.waitfor[direction]
    debugqs,    \* TcpProtocol.debugqs[direction]
    row,        \* what became of each event on its way to the operator
    curde,      \* the GUI's curdebugevent
    auto,       \* the GUI's autosend button
    toggles,    \* clicks so far
    rpc,        \* the remote call in progress
    told,       \* how many observers that call has been round to
    overtaken,  \* history: who was between copying the flag and being attached
                \* when the last setdebug came to the end of the list
    sends,      \* history: how often each event was returned
    out         \* history: what each pump sent on

acceptVars == <<observers, phase>>
pumpVars   == <<pc, nmsg, held, waitfor>>
guiVars    == <<row, curde, auto, toggles, sends>>
rpcVars    == <<rpc, told, overtaken>>
vars == <<debugon, flag, debugqs, out, rpcVars, acceptVars, pumpVars, guiVars>>

cur(p) == <<p, nmsg[p]>>      \* eventid of the chunk pump p works on
Idle   == [op |-> "idle", de |-> NoEvent, text |-> "as is"]

Init ==
    /\ debugon   = FALSE
    /\ observers = <<>>
    /\ phase     = [c \in Conns |-> "new"]
    /\ flag      = [c \in Conns |-> FALSE]
    /\ pc        = [p \in Pumps |-> "off"]
    /\ nmsg      = [p \in Pumps |-> 0]
    /\ held      = [p \in Pumps |-> NoEvent]
    /\ waitfor   = [p \in Pumps |-> NoEvent]
    /\ debugqs   = [p \in Pumps |-> <<>>]
    /\ row       = [e \in Event |-> "absent"]
    /\ curde     = NoEvent
    /\ auto      = FALSE
    /\ toggles   = 0
    /\ rpc       = Idle
    /\ told      = 0
    /\ overtaken = {}
    /\ sends     = [e \in Event |-> 0]
    /\ out       = [p \in Pumps |-> <<>>]

(***************************************************************************)
(* The accept loop: one instance at a time.                                *)
(***************************************************************************)

CopyFlag(c) ==
    /\ phase[c] = "new"
    /\ \A d \in Conns : phase[d] \in {"new", "running"}
    /\ phase' = [phase EXCEPT ![c] = "flagged"]
    /\ flag' = [flag EXCEPT ![c] = debugon]
    /\ UNCHANGED <<debugon, observers, debugqs, out, rpcVars, pumpVars, guiVars>>

Attach(c) ==
    /\ phase[c] = "flagged"
    /\ phase' = [phase EXCEPT ![c] = "attached"]
    /\ observers' = Append(observers, c)
    /\ UNCHANGED <<debugon, flag, debugqs, out, rpcVars, pumpVars, guiVars>>

StartPumps(c) ==
    /\ phase[c] = "attached"
    /\ phase' = [phase EXCEPT ![c] = "running"]
    /\ pc' = [p \in Pumps |-> IF p[1] = c THEN "recv" ELSE pc[p]]
    /\ UNCHANGED <<debugon, observers, flag, debugqs, out, rpcVars,
                   nmsg, held, waitfor, guiVars>>

(***************************************************************************)
(* A data pump.                                                            *)
(***************************************************************************)

Goto(p, l) == pc' = [pc EXCEPT ![p] = l]

\* recv returns a chunk; the rule chain says whether it should be debugged.
Recv(p) ==
    /\ pc[p] = "recv"
    /\ nmsg[p] < MaxMsgs
    /\ nmsg' = [nmsg EXCEPT ![p] = @ + 1]
    /\ held' = [held EXCEPT ![p] = [of |-> <<p, nmsg[p] + 1>>, text |-> "as is"]]
    /\ \E shoulddebug \in BOOLEAN :
          Goto(p, IF shoulddebug THEN "test" ELSE "send")
    /\ UNCHANGED <<debugon, flag, debugqs, out, rpcVars, waitfor,
                   acceptVars, guiVars>>

\* recv returns the empty string, or raises.
RecvEnds(p) ==
    /\ pc[p] = "recv"
    /\ Goto(p, "ended")
    /\ UNCHANGED <<debugon, flag, debugqs, out, rpcVars, nmsg, held, waitfor,
                   acceptVars, guiVars>>

TestFlag(p) ==
    /\ pc[p] = "test"
    /\ Goto(p, IF flag[p[1]] THEN "notify" ELSE "send")
    /\ UNCHANGED <<debugon, flag, debugqs, out, rpcVars, nmsg, held, waitfor,
                   acceptVars, guiVars>>

\* getpeername works on both sockets and the Debugger queues the event.
Notify(p) ==
    /\ pc[p] = "notify"
    /\ Goto(p, "register")
    /\ row' = [row EXCEPT ![cur(p)] = "queued"]
    /\ UNCHANGED <<debugon, flag, debugqs, out, rpcVars, nmsg, held, waitfor,
                   acceptVars, curde, auto, toggles, sends>>

\* getpeername raises: a peer has gone, and so has this thread.
PeerGone(p) ==
    /\ pc[p] = "notify"
    /\ Goto(p, "dead")
    /\ UNCHANGED <<debugon, flag, debugqs, out, rpcVars, nmsg, held, waitfor,
                   acceptVars, guiVars>>

\* Only now does the pump say which event it waits for.
Register(p) ==
    /\ pc[p] = "register"
    /\ Goto(p, "poll")
    /\ waitfor' = [waitfor EXCEPT ![p] = cur(p)]
    /\ UNCHANGED <<debugon, flag, debugqs, out, rpcVars, nmsg, held,
                   acceptVars, guiVars>>

\* Faulty variant: the wait gives up and lets the chunk go.
GetReplyGivesUp(p) ==
    /\ pc[p] = "poll"
    /\ Goto(p, "got")
    /\ UNCHANGED <<debugon, flag, debugqs, held, out, rpcVars, nmsg, waitfor,
                   acceptVars, guiVars>>

\* Faulty variant: the reply is read but not removed.
GetReplyPeeks(p) ==
    /\ pc[p] = "poll"
    /\ debugqs[p] # <<>>
    /\ Goto(p, "got")
    /\ held' = [held EXCEPT ![p] = Head(debugqs[p])]
    /\ UNCHANGED <<debugon, flag, debugqs, out, rpcVars, nmsg, waitfor,
                   acceptVars, guiVars>>

GetReply(p) ==
    /\ pc[p] = "poll"
    /\ debugqs[p] # <<>>
    /\ Goto(p, "got")
    /\ held' = [held EXCEPT ![p] = Head(debugqs[p])]
    /\ debugqs' = [debugqs EXCEPT ![p] = Tail(@)]
    /\ UNCHANGED <<debugon, flag, out, rpcVars, nmsg, waitfor, acceptVars, guiVars>>

Resume(p) ==
    /\ pc[p] = "got"
    /\ Goto(p, "send")
    /\ waitfor' = [waitfor EXCEPT ![p] = NoEvent]
    /\ UNCHANGED <<debugon, flag, debugqs, out, rpcVars, nmsg, held,
                   acceptVars, guiVars>>

\* sendall succeeds; "while string" leaves the loop when nothing was left.
Send(p) ==
    /\ pc[p] = "send"
    /\ out' = [out EXCEPT ![p] = Append(@, held[p])]
    /\ Goto(p, IF held[p].text = "empty" THEN "ended" ELSE "recv")
    /\ UNCHANGED <<debugon, flag, debugqs, rpcVars, nmsg, held, waitfor,
                   acceptVars, guiVars>>

SendFails(p) ==
    /\ pc[p] = "send"
    /\ Goto(p, "dead")
    /\ UNCHANGED <<debugon, flag, debugqs, out, rpcVars, nmsg, held, waitfor,
                   acceptVars, guiVars>>

(***************************************************************************)
(* The GUI.                                                                *)
(***************************************************************************)

\* Faulty variant: an event arrives in the table as if it had been sent.
GetDebugQSent ==
    /\ rpc.op = "idle"
    /\ \E e \in Event : row[e] = "queued"
    /\ row' = [e \in Event |-> IF row[e] = "queued" THEN "S" ELSE row[e]]
    /\ UNCHANGED <<debugon, flag, debugqs, out, rpcVars, acceptVars, pumpVars,
                   curde, auto, toggles, sends>>

\* The polling thread drains the Debugger's queue into the table.
GetDebugQ ==
    /\ rpc.op = "idle"
    /\ \E e \in Event : row[e] = "queued"
    /\ row' = [e \in Event |-> IF row[e] = "queued" THEN "U" ELSE row[e]]
    /\ UNCHANGED <<debugon, flag, debugqs, out, rpcVars, acceptVars, pumpVars,
                   curde, auto, toggles, sends>>

Call(e, t) ==
    /\ rpc.op = "idle"
    /\ sends[e] < MaxSends
    /\ rpc' = [op |-> "send_de", de |-> e, text |-> t]
    /\ sends' = [sends EXCEPT ![e] = @ + 1]

\* The operator sends the event he selects, edited or not, or sends the one
\* selected before once more: it stays selected after it was sent and even
\* after the table was cleared.
HandleSend(e, t) ==
    /\ ~auto
    /\ row[e] \in {"U", "S"} \/ curde = e
    /\ Call(e, t)
    /\ curde' = e
    /\ UNCHANGED <<debugon, flag, debugqs, out, told, overtaken, acceptVars, pumpVars,
                   row, auto, toggles>>

AutoSend(e, t) ==
    /\ auto
    /\ row[e] = "U"
    /\ Call(e, t)
    /\ UNCHANGED <<debugon, flag, debugqs, out, told, overtaken, acceptVars, pumpVars,
                   row, curde, auto, toggles>>

ToggleAuto ==
    /\ toggles < MaxToggles
    /\ toggles' = toggles + 1
    /\ auto' = ~auto
    /\ UNCHANGED <<debugon, flag, debugqs, out, rpcVars, acceptVars, pumpVars,
                   row, curde, sends>>

HandleClearStreams ==
    /\ \E e \in Event : row[e] \in {"U", "S"}
    /\ row' = [e \in Event |-> IF row[e] \in {"U", "S"} THEN "cleared" ELSE row[e]]
    /\ UNCHANGED <<debugon, flag, debugqs, out, rpcVars, acceptVars, pumpVars,
                   curde, auto, toggles, sends>>

SetDebug ==
    /\ rpc.op = "idle"
    /\ toggles < MaxToggles
    /\ toggles' = toggles + 1
    /\ debugon' = ~debugon
    /\ rpc' = [op |-> "setdebug", de |-> NoEvent, text |-> "as is"]
    /\ UNCHANGED <<flag, debugqs, out, told, overtaken, acceptVars, pumpVars,
                   row, curde, auto, sends>>

(***************************************************************************)
(* The remote call: notify goes through the list of observers, which may   *)
(* grow meanwhile, and calls TcpProtocol.update on each.                   *)
(***************************************************************************)

Observer == observers[told + 1]

\* Faulty variant: the iteration skips an observer.
VisitSkips ==
    /\ told < Len(observers)
    /\ told' = told + 2
    /\ UNCHANGED <<debugon, rpc, overtaken, out, acceptVars, pumpVars, guiVars>>

Visit ==
    /\ told < Len(observers)
    /\ told' = told + 1
    /\ UNCHANGED <<debugon, rpc, overtaken, out, acceptVars, pumpVars, guiVars>>

VisitSetDebug ==
    /\ rpc.op = "setdebug"
    /\ Visit
    /\ flag' = [flag EXCEPT ![Observer] = debugon]
    /\ UNCHANGED debugqs

\* Faulty variant: any direction that waits for something gets the reply.
VisitSendDeAny ==
    /\ rpc.op = "send_de"
    /\ Visit
    /\ debugqs' = [p \in Pumps |->
            IF p[1] = Observer /\ waitfor[p] # NoEvent
            THEN Append(debugqs[p], [of |-> rpc.de, text |-> rpc.text])
            ELSE debugqs[p]]
    /\ UNCHANGED flag

\* The direction of the event picks the entry of waitfor and the queue.
VisitSendDe ==
    /\ rpc.op = "send_de"
    /\ Visit
    /\ LET p == <<Observer, rpc.de[1][2]>> IN
         debugqs' = IF waitfor[p] = rpc.de
                    THEN [debugqs EXCEPT ![p] =
                            Append(@, [of |-> rpc.de, text |-> rpc.text])]
                    ELSE debugqs
    /\ UNCHANGED flag

EndCall ==
    /\ rpc.op \in {"send_de", "setdebug"}
    /\ rpc' = [rpc EXCEPT !.op = "return"]
    /\ told' = 0
    /\ overtaken' = IF rpc.op = "setdebug"
                    THEN {c \in Conns : phase[c] = "flagged"} ELSE overtaken
    /\ UNCHANGED <<debugon, flag, debugqs, out, acceptVars, pumpVars, guiVars>>

\* Faulty variant: the last observer is not told.
NotifyEndsEarly ==
    /\ told + 1 >= Len(observers)
    /\ EndCall

\* notify comes to the end of the list.  Who is attached from now on is not
\* told, though the call has yet to return.
NotifyEnds ==
    /\ told = Len(observers)
    /\ EndCall

\* The call returns; send_cur_de marks the event in the table as sent.
Return ==
    /\ rpc.op = "return"
    /\ rpc' = Idle
    /\ row' = IF rpc.de # NoEvent /\ row[rpc.de] = "U"
              THEN [row EXCEPT ![rpc.de] = "S"] ELSE row
    /\ UNCHANGED <<debugon, flag, debugqs, out, told, overtaken, acceptVars,
                   pumpVars, curde, auto, toggles, sends>>

-----------------------------------------------------------------------------

Accepting(c) == CopyFlag(c) \/ Attach(c) \/ StartPumps(c)

Pumping(p) ==
    \/ Recv(p) \/ RecvEnds(p) \/ TestFlag(p) \/ Notify(p) \/ PeerGone(p)
    \/ Register(p) \/ GetReply(p) \/ Resume(p) \/ Send(p) \/ SendFails(p)

Operator ==
    \/ \E e \in Event, t \in Texts : HandleSend(e, t)
    \/ ToggleAuto \/ HandleClearStreams \/ SetDebug

Polling == GetDebugQ \/ \E e \in Event, t \in Texts : AutoSend(e, t)

Calling == VisitSetDebug \/ VisitSendDe \/ NotifyEnds \/ Return

Next ==
    \/ \E c \in Conns : Accepting(c)
    \/ \E p \in Pumps : Pumping(p)
    \/ Operator \/ Polling
    \/ Calling

Spec == Init /\ [][Next]_vars

\* Threads run on: a pump past its recv, the GUI's polling thread, a call in
\* progress.  The operator, the network and the clients owe nothing.
Fairness ==
    /\ \A p \in Pumps :
          WF_vars(Register(p)) /\ WF_vars(GetReply(p)) /\ WF_vars(Resume(p))
    /\ WF_vars(Polling)
    /\ WF_vars(Calling)

FairSpec == Spec /\ Fairness


(***************************************************************************)
(* Properties.                                                             *)
(***************************************************************************)

\* Every variable has its type.
TypeOK ==
    /\ debugon \in BOOLEAN /\ auto \in BOOLEAN
    /\ observers \in Seq(Conns)
    /\ phase \in [Conns -> {"new", "flagged", "attached", "running"}]
    /\ flag \in [Conns -> BOOLEAN]
    /\ pc \in [Pumps -> {"off", "recv", "test", "notify", "register", "poll",
                         "got", "send", "ended", "dead"}]
    /\ nmsg \in [Pumps -> 0 .. MaxMsgs]
    /\ held \in [Pumps -> Bytes \cup {NoEvent}]
    /\ waitfor \in [Pumps -> Event \cup {NoEvent}]
    /\ debugqs \in [Pumps -> Seq(Bytes)]
    /\ row \in [Event -> {"absent", "queued", "U", "S", "cleared"}]
    /\ curde \in Event \cup {NoEvent}
    /\ toggles \in 0 .. MaxToggles
    /\ rpc \in Calls /\ (rpc.op = "send_de" => rpc.de \in Event)
    /\ told \in 0 .. Len(observers) /\ overtaken \subseteq Conns
    /\ sends \in [Event -> 0 .. MaxSends]
    /\ out \in [Pumps -> Seq(Bytes)]

\* Whatever the operator does, even returning an event twice, a pump sends on
\* only bytes that came from its own connection and direction, and never those
\* of a chunk received later (TcpProtocol.update compares event and direction).
OwnBytes ==
    \A p \in Pumps : \A k \in 1 .. Len(out[p]) :
        out[p][k].of[1] = p /\ out[p][k].of[2] <= k

\* A chunk the debugger took hold of is not sent on, and nothing is sent in its
\* place, before the operator has returned its event: interception really holds
\* the stream.  Needs the operator to return each event once.
HeldUntilReturned ==
    \A p \in Pumps : \A n \in 1 .. Len(out[p]) :
        row[<<p, n>>] # "absent" => sends[<<p, n>>] > 0

\* base.py:731: no event gets lost: a pump never waits for an event that the
\* operator has returned and the Debugger has already told everyone about.
NoEventLost ==
    \A p \in Pumps : pc[p] = "poll" /\ debugqs[p] = <<>> =>
        sends[cur(p)] = 0 \/ (rpc.op = "send_de" /\ rpc.de = cur(p))

\* setdebug "notifies all observers": once it has gone through the list, and for
\* as long as no other setdebug is under way, every instance has the flag that
\* was set last, also one attached while setdebug went through the list.  Left
\* out are those that the end of the list overtook: they copied the flag
\* (mallory.py:405) and were not attached yet (mallory.py:417), so that they may
\* have the old flag, and keep it until the next click.
SetDebugReachesAll ==
    rpc.op # "setdebug" =>
        \A c \in Conns : phase[c] # "new" /\ c \notin overtaken => flag[c] = debugon

\* With autosend on, an event in the Debugger's queue or in the table, whose
\* pump is waiting for it, sets the pump going again: the polling thread gets
\* to it unless autosend is switched off or the table is cleared.
AutoSendReleases ==
    \A p \in Pumps : \A n \in 1 .. MaxMsgs :
        (/\ pc[p] = "poll" /\ nmsg[p] = n /\ auto
         /\ row[<<p, n>>] \in {"queued", "U"} /\ sends[<<p, n>>] = 0)
        ~> (pc[p] # "poll" \/ ~auto \/ row[<<p, n>>] = "cleared")

\* The stream each pump implements: chunk for chunk, an OrderedRelay.
given == [p \in Pumps |-> [k \in 1 .. Len(out[p]) |-> out[p][k].of]]

Relay == INSTANCE OrderedRelay WITH Streams <- Pumps, taken <- nmsg

RelaySpec == Relay!Spec

=============================================================================
