---------------------------- MODULE TcpSessions ----------------------------
(***************************************************************************)
(* The life of TCP connections in Mallory: the accept loop of Mallory.main *)
(* (one thread, which also tidies up finished instances) and, for each     *)
(* connection, the two data pumps TcpProtocol.forward_any.                 *)
(*                                                                         *)
(* A pump is a direction of a connection.  Sockets follow Linux and Python *)
(* 2: data that has arrived can be read even after a reset; close() makes  *)
(* every later call on the socket raise, but a recv that is blocked in the *)
(* kernel keeps its file descriptor and still returns.  What the rules and *)
(* the debugger do to a chunk is the business of RuleChain and             *)
(* StreamDebugger; here it only matters whether they raise and whether     *)
(* anything of the chunk is left.                                          *)
(***************************************************************************)
EXTENDS Naturals, Sequences

CONSTANTS
    NumConns,   \* bound: connections the victims open
    MaxChunks,  \* bound: chunks sent in each direction of each connection
    Dests,      \* destination addresses
    Unset,      \* shost before the first successful lookup
    Intended    \* the server each client wants to talk to

Conns == 1 .. NumConns
Pumps == Conns \X {"c2s", "s2c"}
Peers == Conns \X {"client", "server"}

ASSUME BoundsAssumption == NumConns \in Nat /\ MaxChunks \in [Pumps -> Nat]
ASSUME DestsAssumption  == Intended \in [Conns -> Dests] /\ Unset \notin Dests

\* The two ends of a direction.
source(p)      == <<p[1], IF p[2] = "c2s" THEN "client" ELSE "server">>
destination(p) == <<p[1], IF p[2] = "c2s" THEN "server" ELSE "client">>

VARIABLES
    mainpc,         \* where the accept loop is
    accepted,       \* connections accepted; the last one is being set up
    shost,          \* the local variable of main, kept from one round to the next
    connCount,      \* the number of the next connection that succeeds
    protoinstances, \* Mallory.protoinstances
    done,           \* TcpProtocol.done
    closed,         \* close() was called on both sockets of the instance
    dialled,        \* history: where each connection really went
    qConn,          \* history: the rows <<connCount, connection>> queued
    conncount,      \* ConnData.conncount of each connection
    pc,             \* where each pump is
    recvd,          \* chunks each pump received
    msgCnt,         \* its local counter
    out,            \* history: chunks it sent, as <<pump, number>>
    qFlow,          \* history: the flow rows it queued, as <<conncount, msgCnt,
                    \* number of the chunk>>
    fault,          \* history: how a pump ended, where it did not set done
    peer,           \* what each end of each connection does
    sent            \* chunks the source of each pump has sent

mainVars == <<mainpc, accepted, shost, connCount, protoinstances, closed,
              dialled, qConn, conncount>>
pumpVars == <<pc, recvd, msgCnt, out, qFlow, fault>>
netVars  == <<peer, sent>>
vars == <<mainVars, pumpVars, netVars, done>>

Init ==
    /\ mainpc = "cleanup"
    /\ accepted = 0
    /\ shost = Unset
    /\ connCount = 0
    /\ protoinstances = {}
    /\ done = [c \in Conns |-> FALSE]
    /\ closed = [c \in Conns |-> FALSE]
    /\ dialled = [c \in Conns |-> Unset]
    /\ qConn = {}
    /\ conncount = [c \in Conns |-> 0]
    /\ pc = [p \in Pumps |-> "off"]
    /\ recvd = [p \in Pumps |-> 0]
    /\ msgCnt = [p \in Pumps |-> 0]
    /\ out = [p \in Pumps |-> <<>>]
    /\ qFlow = [p \in Pumps |-> <<>>]
    /\ fault = [p \in Pumps |-> "none"]
    /\ peer = [e \in Peers |-> "none"]
    /\ sent = [p \in Pumps |-> 0]

(***************************************************************************)
(* The accept loop.                                                        *)
(***************************************************************************)

\* Faulty variant: every instance is tidied up, done or not.
CleanupAll ==
    /\ mainpc = "cleanup"
    /\ mainpc' = "accept"
    /\ closed' = [c \in Conns |-> closed[c] \/ c \in protoinstances]
    /\ protoinstances' = {}
    /\ UNCHANGED <<accepted, shost, connCount, dialled, qConn, conncount,
                   pumpVars, netVars, done>>

\* Faulty variant: an instance that never reached its server is passed over.
CleanupDialled ==
    /\ mainpc = "cleanup"
    /\ mainpc' = "accept"
    /\ closed' = [c \in Conns |->
                    closed[c] \/ (c \in protoinstances /\ done[c]
                                    /\ dialled[c] # Unset)]
    /\ protoinstances' = {c \in protoinstances : ~done[c]}
    /\ UNCHANGED <<accepted, shost, connCount, dialled, qConn, conncount,
                   pumpVars, netVars, done>>

\* Close and forget the instances that are done.
CleanupProto ==
    /\ mainpc = "cleanup"
    /\ mainpc' = "accept"
    /\ closed' = [c \in Conns |-> closed[c] \/ (c \in protoinstances /\ done[c])]
    /\ protoinstances' = {c \in protoinstances : ~done[c]}
    /\ UNCHANGED <<accepted, shost, connCount, dialled, qConn, conncount,
                   pumpVars, netVars, done>>

\* A client connects and the lookup of its real destination works, or fails
\* with nothing but a warning.
Accept ==
    /\ mainpc = "accept"
    /\ accepted < NumConns
    /\ accepted' = accepted + 1
    /\ peer' = [peer EXCEPT ![<<accepted + 1, "client">>] = "up"]
    /\ shost' \in {Intended[accepted + 1], shost}
    /\ mainpc' = "create"
    /\ UNCHANGED <<connCount, protoinstances, closed, dialled, qConn, conncount,
                   pumpVars, sent, done>>

\* The instance is made, attached to its subjects and put in the list.
Create ==
    /\ mainpc = "create"
    /\ shost # Unset
    /\ protoinstances' = protoinstances \cup {accepted}
    /\ mainpc' = "connect"
    /\ UNCHANGED <<accepted, shost, connCount, closed, dialled, qConn, conncount,
                   pumpVars, netVars, done>>

\* accept raises; or there is no destination from this or an earlier round and
\* sport is unbound, or the constructor raises: then there is no instance, and
\* the handler's set_done fails as well.  The blanket handler ends main.
MainDies ==
    /\ mainpc \in {"accept", "create"}
    /\ mainpc' = "dead"
    /\ UNCHANGED <<accepted, shost, connCount, protoinstances, closed, dialled,
                   qConn, conncount, pumpVars, netVars, done>>

\* The server answers: the connection gets its number, and its row is queued.
ServerAnswers ==
    /\ mainpc = "connect"
    /\ dialled' = [dialled EXCEPT ![accepted] = shost]
    /\ peer' = [peer EXCEPT ![<<accepted, "server">>] = "up"]
    /\ conncount' = [conncount EXCEPT ![accepted] = connCount]
    /\ qConn' = qConn \cup {<<connCount, accepted>>}
    /\ UNCHANGED <<accepted, shost, protoinstances, closed, recvd, msgCnt, out,
                   qFlow, fault, sent, done>>

StartPumps(dirs) ==
    pc' = [p \in Pumps |-> IF p[1] = accepted /\ p[2] \in dirs THEN "start" ELSE pc[p]]

\* Both pumps are started.
Connect ==
    /\ ServerAnswers
    /\ StartPumps({"c2s", "s2c"})
    /\ connCount' = connCount + 1
    /\ mainpc' = "cleanup"

\* A thread cannot be started, the first or the second, which ends main too.
ThreadFails ==
    /\ ServerAnswers
    /\ \E dirs \in {{}, {"c2s"}} : StartPumps(dirs)
    /\ mainpc' = "dead"
    /\ UNCHANGED connCount

\* Anything raises between the creation and here: "force clean up soon".
ConnectFails ==
    /\ mainpc = "connect"
    /\ mainpc' = "cleanup"
    /\ done' = [done EXCEPT ![accepted] = TRUE]
    /\ UNCHANGED <<accepted, shost, connCount, protoinstances, closed, dialled,
                   qConn, conncount, pumpVars, netVars>>

(***************************************************************************)
(* A data pump.                                                            *)
(***************************************************************************)

Goto(p, l)  == pc' = [pc EXCEPT ![p] = l]
SetDone(p)  == done' = [done EXCEPT ![p[1]] = TRUE]
Gone(p)     == peer[source(p)] = "gone" \/ peer[destination(p)] = "gone"
Fault(p, f) == fault' = [fault EXCEPT ![p] = f]

\* The log line asks both sockets for their peer, which raises if one is gone.
Start(p) ==
    /\ pc[p] = "start"
    /\ \/ /\ ~Gone(p) /\ ~closed[p[1]]
          /\ Goto(p, "loop")
          /\ UNCHANGED fault
       \/ /\ Gone(p) \/ closed[p[1]]
          /\ Goto(p, "over")
          /\ Fault(p, "peer gone at start")
    /\ UNCHANGED <<mainVars, netVars, done, recvd, msgCnt, out, qFlow>>

\* The call of recv.
CallRecv(p) ==
    /\ pc[p] = "loop"
    /\ ~closed[p[1]]
    /\ Goto(p, "recv")
    /\ UNCHANGED <<mainVars, netVars, done, recvd, msgCnt, out, qFlow, fault>>

\* Faulty variant: recv on a socket that was closed does not raise.
RecvErrorResetOnly(p) ==
    /\ pc[p] = "recv" /\ peer[source(p)] = "gone" /\ recvd[p] = sent[p]
    /\ Goto(p, "over")
    /\ SetDone(p)
    /\ UNCHANGED <<mainVars, netVars, recvd, msgCnt, out, qFlow, fault>>

\* recv raises: the socket is closed, or the peer reset the connection.
RecvError(p) ==
    /\ \/ pc[p] = "loop" /\ closed[p[1]]
       \/ pc[p] = "recv" /\ peer[source(p)] = "gone" /\ recvd[p] = sent[p]
    /\ Goto(p, "over")
    /\ SetDone(p)
    /\ UNCHANGED <<mainVars, netVars, recvd, msgCnt, out, qFlow, fault>>

RecvChunk(p) ==
    /\ pc[p] = "recv"
    /\ recvd[p] < sent[p]
    /\ recvd' = [recvd EXCEPT ![p] = @ + 1]
    /\ Goto(p, "send")
    /\ UNCHANGED <<mainVars, netVars, done, msgCnt, out, qFlow, fault>>

\* End of stream: shut down one half of each socket and be done, unless
\* shutdown raises; that exception is swallowed.
RecvEof(p) ==
    /\ pc[p] = "recv"
    /\ recvd[p] = sent[p]
    /\ peer[source(p)] = "fin"
    /\ Goto(p, "over")
    /\ \/ ~Gone(p) /\ ~closed[p[1]] /\ SetDone(p) /\ UNCHANGED fault
       \/ (Gone(p) \/ closed[p[1]]) /\ Fault(p, "shutdown raised") /\ UNCHANGED done
    /\ UNCHANGED <<mainVars, netVars, recvd, msgCnt, out, qFlow>>

\* The rules or the debugger raise: forward_any calls processrules and
\* waitfordebug outside any try, so that nobody sets done.
ProcessRaises(p) ==
    /\ pc[p] = "send"
    /\ Goto(p, "over")
    /\ Fault(p, "rules or debugger raised")
    /\ UNCHANGED <<mainVars, netVars, done, recvd, msgCnt, out, qFlow>>

\* sendall of what the rules and the debugger left of the chunk.
Send(p) ==
    /\ pc[p] = "send"
    /\ ~closed[p[1]] /\ peer[destination(p)] # "gone"
    /\ out' = [out EXCEPT ![p] = Append(@, <<p, recvd[p]>>)]
    /\ \E left \in {"store", "store empty"} : Goto(p, left)
    /\ UNCHANGED <<mainVars, netVars, done, recvd, msgCnt, qFlow, fault>>

\* Faulty variant: the handler of sendall's error forgets set_done.
SendErrorNotDone(p) ==
    /\ pc[p] = "send"
    /\ closed[p[1]] \/ peer[destination(p)] = "gone"
    /\ Goto(p, "over")
    /\ UNCHANGED <<mainVars, netVars, done, recvd, msgCnt, out, qFlow, fault>>

SendError(p) ==
    /\ pc[p] = "send"
    /\ closed[p[1]] \/ peer[destination(p)] = "gone"
    /\ Goto(p, "over")
    /\ SetDone(p)
    /\ UNCHANGED <<mainVars, netVars, recvd, msgCnt, out, qFlow, fault>>

\* Faulty variant: the number is that of whoever connected last.
FlowRowShared(p) == <<connCount, msgCnt[p], recvd[p]>>

FlowRow(p) == <<conncount[p[1]], msgCnt[p], recvd[p]>>

\* Faulty variant: the loop skips recv.
StoreResends(p) ==
    /\ pc[p] = "store"
    /\ recvd[p] < MaxChunks[p]
    /\ qFlow' = [qFlow EXCEPT ![p] = Append(@, FlowRow(p))]
    /\ msgCnt' = [msgCnt EXCEPT ![p] = @ + 1]
    /\ Goto(p, "send")
    /\ UNCHANGED <<mainVars, netVars, done, recvd, out, fault>>

\* Queue the flow row, count, and go round unless the string is empty.
Store(p) ==
    /\ pc[p] \in {"store", "store empty"}
    /\ qFlow' = [qFlow EXCEPT ![p] = Append(@, FlowRow(p))]
    /\ msgCnt' = [msgCnt EXCEPT ![p] = @ + 1]
    /\ \/ pc[p] = "store" /\ Goto(p, "loop") /\ UNCHANGED fault
       \/ pc[p] = "store empty" /\ Goto(p, "over") /\ Fault(p, "empty chunk")
    /\ UNCHANGED <<mainVars, netVars, done, recvd, out>>

(***************************************************************************)
(* The network.                                                            *)
(***************************************************************************)

PeerSends(p) ==
    /\ peer[source(p)] = "up"
    /\ sent[p] < MaxChunks[p]
    /\ sent' = [sent EXCEPT ![p] = @ + 1]
    /\ UNCHANGED <<mainVars, pumpVars, peer, done>>

\* A peer finishes sending, or its reset arrives.
PeerStops(e) ==
    /\ peer[e] \in {"up", "fin"}
    /\ \E how \in {"fin", "gone"} \ {peer[e]} : peer' = [peer EXCEPT ![e] = how]
    /\ UNCHANGED <<mainVars, pumpVars, sent, done>>

-----------------------------------------------------------------------------

Main ==
    \/ CleanupProto \/ Accept \/ Create \/ MainDies
    \/ Connect \/ ThreadFails \/ ConnectFails

Pump(p) ==
    \/ Start(p) \/ CallRecv(p) \/ RecvError(p) \/ RecvChunk(p) \/ RecvEof(p)
    \/ ProcessRaises(p) \/ Send(p) \/ SendError(p) \/ Store(p)

Net == (\E p \in Pumps : PeerSends(p)) \/ (\E e \in Peers : PeerStops(e))

Next == Main \/ (\E p \in Pumps : Pump(p)) \/ Net

Spec == Init /\ [][Next]_vars

\* The accept loop and the pumps run whenever they are not waiting for a client
\* or for data.  Clients and servers owe nothing; nor do the pumps once main is
\* over, as the process ends with its main thread.
FairSpec ==
    /\ Spec
    /\ WF_vars(CleanupProto)
    /\ \A p \in Pumps : WF_vars(mainpc # "dead" /\ Pump(p))

(***************************************************************************)
(* Properties.                                                             *)
(***************************************************************************)

\* cleanup_proto never takes the sockets away from a connection that is being
\* set up or has both directions running.
LiveStreamsStayOpen ==
    \A c \in Conns : closed[c] =>
        \/ dialled[c] = Unset
        \/ \E p \in Pumps : p[1] = c /\ pc[p] = "over"

\* A pump that ends without marking its instance done, so that nobody closes
\* the sockets if the other one does the same, met one of four accidents: a
\* peer gone before the first log line, a shutdown that raised, the rules or the
\* debugger raising (base.py:551-558), or a chunk of which they left nothing.
LeakNeedsFault ==
    \A p \in Pumps : pc[p] = "over" => done[p[1]] \/ fault[p] # "none"

\* base.py:572-597 and mallory.py:480: the rows a direction queues are numbered
\* without a gap, one for each chunk it sent, in order, and at most one behind; and
\* the connection they name by its number was queued before them, once, under a
\* number that no other connection has.
FlowRows ==
    \A p \in Pumps :
        /\ Len(qFlow[p]) \in {Len(out[p]), Len(out[p]) - 1}
        /\ \A i \in DOMAIN qFlow[p] :
              qFlow[p][i][2] = i - 1 /\ qFlow[p][i][3] = out[p][i][2]
        /\ qFlow[p] # <<>> =>
             \E row \in qConn :
                 /\ row[2] = p[1]
                 /\ \A i \in DOMAIN qFlow[p] : qFlow[p][i][1] = row[1]
                 /\ \A r \in qConn \ {row} : r[1] # row[1] /\ r[2] # row[2]

\* mallory.py:464 "Force clean up soon": a connection whose server could not be
\* reached is closed without waiting for another client.
FailedSetupCleaned ==
    \A c \in Conns :
        (done[c] /\ c = accepted /\ mainpc = "cleanup" /\ dialled[c] = Unset)
        ~> closed[c]

\* A pump ends once its source has finished, while Mallory runs: it hangs
\* neither on a half-closed connection nor on sockets the accept loop has closed.
PumpsEnd ==
    \A p \in Pumps : (pc[p] # "off" /\ peer[source(p)] \in {"fin", "gone"})
        ~> (pc[p] = "over" \/ mainpc = "dead")

\* Each direction is an OrderedRelay.
Relay == INSTANCE OrderedRelay WITH Streams <- Pumps, taken <- recvd, given <- out

RelaySpec == Relay!Spec

=============================================================================
