---------------------------- MODULE UdpSessions ----------------------------
(***************************************************************************)
(* UdpProtocol: the main UDP thread (forward_any), which takes datagrams   *)
(* from the victims, and one receive thread per session                    *)
(* (spawn_recv_thread), which takes the answers.  They share the table     *)
(* session, from the outbound source port to the victim's address, and its *)
(* lock; each operation on the table is one step, what happens between two *)
(* of them is not.                                                         *)
(*                                                                         *)
(* A socket is named by the port it is bound to: it stays bound as long as *)
(* the table, its receive thread or the main thread's local variable dest  *)
(* refers to it.                                                           *)
(***************************************************************************)
EXTENDS Naturals

CONSTANTS
    Clients,        \* addresses of victims
    Ports,          \* source ports to draw from (40000 .. 60000)
    None,           \* no client, no port
    MaxFailTicks,   \* maxfailticks
    MaxDatagrams,   \* bound: datagrams from the victims
    MaxReplies      \* bound: datagrams from the servers

ASSUME NoneAssumption == None \notin Clients /\ None \notin Ports
ASSUME TicksAssumption == MaxFailTicks \in Nat /\ MaxFailTicks > 1
ASSUME BoundsAssumption == MaxDatagrams \in Nat /\ MaxReplies \in Nat

VARIABLES
    session,    \* session[sport][0], the victim served on that port
    mainpc,     \* where the main thread is
    caddr,      \* its local variables: the victim whose datagram it handles,
    raddrOk,    \*   whether the conntrack lookup found the destination,
    sport,      \*   the port,
    dest,       \*   and the socket
    thread,     \* where the receive thread of each port is
    serves,     \* the caddr that thread was started with
    failticks,  \* its counter
    pending,    \* answers that wait in each socket
    datagrams,  \* datagrams received from victims so far
    replies,    \* answers sent by servers so far
    orphan,     \* history: ports whose receive thread could not be started
    idle        \* history: time-outs since the last answer it passed on

mainVars   == <<mainpc, caddr, raddrOk, sport, dest>>
threadVars == <<thread, serves, failticks, idle>>
netVars    == <<pending, datagrams, replies>>
vars == <<session, orphan, mainVars, threadVars, netVars>>

\* Some reference keeps the socket of this port open, dest apart.
InUse(p) == session[p] # None \/ thread[p] # "none"
Bound(p) == InUse(p) \/ dest = p

Init ==
    /\ session = [p \in Ports |-> None]
    /\ mainpc = "recv"
    /\ caddr = None
    /\ raddrOk = FALSE
    /\ sport = None
    /\ dest = None
    /\ thread = [p \in Ports |-> "none"]
    /\ serves = [p \in Ports |-> None]
    /\ failticks = [p \in Ports |-> 0]
    /\ pending = [p \in Ports |-> 0]
    /\ datagrams = 0
    /\ replies = 0
    /\ orphan = {}
    /\ idle = [p \in Ports |-> 0]

(***************************************************************************)
(* The main thread.  Whatever raises, the datagram is dropped and the loop *)
(* goes on.                                                                *)
(***************************************************************************)

RecvFrom(c) ==
    /\ mainpc = "recv"
    /\ datagrams < MaxDatagrams
    /\ datagrams' = datagrams + 1
    /\ caddr' = c
    /\ raddrOk' \in BOOLEAN
    /\ mainpc' = "getsession"
    /\ UNCHANGED <<session, sport, dest, pending, replies, orphan, threadVars>>

\* Faulty variant: a session whose thread is giving up is not found.
GetSessionAlive ==
    /\ mainpc = "getsession"
    /\ \/ \E p \in Ports : /\ session[p] = caddr /\ thread[p] = "select"
                           /\ sport' = p
                           /\ mainpc' = "lookup"
       \/ /\ \A p \in Ports : session[p] # caddr \/ thread[p] # "select"
          /\ sport' = None
          /\ mainpc' = "bind"
    /\ UNCHANGED <<session, caddr, raddrOk, dest, netVars, orphan, threadVars>>

\* Faulty variant: the port of any session will do.
GetSessionAny ==
    /\ mainpc = "getsession"
    /\ \/ \E p \in Ports : /\ session[p] # None
                           /\ sport' = p
                           /\ mainpc' = "lookup"
       \/ /\ \A p \in Ports : session[p] = None
          /\ sport' = None
          /\ mainpc' = "bind"
    /\ UNCHANGED <<session, caddr, raddrOk, dest, netVars, orphan, threadVars>>

\* The last port found, 0 if there is none.
GetSession ==
    /\ mainpc = "getsession"
    /\ \/ \E p \in Ports : /\ session[p] = caddr
                           /\ sport' = p
                           /\ mainpc' = "lookup"
       \/ /\ \A p \in Ports : session[p] # caddr
          /\ sport' = None
          /\ mainpc' = "bind"
    /\ UNCHANGED <<session, caddr, raddrOk, dest, netVars, orphan, threadVars>>

\* dest = self.session[sport][2], without the lock: KeyError if it has gone.
Lookup ==
    /\ mainpc = "lookup"
    /\ \/ /\ session[sport] # None
          /\ dest' = sport
          /\ mainpc' = "sendto"
       \/ /\ session[sport] = None
          /\ mainpc' = "recv"
          /\ UNCHANGED dest
    /\ UNCHANGED <<session, caddr, raddrOk, sport, netVars, orphan, threadVars>>

\* sendto, which raises if there is no destination: dropped either way.
SendTo ==
    /\ mainpc = "sendto"
    /\ mainpc' = "recv"
    /\ UNCHANGED <<session, caddr, raddrOk, sport, dest, netVars, orphan, threadVars>>

\* A fresh socket on a port drawn at random: bind raises if it is in use.
Bind(p) ==
    /\ mainpc = "bind"
    /\ sport' = p
    /\ IF InUse(p)
       THEN dest' = None /\ mainpc' = "recv" /\ UNCHANGED pending
       ELSE dest' = p /\ mainpc' = "firstsend" /\ pending' = [pending EXCEPT ![p] = 0]
    /\ UNCHANGED <<session, caddr, raddrOk, datagrams, replies, orphan, threadVars>>

FirstSend ==
    /\ mainpc = "firstsend"
    /\ mainpc' = IF raddrOk THEN "addsession" ELSE "recv"
    /\ UNCHANGED <<session, caddr, raddrOk, sport, dest, netVars, orphan, threadVars>>

\* Faulty variant: the fields of the session are swapped.
AddSessionSwapped ==
    /\ mainpc = "addsession"
    /\ mainpc' = "start"
    /\ session' = IF session[sport] = None
                  THEN [session EXCEPT ![sport] = sport] ELSE session
    /\ UNCHANGED <<caddr, raddrOk, sport, dest, netVars, orphan, threadVars>>

AddSession ==
    /\ mainpc = "addsession"
    /\ mainpc' = "start"
    /\ session' = IF session[sport] = None
                  THEN [session EXCEPT ![sport] = caddr] ELSE session
    /\ UNCHANGED <<caddr, raddrOk, sport, dest, netVars, orphan, threadVars>>

StartThread ==
    /\ mainpc = "start"
    /\ mainpc' = "recv"
    /\ thread' = [thread EXCEPT ![sport] = "select"]
    /\ serves' = [serves EXCEPT ![sport] = caddr]
    /\ failticks' = [failticks EXCEPT ![sport] = 0]
    /\ idle' = [idle EXCEPT ![sport] = 0]
    /\ UNCHANGED <<session, caddr, raddrOk, sport, dest, netVars, orphan>>

\* start_new_thread raises; the session stays in the table.
StartFails ==
    /\ mainpc = "start"
    /\ mainpc' = "recv"
    /\ orphan' = orphan \cup {sport}
    /\ UNCHANGED <<session, caddr, raddrOk, sport, dest, netVars, threadVars>>

(***************************************************************************)
(* A receive thread.                                                       *)
(***************************************************************************)

\* The counter was increased by one; the fifth time the thread gives up.
Tick(p, n) ==
    /\ failticks' = [failticks EXCEPT ![p] = n]
    /\ thread' = [thread EXCEPT ![p] = IF n = MaxFailTicks THEN "delsession" ELSE @]

\* Faulty variant: an answer does not reset the counter.
AnswerUnreset(p) ==
    /\ thread[p] = "select"
    /\ pending[p] > 0
    /\ pending' = [pending EXCEPT ![p] = @ - 1]
    /\ Tick(p, failticks[p] + 1)
    /\ idle' = [idle EXCEPT ![p] = 0]
    /\ UNCHANGED <<session, mainVars, serves, datagrams, replies, orphan>>

\* An answer goes through the rules to the victim; the counter is reset, and
\* increased in the same round.
Answer(p) ==
    /\ thread[p] = "select"
    /\ pending[p] > 0
    /\ pending' = [pending EXCEPT ![p] = @ - 1]
    /\ Tick(p, 1)
    /\ idle' = [idle EXCEPT ![p] = 0]
    /\ UNCHANGED <<session, mainVars, serves, datagrams, replies, orphan>>

\* A rule, the protocol's s2c_data or sendto raises: the round is cut short.
AnswerRaises(p) ==
    /\ thread[p] = "select"
    /\ pending[p] > 0
    /\ pending' = [pending EXCEPT ![p] = @ - 1]
    /\ UNCHANGED <<session, mainVars, threadVars, datagrams, replies, orphan>>

\* Faulty variant: a time-out is not counted.
SelectTimeoutUncounted(p) ==
    /\ thread[p] = "select"
    /\ pending[p] = 0
    /\ Tick(p, failticks[p])
    /\ UNCHANGED <<session, mainVars, serves, idle, netVars, orphan>>

SelectTimeout(p) ==
    /\ thread[p] = "select"
    /\ pending[p] = 0
    /\ Tick(p, failticks[p] + 1)
    /\ idle' = [idle EXCEPT ![p] = @ + 1]
    /\ UNCHANGED <<session, mainVars, serves, netVars, orphan>>

\* Faulty variant: the thread ends without delsession.
DelSessionForgotten(p) ==
    /\ thread[p] = "delsession"
    /\ thread' = [thread EXCEPT ![p] = "exit"]
    /\ UNCHANGED <<session, mainVars, serves, failticks, idle, netVars, orphan>>

DelSession(p) ==
    /\ thread[p] = "delsession"
    /\ session' = [session EXCEPT ![p] = None]
    /\ thread' = [thread EXCEPT ![p] = "exit"]
    /\ UNCHANGED <<mainVars, serves, failticks, idle, netVars, orphan>>

\* The thread's frame goes, and with it its reference to the socket.
ThreadExit(p) ==
    /\ thread[p] = "exit"
    /\ thread' = [thread EXCEPT ![p] = "none"]
    /\ UNCHANGED <<session, mainVars, serves, failticks, idle, netVars, orphan>>

\* A server, or anyone else, sends a datagram to a bound port.
ServerSends(p) ==
    /\ replies < MaxReplies
    /\ Bound(p)
    /\ replies' = replies + 1
    /\ pending' = [pending EXCEPT ![p] = @ + 1]
    /\ UNCHANGED <<session, mainVars, threadVars, datagrams, orphan>>

-----------------------------------------------------------------------------

MainThread ==
    \/ \E c \in Clients : RecvFrom(c)
    \/ GetSession \/ Lookup \/ SendTo
    \/ \E p \in Ports : Bind(p)
    \/ FirstSend \/ AddSession \/ StartThread \/ StartFails

ReceiveThread(p) ==
    \/ Answer(p) \/ AnswerRaises(p) \/ SelectTimeout(p) \/ DelSession(p) \/ ThreadExit(p)

Next ==
    \/ MainThread
    \/ \E p \in Ports : ReceiveThread(p) \/ ServerSends(p)

Spec == Init /\ [][Next]_vars

\* select returns within three seconds, whatever the servers do.
FairSpec == Spec /\ \A p \in Ports : WF_vars(ReceiveThread(p))

(***************************************************************************)
(* Properties.                                                             *)
(***************************************************************************)

\* Every variable has its type.
TypeOK ==
    /\ session \in [Ports -> Clients \cup {None}]
    /\ mainpc \in {"recv", "getsession", "lookup", "sendto", "bind", "firstsend",
                   "addsession", "start"}
    /\ caddr \in Clients \cup {None}
    /\ raddrOk \in BOOLEAN
    /\ sport \in Ports \cup {None}
    /\ dest \in Ports \cup {None}
    /\ thread \in [Ports -> {"none", "select", "delsession", "exit"}]
    /\ serves \in [Ports -> Clients \cup {None}]
    /\ failticks \in [Ports -> Nat]
    /\ pending \in [Ports -> Nat]
    /\ datagrams \in Nat /\ replies \in Nat
    /\ orphan \subseteq Ports
    /\ idle \in [Ports -> Nat]

\* A victim never has two sessions: the answers to all its datagrams come back
\* through one port.  The table alone does not prevent it; it holds because
\* only the main thread adds sessions, and looks first.
OneSessionPerClient ==
    \A p, q \in Ports : session[p] # None /\ session[p] = session[q] => p = q

\* A session in the table has a receive thread that serves its victim, unless
\* the main thread is just about to start it or the start failed.
SessionServed ==
    \A p \in Ports : session[p] # None =>
        \/ thread[p] \in {"select", "delsession"} /\ serves[p] = session[p]
        \/ mainpc = "start" /\ sport = p /\ caddr = session[p]
        \/ p \in orphan

\* A receive thread that takes answers has its session in the table, and no two
\* of them serve the same victim.
ThreadHasSession ==
    \A p \in Ports : thread[p] \in {"select", "delsession"} => session[p] = serves[p]

\* addsession is never a no-op: the port it adds is free, because a session in
\* the table keeps its socket bound and bind would have raised.
AddFindsPortFree ==
    mainpc = "addsession" => session[sport] = None /\ thread[sport] = "none"

\* The port that getsession found is, when the main thread uses it, still the
\* victim's own, or has no session any more: its datagram never leaves through
\* the port, and so never under the name, of another victim.
LookupFindsOwnSession ==
    mainpc = "lookup" => session[sport] \in {caddr, None}

\* A thread gives up only after all but one of maxfailticks time-outs since the
\* last answer it passed on, whatever answers came before (the comment at
\* base.py:221 counts one more: the round of an answer counts as a tick too).
WaitsBeforeGivingUp ==
    \A p \in Ports : thread[p] = "delsession" => idle[p] + 1 >= MaxFailTicks

\* A session whose thread was started is dropped in the end, however the last
\* answers fare: no dormant threads hang about (base.py:188).
SessionExpires ==
    \A p \in Ports : (session[p] # None /\ thread[p] = "select") ~> (session[p] = None)

=============================================================================
