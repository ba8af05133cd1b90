------------------------- MODULE TcpSessions_proofs -------------------------
(***************************************************************************)
(* Theorems about TcpSessions, for any number of connections and chunks    *)
(* and any destinations.                                                   *)
(***************************************************************************)
EXTENDS TcpSessions, TLAPS

Places == {"off", "start", "loop", "recv", "send", "store", "store empty", "over"}
Faults == {"none", "peer gone at start", "shutdown raised", "rules or debugger raised",
           "empty chunk"}

\* The types of what the invariants below speak of.
Types ==
    /\ mainpc \in {"cleanup", "accept", "create", "connect", "dead"}
    /\ accepted \in 0 .. NumConns
    /\ mainpc \in {"create", "connect"} => accepted \in Conns
    /\ shost \in Dests \cup {Unset}
    /\ connCount \in Nat
    /\ protoinstances \in SUBSET Conns
    /\ done \in [Conns -> BOOLEAN]
    /\ closed \in [Conns -> BOOLEAN]
    /\ dialled \in [Conns -> Dests \cup {Unset}]
    /\ qConn \in SUBSET (Nat \X Conns)
    /\ conncount \in [Conns -> Nat]
    /\ pc \in [Pumps -> Places]
    /\ recvd \in [Pumps -> Nat]
    /\ msgCnt \in [Pumps -> Nat]
    /\ out \in [Pumps -> Seq(Pumps \X Nat)]
    /\ qFlow \in [Pumps -> Seq(Nat \X Nat \X Nat)]
    /\ fault \in [Pumps -> Faults]

\* It is being set up, or has not been accepted yet.
Fresh(i) == i > accepted \/ (i = accepted /\ mainpc \in {"create", "connect"})

\* A connection is set up once: until then it has no row, no pump and no server,
\* and it is not done.
SetupOrder ==
    /\ mainpc = "connect" => shost # Unset
    /\ \A i \in Conns : Fresh(i) => dialled[i] = Unset /\ ~done[i]
    /\ \A r \in qConn : ~Fresh(r[2])
    /\ \A p \in Pumps : pc[p] # "off" => dialled[p[1]] # Unset

\* An instance of a connection that reached its server is done, and so closed, only
\* because of a pump that has ended.
DoneByPump ==
    \A i \in Conns :
        /\ closed[i] => done[i]
        /\ done[i] => dialled[i] = Unset \/ \E p \in Pumps : p[1] = i /\ pc[p] = "over"

\* Rows of connections are numbered one after the other, each once, with the number
\* that the connection keeps, and a pump that was started has one.
ConnRows ==
    /\ mainpc # "dead" => \A r \in qConn : r[1] < connCount
    /\ \A r \in qConn : r[1] = conncount[r[2]]
    /\ \A r, s \in qConn : r # s => r[1] # s[1] /\ r[2] # s[2]
    /\ \A p \in Pumps : pc[p] # "off" => \E r \in qConn : r[2] = p[1]

\* A pump holds at most one chunk that it has not sent.
Relaying ==
    \A p \in Pumps :
        /\ pc[p] = "send" => recvd[p] = Len(out[p]) + 1
        /\ pc[p] \notin {"send", "over"} => recvd[p] = Len(out[p])

\* It owes at most one row, and has queued none before it was started.
Counted ==
    \A p \in Pumps :
        /\ msgCnt[p] = Len(qFlow[p])
        /\ pc[p] \in {"store", "store empty"} => Len(out[p]) = Len(qFlow[p]) + 1
        /\ pc[p] \notin {"store", "store empty"} => Len(out[p]) = Len(qFlow[p])
        /\ pc[p] = "off" => qFlow[p] = <<>>

\* The chunks went out in order, and their rows followed.
Numbered ==
    \A p \in Pumps :
        /\ \A n \in 1 .. Len(out[p]) : out[p][n] = <<p, n>>
        /\ \A n \in 1 .. Len(qFlow[p]) : qFlow[p][n] = <<conncount[p[1]], n - 1, n>>

\* The inductive invariant.
Inv == /\ Types /\ SetupOrder /\ DoneByPump /\ LeakNeedsFault /\ ConnRows
       /\ Relaying /\ Counted /\ Numbered

-----------------------------------------------------------------------------

\* Every step keeps the types.
LEMMA TypesStep ==
    ASSUME Types, [Next]_vars
    PROVE  Types'
<1>1. ASSUME CleanupProto
      PROVE  Types'
      BY <1>1 DEF CleanupProto, Types, mainVars, pumpVars, netVars
<1>2. ASSUME Accept
      PROVE  Types'
  <2>1. accepted + 1 \in 0 .. NumConns /\ accepted + 1 \in Conns
    <3>1. NumConns \in Nat /\ accepted \in 0 .. NumConns /\ accepted < NumConns
          BY <1>2, BoundsAssumption DEF Accept, Types
    <3> QED BY <3>1 DEF Conns
  <2>2. Intended[accepted + 1] \in Dests
        BY <2>1, DestsAssumption
  <2>3. accepted' \in 0 .. NumConns /\ accepted' \in Conns /\ shost' \in Dests \cup {Unset}
        BY <1>2, <2>1, <2>2 DEF Accept, Types
  <2> QED BY <1>2, <2>3 DEF Accept, Types, pumpVars
<1>3. ASSUME Create
      PROVE  Types'
      BY <1>3 DEF Create, Types, mainVars, pumpVars, netVars
<1>4. ASSUME MainDies
      PROVE  Types'
      BY <1>4 DEF MainDies, Types, mainVars, pumpVars, netVars
<1>5. ASSUME Connect \/ ThreadFails
      PROVE  Types'
  <2>1. pc' \in [Pumps -> Places]
        BY <1>5 DEF Connect, ThreadFails, StartPumps, Types, Places
  <2>2. connCount \in Nat /\ accepted \in Conns
        BY <1>5 DEF Connect, ThreadFails, ServerAnswers, Types
  <2>3. connCount' \in Nat /\ <<connCount, accepted>> \in Nat \X Conns
        BY <1>5, <2>2 DEF Connect, ThreadFails
  <2>4. /\ dialled' \in [Conns -> Dests \cup {Unset}]
        /\ qConn' \in SUBSET (Nat \X Conns)
        /\ conncount' \in [Conns -> Nat]
        BY <1>5, <2>2, <2>3 DEF Connect, ThreadFails, ServerAnswers, Types
  <2>5. mainpc' \in {"cleanup", "dead"}
        BY <1>5 DEF Connect, ThreadFails
  <2> QED BY <1>5, <2>1, <2>3, <2>4, <2>5 DEF Connect, ThreadFails, ServerAnswers, Types
<1>6. ASSUME ConnectFails
      PROVE  Types'
      BY <1>6 DEF ConnectFails, Types, mainVars, pumpVars, netVars
<1>7. ASSUME NEW p \in Pumps, Start(p)
      PROVE  Types'
  <2>1. /\ pc' \in [Pumps -> Places]
        /\ fault' \in [Pumps -> Faults]
        BY <1>7 DEF Start, Goto, Fault, Types, Places, Faults
  <2> QED BY <1>7, <2>1 DEF Start, Types, mainVars
<1>8. ASSUME NEW p \in Pumps, CallRecv(p)
      PROVE  Types'
      BY <1>8 DEF CallRecv, Goto, Places, Faults, Types, mainVars, pumpVars, netVars
<1>9. ASSUME NEW p \in Pumps, RecvError(p)
      PROVE  Types'
      BY <1>9 DEF RecvError, Goto, Places, Faults, SetDone, Types, mainVars, pumpVars, netVars
<1>10. ASSUME NEW p \in Pumps, RecvChunk(p)
      PROVE  Types'
  <2>1. /\ pc' \in [Pumps -> Places]
        BY <1>10 DEF RecvChunk, Goto, Places, Faults, Types
  <2>2. recvd' \in [Pumps -> Nat]
    <3>1. recvd \in [Pumps -> Nat]
          BY DEF Types
    <3>2. recvd[p] + 1 \in Nat
          BY <3>1
    <3> QED BY <1>10, <3>1, <3>2 DEF RecvChunk
  <2> QED BY <1>10, <2>1, <2>2 DEF RecvChunk, Types, mainVars
<1>11. ASSUME NEW p \in Pumps, RecvEof(p)
      PROVE  Types'
      BY <1>11 DEF RecvEof, Goto, Places, Faults, SetDone, Fault, Types, mainVars, pumpVars, netVars
<1>12. ASSUME NEW p \in Pumps, Send(p)
      PROVE  Types'
  <2>1. Append(out[p], <<p, recvd[p]>>) \in Seq(Pumps \X Nat)
    <3>1. <<p, recvd[p]>> \in Pumps \X Nat /\ out[p] \in Seq(Pumps \X Nat)
          BY DEF Types
    <3> QED BY <3>1
  <2>2. out' \in [Pumps -> Seq(Pumps \X Nat)]
        BY <1>12, <2>1 DEF Send, Types
  <2>3. pc' \in [Pumps -> Places]
        BY <1>12 DEF Send, Goto, Places, Faults, Types
  <2> QED BY <1>12, <2>2, <2>3 DEF Send, Types, mainVars
<1>13. ASSUME NEW p \in Pumps, SendError(p)
      PROVE  Types'
      BY <1>13 DEF SendError, Goto, Places, Faults, SetDone, Types, mainVars, pumpVars, netVars
<1>14. ASSUME NEW p \in Pumps, Store(p)
      PROVE  Types'
  <2>1. Append(qFlow[p], FlowRow(p)) \in Seq(Nat \X Nat \X Nat)
    <3>1. p[1] \in Conns
          BY DEF Pumps
    <3>2. FlowRow(p) \in Nat \X Nat \X Nat /\ qFlow[p] \in Seq(Nat \X Nat \X Nat)
          BY <3>1 DEF FlowRow, Types
    <3> QED BY <3>2
  <2>2. qFlow' \in [Pumps -> Seq(Nat \X Nat \X Nat)]
        BY <1>14, <2>1 DEF Store, Types
  <2>3. pc' \in [Pumps -> Places]
        BY <1>14 DEF Store, Goto, Places, Faults, Types
  <2>4. msgCnt' \in [Pumps -> Nat]
    <3>1. msgCnt \in [Pumps -> Nat]
          BY DEF Types
    <3>2. msgCnt[p] + 1 \in Nat
          BY <3>1
    <3> QED BY <1>14, <3>1, <3>2 DEF Store
  <2>5. fault' \in [Pumps -> Faults]
        BY <1>14 DEF Store, Fault, Faults, Types
  <2> QED BY <1>14, <2>2, <2>3, <2>4, <2>5 DEF Store, Types, mainVars
<1>18. ASSUME NEW p \in Pumps, ProcessRaises(p)
      PROVE  Types'
      BY <1>18 DEF ProcessRaises, Goto, Fault, Places, Faults, Types, mainVars, netVars
<1>15. ASSUME NEW p \in Pumps, PeerSends(p)
      PROVE  Types'
      BY <1>15 DEF PeerSends, Types, mainVars, pumpVars, netVars
<1>16. ASSUME NEW e \in Peers, PeerStops(e)
      PROVE  Types'
      BY <1>16 DEF PeerStops, Types, mainVars, pumpVars, netVars
<1>17. ASSUME UNCHANGED vars
      PROVE  Types'
      BY <1>17 DEF vars, Types, mainVars, pumpVars, netVars
<1> QED
      BY <1>1, <1>2, <1>3, <1>4, <1>5, <1>6, <1>7, <1>8, <1>9, <1>10, <1>11, <1>12, <1>13,
         <1>14, <1>15, <1>16, <1>17, <1>18 DEF Next, Main, Pump, Net

\* What the pumps do to what they share with the accept loop: one that is under way
\* goes on or ends, and marks its instance only when it ends.
LEMMA PumpMoves ==
    ASSUME Types, NEW p \in Pumps, Pump(p)
    PROVE  /\ UNCHANGED mainVars
           /\ pc[p] \notin {"off", "over"} /\ pc'[p] # "off"
           /\ \A q \in Pumps : q # p => pc'[q] = pc[q]
           /\ \A i \in Conns : done'[i] = done[i] \/ (done'[i] /\ i = p[1] /\ pc'[p] = "over")
<1> DEFINE Moves ==
             /\ UNCHANGED mainVars
             /\ pc[p] \notin {"off", "over"} /\ pc'[p] # "off"
             /\ \A q \in Pumps : q # p => pc'[q] = pc[q]
             /\ \A i \in Conns : done'[i] = done[i] \/ (done'[i] /\ i = p[1] /\ pc'[p] = "over")
<1>1. ASSUME Start(p)
      PROVE  Moves
      BY <1>1 DEF Start, Goto, Fault, Gone, Types
<1>2. ASSUME CallRecv(p)
      PROVE  Moves
      BY <1>2 DEF CallRecv, Goto, Types
<1>3. ASSUME RecvError(p)
      PROVE  Moves
      BY <1>3 DEF RecvError, Goto, SetDone, Types
<1>4. ASSUME RecvChunk(p)
      PROVE  Moves
      BY <1>4 DEF RecvChunk, Goto, Types
<1>5. ASSUME RecvEof(p)
      PROVE  Moves
      BY <1>5 DEF RecvEof, Goto, SetDone, Fault, Types
<1>6. ASSUME Send(p)
      PROVE  Moves
      BY <1>6 DEF Send, Goto, Types
<1>7. ASSUME SendError(p)
      PROVE  Moves
      BY <1>7 DEF SendError, Goto, SetDone, Types
<1>8. ASSUME Store(p)
      PROVE  Moves
      BY <1>8 DEF Store, Goto, Fault, Types
<1>9. ASSUME ProcessRaises(p)
      PROVE  Moves
      BY <1>9 DEF ProcessRaises, Goto, Types
<1> QED
      BY <1>1, <1>2, <1>3, <1>4, <1>5, <1>6, <1>7, <1>8, <1>9 DEF Pump

\* What both ways to go on from a server that answered have in common: the connection
\* gets its number and its row, and at most its own pumps are started.
LEMMA ServerUp ==
    ASSUME Types, SetupOrder, Connect \/ ThreadFails
    PROVE  /\ mainpc = "connect" /\ mainpc' \in {"cleanup", "dead"}
           /\ accepted \in Conns /\ Fresh(accepted) /\ shost # Unset
           /\ connCount \in Nat /\ (mainpc' # "dead" => connCount' = connCount + 1)
           /\ qConn' = qConn \cup {<<connCount, accepted>>}
           /\ \A i \in Conns :
                 /\ dialled'[i] = IF i = accepted THEN shost ELSE dialled[i]
                 /\ conncount'[i] = IF i = accepted THEN connCount ELSE conncount[i]
           /\ \A p \in Pumps : p[1] \in Conns /\
                 (pc'[p] = pc[p] \/ (pc'[p] = "start" /\ pc[p] = "off" /\ p[1] = accepted))
           /\ UNCHANGED <<accepted, shost, protoinstances, closed, recvd, msgCnt, out, qFlow,
                          fault, done>>
<1>1. ServerAnswers
      BY DEF Connect, ThreadFails
<1>2. /\ mainpc = "connect" /\ mainpc' \in {"cleanup", "dead"}
      /\ accepted \in Conns /\ Fresh(accepted) /\ shost # Unset
      BY <1>1 DEF Connect, ThreadFails, ServerAnswers, Types, Fresh, SetupOrder
<1>3. /\ connCount \in Nat /\ (mainpc' # "dead" => connCount' = connCount + 1)
      /\ qConn' = qConn \cup {<<connCount, accepted>>}
      BY <1>1 DEF Connect, ThreadFails, ServerAnswers, Types
<1>4. \A i \in Conns :
        /\ dialled'[i] = IF i = accepted THEN shost ELSE dialled[i]
        /\ conncount'[i] = IF i = accepted THEN connCount ELSE conncount[i]
      BY <1>1 DEF ServerAnswers, Types
<1>5. ASSUME NEW p \in Pumps
      PROVE  /\ p[1] \in Conns
             /\ pc'[p] = pc[p] \/ (pc'[p] = "start" /\ pc[p] = "off" /\ p[1] = accepted)
  <2>1. p[1] \in Conns
        BY DEF Pumps
  <2>2. p[1] = accepted => pc[p] = "off"
        BY <1>2 DEF SetupOrder
  <2>3. \E dirs : StartPumps(dirs)
        BY DEF Connect, ThreadFails
  <2> QED BY <2>1, <2>2, <2>3 DEF StartPumps
<1> QED
      BY <1>1, <1>2, <1>3, <1>4, <1>5 DEF ServerAnswers

\* Everybody else leaves what the pumps have alone, except who starts them.
LEMMA OthersLeavePumps ==
    ASSUME CleanupProto \/ Accept \/ Create \/ MainDies \/ ConnectFails \/ Net \/ UNCHANGED vars
    PROVE  UNCHANGED pumpVars
BY DEF CleanupProto, Accept, Create, MainDies, ConnectFails, Net, PeerSends, PeerStops, vars,
   pumpVars

\* Only the accept loop sets a connection up, and it never goes back to one.
LEMMA SetupOrderStep ==
    ASSUME Types, SetupOrder, [Next]_vars
    PROVE  SetupOrder'
<1>1. ASSUME CleanupProto
      PROVE  SetupOrder'
      BY <1>1, BoundsAssumption, DestsAssumption DEF CleanupProto, Types, SetupOrder, Fresh,
         Conns, Pumps, mainVars, pumpVars, netVars
<1>2. ASSUME Accept
      PROVE  SetupOrder'
  <2>1. UNCHANGED <<dialled, done, qConn, pc>>
        BY <1>2 DEF Accept, pumpVars, mainVars, netVars
  <2>2. \A i \in Conns : Fresh(i)' => Fresh(i)
    <3>1. accepted \in 0 .. NumConns /\ accepted' = accepted + 1 /\ mainpc' = "create"
          BY <1>2 DEF Accept, Types
    <3> QED BY <3>1, BoundsAssumption DEF Fresh, Conns
  <2>3. mainpc' # "connect" \/ shost # Unset
        BY <1>2 DEF Accept
  <2>4. \A r \in qConn : r[2] \in Conns
        BY DEF Types
  <2> QED BY <1>2, <2>1, <2>2, <2>3, <2>4 DEF Accept, SetupOrder
<1>3. ASSUME Create
      PROVE  SetupOrder'
      BY <1>3, BoundsAssumption, DestsAssumption DEF Create, Types, SetupOrder, Fresh,
         Conns, Pumps, mainVars, pumpVars, netVars
<1>4. ASSUME MainDies
      PROVE  SetupOrder'
      BY <1>4, BoundsAssumption, DestsAssumption DEF MainDies, Types, SetupOrder, Fresh,
         Conns, Pumps, mainVars, pumpVars, netVars
<1>5. ASSUME Connect \/ ThreadFails
      PROVE  SetupOrder'
  <2>1. \A i \in Conns : Fresh(i)' => Fresh(i) /\ i # accepted
        BY <1>5, ServerUp, BoundsAssumption DEF Fresh, Conns
  <2>2. \A r \in qConn' : r[2] \in Conns /\ (r \in qConn \/ r[2] = accepted)
    <3>1. \A r \in qConn' : r \in qConn \/ r = <<connCount, accepted>>
          BY <1>5, ServerUp
    <3>2. \A r \in qConn : r[2] \in Conns
          BY DEF Types
    <3> QED BY <1>5, <3>1, <3>2, ServerUp
  <2> QED BY <1>5, <2>1, <2>2, ServerUp DEF SetupOrder
<1>6. ASSUME ConnectFails
      PROVE  SetupOrder'
  <2>1. accepted \in Conns
        BY <1>6 DEF ConnectFails, Types
  <2>2. \A i \in Conns : Fresh(i)' => Fresh(i) /\ i # accepted
        BY <1>6, <2>1, BoundsAssumption DEF ConnectFails, Fresh, Conns
  <2>3. /\ \A i \in Conns : i # accepted => done'[i] = done[i]
        /\ UNCHANGED <<dialled, qConn, pc>> /\ mainpc' # "connect"
        BY <1>6, <2>1 DEF ConnectFails, Types, pumpVars
  <2>4. \A r \in qConn : r[2] \in Conns
        BY DEF Types
  <2> QED BY <2>2, <2>3, <2>4 DEF SetupOrder
<1>7. ASSUME NEW p \in Pumps, Pump(p)
      PROVE  SetupOrder'
  <2>1. /\ UNCHANGED mainVars /\ pc[p] # "off"
        /\ \A q \in Pumps : pc'[q] # "off" => pc[q] # "off"
        /\ \A i \in Conns : i # p[1] => done'[i] = done[i]
        BY <1>7, PumpMoves
  <2>2. \A i \in Conns : Fresh(i) => i # p[1]
        BY <2>1 DEF SetupOrder
  <2> QED BY <2>1, <2>2 DEF SetupOrder, Fresh, mainVars
<1>8. ASSUME Net
      PROVE  SetupOrder'
      BY <1>8 DEF Net, PeerSends, PeerStops, SetupOrder, Fresh, mainVars, pumpVars
<1>9. ASSUME UNCHANGED vars
      PROVE  SetupOrder'
      BY <1>9, BoundsAssumption, DestsAssumption DEF vars, Types, SetupOrder, Fresh, Conns,
         Pumps, mainVars, pumpVars, netVars
<1>10. QED
      BY <1>1, <1>2, <1>3, <1>4, <1>5, <1>6, <1>7, <1>8, <1>9 DEF Next, Main

\* Only pumps that end, and a failed set-up, mark an instance.
LEMMA DoneByPumpStep ==
    ASSUME Types, SetupOrder, DoneByPump, [Next]_vars
    PROVE  DoneByPump'
<1>1. ASSUME CleanupProto
      PROVE  DoneByPump'
  <2>1. \A i \in Conns : closed'[i] => closed[i] \/ done[i]
        BY <1>1 DEF CleanupProto
  <2>2. UNCHANGED <<done, dialled, pc>>
        BY <1>1 DEF CleanupProto, pumpVars
  <2> QED BY <2>1, <2>2 DEF DoneByPump
<1>2. ASSUME Accept
      PROVE  DoneByPump'
  <2>1. UNCHANGED <<closed, done, dialled, pc>>
        BY <1>2 DEF Accept, pumpVars, netVars, mainVars
  <2> QED BY <2>1 DEF DoneByPump
<1>3. ASSUME Create
      PROVE  DoneByPump'
  <2>1. UNCHANGED <<closed, done, dialled, pc>>
        BY <1>3 DEF Create, pumpVars, netVars, mainVars
  <2> QED BY <2>1 DEF DoneByPump
<1>4. ASSUME MainDies
      PROVE  DoneByPump'
  <2>1. UNCHANGED <<closed, done, dialled, pc>>
        BY <1>4 DEF MainDies, pumpVars, netVars, mainVars
  <2> QED BY <2>1 DEF DoneByPump
<1>5. ASSUME Connect \/ ThreadFails
      PROVE  DoneByPump'
  <2>1. ~done[accepted]
        BY <1>5, ServerUp DEF SetupOrder
  <2>2. \A p \in Pumps : pc[p] = "over" => pc'[p] = "over"
        BY <1>5, ServerUp
  <2> QED BY <1>5, <2>1, <2>2, ServerUp DEF DoneByPump
<1>6. ASSUME ConnectFails
      PROVE  DoneByPump'
  <2>1. accepted \in Conns /\ Fresh(accepted)
        BY <1>6 DEF ConnectFails, Types, Fresh
  <2>2. dialled[accepted] = Unset
        BY <2>1 DEF SetupOrder
  <2>3. /\ \A i \in Conns : done'[i] <=> done[i] \/ i = accepted
        /\ UNCHANGED <<closed, dialled, pc>>
        BY <1>6, <2>1 DEF ConnectFails, Types, pumpVars
  <2> QED BY <2>2, <2>3 DEF DoneByPump
<1>7. ASSUME NEW p \in Pumps, Pump(p)
      PROVE  DoneByPump'
  <2>1. /\ UNCHANGED <<closed, dialled>> /\ pc[p] # "over"
        /\ \A q \in Pumps : q # p => pc'[q] = pc[q]
        /\ \A i \in Conns : done'[i] = done[i] \/ (done'[i] /\ i = p[1] /\ pc'[p] = "over")
        BY <1>7, PumpMoves DEF mainVars
  <2>2. ASSUME NEW i \in Conns
        PROVE  /\ closed'[i] => done'[i]
               /\ done'[i] => dialled'[i] = Unset \/ \E q \in Pumps : q[1] = i /\ pc'[q] = "over"
    <3>1. CASE done'[i] /\ i = p[1] /\ pc'[p] = "over"
          BY <3>1
    <3>2. CASE done'[i] = done[i]
          BY <2>1, <3>2 DEF DoneByPump
    <3> QED BY <2>1, <3>1, <3>2
  <2> QED BY <2>2 DEF DoneByPump
<1>8. ASSUME Net
      PROVE  DoneByPump'
      BY <1>8 DEF Net, PeerSends, PeerStops, DoneByPump, mainVars, pumpVars
<1>9. ASSUME UNCHANGED vars
      PROVE  DoneByPump'
  <2>1. UNCHANGED <<closed, done, dialled, pc>>
        BY <1>9 DEF vars, pumpVars, netVars, mainVars
  <2> QED BY <2>1 DEF DoneByPump
<1>10. QED
      BY <1>1, <1>2, <1>3, <1>4, <1>5, <1>6, <1>7, <1>8, <1>9 DEF Next, Main

\* A row is queued with the pumps of its connection, under a new number.
LEMMA ConnRowsStep ==
    ASSUME Types, SetupOrder, ConnRows, [Next]_vars
    PROVE  ConnRows'
<1>1. ASSUME CleanupProto
      PROVE  ConnRows'
      BY <1>1, BoundsAssumption, DestsAssumption DEF CleanupProto, Types, SetupOrder,
         ConnRows, Fresh, Conns, Pumps, mainVars, pumpVars, netVars
<1>2. ASSUME Accept
      PROVE  ConnRows'
      BY <1>2, BoundsAssumption, DestsAssumption DEF Accept, Types, SetupOrder, ConnRows,
         Fresh, Conns, Pumps, mainVars, pumpVars, netVars
<1>3. ASSUME Create
      PROVE  ConnRows'
      BY <1>3, BoundsAssumption, DestsAssumption DEF Create, Types, SetupOrder, ConnRows,
         Fresh, Conns, Pumps, mainVars, pumpVars, netVars
<1>4. ASSUME MainDies
      PROVE  ConnRows'
      BY <1>4, BoundsAssumption, DestsAssumption DEF MainDies, Types, SetupOrder, ConnRows,
         Fresh, Conns, Pumps, mainVars, pumpVars, netVars
<1>5. ASSUME Connect \/ ThreadFails
      PROVE  ConnRows'
  <2>1. \A r \in qConn : /\ r[1] \in Nat /\ r[1] < connCount
                          /\ r[2] \in Conns /\ r[2] # accepted
        BY <1>5, ServerUp DEF Types, SetupOrder, ConnRows
  <2>2. \A r \in qConn' : r \in qConn \/ (r = <<connCount, accepted>> /\ r \notin qConn)
        BY <1>5, <2>1, ServerUp
  <2>3. /\ mainpc' # "dead" => \A r \in qConn' : r[1] < connCount'
        /\ \A r \in qConn' : r[1] = conncount'[r[2]]
        BY <1>5, <2>1, <2>2, ServerUp DEF ConnRows
  <2>4. \A r, t \in qConn' : r # t => r[1] # t[1] /\ r[2] # t[2]
        BY <2>1, <2>2 DEF ConnRows
  <2>5. \A p \in Pumps : pc'[p] # "off" => \E r \in qConn' : r[2] = p[1]
    <3>1. <<connCount, accepted>> \in qConn' /\ <<connCount, accepted>>[2] = accepted
          BY <1>5, ServerUp
    <3>2. \A p \in Pumps : pc[p] # "off" => \E r \in qConn' : r[2] = p[1]
          BY <1>5, ServerUp DEF ConnRows
    <3> QED BY <1>5, <3>1, <3>2, ServerUp
  <2> QED BY <2>3, <2>4, <2>5 DEF ConnRows
<1>6. ASSUME ConnectFails
      PROVE  ConnRows'
      BY <1>6, BoundsAssumption, DestsAssumption DEF ConnectFails, Types, SetupOrder,
         ConnRows, Fresh, Conns, Pumps, mainVars, pumpVars, netVars
<1>7. ASSUME NEW p \in Pumps, Pump(p)
      PROVE  ConnRows'
  <2>1. /\ UNCHANGED <<mainpc, qConn, connCount, conncount>>
        /\ \A q \in Pumps : pc'[q] # "off" => pc[q] # "off"
        BY <1>7, PumpMoves DEF mainVars
  <2> QED BY <2>1 DEF ConnRows
<1>8. ASSUME Net
      PROVE  ConnRows'
      BY <1>8 DEF Net, PeerSends, PeerStops, ConnRows, mainVars, pumpVars
<1>9. ASSUME UNCHANGED vars
      PROVE  ConnRows'
      BY <1>9, BoundsAssumption, DestsAssumption DEF vars, Types, SetupOrder, ConnRows,
         Fresh, Conns, Pumps, mainVars, pumpVars, netVars
<1>10. QED
      BY <1>1, <1>2, <1>3, <1>4, <1>5, <1>6, <1>7, <1>8, <1>9 DEF Next, Main

\* A pump that ends marks its instance or has met an accident.
LEMMA LeakNeedsFaultStep ==
    ASSUME Types, SetupOrder, LeakNeedsFault, [Next]_vars
    PROVE  LeakNeedsFault'
<1>1. ASSUME UNCHANGED pumpVars, \A i \in Conns : done[i] => done'[i]
      PROVE  LeakNeedsFault'
  <2>1. \A p \in Pumps : p[1] \in Conns
        BY DEF Pumps
  <2> QED BY <1>1, <2>1 DEF LeakNeedsFault, pumpVars
<1>2. ASSUME Connect \/ ThreadFails
      PROVE  LeakNeedsFault'
  <2>1. UNCHANGED <<done, fault>> /\ \A p \in Pumps : pc'[p] = "over" => pc[p] = "over"
        BY <1>2, ServerUp
  <2> QED BY <2>1 DEF LeakNeedsFault
<1>13. ASSUME NEW p \in Pumps, ProcessRaises(p)
      PROVE  LeakNeedsFault'
      BY <1>13 DEF ProcessRaises, Goto, Fault, Types, LeakNeedsFault
<1>3. ASSUME NEW p \in Pumps, Start(p)
      PROVE  LeakNeedsFault'
      BY <1>3 DEF Start, Goto, Fault, Gone, Types, SetupOrder, LeakNeedsFault
<1>4. ASSUME NEW p \in Pumps, CallRecv(p)
      PROVE  LeakNeedsFault'
      BY <1>4 DEF CallRecv, Goto, Types, SetupOrder, LeakNeedsFault
<1>5. ASSUME NEW p \in Pumps, RecvError(p)
      PROVE  LeakNeedsFault'
  <2>1. p[1] \in Conns
        BY DEF Pumps
  <2>2. /\ done'[p[1]] /\ \A i \in Conns : done[i] => done'[i]
        /\ \A q \in Pumps : q # p => pc'[q] = pc[q]
        /\ UNCHANGED fault
        BY <1>5, <2>1 DEF RecvError, Goto, SetDone, Types
  <2>3. \A q \in Pumps : q[1] \in Conns
        BY DEF Pumps
  <2> QED BY <2>2, <2>3 DEF LeakNeedsFault
<1>6. ASSUME NEW p \in Pumps, RecvChunk(p)
      PROVE  LeakNeedsFault'
      BY <1>6 DEF RecvChunk, Goto, Types, SetupOrder, LeakNeedsFault
<1>7. ASSUME NEW p \in Pumps, RecvEof(p)
      PROVE  LeakNeedsFault'
  <2>1. \A q \in Pumps : q[1] \in Conns
        BY DEF Pumps
  <2>2. \A q \in Pumps : q # p => pc'[q] = pc[q]
        BY <1>7 DEF RecvEof, Goto, Types
  <2>3. CASE SetDone(p) /\ UNCHANGED fault
    <3>1. done'[p[1]] /\ \A i \in Conns : done[i] => done'[i]
          BY <2>1, <2>3 DEF SetDone, Types
    <3> QED BY <2>1, <2>2, <2>3, <3>1 DEF LeakNeedsFault
  <2>4. CASE Fault(p, "shutdown raised") /\ UNCHANGED done
    <3>1. /\ fault'[p] = "shutdown raised"
          /\ \A q \in Pumps : q # p => fault'[q] = fault[q]
          BY <2>4 DEF Fault, Types
    <3> QED BY <2>2, <2>4, <3>1 DEF LeakNeedsFault
  <2> QED BY <1>7, <2>3, <2>4 DEF RecvEof
<1>8. ASSUME NEW p \in Pumps, Send(p)
      PROVE  LeakNeedsFault'
      BY <1>8 DEF Send, Goto, Types, SetupOrder, LeakNeedsFault
<1>9. ASSUME NEW p \in Pumps, SendError(p)
      PROVE  LeakNeedsFault'
  <2>1. p[1] \in Conns
        BY DEF Pumps
  <2>2. /\ done'[p[1]] /\ \A i \in Conns : done[i] => done'[i]
        /\ \A q \in Pumps : q # p => pc'[q] = pc[q]
        /\ UNCHANGED fault
        BY <1>9, <2>1 DEF SendError, Goto, SetDone, Types
  <2>3. \A q \in Pumps : q[1] \in Conns
        BY DEF Pumps
  <2> QED BY <2>2, <2>3 DEF LeakNeedsFault
<1>10. ASSUME NEW p \in Pumps, Store(p)
      PROVE  LeakNeedsFault'
      BY <1>10 DEF Store, Goto, Fault, Types, SetupOrder, LeakNeedsFault
<1>11. CleanupProto \/ Accept \/ Create \/ MainDies \/ ConnectFails \/ Net \/ UNCHANGED vars
          => \A i \in Conns : done[i] => done'[i]
      BY DEF CleanupProto, Accept, Create, MainDies, ConnectFails, Net, PeerSends,
         PeerStops, vars, Types
<1> QED
      BY <1>1, <1>2, <1>3, <1>4, <1>5, <1>6, <1>7, <1>8, <1>9, <1>10, <1>11, <1>13,
         OthersLeavePumps DEF Next, Main, Pump

\* A pump sends the chunk it received before it receives another.
LEMMA RelayingStep ==
    ASSUME Types, SetupOrder, Relaying, [Next]_vars
    PROVE  Relaying'
<1>1. ASSUME UNCHANGED pumpVars
      PROVE  Relaying'
      BY <1>1 DEF Relaying, pumpVars
<1>2. ASSUME Connect \/ ThreadFails
      PROVE  Relaying'
      BY <1>2, ServerUp DEF Relaying
<1>12. ASSUME NEW p \in Pumps, ProcessRaises(p)
      PROVE  Relaying'
      BY <1>12 DEF ProcessRaises, Goto, Types, Relaying
<1>3. ASSUME NEW p \in Pumps, Start(p)
      PROVE  Relaying'
      BY <1>3 DEF Start, Goto, Fault, Gone, Types, SetupOrder, Relaying
<1>4. ASSUME NEW p \in Pumps, CallRecv(p)
      PROVE  Relaying'
      BY <1>4 DEF CallRecv, Goto, Types, SetupOrder, Relaying
<1>5. ASSUME NEW p \in Pumps, RecvError(p)
      PROVE  Relaying'
      BY <1>5 DEF RecvError, Goto, SetDone, Types, SetupOrder, Relaying
<1>6. ASSUME NEW p \in Pumps, RecvChunk(p)
      PROVE  Relaying'
      BY <1>6 DEF RecvChunk, Goto, Types, SetupOrder, Relaying
<1>7. ASSUME NEW p \in Pumps, RecvEof(p)
      PROVE  Relaying'
      BY <1>7 DEF RecvEof, Goto, SetDone, Fault, Types, SetupOrder, Relaying
<1>8. ASSUME NEW p \in Pumps, Send(p)
      PROVE  Relaying'
  <2> SUFFICES ASSUME NEW q \in Pumps
               PROVE  /\ pc'[q] = "send" => recvd'[q] = Len(out'[q]) + 1
                      /\ pc'[q] \notin {"send", "over"} => recvd'[q] = Len(out'[q])
      BY DEF Relaying
  <2>1. CASE q = p
    <3>1. recvd[p] = Len(out[p]) + 1 /\ pc'[p] \in {"store", "store empty"}
          BY <1>8 DEF Send, Goto, Types, Relaying
    <3>2. out'[p] = Append(out[p], <<p, recvd[p]>>) /\ out[p] \in Seq(Pumps \X Nat)
          BY <1>8 DEF Send, Types
    <3>3. Len(out'[p]) = Len(out[p]) + 1
          BY <3>2
    <3> QED BY <1>8, <2>1, <3>1, <3>3 DEF Send
  <2>2. CASE q # p
    <3>1. pc'[q] = pc[q] /\ out'[q] = out[q] /\ recvd'[q] = recvd[q]
          BY <1>8, <2>2 DEF Send, Goto, Types
    <3> QED BY <3>1 DEF Relaying
  <2> QED BY <2>1, <2>2
<1>9. ASSUME NEW p \in Pumps, SendError(p)
      PROVE  Relaying'
      BY <1>9 DEF SendError, Goto, SetDone, Types, SetupOrder, Relaying
<1>10. ASSUME NEW p \in Pumps, Store(p)
      PROVE  Relaying'
      BY <1>10 DEF Store, Goto, Fault, Types, SetupOrder, Relaying
<1> QED
      BY <1>1, <1>2, <1>3, <1>4, <1>5, <1>6, <1>7, <1>8, <1>9, <1>10, <1>12,
         OthersLeavePumps DEF Next, Main, Pump

\* A pump queues one row for each chunk it sent.
LEMMA CountedStep ==
    ASSUME Types, SetupOrder, Counted, [Next]_vars
    PROVE  Counted'
<1>1. ASSUME UNCHANGED pumpVars
      PROVE  Counted'
      BY <1>1 DEF Counted, pumpVars
<1>2. ASSUME Connect \/ ThreadFails
      PROVE  Counted'
      BY <1>2, ServerUp DEF Counted
<1>12. ASSUME NEW p \in Pumps, ProcessRaises(p)
      PROVE  Counted'
  <2>1. UNCHANGED <<msgCnt, out, qFlow>>
        BY <1>12 DEF ProcessRaises
  <2>2. \A q \in Pumps : /\ pc'[q] \in {"store", "store empty"} <=> pc[q] \in {"store", "store empty"}
                         /\ pc'[q] = "off" => pc[q] = "off"
        BY <1>12 DEF ProcessRaises, Goto, Types
  <2> QED BY <2>1, <2>2 DEF Counted
<1>3. ASSUME NEW p \in Pumps, Start(p)
      PROVE  Counted'
  <2>1. UNCHANGED <<msgCnt, out, qFlow>>
        BY <1>3 DEF Start
  <2>2. \A q \in Pumps : /\ pc'[q] \in {"store", "store empty"} <=> pc[q] \in {"store", "store empty"}
                         /\ pc'[q] = "off" => pc[q] = "off"
        BY <1>3 DEF Start, Goto, Fault, Gone, Types, Places
  <2> QED BY <2>1, <2>2 DEF Counted
<1>4. ASSUME NEW p \in Pumps, CallRecv(p)
      PROVE  Counted'
  <2>1. UNCHANGED <<msgCnt, out, qFlow>>
        BY <1>4 DEF CallRecv
  <2>2. \A q \in Pumps : /\ pc'[q] \in {"store", "store empty"} <=> pc[q] \in {"store", "store empty"}
                         /\ pc'[q] = "off" => pc[q] = "off"
        BY <1>4 DEF CallRecv, Goto, Types
  <2> QED BY <2>1, <2>2 DEF Counted
<1>5. ASSUME NEW p \in Pumps, RecvError(p)
      PROVE  Counted'
  <2>1. UNCHANGED <<msgCnt, out, qFlow>>
        BY <1>5 DEF RecvError
  <2>2. \A q \in Pumps : /\ pc'[q] \in {"store", "store empty"} <=> pc[q] \in {"store", "store empty"}
                         /\ pc'[q] = "off" => pc[q] = "off"
        BY <1>5 DEF RecvError, Goto, SetDone, Types
  <2> QED BY <2>1, <2>2 DEF Counted
<1>6. ASSUME NEW p \in Pumps, RecvChunk(p)
      PROVE  Counted'
  <2>1. UNCHANGED <<msgCnt, out, qFlow>>
        BY <1>6 DEF RecvChunk
  <2>2. \A q \in Pumps : /\ pc'[q] \in {"store", "store empty"} <=> pc[q] \in {"store", "store empty"}
                         /\ pc'[q] = "off" => pc[q] = "off"
        BY <1>6 DEF RecvChunk, Goto, Types
  <2> QED BY <2>1, <2>2 DEF Counted
<1>7. ASSUME NEW p \in Pumps, RecvEof(p)
      PROVE  Counted'
  <2>1. UNCHANGED <<msgCnt, out, qFlow>>
        BY <1>7 DEF RecvEof
  <2>2. \A q \in Pumps : /\ pc'[q] \in {"store", "store empty"} <=> pc[q] \in {"store", "store empty"}
                         /\ pc'[q] = "off" => pc[q] = "off"
        BY <1>7 DEF RecvEof, Goto, SetDone, Fault, Types
  <2> QED BY <2>1, <2>2 DEF Counted
<1>8. ASSUME NEW p \in Pumps, Send(p)
      PROVE  Counted'
  <2> SUFFICES ASSUME NEW q \in Pumps
               PROVE  /\ msgCnt'[q] = Len(qFlow'[q])
                      /\ pc'[q] \in {"store", "store empty"} => Len(out'[q]) = Len(qFlow'[q]) + 1
                      /\ pc'[q] \notin {"store", "store empty"} => Len(out'[q]) = Len(qFlow'[q])
                      /\ pc'[q] = "off" => qFlow'[q] = <<>>
      BY DEF Counted
  <2>1. CASE q = p
    <3>1. Len(out[p]) = Len(qFlow[p]) /\ msgCnt[p] = Len(qFlow[p])
          BY <1>8 DEF Send, Counted
    <3>2. out'[p] = Append(out[p], <<p, recvd[p]>>) /\ out[p] \in Seq(Pumps \X Nat)
          BY <1>8 DEF Send, Types
    <3>3. Len(out'[p]) = Len(out[p]) + 1
          BY <3>2
    <3>4. pc'[p] \in {"store", "store empty"} /\ UNCHANGED <<qFlow, msgCnt>>
          BY <1>8 DEF Send, Goto, Types
    <3> QED BY <2>1, <3>1, <3>3, <3>4
  <2>2. CASE q # p
    <3>1. /\ pc'[q] = pc[q] /\ out'[q] = out[q]
          /\ qFlow'[q] = qFlow[q] /\ msgCnt'[q] = msgCnt[q]
          BY <1>8, <2>2 DEF Send, Goto, Types
    <3> QED BY <3>1 DEF Counted
  <2> QED BY <2>1, <2>2
<1>9. ASSUME NEW p \in Pumps, SendError(p)
      PROVE  Counted'
  <2>1. UNCHANGED <<msgCnt, out, qFlow>>
        BY <1>9 DEF SendError
  <2>2. \A q \in Pumps : /\ pc'[q] \in {"store", "store empty"} <=> pc[q] \in {"store", "store empty"}
                         /\ pc'[q] = "off" => pc[q] = "off"
        BY <1>9 DEF SendError, Goto, SetDone, Types
  <2> QED BY <2>1, <2>2 DEF Counted
<1>10. ASSUME NEW p \in Pumps, Store(p)
      PROVE  Counted'
  <2> SUFFICES ASSUME NEW q \in Pumps
               PROVE  /\ msgCnt'[q] = Len(qFlow'[q])
                      /\ pc'[q] \in {"store", "store empty"} => Len(out'[q]) = Len(qFlow'[q]) + 1
                      /\ pc'[q] \notin {"store", "store empty"} => Len(out'[q]) = Len(qFlow'[q])
                      /\ pc'[q] = "off" => qFlow'[q] = <<>>
      BY DEF Counted
  <2>1. CASE q = p
    <3>1. Len(out[p]) = Len(qFlow[p]) + 1 /\ msgCnt[p] = Len(qFlow[p])
          BY <1>10 DEF Store, Counted
    <3>2. /\ qFlow'[p] = Append(qFlow[p], FlowRow(p))
          /\ qFlow[p] \in Seq(Nat \X Nat \X Nat)
          BY <1>10 DEF Store, Types
    <3>3. Len(qFlow'[p]) = Len(qFlow[p]) + 1
          BY <3>2
    <3>4. /\ pc'[p] \in {"loop", "over"} /\ UNCHANGED out
          /\ msgCnt'[p] = msgCnt[p] + 1
          BY <1>10 DEF Store, Goto, Types
    <3> QED BY <2>1, <3>1, <3>3, <3>4
  <2>2. CASE q # p
    <3>1. /\ pc'[q] = pc[q] /\ out'[q] = out[q]
          /\ qFlow'[q] = qFlow[q] /\ msgCnt'[q] = msgCnt[q]
          BY <1>10, <2>2 DEF Store, Goto, Types
    <3> QED BY <3>1 DEF Counted
  <2> QED BY <2>1, <2>2
<1> QED
      BY <1>1, <1>2, <1>3, <1>4, <1>5, <1>6, <1>7, <1>8, <1>9, <1>10, <1>12,
         OthersLeavePumps DEF Next, Main, Pump

\* The chunk sent, and the row queued, is the one after the last.
LEMMA NumberedStep ==
    ASSUME Types, SetupOrder, Relaying, Counted, Numbered, [Next]_vars
    PROVE  Numbered'
<1>1. ASSUME UNCHANGED <<pumpVars, conncount>>
      PROVE  Numbered'
      BY <1>1 DEF Numbered, pumpVars
<1>2. ASSUME Connect \/ ThreadFails
      PROVE  Numbered'
  <2>1. \A p \in Pumps : p[1] = accepted => qFlow[p] = <<>>
        BY <1>2, ServerUp DEF Counted, SetupOrder
  <2>2. ASSUME NEW p \in Pumps, NEW n \in 1 .. Len(qFlow[p])
        PROVE  qFlow[p][n] = <<conncount'[p[1]], n - 1, n>>
    <3>1. p[1] # accepted
          BY <2>1
    <3> QED BY <1>2, <3>1, ServerUp DEF Numbered
  <2>3. UNCHANGED <<out, qFlow>>
        BY <1>2, ServerUp
  <2> QED BY <2>2, <2>3 DEF Numbered
<1>12. ASSUME NEW p \in Pumps, ProcessRaises(p)
      PROVE  Numbered'
      BY <1>12 DEF ProcessRaises, Numbered, mainVars
<1>3. ASSUME NEW p \in Pumps, Start(p)
      PROVE  Numbered'
      BY <1>3 DEF Start, Numbered, mainVars
<1>4. ASSUME NEW p \in Pumps, CallRecv(p)
      PROVE  Numbered'
      BY <1>4 DEF CallRecv, Numbered, mainVars
<1>5. ASSUME NEW p \in Pumps, RecvError(p)
      PROVE  Numbered'
      BY <1>5 DEF RecvError, Numbered, mainVars
<1>6. ASSUME NEW p \in Pumps, RecvChunk(p)
      PROVE  Numbered'
      BY <1>6 DEF RecvChunk, Numbered, mainVars
<1>7. ASSUME NEW p \in Pumps, RecvEof(p)
      PROVE  Numbered'
      BY <1>7 DEF RecvEof, Numbered, mainVars
<1>8. ASSUME NEW p \in Pumps, Send(p)
      PROVE  Numbered'
  <2> SUFFICES ASSUME NEW q \in Pumps
               PROVE  /\ \A n \in 1 .. Len(out'[q]) : out'[q][n] = <<q, n>>
                      /\ \A n \in 1 .. Len(qFlow'[q]) : qFlow'[q][n] = <<conncount'[q[1]], n - 1, n>>
      BY DEF Numbered
  <2>0. conncount' = conncount
        BY <1>8 DEF Send, mainVars
  <2>1. CASE q = p
    <3> out[p] \in Seq(Pumps \X Nat)
        BY DEF Types
    <3>1. out[p] \in Seq(Pumps \X Nat) /\ Len(out[p]) \in Nat
          OBVIOUS
    <3>2. recvd[p] = Len(out[p]) + 1
          BY <1>8 DEF Send, Relaying
    <3>3. out'[p] = Append(out[p], <<p, Len(out[p]) + 1>>)
          BY <1>8, <3>2 DEF Send, Types
    <3>4. ASSUME NEW n \in 1 .. Len(out'[p])
          PROVE  out'[p][n] = <<p, n>>
      <4>1. \/ n = Len(out[p]) + 1 /\ out'[p][n] = <<p, Len(out[p]) + 1>>
            \/ n \in 1 .. Len(out[p]) /\ out'[p][n] = out[p][n]
            BY <3>1, <3>3
      <4> QED BY <4>1 DEF Numbered
    <3> QED BY <1>8, <2>0, <2>1, <3>4 DEF Send, Numbered
  <2>2. CASE q # p
    <3>1. out'[q] = out[q] /\ qFlow'[q] = qFlow[q]
          BY <1>8, <2>2 DEF Send, Types
    <3> QED BY <2>0, <3>1 DEF Numbered
  <2> QED BY <2>1, <2>2
<1>9. ASSUME NEW p \in Pumps, SendError(p)
      PROVE  Numbered'
      BY <1>9 DEF SendError, Numbered, mainVars
<1>10. ASSUME NEW p \in Pumps, Store(p)
      PROVE  Numbered'
  <2> SUFFICES ASSUME NEW q \in Pumps
               PROVE  /\ \A n \in 1 .. Len(out'[q]) : out'[q][n] = <<q, n>>
                      /\ \A n \in 1 .. Len(qFlow'[q]) : qFlow'[q][n] = <<conncount'[q[1]], n - 1, n>>
      BY DEF Numbered
  <2>0. conncount' = conncount
        BY <1>10 DEF Store, mainVars
  <2>1. CASE q = p
    <3> qFlow[p] \in Seq(Nat \X Nat \X Nat)
        BY DEF Types
    <3>1. qFlow[p] \in Seq(Nat \X Nat \X Nat) /\ Len(qFlow[p]) \in Nat
          OBVIOUS
    <3>2. recvd[p] = Len(out[p])
          BY <1>10 DEF Store, Relaying
    <3>3. msgCnt[p] = Len(qFlow[p]) /\ recvd[p] = Len(qFlow[p]) + 1
          BY <1>10, <3>2 DEF Store, Counted
    <3>4. qFlow'[p] = Append(qFlow[p], <<conncount[p[1]], Len(qFlow[p]), Len(qFlow[p]) + 1>>)
          BY <1>10, <3>3 DEF Store, FlowRow, Types
    <3>5. ASSUME NEW n \in 1 .. Len(qFlow'[p])
          PROVE  qFlow'[p][n] = <<conncount[p[1]], n - 1, n>>
      <4>1. \/ n = Len(qFlow[p]) + 1 /\ qFlow'[p][n] = <<conncount[p[1]], Len(qFlow[p]), Len(qFlow[p]) + 1>>
            \/ n \in 1 .. Len(qFlow[p]) /\ qFlow'[p][n] = qFlow[p][n]
            BY <3>1, <3>4
      <4>2. CASE n = Len(qFlow[p]) + 1
            BY <3>1, <4>1, <4>2
      <4>3. CASE n # Len(qFlow[p]) + 1
            BY <4>1, <4>3 DEF Numbered
      <4> QED BY <4>2, <4>3
    <3> QED BY <1>10, <2>0, <2>1, <3>5 DEF Store, Numbered
  <2>2. CASE q # p
    <3>1. out'[q] = out[q] /\ qFlow'[q] = qFlow[q]
          BY <1>10, <2>2 DEF Store, Types
    <3> QED BY <2>0, <3>1 DEF Numbered
  <2> QED BY <2>1, <2>2
<1>11. ASSUME CleanupProto \/ Accept \/ Create \/ MainDies \/ ConnectFails \/ Net
             \/ UNCHANGED vars
      PROVE  Numbered'
      BY <1>1, <1>11, OthersLeavePumps DEF CleanupProto, Accept, Create, MainDies,
         ConnectFails, Net, PeerSends, PeerStops, vars, mainVars
<1> QED
      BY <1>1, <1>2, <1>3, <1>4, <1>5, <1>6, <1>7, <1>8, <1>9, <1>10, <1>11, <1>12
         DEF Next, Main, Pump

\* The invariant holds at the start.
LEMMA InvInit ==
    ASSUME Init
    PROVE  Inv
<1>1. Types
      BY BoundsAssumption, DestsAssumption DEF Init, Types, Places, Faults
<1>2. SetupOrder /\ DoneByPump /\ LeakNeedsFault
      BY DEF Init, SetupOrder, DoneByPump, LeakNeedsFault, Fresh
<1>3. ConnRows
      BY DEF Init, ConnRows
<1>4. Relaying /\ Counted /\ Numbered
      BY DEF Init, Relaying, Counted, Numbered
<1>5. QED
      BY <1>1, <1>2, <1>3, <1>4 DEF Inv

\* Every step keeps it.
LEMMA InvStep ==
    ASSUME Inv, [Next]_vars
    PROVE  Inv'
BY TypesStep, SetupOrderStep, DoneByPumpStep, LeakNeedsFaultStep, ConnRowsStep,
   RelayingStep, CountedStep, NumberedStep DEF Inv

\* All of it together is inductive: every action keeps it, part by part.
THEOREM Invariance == Spec => []Inv
BY InvInit, InvStep, PTL DEF Spec

\* mallory.py:266-286: the accept loop never closes the sockets of a connection
\* both of whose directions are still being relayed.
THEOREM StreamsStayOpen == Spec => []LiveStreamsStayOpen
<1>1. Inv => LiveStreamsStayOpen
  <2> SUFFICES ASSUME Inv, NEW i \in Conns, closed[i], dialled[i] # Unset
               PROVE  \E p \in Pumps : p[1] = i /\ pc[p] = "over"
      BY DEF LiveStreamsStayOpen
  <2> QED BY DEF Inv, DoneByPump
<1>2. QED
      BY <1>1, Invariance, PTL

\* base.py:525-595: an instance that is never marked as done, and so never closed,
\* met one of the four accidents.
THEOREM LeaksExplained == Spec => []LeakNeedsFault
BY Invariance, PTL DEF Inv

\* base.py:572 and mallory.py:480: the rows queued for a direction are those of the
\* chunks it sent, numbered from zero, and belong to one row of a connection.
THEOREM FlowRowsRight == Spec => []FlowRows
<1>1. Inv => FlowRows
  <2> SUFFICES ASSUME Inv, NEW p \in Pumps
               PROVE  /\ Len(qFlow[p]) \in {Len(out[p]), Len(out[p]) - 1}
                      /\ \A n \in DOMAIN qFlow[p] :
                            qFlow[p][n][2] = n - 1 /\ qFlow[p][n][3] = out[p][n][2]
                      /\ qFlow[p] # <<>> =>
                           \E row \in qConn :
                               /\ row[2] = p[1]
                               /\ \A n \in DOMAIN qFlow[p] : qFlow[p][n][1] = row[1]
                               /\ \A r \in qConn \ {row} : r[1] # row[1] /\ r[2] # row[2]
      BY DEF FlowRows
  <2>1. out[p] \in Seq(Pumps \X Nat) /\ qFlow[p] \in Seq(Nat \X Nat \X Nat)
        BY DEF Inv, Types
  <2>2. Len(out[p]) \in Nat /\ Len(qFlow[p]) \in Nat /\ DOMAIN qFlow[p] = 1 .. Len(qFlow[p])
        BY <2>1
  <2>3. Len(qFlow[p]) = Len(out[p]) \/ Len(out[p]) = Len(qFlow[p]) + 1
        BY DEF Inv, Counted
  <2>4. ASSUME NEW n \in DOMAIN qFlow[p]
        PROVE  qFlow[p][n][2] = n - 1 /\ qFlow[p][n][3] = out[p][n][2]
    <3>1. n \in 1 .. Len(qFlow[p]) /\ n \in 1 .. Len(out[p])
          BY <2>2, <2>3
    <3>2. qFlow[p][n] = <<conncount[p[1]], n - 1, n>> /\ out[p][n] = <<p, n>>
          BY <3>1 DEF Inv, Numbered
    <3> QED BY <3>2
  <2>5. ASSUME qFlow[p] # <<>>
        PROVE  \E row \in qConn :
                   /\ row[2] = p[1]
                   /\ \A n \in DOMAIN qFlow[p] : qFlow[p][n][1] = row[1]
                   /\ \A r \in qConn \ {row} : r[1] # row[1] /\ r[2] # row[2]
    <3>1. pc[p] # "off"
          BY <2>5 DEF Inv, Counted
    <3>2. PICK row \in qConn : row[2] = p[1]
          BY <3>1 DEF Inv, ConnRows
    <3>3. \A n \in DOMAIN qFlow[p] : qFlow[p][n][1] = row[1]
      <4>1. row[1] = conncount[p[1]]
            BY <3>2 DEF Inv, ConnRows
      <4>2. \A n \in 1 .. Len(qFlow[p]) : qFlow[p][n] = <<conncount[p[1]], n - 1, n>>
            BY DEF Inv, Numbered
      <4> QED BY <2>2, <4>1, <4>2
    <3> QED BY <3>2, <3>3 DEF Inv, ConnRows
  <2> QED BY <2>2, <2>3, <2>4, <2>5
<1>2. QED
      BY <1>1, Invariance, PTL

\* Every step of the pumps and of everybody else is one of the abstract relay, or
\* leaves it alone.
LEMMA RelayStep ==
    ASSUME Inv, [Next]_vars
    PROVE  [Relay!Next]_(Relay!vars)
<1>1. ASSUME CleanupProto
      PROVE  UNCHANGED Relay!vars
      BY <1>1 DEF CleanupProto, Relay!vars, mainVars, pumpVars, netVars
<1>2. ASSUME Accept
      PROVE  UNCHANGED Relay!vars
      BY <1>2 DEF Accept, Relay!vars, mainVars, pumpVars, netVars
<1>3. ASSUME Create
      PROVE  UNCHANGED Relay!vars
      BY <1>3 DEF Create, Relay!vars, mainVars, pumpVars, netVars
<1>4. ASSUME MainDies
      PROVE  UNCHANGED Relay!vars
      BY <1>4 DEF MainDies, Relay!vars, mainVars, pumpVars, netVars
<1>5. ASSUME Connect \/ ThreadFails
      PROVE  UNCHANGED Relay!vars
      BY <1>5 DEF Connect, ThreadFails, ServerAnswers, Relay!vars
<1>6. ASSUME ConnectFails
      PROVE  UNCHANGED Relay!vars
      BY <1>6 DEF ConnectFails, Relay!vars, mainVars, pumpVars, netVars
<1>7. ASSUME NEW p \in Pumps, Start(p)
      PROVE  UNCHANGED Relay!vars
      BY <1>7 DEF Start, Relay!vars, mainVars, pumpVars, netVars
<1>8. ASSUME NEW p \in Pumps, CallRecv(p)
      PROVE  UNCHANGED Relay!vars
      BY <1>8 DEF CallRecv, Relay!vars, mainVars, pumpVars, netVars
<1>9. ASSUME NEW p \in Pumps, RecvError(p)
      PROVE  UNCHANGED Relay!vars
      BY <1>9 DEF RecvError, Relay!vars, mainVars, pumpVars, netVars
<1>10. ASSUME NEW p \in Pumps, RecvEof(p)
      PROVE  UNCHANGED Relay!vars
      BY <1>10 DEF RecvEof, Relay!vars, mainVars, pumpVars, netVars
<1>11. ASSUME NEW p \in Pumps, SendError(p)
      PROVE  UNCHANGED Relay!vars
      BY <1>11 DEF SendError, Relay!vars, mainVars, pumpVars, netVars
<1>12. ASSUME NEW p \in Pumps, Store(p)
      PROVE  UNCHANGED Relay!vars
      BY <1>12 DEF Store, Relay!vars, mainVars, pumpVars, netVars
<1>19. ASSUME NEW p \in Pumps, ProcessRaises(p)
      PROVE  UNCHANGED Relay!vars
      BY <1>19 DEF ProcessRaises, Relay!vars
<1>13. ASSUME NEW p \in Pumps, PeerSends(p)
      PROVE  UNCHANGED Relay!vars
      BY <1>13 DEF PeerSends, Relay!vars, mainVars, pumpVars, netVars
<1>14. ASSUME NEW e \in Peers, PeerStops(e)
      PROVE  UNCHANGED Relay!vars
      BY <1>14 DEF PeerStops, Relay!vars, mainVars, pumpVars, netVars
<1>15. ASSUME UNCHANGED vars
      PROVE  UNCHANGED Relay!vars
      BY <1>15 DEF vars, Relay!vars, mainVars, pumpVars, netVars
<1>16. ASSUME NEW p \in Pumps, RecvChunk(p)
      PROVE  Relay!Next
  <2>1. Len(out[p]) = recvd[p]
        BY <1>16 DEF RecvChunk, Inv, Relaying
  <2>2. Relay!Take(p)
        BY <1>16, <2>1 DEF RecvChunk, Relay!Take
  <2> QED BY <2>2 DEF Relay!Next
<1>17. ASSUME NEW p \in Pumps, Send(p)
      PROVE  Relay!Next
  <2> out[p] \in Seq(Pumps \X Nat)
      BY DEF Inv, Types
  <2>1. recvd[p] = Len(out[p]) + 1 /\ Len(out[p]) \in Nat
    <3>1. pc[p] = "send"
          BY <1>17 DEF Send
    <3>2. recvd[p] = Len(out[p]) + 1
          BY <3>1 DEF Inv, Relaying
    <3> QED BY <3>2
  <2>2. Len(out[p]) < recvd[p]
        BY <2>1
  <2>3. Relay!Give(p)
        BY <1>17, <2>2 DEF Send, Relay!Give
  <2> QED BY <2>3 DEF Relay!Next
<1> QED
      BY <1>1, <1>2, <1>3, <1>4, <1>5, <1>6, <1>7, <1>8, <1>9, <1>10, <1>11, <1>12, <1>13,
         <1>14, <1>15, <1>16, <1>17, <1>19 DEF Next, Main, Pump, Net

\* base.py:525-597: each direction of every connection implements the abstract relay,
\* whatever the accept loop, the other direction and the peers do.
THEOREM PumpsRelay == Spec => RelaySpec
<1>1. Init => Relay!Init
      BY DEF Init, Relay!Init
<1>2. QED
      BY <1>1, RelayStep, Invariance, PTL DEF Spec, RelaySpec, Relay!Spec

=============================================================================
