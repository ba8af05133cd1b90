------------------------ MODULE StreamDebugger_proofs ------------------------
(***************************************************************************)
(* Theorems about StreamDebugger, for every set of connections, every      *)
(* number of chunks and every number of times an event is returned.        *)
(***************************************************************************)
EXTENDS StreamDebugger, SequenceTheorems, TLAPS

\* Where a pump holds a chunk it has not sent on yet.
Holding == {"test", "notify", "register", "poll", "got", "send"}

\* The chunk a pump holds is the last one received, and all the ones before it
\* have gone out; a pump between two chunks has sent all it received; pumps are
\* off until both are started.
Progress ==
    \A p \in Pumps :
        /\ pc[p] \in Holding => nmsg[p] = Len(out[p]) + 1 /\ held[p] \in Bytes
        /\ pc[p] \in {"off", "recv"} => nmsg[p] = Len(out[p])
        /\ phase[p[1]] # "running" => pc[p] = "off"

\* A pump waits for an event of its own, made for a chunk already received.
OwnWait ==
    \A p \in Pumps : waitfor[p] # NoEvent =>
        waitfor[p][1] = p /\ waitfor[p][2] <= nmsg[p]

\* So do the replies it has been given come from its own stream.
OwnReplies ==
    \A p \in Pumps : \A k \in 1 .. Len(debugqs[p]) :
        debugqs[p][k].of[1] = p /\ debugqs[p][k].of[2] <= nmsg[p]

\* And so do the bytes it is about to send.
OwnHeld ==
    \A p \in Pumps : pc[p] \in Holding =>
        held[p].of[1] = p /\ held[p].of[2] <= nmsg[p]

\* The inductive invariant behind OwnBytes.
OwnInv == TypeOK /\ Progress /\ OwnWait /\ OwnReplies /\ OwnHeld /\ OwnBytes

-----------------------------------------------------------------------------

\* The event of the chunk a pump holds is one there can be.
LEMMA EventType ==
    ASSUME TypeOK, Progress, NEW p \in Pumps, pc[p] \in Holding
    PROVE  cur(p) \in Event
BY BoundsAssumption DEF TypeOK, Progress, Holding, cur, Event

\* The chunk recv returns is one of those the pump may still receive.
LEMMA RecvType ==
    ASSUME TypeOK, NEW p \in Pumps, Recv(p)
    PROVE  /\ nmsg[p] + 1 \in 1 .. MaxMsgs
           /\ [of |-> <<p, nmsg[p] + 1>>, text |-> "as is"] \in Bytes
<1>1. nmsg[p] < MaxMsgs
      BY DEF Recv
<1>2. nmsg[p] + 1 \in 1 .. MaxMsgs
      BY <1>1, BoundsAssumption DEF TypeOK
<1>3. <<p, nmsg[p] + 1>> \in Event
      BY <1>2 DEF Event
<1> QED
      BY <1>2, <1>3, TextsAssumption DEF Bytes

\* An event is named by a pump and the number of one of its chunks.
LEMMA EventNumber ==
    ASSUME NEW e \in Event
    PROVE  e[2] \in Nat
BY BoundsAssumption DEF Event

\* The observer whose turn it is is one of the instances.
LEMMA ObserverType ==
    ASSUME TypeOK, Visit
    PROVE  Observer \in Conns
BY DEF TypeOK, Visit, Observer

\* TypeOK and Progress carry each other through every step.
LEMMA TypeStep ==
    ASSUME TypeOK, Progress, [Next]_vars
    PROVE  TypeOK' /\ Progress'
<1>1. ASSUME NEW c \in Conns, CopyFlag(c)
      PROVE  TypeOK' /\ Progress'
  <2>1. TypeOK'
        BY <1>1 DEF CopyFlag, TypeOK, pumpVars, rpcVars, guiVars
  <2>2. Progress'
        BY <1>1 DEF CopyFlag, TypeOK, Progress, pumpVars
  <2> QED BY <2>1, <2>2
<1>2. ASSUME NEW c \in Conns, Attach(c)
      PROVE  TypeOK' /\ Progress'
  <2>1. TypeOK'
        BY <1>2 DEF Attach, TypeOK, pumpVars, rpcVars, guiVars
  <2>2. Progress'
        BY <1>2 DEF Attach, TypeOK, Progress, pumpVars
  <2> QED BY <2>1, <2>2
<1>3. ASSUME NEW c \in Conns, StartPumps(c)
      PROVE  TypeOK' /\ Progress'
  <2>1. TypeOK'
        BY <1>3 DEF StartPumps, TypeOK, rpcVars, guiVars
  <2>2. Progress'
        BY <1>3 DEF StartPumps, TypeOK, Progress, Holding, Pumps, Dirs
  <2> QED BY <2>1, <2>2
<1>4. ASSUME NEW p \in Pumps, Recv(p)
      PROVE  TypeOK' /\ Progress'
  <2>1. TypeOK'
    <3>1. held' \in [Pumps -> Bytes \cup {NoEvent}]
          BY <1>4, RecvType DEF Recv, TypeOK
    <3>2. /\ nmsg' = [nmsg EXCEPT ![p] = @ + 1]
          /\ nmsg[p] < MaxMsgs
          BY <1>4 DEF Recv
    <3>3. nmsg' \in [Pumps -> 0 .. MaxMsgs]
          BY <3>2, BoundsAssumption DEF TypeOK
    <3>4. pc' \in [Pumps -> {"off", "recv", "test", "notify", "register",
                             "poll", "got", "send", "ended", "dead"}]
          BY <1>4 DEF Recv, Goto, TypeOK
    <3> QED
          BY <1>4, <3>1, <3>3, <3>4
          DEF TypeOK, Recv, acceptVars, guiVars, rpcVars
  <2>2. ASSUME NEW q \in Pumps
        PROVE  /\ pc'[q] \in Holding => nmsg'[q] = Len(out'[q]) + 1 /\ held'[q] \in Bytes
               /\ pc'[q] \in {"off", "recv"} => nmsg'[q] = Len(out'[q])
               /\ phase'[q[1]] # "running" => pc'[q] = "off"
    <3>1. phase' = phase /\ out' = out /\ pc[p] = "recv" /\ phase[p[1]] = "running"
          BY <1>4 DEF Recv, acceptVars, Progress
    <3>2. CASE q # p
      <4>1. pc'[q] = pc[q] /\ nmsg'[q] = nmsg[q] /\ held'[q] = held[q]
            BY <1>4, <3>2 DEF Recv, Goto, TypeOK
      <4> QED BY <3>1, <4>1 DEF Progress
    <3>3. CASE q = p
      <4>1. pc'[p] \in {"test", "send"}
            BY <1>4 DEF Recv, Goto, TypeOK
      <4>2. nmsg'[p] = nmsg[p] + 1 /\ nmsg[p] = Len(out[p])
            BY <1>4, <3>1 DEF Recv, TypeOK, Progress
      <4>3. held'[p] = [of |-> <<p, nmsg[p] + 1>>, text |-> "as is"]
            BY <1>4 DEF Recv, TypeOK
      <4>4. held'[p] \in Bytes
            BY <1>4, <4>3, RecvType DEF Recv
      <4> QED BY <3>1, <3>3, <4>1, <4>2, <4>4
    <3> QED BY <3>2, <3>3
  <2>3. Progress'
        BY <2>2 DEF Progress
  <2> QED BY <2>1, <2>3
<1>5. ASSUME NEW p \in Pumps, RecvEnds(p)
      PROVE  TypeOK' /\ Progress'
  <2>1. TypeOK'
        BY <1>5 DEF RecvEnds, Goto, TypeOK, acceptVars, rpcVars, guiVars
  <2>2. Progress'
        BY <1>5 DEF RecvEnds, Goto, Progress, acceptVars, TypeOK, Holding
  <2> QED BY <2>1, <2>2
<1>6. ASSUME NEW p \in Pumps, TestFlag(p)
      PROVE  TypeOK' /\ Progress'
  <2>1. TypeOK'
        BY <1>6 DEF TestFlag, Goto, TypeOK, acceptVars, rpcVars, guiVars
  <2>2. Progress'
        BY <1>6 DEF TestFlag, Goto, Progress, acceptVars, TypeOK, Holding
  <2> QED BY <2>1, <2>2
<1>7. ASSUME NEW p \in Pumps, Notify(p)
      PROVE  TypeOK' /\ Progress'
  <2>1. TypeOK'
        BY <1>7 DEF Notify, Goto, TypeOK, acceptVars, rpcVars, guiVars
  <2>2. Progress'
        BY <1>7 DEF Notify, Goto, Progress, acceptVars, TypeOK, Holding
  <2> QED BY <2>1, <2>2
<1>8. ASSUME NEW p \in Pumps, PeerGone(p)
      PROVE  TypeOK' /\ Progress'
  <2>1. TypeOK'
        BY <1>8 DEF PeerGone, Goto, TypeOK, acceptVars, rpcVars, guiVars
  <2>2. Progress'
        BY <1>8 DEF PeerGone, Goto, Progress, acceptVars, TypeOK, Holding
  <2> QED BY <2>1, <2>2
<1>9. ASSUME NEW p \in Pumps, Register(p)
      PROVE  TypeOK' /\ Progress'
  <2>1. TypeOK'
        BY <1>9, EventType DEF Register, Goto, TypeOK, acceptVars, rpcVars, guiVars, Holding
  <2>2. Progress'
        BY <1>9 DEF Register, Goto, Progress, acceptVars, TypeOK, Holding
  <2> QED BY <2>1, <2>2
<1>10. ASSUME NEW p \in Pumps, GetReply(p)
      PROVE  TypeOK' /\ Progress'
  <2>1. TypeOK'
        BY <1>10 DEF GetReply, Goto, TypeOK, acceptVars, rpcVars, guiVars
  <2>2. Progress'
        BY <1>10 DEF GetReply, Goto, Progress, acceptVars, TypeOK, Holding
  <2> QED BY <2>1, <2>2
<1>11. ASSUME NEW p \in Pumps, Resume(p)
      PROVE  TypeOK' /\ Progress'
  <2>1. TypeOK'
        BY <1>11 DEF Resume, Goto, TypeOK, acceptVars, rpcVars, guiVars
  <2>2. Progress'
        BY <1>11 DEF Resume, Goto, Progress, acceptVars, TypeOK, Holding
  <2> QED BY <2>1, <2>2
<1>12. ASSUME NEW p \in Pumps, Send(p)
      PROVE  TypeOK' /\ Progress'
  <2>1. TypeOK'
        BY <1>12 DEF Send, Goto, TypeOK, acceptVars, rpcVars, guiVars, Progress, Holding
  <2>2. Progress'
        BY <1>12 DEF Send, Goto, Progress, acceptVars, TypeOK, Holding
  <2> QED BY <2>1, <2>2
<1>13. ASSUME NEW p \in Pumps, SendFails(p)
      PROVE  TypeOK' /\ Progress'
  <2>1. TypeOK'
        BY <1>13 DEF SendFails, Goto, TypeOK, acceptVars, rpcVars, guiVars
  <2>2. Progress'
        BY <1>13 DEF SendFails, Goto, Progress, acceptVars, TypeOK, Holding
  <2> QED BY <2>1, <2>2
<1>14. ASSUME GetDebugQ
      PROVE  TypeOK' /\ Progress'
  <2>1. TypeOK'
        BY <1>14 DEF GetDebugQ, TypeOK, acceptVars, pumpVars, rpcVars, guiVars
  <2>2. Progress'
        BY <1>14 DEF GetDebugQ, Progress, pumpVars, acceptVars
  <2> QED BY <2>1, <2>2
<1>15. ASSUME ToggleAuto
      PROVE  TypeOK' /\ Progress'
  <2>1. TypeOK'
        BY <1>15, BoundsAssumption DEF ToggleAuto, TypeOK, acceptVars, pumpVars, rpcVars,
           guiVars
  <2>2. Progress'
        BY <1>15 DEF ToggleAuto, Progress, pumpVars, acceptVars
  <2> QED BY <2>1, <2>2
<1>16. ASSUME HandleClearStreams
      PROVE  TypeOK' /\ Progress'
  <2>1. TypeOK'
        BY <1>16 DEF HandleClearStreams, TypeOK, acceptVars, pumpVars, rpcVars, guiVars
  <2>2. Progress'
        BY <1>16 DEF HandleClearStreams, Progress, pumpVars, acceptVars
  <2> QED BY <2>1, <2>2
<1>17. ASSUME SetDebug
      PROVE  TypeOK' /\ Progress'
  <2>1. TypeOK'
    <3>1. rpc' \in Calls /\ rpc'.op = "setdebug"
          BY <1>17, TextsAssumption DEF SetDebug, Calls
    <3>2. debugon' \in BOOLEAN
          BY <1>17 DEF SetDebug
    <3>3. toggles' \in 0 .. MaxToggles
      <4>1. toggles' = toggles + 1 /\ toggles < MaxToggles
            BY <1>17 DEF SetDebug
      <4> QED
            BY <4>1, BoundsAssumption DEF TypeOK
    <3> QED
          BY <1>17, <3>1, <3>2, <3>3
          DEF TypeOK, SetDebug, acceptVars, pumpVars, guiVars
  <2>2. Progress'
        BY <1>17 DEF SetDebug, Progress, pumpVars, acceptVars
  <2> QED BY <2>1, <2>2
<1>18. ASSUME VisitSetDebug
      PROVE  TypeOK' /\ Progress'
  <2>1. TypeOK'
        BY <1>18, ObserverType DEF Visit, VisitSetDebug, TypeOK, acceptVars, pumpVars,
           rpcVars, guiVars
  <2>2. Progress'
        BY <1>18 DEF Visit, VisitSetDebug, Progress, pumpVars, acceptVars
  <2> QED BY <2>1, <2>2
<1>19. ASSUME VisitSendDe
      PROVE  TypeOK' /\ Progress'
  <2>1. TypeOK'
    <3> DEFINE q == <<Observer, rpc.de[1][2]>>
    <3>1. told' \in 0 .. Len(observers')
          BY <1>19 DEF TypeOK, VisitSendDe, Visit, acceptVars
    <3>2. rpc.de \in Event /\ [of |-> rpc.de, text |-> rpc.text] \in Bytes
          BY <1>19 DEF Bytes, TypeOK, Calls, VisitSendDe
    <3>3. q \in Pumps
          BY <1>19, <3>2, ObserverType DEF Event, Pumps, VisitSendDe
    <3>4. debugqs' \in [Pumps -> Seq(Bytes)]
          BY <1>19, <3>2, <3>3 DEF TypeOK, VisitSendDe
    <3> QED
          BY <1>19, <3>1, <3>4
          DEF TypeOK, VisitSendDe, Visit, acceptVars, pumpVars, guiVars
  <2>2. Progress'
        BY <1>19 DEF Visit, VisitSendDe, Progress, pumpVars, acceptVars
  <2> QED BY <2>1, <2>2
<1>20. ASSUME Return
      PROVE  TypeOK' /\ Progress'
  <2>1. TypeOK'
    <3>1. rpc' \in Calls /\ rpc'.op = "idle"
          BY <1>20, TextsAssumption DEF Return, Idle, Calls
    <3>2. row' \in [Event -> {"absent", "queued", "U", "S", "cleared"}]
          BY <1>20 DEF Return, TypeOK
    <3> QED
          BY <1>20, <3>1, <3>2 DEF TypeOK, Return, acceptVars, pumpVars
  <2>2. Progress'
        BY <1>20 DEF Return, Progress, pumpVars, acceptVars
  <2> QED BY <2>1, <2>2
<1>24. ASSUME NotifyEnds
      PROVE  TypeOK' /\ Progress'
  <2>1. TypeOK'
    <3>1. rpc' \in Calls /\ rpc'.op = "return"
          BY <1>24 DEF NotifyEnds, EndCall, Calls, TypeOK
    <3>2. told' \in 0 .. Len(observers') /\ overtaken' \subseteq Conns
          BY <1>24 DEF NotifyEnds, EndCall, TypeOK, acceptVars
    <3> QED
          BY <1>24, <3>1, <3>2
          DEF TypeOK, NotifyEnds, EndCall, acceptVars, pumpVars, guiVars
  <2>2. Progress'
        BY <1>24 DEF NotifyEnds, EndCall, Progress, pumpVars, acceptVars
  <2> QED BY <2>1, <2>2
<1>21. ASSUME NEW e \in Event, NEW t \in Texts, HandleSend(e, t)
      PROVE  TypeOK' /\ Progress'
  <2>1. TypeOK'
        BY <1>21, BoundsAssumption DEF HandleSend, Call, Calls, TypeOK, acceptVars,
           pumpVars, rpcVars, guiVars
  <2>2. Progress'
        BY <1>21 DEF HandleSend, Progress, pumpVars, acceptVars
  <2> QED BY <2>1, <2>2
<1>22. ASSUME NEW e \in Event, NEW t \in Texts, AutoSend(e, t)
      PROVE  TypeOK' /\ Progress'
  <2>1. TypeOK'
        BY <1>22, BoundsAssumption DEF AutoSend, Call, Calls, TypeOK, acceptVars, pumpVars,
           rpcVars, guiVars
  <2>2. Progress'
        BY <1>22 DEF AutoSend, Progress, pumpVars, acceptVars
  <2> QED BY <2>1, <2>2
<1>23. ASSUME UNCHANGED vars
      PROVE  TypeOK' /\ Progress'
  <2>1. TypeOK'
        BY <1>23 DEF vars, TypeOK, acceptVars, pumpVars, rpcVars, guiVars
  <2>2. Progress'
        BY <1>23 DEF vars, Progress, pumpVars, acceptVars
  <2> QED BY <2>1, <2>2
<1> QED
      BY <1>1, <1>2, <1>3, <1>4, <1>5, <1>6, <1>7, <1>8, <1>9, <1>10, <1>11,
         <1>12, <1>13, <1>14, <1>15, <1>16, <1>17, <1>18, <1>19, <1>20, <1>21,
         <1>22, <1>23, <1>24
      DEF Next, Accepting, Pumping, Operator, Polling, Calling

-----------------------------------------------------------------------------

\* Own collects what OwnInv says of the streams themselves.
Own == OwnWait /\ OwnReplies /\ OwnHeld /\ OwnBytes

\* Steps that change none of the variables Own speaks of.
LEMMA OwnFrame ==
    ASSUME Own, UNCHANGED <<debugqs, out, pumpVars>>
    PROVE  Own'
BY DEF Own, OwnWait, OwnReplies, OwnHeld, OwnBytes, pumpVars

\* Each step keeps what is said of the streams: one step per action.
LEMMA OwnStep ==
    ASSUME OwnInv, [Next]_vars
    PROVE  Own'
<1> USE DEF OwnInv
<1>0. Own
      BY DEF Own
<1>1. ASSUME NEW c \in Conns, CopyFlag(c)
      PROVE  Own'
      BY <1>0, <1>1, OwnFrame DEF CopyFlag
<1>2. ASSUME NEW c \in Conns, Attach(c)
      PROVE  Own'
      BY <1>0, <1>2, OwnFrame DEF Attach
<1>3. CASE GetDebugQ
      BY <1>0, <1>3, OwnFrame DEF GetDebugQ
<1>4. CASE ToggleAuto
      BY <1>0, <1>4, OwnFrame DEF ToggleAuto
<1>5. CASE HandleClearStreams
      BY <1>0, <1>5, OwnFrame DEF HandleClearStreams
<1>6. CASE SetDebug
      BY <1>0, <1>6, OwnFrame DEF SetDebug
<1>7. CASE VisitSetDebug
      BY <1>0, <1>7, OwnFrame DEF VisitSetDebug, Visit
<1>8. CASE NotifyEnds \/ Return
      BY <1>0, <1>8, OwnFrame DEF NotifyEnds, EndCall, Return
<1>9. ASSUME NEW e \in Event, NEW t \in Texts, HandleSend(e, t)
      PROVE  Own'
      BY <1>0, <1>9, OwnFrame DEF HandleSend
<1>10. ASSUME NEW e \in Event, NEW t \in Texts, AutoSend(e, t)
      PROVE  Own'
      BY <1>0, <1>10, OwnFrame DEF AutoSend
<1>11. CASE UNCHANGED vars
      BY <1>0, <1>11, OwnFrame DEF vars
<1>12. ASSUME NEW c \in Conns, StartPumps(c)
      PROVE  Own'
      BY <1>12 DEF StartPumps, Own, OwnWait, OwnReplies, OwnHeld, OwnBytes, TypeOK, Holding
<1>13. ASSUME NEW p \in Pumps, RecvEnds(p)
      PROVE  Own'
  <2>1. OwnWait'
        BY <1>13 DEF RecvEnds, OwnWait, TypeOK
  <2>2. OwnReplies'
        BY <1>13 DEF RecvEnds, OwnReplies, TypeOK
  <2>3. OwnHeld'
        BY <1>13 DEF RecvEnds, Goto, OwnHeld, TypeOK, Holding
  <2>4. OwnBytes'
        BY <1>13 DEF RecvEnds, OwnBytes, TypeOK
  <2> QED BY <2>1, <2>2, <2>3, <2>4 DEF Own
<1>14. ASSUME NEW p \in Pumps, TestFlag(p)
      PROVE  Own'
  <2>1. OwnWait'
        BY <1>14 DEF TestFlag, OwnWait, TypeOK
  <2>2. OwnReplies'
        BY <1>14 DEF TestFlag, OwnReplies, TypeOK
  <2>3. OwnHeld'
        BY <1>14 DEF TestFlag, Goto, OwnHeld, TypeOK, Holding
  <2>4. OwnBytes'
        BY <1>14 DEF TestFlag, OwnBytes, TypeOK
  <2> QED BY <2>1, <2>2, <2>3, <2>4 DEF Own
<1>15. ASSUME NEW p \in Pumps, Notify(p)
      PROVE  Own'
  <2>1. OwnWait'
        BY <1>15 DEF Notify, OwnWait, TypeOK
  <2>2. OwnReplies'
        BY <1>15 DEF Notify, OwnReplies, TypeOK
  <2>3. OwnHeld'
        BY <1>15 DEF Notify, Goto, OwnHeld, TypeOK, Holding
  <2>4. OwnBytes'
        BY <1>15 DEF Notify, OwnBytes, TypeOK
  <2> QED BY <2>1, <2>2, <2>3, <2>4 DEF Own
<1>16. ASSUME NEW p \in Pumps, PeerGone(p)
      PROVE  Own'
  <2>1. OwnWait'
        BY <1>16 DEF PeerGone, OwnWait, TypeOK
  <2>2. OwnReplies'
        BY <1>16 DEF PeerGone, OwnReplies, TypeOK
  <2>3. OwnHeld'
        BY <1>16 DEF PeerGone, Goto, OwnHeld, TypeOK, Holding
  <2>4. OwnBytes'
        BY <1>16 DEF PeerGone, OwnBytes, TypeOK
  <2> QED BY <2>1, <2>2, <2>3, <2>4 DEF Own
<1>17. ASSUME NEW p \in Pumps, SendFails(p)
      PROVE  Own'
  <2>1. OwnWait'
        BY <1>17 DEF SendFails, OwnWait, TypeOK
  <2>2. OwnReplies'
        BY <1>17 DEF SendFails, OwnReplies, TypeOK
  <2>3. OwnHeld'
        BY <1>17 DEF SendFails, Goto, OwnHeld, TypeOK, Holding
  <2>4. OwnBytes'
        BY <1>17 DEF SendFails, OwnBytes, TypeOK
  <2> QED BY <2>1, <2>2, <2>3, <2>4 DEF Own
<1>18. ASSUME NEW p \in Pumps, Recv(p)
      PROVE  Own'
  <2>0. /\ nmsg' = [nmsg EXCEPT ![p] = @ + 1]
        /\ held' = [held EXCEPT ![p] = [of |-> <<p, nmsg[p] + 1>>, text |-> "as is"]]
        /\ UNCHANGED <<waitfor, debugqs>>
        /\ \A q \in Pumps : q # p => pc'[q] = pc[q]
        BY <1>18 DEF Recv, Goto, TypeOK
  <2>a. \A q \in Pumps : nmsg[q] \in Nat /\ nmsg'[q] \in Nat /\ nmsg[q] <= nmsg'[q]
    <3>1. nmsg' = [nmsg EXCEPT ![p] = @ + 1]
        BY <2>0
    <3> QED BY <3>1, BoundsAssumption DEF TypeOK
  <2>1. OwnWait'
    <3> SUFFICES ASSUME NEW q \in Pumps, waitfor[q] # NoEvent
                 PROVE  waitfor[q][1] = q /\ waitfor[q][2] <= nmsg'[q]
        BY <2>0 DEF OwnWait
    <3>1. waitfor[q] \in Event
        BY DEF TypeOK
    <3>2. waitfor[q][1] = q /\ waitfor[q][2] <= nmsg[q]
        BY DEF OwnWait
    <3> QED BY <2>a, <3>1, <3>2, EventNumber
  <2>2. OwnReplies'
    <3> SUFFICES ASSUME NEW q \in Pumps, NEW k \in 1 .. Len(debugqs[q])
                 PROVE  debugqs[q][k].of[1] = q /\ debugqs[q][k].of[2] <= nmsg'[q]
        BY <2>0 DEF OwnReplies
    <3>1. debugqs[q][k].of \in Event
      <4>1. debugqs[q] \in Seq(Bytes)
          BY DEF TypeOK
      <4>2. debugqs[q][k] \in Bytes
          BY <4>1
      <4> QED BY <4>2 DEF Bytes
    <3>2. debugqs[q][k].of[1] = q /\ debugqs[q][k].of[2] <= nmsg[q]
        BY DEF OwnReplies
    <3> QED BY <2>a, <3>1, <3>2, EventNumber
  <2>3. OwnHeld'
    <3> SUFFICES ASSUME NEW q \in Pumps, pc'[q] \in Holding
                 PROVE  held'[q].of[1] = q /\ held'[q].of[2] <= nmsg'[q]
        BY DEF OwnHeld
    <3>1. CASE q = p
      <4> DEFINE e == <<p, nmsg[p] + 1>>
      <4>1. held'[p] = [of |-> e, text |-> "as is"]
          BY <2>0 DEF TypeOK
      <4>2. e[1] = p /\ e[2] = nmsg[p] + 1
          OBVIOUS
      <4> HIDE DEF e
      <4>3. held'[p].of[1] = p /\ held'[p].of[2] = nmsg[p] + 1
        <5>1. [of |-> e, text |-> "as is"].of = e
              OBVIOUS
        <5>2. held'[p].of = e
              BY <4>1, <5>1, Zenon
        <5> QED BY <4>2, <5>2
      <4>4. nmsg'[p] = nmsg[p] + 1
          BY <2>0 DEF TypeOK
      <4> QED BY <2>a, <3>1, <4>3, <4>4
    <3>2. CASE q # p
        BY <2>0, <3>2 DEF OwnHeld, TypeOK
    <3> QED BY <3>1, <3>2
  <2>4. OwnBytes'
        BY <1>18 DEF Recv, OwnBytes, TypeOK
  <2> QED BY <2>1, <2>2, <2>3, <2>4 DEF Own
<1>19. ASSUME NEW p \in Pumps, Register(p)
      PROVE  Own'
  <2>1. OwnWait'
        BY <1>19, BoundsAssumption DEF Register, OwnWait, TypeOK, cur
  <2>2. OwnReplies'
        BY <1>19 DEF Register, OwnReplies, TypeOK
  <2>3. OwnHeld'
        BY <1>19 DEF Register, Goto, OwnHeld, TypeOK, Holding
  <2>4. OwnBytes'
        BY <1>19 DEF Register, OwnBytes, TypeOK
  <2> QED BY <2>1, <2>2, <2>3, <2>4 DEF Own
<1>20. ASSUME NEW p \in Pumps, GetReply(p)
      PROVE  Own'
  <2>1. OwnWait'
        BY <1>20 DEF GetReply, OwnWait, TypeOK
  <2>2. OwnReplies'
        BY <1>20 DEF GetReply, OwnReplies, TypeOK
  <2>3. OwnHeld'
    <3>1. debugqs[p] \in Seq(Bytes) /\ debugqs[p] # <<>>
        BY <1>20 DEF GetReply, TypeOK
    <3>2. Head(debugqs[p]) = debugqs[p][1] /\ 1 \in 1 .. Len(debugqs[p])
        BY <3>1
    <3>3. held' = [held EXCEPT ![p] = Head(debugqs[p])] /\ nmsg' = nmsg
        BY <1>20 DEF GetReply
    <3>4. \A q \in Pumps : q # p => pc'[q] = pc[q]
        BY <1>20 DEF GetReply, Goto, TypeOK
    <3>5. held'[p].of[1] = p /\ held'[p].of[2] <= nmsg[p]
        BY <3>2, <3>3 DEF OwnReplies, TypeOK
    <3> QED BY <3>3, <3>4, <3>5 DEF OwnHeld, TypeOK
  <2>4. OwnBytes'
        BY <1>20 DEF GetReply, OwnBytes, TypeOK
  <2> QED BY <2>1, <2>2, <2>3, <2>4 DEF Own
<1>21. ASSUME NEW p \in Pumps, Resume(p)
      PROVE  Own'
  <2>1. OwnWait'
        BY <1>21 DEF Resume, OwnWait, TypeOK
  <2>2. OwnReplies'
        BY <1>21 DEF Resume, OwnReplies, TypeOK
  <2>3. OwnHeld'
        BY <1>21 DEF Resume, Goto, OwnHeld, TypeOK, Holding
  <2>4. OwnBytes'
        BY <1>21 DEF Resume, OwnBytes, TypeOK
  <2> QED BY <2>1, <2>2, <2>3, <2>4 DEF Own
<1>22. ASSUME NEW p \in Pumps, Send(p)
      PROVE  Own'
  <2>1. OwnWait'
        BY <1>22 DEF Send, OwnWait, TypeOK
  <2>2. OwnReplies'
        BY <1>22 DEF Send, OwnReplies, TypeOK
  <2>3. OwnHeld'
        BY <1>22 DEF Send, Goto, OwnHeld, TypeOK, Holding
  <2>4. OwnBytes'
    <3>1. held[p].of[1] = p /\ held[p].of[2] <= Len(out[p]) + 1
        BY <1>22 DEF Send, OwnHeld, Progress, Holding
    <3>2. out[p] \in Seq(Bytes) /\ out' = [out EXCEPT ![p] = Append(@, held[p])]
        BY <1>22 DEF Send, TypeOK
    <3> SUFFICES ASSUME NEW q \in Pumps, NEW k \in 1 .. Len(out'[q])
                 PROVE  out'[q][k].of[1] = q /\ out'[q][k].of[2] <= k
        BY DEF OwnBytes
    <3>3. CASE q = p /\ k = Len(out[p]) + 1
        BY <3>1, <3>2, <3>3 DEF TypeOK
    <3>4. CASE q = p /\ k \in 1 .. Len(out[p])
        BY <3>2, <3>4 DEF OwnBytes, TypeOK
    <3>5. CASE q # p
        BY <3>2, <3>5 DEF OwnBytes, TypeOK
    <3>6. q = p => k = Len(out[p]) + 1 \/ k \in 1 .. Len(out[p])
        BY <3>2 DEF TypeOK
    <3> QED BY <3>3, <3>4, <3>5, <3>6
  <2> QED BY <2>1, <2>2, <2>3, <2>4 DEF Own
<1>23. CASE VisitSendDe
  <2>1. OwnWait' /\ OwnHeld' /\ OwnBytes'
        BY <1>23 DEF VisitSendDe, Visit, OwnWait, OwnHeld, OwnBytes, pumpVars
  <2>2. OwnReplies'
    <3> DEFINE o == <<Observer, rpc.de[1][2]>>
               r == [of |-> rpc.de, text |-> rpc.text]
    <3>1. nmsg' = nmsg
        BY <1>23 DEF VisitSendDe, Visit, pumpVars
    <3>2. CASE waitfor[o] # rpc.de
        BY <1>23, <3>1, <3>2 DEF VisitSendDe, OwnReplies
    <3>3. CASE waitfor[o] = rpc.de
      <4>1. rpc.de \in Event
          BY <1>23 DEF VisitSendDe, TypeOK
      <4>2. o \in Pumps
          BY <1>23, <4>1, ObserverType DEF Event, Pumps, VisitSendDe
      <4>3. r.of[1] = o /\ r.of[2] <= nmsg[o]
          BY <3>3, <4>1, <4>2, NoEventAssumption DEF OwnWait
      <4>4. debugqs' = [debugqs EXCEPT ![o] = Append(@, r)] /\ debugqs[o] \in Seq(Bytes)
          BY <1>23, <3>3, <4>2 DEF VisitSendDe, TypeOK
      <4> SUFFICES ASSUME NEW q \in Pumps, NEW k \in 1 .. Len(debugqs'[q])
                   PROVE  debugqs'[q][k].of[1] = q /\ debugqs'[q][k].of[2] <= nmsg[q]
          BY <3>1 DEF OwnReplies
      <4> HIDE DEF o, r
      <4>5. CASE q = o /\ k = Len(debugqs[o]) + 1
          BY <4>2, <4>3, <4>4, <4>5 DEF TypeOK
      <4>6. CASE q = o /\ k \in 1 .. Len(debugqs[o])
          BY <4>2, <4>4, <4>6 DEF OwnReplies, TypeOK
      <4>7. CASE q # o
          BY <4>4, <4>7 DEF OwnReplies, TypeOK
      <4>8. q = o => k = Len(debugqs[o]) + 1 \/ k \in 1 .. Len(debugqs[o])
          BY <4>2, <4>4 DEF TypeOK
      <4> QED BY <4>5, <4>6, <4>7, <4>8
    <3> QED BY <3>2, <3>3
  <2> QED BY <2>1, <2>2 DEF Own
<1>24. QED
      BY <1>1, <1>2, <1>3, <1>4, <1>5, <1>6, <1>7, <1>8, <1>9, <1>10, <1>11,
         <1>12, <1>13, <1>14, <1>15, <1>16, <1>17, <1>18, <1>19, <1>20, <1>21,
         <1>22, <1>23
      DEF Next, Accepting, Pumping, Operator, Polling, Calling

-----------------------------------------------------------------------------

\* It holds at the start, where nothing has been received.
LEMMA OwnInit == Init => OwnInv
<1> SUFFICES ASSUME Init PROVE OwnInv
    OBVIOUS
<1>1. TypeOK
  <2>1. rpc \in Calls /\ rpc.op = "idle"
        BY TextsAssumption DEF Init, Idle, Calls
  <2>2. /\ nmsg \in [Pumps -> 0 .. MaxMsgs]
        /\ sends \in [Event -> 0 .. MaxSends]
        /\ toggles \in 0 .. MaxToggles
        /\ told \in 0 .. Len(observers) /\ overtaken \subseteq Conns
        BY BoundsAssumption DEF Init
  <2>3. /\ debugon \in BOOLEAN
        /\ auto \in BOOLEAN
        /\ flag \in [Conns -> BOOLEAN]
        BY DEF Init
  <2>4. /\ observers \in Seq(Conns)
        /\ debugqs \in [Pumps -> Seq(Bytes)]
        /\ out \in [Pumps -> Seq(Bytes)]
        BY DEF Init
  <2>5. /\ phase \in [Conns -> {"new", "flagged", "attached", "running"}]
        /\ pc \in [Pumps -> {"off", "recv", "test", "notify", "register", "poll",
                             "got", "send", "ended", "dead"}]
        /\ held \in [Pumps -> Bytes \cup {NoEvent}]
        /\ waitfor \in [Pumps -> Event \cup {NoEvent}]
        /\ row \in [Event -> {"absent", "queued", "U", "S", "cleared"}]
        /\ curde \in Event \cup {NoEvent}
        BY DEF Init
  <2> QED BY <2>1, <2>2, <2>3, <2>4, <2>5 DEF TypeOK
<1>2. Progress
      BY DEF Init, Progress, Holding
<1>3. OwnWait /\ OwnReplies /\ OwnHeld /\ OwnBytes
      BY DEF Init, OwnWait, OwnReplies, OwnHeld, OwnBytes, Holding
<1> QED BY <1>1, <1>2, <1>3 DEF OwnInv

\* So it always holds.
LEMMA OwnInvariance == Spec => []OwnInv
<1>1. OwnInv /\ [Next]_vars => OwnInv'
      BY TypeStep, OwnStep DEF OwnInv, Own
<1> QED BY OwnInit, <1>1, PTL DEF Spec

\* Type correctness: in particular a pump only ever has bytes in hand, in its
\* queue or on the wire that came with some event of some stream.
THEOREM TypeCorrect == Spec => []TypeOK
<1>1. OwnInv => TypeOK
      BY DEF OwnInv
<1> QED BY OwnInvariance, <1>1, PTL

\* However many connections are intercepted, however the accept loop, the
\* pumps, the Debugger and the GUI interleave, and however often the operator
\* returns an event, no pump sends bytes of another connection or of the other
\* direction, nor bytes of a chunk received later than the one it works on.
THEOREM OwnBytesAlways == Spec => []OwnBytes
<1>1. OwnInv => OwnBytes
      BY DEF OwnInv
<1> QED BY OwnInvariance, <1>1, PTL

(***************************************************************************)
(* setdebug, and what a remote call knows of the observers.                *)
(***************************************************************************)

\* The instances in the list are those that were attached, each once.
Attached ==
    /\ \A i \in 1 .. Len(observers) : phase[observers[i]] \in {"attached", "running"}
    /\ \A i, j \in 1 .. Len(observers) : observers[i] = observers[j] => i = j
    /\ \A c \in Conns : phase[c] \in {"attached", "running"} =>
          \E i \in 1 .. Len(observers) : observers[i] = c

\* Whom setdebug has been round to has the new flag.
Setting ==
    /\ rpc.op \in {"idle", "return"} => told = 0
    /\ rpc.op = "setdebug" => \A i \in 1 .. told : flag[observers[i]] = debugon

CallInv == OwnInv /\ Attached /\ Setting /\ SetDebugReachesAll

\* Attaching an instance leaves the others where they are in the list.
LEMMA AttachOne ==
    ASSUME TypeOK, NEW c \in Conns, Attach(c)
    PROVE  /\ Len(observers') = Len(observers) + 1 /\ observers'[Len(observers) + 1] = c
           /\ \A i \in 1 .. Len(observers) : observers'[i] = observers[i]
           /\ \A d \in Conns : phase'[d] = IF d = c THEN "attached" ELSE phase[d]
           /\ phase[c] = "flagged" /\ Len(observers) \in Nat
<1>1. observers \in Seq(Conns) /\ observers' = Append(observers, c)
      BY DEF TypeOK, Attach
<1> QED BY <1>1 DEF TypeOK, Attach

\* Each step of the accept loop and of a call keeps the three.
LEMMA CallStep ==
    ASSUME TypeOK, Attached, Setting, SetDebugReachesAll, [Next]_vars
    PROVE  Attached' /\ Setting' /\ SetDebugReachesAll'
<1>0. \A i \in 1 .. Len(observers) : observers[i] \in Conns
      BY DEF TypeOK
<1>1. ASSUME UNCHANGED <<observers, phase, rpc, told, overtaken, flag, debugon>>
      PROVE  Attached' /\ Setting' /\ SetDebugReachesAll'
      BY <1>1 DEF Attached, Setting, SetDebugReachesAll
<1>2. ASSUME NEW c \in Conns, CopyFlag(c)
      PROVE  Attached' /\ Setting' /\ SetDebugReachesAll'
  <2>1. /\ UNCHANGED <<observers, rpc, told, overtaken, debugon>> /\ phase[c] = "new"
        /\ \A d \in Conns : d # c => phase'[d] = phase[d] /\ flag'[d] = flag[d]
        /\ phase'[c] = "flagged" /\ flag'[c] = debugon
        BY <1>2 DEF CopyFlag, rpcVars, TypeOK
  <2>2. \A i \in 1 .. Len(observers) : observers[i] # c
        BY <2>1 DEF Attached
  <2>3. told \in 0 .. Len(observers) /\ Len(observers) \in Nat
        BY DEF TypeOK
  <2>4. Attached' /\ Setting'
        BY <1>0, <2>1, <2>2, <2>3 DEF Attached, Setting
  <2>5. SetDebugReachesAll'
        BY <2>1 DEF SetDebugReachesAll
  <2> QED BY <2>4, <2>5
<1>3. ASSUME NEW c \in Conns, Attach(c)
      PROVE  Attached' /\ Setting' /\ SetDebugReachesAll'
  <2>1. \A i \in 1 .. Len(observers) : observers[i] # c
        BY <1>3, AttachOne DEF Attached
  <2>2. told \in 0 .. Len(observers) /\ Len(observers) \in Nat
        BY DEF TypeOK
  <2>3. \A i \in 1 .. Len(observers') : i \in 1 .. Len(observers) \/ i = Len(observers) + 1
        BY <1>3, <2>2, AttachOne
  <2>4. Attached'
    <3>1. \A i \in 1 .. Len(observers') : phase'[observers'[i]] \in {"attached", "running"}
          BY <1>0, <1>3, <2>1, <2>3, AttachOne DEF Attached
    <3>2. ASSUME NEW i \in 1 .. Len(observers'), NEW j \in 1 .. Len(observers'),
                 observers'[i] = observers'[j]
          PROVE  i = j
          BY <1>3, <2>1, <2>3, <3>2, AttachOne DEF Attached
    <3>3. ASSUME NEW d \in Conns, phase'[d] \in {"attached", "running"}
          PROVE  \E i \in 1 .. Len(observers') : observers'[i] = d
      <4>1. Len(observers) + 1 \in 1 .. Len(observers')
            BY <1>3, <2>2, AttachOne
      <4>2. CASE d = c
            BY <1>3, <4>1, <4>2, AttachOne
      <4>3. CASE d # c
        <5>1. PICK i \in 1 .. Len(observers) : observers[i] = d
              BY <1>3, <3>3, <4>3, AttachOne DEF Attached
        <5>2. i \in 1 .. Len(observers') /\ observers'[i] = d
              BY <1>3, <2>2, <5>1, AttachOne
        <5> QED BY <5>2
      <4> QED BY <4>2, <4>3
    <3> QED BY <3>1, <3>2, <3>3 DEF Attached
  <2>5. UNCHANGED <<rpc, told, overtaken, flag, debugon>>
        BY <1>3 DEF Attach, rpcVars
  <2>6. Setting'
    <3>1. \A i \in 1 .. told : observers'[i] = observers[i]
          BY <1>3, <2>2, AttachOne
    <3> QED BY <2>5, <3>1 DEF Setting
  <2>7. SetDebugReachesAll'
        BY <1>3, <2>5, AttachOne DEF SetDebugReachesAll
  <2> QED BY <2>4, <2>6, <2>7
<1>4. ASSUME NEW c \in Conns, StartPumps(c)
      PROVE  Attached' /\ Setting' /\ SetDebugReachesAll'
  <2>1. /\ UNCHANGED <<observers, rpc, told, overtaken, flag, debugon>>
        /\ phase[c] = "attached"
        /\ \A d \in Conns : phase'[d] = IF d = c THEN "running" ELSE phase[d]
        BY <1>4 DEF StartPumps, rpcVars, TypeOK
  <2> QED BY <1>0, <2>1 DEF Attached, Setting, SetDebugReachesAll
<1>5. ASSUME NEW p \in Pumps, Pumping(p)
      PROVE  Attached' /\ Setting' /\ SetDebugReachesAll'
      BY <1>1, <1>5 DEF Pumping, Recv, RecvEnds, TestFlag, Notify, PeerGone, Register,
         GetReply, Resume, Send, SendFails, rpcVars, acceptVars
<1>6. CASE ToggleAuto \/ HandleClearStreams \/ GetDebugQ \/ UNCHANGED vars
      BY <1>1, <1>6 DEF ToggleAuto, HandleClearStreams, GetDebugQ, vars, rpcVars, acceptVars
<1>7. ASSUME NEW e \in Event, NEW t \in Texts, HandleSend(e, t) \/ AutoSend(e, t)
      PROVE  Attached' /\ Setting' /\ SetDebugReachesAll'
  <2>1. /\ UNCHANGED <<observers, phase, told, overtaken, flag, debugon>>
        /\ rpc.op = "idle" /\ rpc'.op = "send_de"
        BY <1>7 DEF HandleSend, AutoSend, Call, acceptVars
  <2> QED BY <2>1 DEF Attached, Setting, SetDebugReachesAll
<1>8. CASE SetDebug
  <2>1. UNCHANGED <<observers, phase, told, flag>> /\ rpc'.op = "setdebug" /\ told = 0
        BY <1>8 DEF SetDebug, acceptVars, Setting
  <2> QED BY <2>1 DEF Attached, Setting, SetDebugReachesAll
<1>9. CASE VisitSetDebug
  <2>1. /\ UNCHANGED <<observers, phase, rpc, debugon>> /\ rpc.op = "setdebug"
        /\ told' = told + 1 /\ told < Len(observers)
        /\ flag' = [flag EXCEPT ![observers[told + 1]] = debugon]
        BY <1>9 DEF VisitSetDebug, Visit, acceptVars, Observer
  <2>2. told \in Nat /\ Len(observers) \in Nat
        BY DEF TypeOK
  <2>3. \A d \in Conns : flag'[d] = IF d = observers[told + 1] THEN debugon ELSE flag[d]
        BY <2>1 DEF TypeOK
  <2>4. \A i \in 1 .. told + 1 : flag'[observers[i]] = debugon
    <3>1. ASSUME NEW i \in 1 .. told + 1
          PROVE  flag'[observers[i]] = debugon
      <4>1. i \in 1 .. Len(observers) /\ (i \in 1 .. told \/ i = told + 1)
            BY <2>1, <2>2
      <4> QED BY <1>0, <2>1, <2>3, <4>1 DEF Setting
    <3> QED BY <3>1
  <2> QED BY <2>1, <2>4 DEF Attached, Setting, SetDebugReachesAll
<1>10. CASE VisitSendDe
  <2>1. /\ UNCHANGED <<observers, phase, rpc, overtaken, flag, debugon>>
        /\ rpc.op = "send_de"
        BY <1>10 DEF VisitSendDe, Visit, acceptVars
  <2> QED BY <2>1 DEF Attached, Setting, SetDebugReachesAll
<1>11. CASE NotifyEnds
  <2>1. /\ UNCHANGED <<observers, phase, flag, debugon>> /\ told' = 0
        /\ rpc.op \in {"send_de", "setdebug"} /\ told = Len(observers)
        /\ overtaken' = IF rpc.op = "setdebug" THEN {c \in Conns : phase[c] = "flagged"}
                        ELSE overtaken
        BY <1>11 DEF NotifyEnds, EndCall, acceptVars
  <2>2. rpc'.op = "return"
        BY <1>11 DEF NotifyEnds, EndCall, TypeOK, Calls
  <2>3. Attached' /\ Setting'
        BY <2>1, <2>2 DEF Attached, Setting
  <2>4. CASE rpc.op = "send_de"
        BY <2>1, <2>3, <2>4 DEF SetDebugReachesAll
  <2>5. CASE rpc.op = "setdebug"
    <3>1. ASSUME NEW c \in Conns, phase[c] # "new", c \notin overtaken'
          PROVE  flag[c] = debugon
      <4>1. phase[c] \in {"attached", "running"}
            BY <2>1, <2>5, <3>1 DEF TypeOK
      <4>2. PICK i \in 1 .. Len(observers) : observers[i] = c
            BY <4>1 DEF Attached
      <4> QED BY <2>1, <2>5, <4>2 DEF Setting
    <3> QED BY <2>1, <2>3, <3>1 DEF SetDebugReachesAll
  <2> QED BY <2>1, <2>3, <2>4, <2>5
<1>12. CASE Return
  <2>1. /\ UNCHANGED <<observers, phase, flag, debugon, told, overtaken>>
        /\ rpc'.op = "idle" /\ rpc.op = "return"
        BY <1>12 DEF Return, acceptVars, Idle
  <2> QED BY <2>1 DEF Attached, Setting, SetDebugReachesAll
<1> QED BY <1>2, <1>3, <1>4, <1>5, <1>6, <1>7, <1>8, <1>9, <1>10, <1>11, <1>12
        DEF Next, Accepting, Operator, Polling, Calling

\* Nobody is attached at the start, and no call is under way.
LEMMA CallInit == Init => Attached /\ Setting /\ SetDebugReachesAll
<1> SUFFICES ASSUME Init PROVE Attached /\ Setting /\ SetDebugReachesAll
    OBVIOUS
<1>1. /\ observers = <<>> /\ told = 0 /\ rpc.op = "idle"
      /\ \A c \in Conns : phase[c] = "new"
      BY DEF Init, Idle
<1> QED BY <1>1 DEF Attached, Setting, SetDebugReachesAll

\* The observers and the call are as they should be at the start and ever after.
LEMMA CallInvariance == Spec => []CallInv
<1>1. Init => Attached /\ Setting /\ SetDebugReachesAll
      BY CallInit
<1>2. CallInv /\ [Next]_vars => Attached' /\ Setting' /\ SetDebugReachesAll'
      BY CallStep DEF CallInv, OwnInv
<1> QED BY OwnInvariance, <1>1, <1>2, PTL DEF Spec, CallInv

\* Once setdebug has gone through the list, every instance, also one attached while
\* it did, has the flag set last, but for those that had copied the flag and were
\* not attached when it came to the end of the list.
THEOREM ClickReachesAll == Spec => []SetDebugReachesAll
<1>1. CallInv => SetDebugReachesAll
      BY DEF CallInv
<1> QED BY CallInvariance, <1>1, PTL

(***************************************************************************)
(* What holds when the GUI returns each event once.                        *)
(***************************************************************************)

\* A reply that pump p has not sent on yet.
Replied(p) == debugqs[p] # <<>> \/ pc[p] = "got"

\* The call in progress returns this event, and has been round to whoever has it.
Delivered(p) ==
    rpc.op = "send_de" /\ rpc.de = cur(p) =>
        \E i \in 1 .. told : observers[i] = p[1]

\* A pump waits for the event of the chunk it holds, in waitfordebug only; ...
Waits(p) == waitfor[p] = IF pc[p] \in {"poll", "got"} THEN cur(p) ELSE NoEvent

\* ... what it holds is of that chunk; ...
HoldsCur(p) == pc[p] \in Holding => held[p].of = cur(p)

\* ... it gets one reply, to that event, which was returned and is not again; ...
OneReply(p) ==
    /\ debugqs[p] # <<>> => pc[p] = "poll" /\ Len(debugqs[p]) = 1 /\ debugqs[p][1].of = cur(p)
    /\ Replied(p) => sends[cur(p)] = 1 /\ Delivered(p)

\* ... and the Debugger has heard of the chunks it was notified of only, of which
\* those sent on were returned.
Heard(p) ==
    /\ Len(out[p]) <= nmsg[p]
    /\ \A n \in 1 .. MaxMsgs : n > nmsg[p] => row[<<p, n>>] = "absent"
    /\ pc[p] \in {"test", "notify"} => row[cur(p)] = "absent"
    /\ pc[p] = "send" /\ row[cur(p)] # "absent" => sends[cur(p)] = 1
    /\ \A n \in 1 .. Len(out[p]) : row[<<p, n>>] # "absent" => sends[<<p, n>>] = 1

Once(p) == Waits(p) /\ HoldsCur(p) /\ OneReply(p) /\ Heard(p)

\* The event of the call in progress was returned.
Returned == rpc.op = "send_de" => sends[rpc.de] = 1

\* What the last two theorems ask of the operator. Nothing in the GUI sees to it: an
\* event stays selected when it was sent, and handle_send sends what is selected.
ReturnedOnce == \A e \in Event : sends[e] <= 1

OnceInv == CallInv /\ Returned /\ \A p \in Pumps : Once(p)

\* What a step that does not concern pump p leaves as it is.
Still(p) ==
    /\ pc'[p] = pc[p] /\ nmsg'[p] = nmsg[p] /\ held'[p] = held[p] /\ waitfor'[p] = waitfor[p]
    /\ debugqs'[p] = debugqs[p] /\ out'[p] = out[p]
    /\ \A e \in Event : e[1] = p =>
          /\ row'[e] = "absent" <=> row[e] = "absent"
          /\ sends[e] = 1 => sends'[e] = 1

LEMMA StillOnce ==
    ASSUME OwnInv, NEW p \in Pumps, Once(p), Still(p), Replied(p) => Delivered(p)'
    PROVE  Once(p)'
<1>1. cur(p)' = cur(p)
      BY DEF cur, Still
<1>2. \A n \in 1 .. MaxMsgs : <<p, n>> \in Event /\ <<p, n>>[1] = p
      BY DEF Event
<1>3. nmsg[p] \in 0 .. MaxMsgs /\ Len(out[p]) \in Nat /\ MaxMsgs \in Nat
      BY BoundsAssumption DEF OwnInv, TypeOK
<1>4. Waits(p)' /\ HoldsCur(p)'
      BY <1>1 DEF Once, Waits, HoldsCur, Still
<1>5. pc[p] \in Holding => cur(p) \in Event /\ cur(p)[1] = p
      BY EventType DEF OwnInv, cur
<1>6. OneReply(p)'
  <2>1. Replied(p)' <=> Replied(p)
        BY DEF Replied, Still
  <2>2. Replied(p) => pc[p] \in Holding
        BY DEF Once, OneReply, Replied, Holding
  <2>3. Replied(p) => sends'[cur(p)] = 1
        BY <1>5, <2>2 DEF Once, OneReply, Still
  <2> QED BY <1>1, <2>1, <2>3 DEF Once, OneReply, Still
<1>7. Heard(p)'
  <2>1. \A n \in 1 .. MaxMsgs : row'[<<p, n>>] = "absent" <=> row[<<p, n>>] = "absent"
        BY <1>2 DEF Still
  <2>2. \A n \in 1 .. MaxMsgs : sends[<<p, n>>] = 1 => sends'[<<p, n>>] = 1
        BY <1>2 DEF Still
  <2>3. \A n \in 1 .. Len(out[p]) : n \in 1 .. MaxMsgs
        BY <1>3 DEF Once, Heard
  <2>4. pc[p] \in Holding => (row'[cur(p)] = "absent" <=> row[cur(p)] = "absent")
                             /\ (sends[cur(p)] = 1 => sends'[cur(p)] = 1)
        BY <1>5 DEF Still
  <2> QED BY <1>1, <2>1, <2>2, <2>3, <2>4 DEF Once, Heard, Still, Holding
<1> QED BY <1>4, <1>6, <1>7 DEF Once

\* A pump's step does not concern the others, nor the call in progress.
LEMMA OtherPumps ==
    ASSUME OwnInv, NEW p \in Pumps, Pumping(p)
    PROVE  /\ \A q \in Pumps : q # p => Still(q)
           /\ UNCHANGED <<rpc, told, observers, sends>>
           /\ \A q \in Pumps : q # p => (Delivered(q)' <=> Delivered(q))
<1>1. UNCHANGED <<rpc, told, observers, sends>>
      BY DEF Pumping, Recv, RecvEnds, TestFlag, Notify, PeerGone, Register, GetReply, Resume,
         Send, SendFails, rpcVars, acceptVars, guiVars
<1>2. ASSUME NEW q \in Pumps, q # p
      PROVE  Still(q)
  <2>1. /\ pc'[q] = pc[q] /\ nmsg'[q] = nmsg[q] /\ held'[q] = held[q]
        /\ waitfor'[q] = waitfor[q] /\ debugqs'[q] = debugqs[q] /\ out'[q] = out[q]
        BY <1>2 DEF OwnInv, TypeOK, Pumping, Recv, RecvEnds, TestFlag, Notify, PeerGone,
           Register, GetReply, Resume, Send, SendFails, Goto
  <2>2. \A e \in Event : e[1] = q => row'[e] = row[e]
    <3>1. CASE Notify(p)
      <4>1. cur(p)[1] = p
            BY DEF cur
      <4> QED BY <1>2, <3>1, <4>1 DEF Notify, OwnInv, TypeOK
    <3>2. CASE ~Notify(p)
          BY <3>2 DEF Pumping, Recv, RecvEnds, TestFlag, PeerGone, Register, GetReply, Resume,
             Send, SendFails, guiVars
    <3> QED BY <3>1, <3>2
  <2> QED BY <1>1, <2>1, <2>2 DEF Still
<1>3. ASSUME NEW q \in Pumps, q # p
      PROVE  Delivered(q)' <=> Delivered(q)
  <2>1. nmsg'[q] = nmsg[q]
        BY <1>2, <1>3 DEF Still
  <2> QED BY <1>1, <2>1 DEF Delivered, cur
<1> QED BY <1>1, <1>2, <1>3

\* Taking one element of a sequence of one leaves none.
LEMMA OneLeft ==
    ASSUME NEW S, NEW s \in Seq(S), Len(s) = 1
    PROVE  Head(s) = s[1] /\ Tail(s) = <<>>
<1>1. Tail(s) \in Seq(S) /\ Len(Tail(s)) = 0
      OBVIOUS
<1>2. Head(s) = s[1]
      OBVIOUS
<1>3. Tail(s) = <<>>
      BY <1>1, EmptySeq
<1> QED BY <1>2, <1>3

\* Append, as a function.
LEMMA AppendIs ==
    ASSUME NEW S, NEW f \in Seq(S), NEW x \in S, NEW n \in Nat, n = Len(f)
    PROVE  Append(f, x) = [k \in 1 .. n + 1 |-> IF k = n + 1 THEN x ELSE f[k]]
<1> DEFINE g == Append(f, x)
           h == [k \in 1 .. n + 1 |-> IF k = n + 1 THEN x ELSE f[k]]
<1>1. g \in Seq(S) /\ Len(g) = n + 1
      OBVIOUS
<1>2. g = [k \in 1 .. n + 1 |-> g[k]]
  <2>1. \A s \in Seq(S) : s = [k \in 1 .. Len(s) |-> s[k]]
        OBVIOUS
  <2> HIDE DEF g
  <2> QED BY <1>1, <2>1
<1>3. ASSUME NEW k \in 1 .. n + 1
      PROVE  g[k] = IF k = n + 1 THEN x ELSE f[k]
      OBVIOUS
<1> HIDE DEF g
<1>4. g = h
      BY <1>2, <1>3
<1> QED BY <1>4 DEF g

\* Each step of a pump keeps what is said of it: one step per action.
LEMMA PumpOnce ==
    ASSUME OwnInv, NEW p \in Pumps, Once(p), Pumping(p)
    PROVE  Once(p)'
<1>0. UNCHANGED <<rpc, told, observers, sends>>
      BY OtherPumps
<1>1. nmsg[p] \in 0 .. MaxMsgs /\ nmsg[p] \in Nat /\ Len(out[p]) \in Nat /\ MaxMsgs \in Nat
      BY BoundsAssumption DEF OwnInv, TypeOK
<1>2. \A n \in 1 .. MaxMsgs : <<p, n>> \in Event
      BY DEF Event
<1>3. pc[p] \in Holding => cur(p) \in Event /\ nmsg[p] \in 1 .. MaxMsgs
  <2>1. pc[p] \in Holding => nmsg[p] = Len(out[p]) + 1
        BY DEF OwnInv, Progress
  <2> QED BY <1>1, <2>1, EventType DEF OwnInv
\* A pump that goes on with the chunk it holds, and nothing else changes.
<1>4. ASSUME UNCHANGED <<nmsg, held, debugqs, out, row>>, pc[p] # "poll", pc[p] # "got",
             pc'[p] \notin {"poll", "got"}, waitfor'[p] = waitfor[p],
             pc'[p] \in Holding => pc[p] \in Holding,
             pc'[p] \in {"test", "notify"} => pc[p] \in {"test", "notify"},
             pc'[p] = "send" => pc[p] \in {"test", "notify"}
      PROVE  Once(p)'
  <2>1. cur(p)' = cur(p)
        BY <1>4 DEF cur
  <2>2. Waits(p)' /\ HoldsCur(p)' /\ OneReply(p)'
        BY <1>4, <2>1 DEF Once, Waits, HoldsCur, OneReply, Replied
  <2>3. Heard(p)'
        BY <1>0, <1>4, <2>1 DEF Once, Heard
  <2> QED BY <2>2, <2>3 DEF Once
<1>5. CASE RecvEnds(p) \/ TestFlag(p) \/ PeerGone(p) \/ SendFails(p)
  <2>1. /\ UNCHANGED <<nmsg, held, debugqs, out, row, waitfor>>
        /\ pc[p] \in {"recv", "test", "notify", "send"}
        /\ pc'[p] \in {"ended", "dead"} \/ (pc[p] = "test" /\ pc'[p] \in {"notify", "send"})
        BY <1>5 DEF RecvEnds, TestFlag, PeerGone, SendFails, Goto, guiVars, OwnInv, TypeOK
  <2> QED BY <1>4, <2>1 DEF Holding
<1>6. CASE Recv(p)
  <2>1. /\ pc[p] = "recv" /\ pc'[p] \in {"test", "send"} /\ nmsg'[p] = nmsg[p] + 1
        /\ UNCHANGED <<debugqs, out, row, waitfor>> /\ nmsg[p] + 1 \in 1 .. MaxMsgs
    <3>1. pc[p] = "recv" /\ nmsg[p] < MaxMsgs /\ nmsg' = [nmsg EXCEPT ![p] = @ + 1]
          BY <1>6 DEF Recv
    <3>2. pc'[p] \in {"test", "send"} /\ UNCHANGED <<debugqs, out, row, waitfor>>
          BY <1>6 DEF Recv, Goto, guiVars, OwnInv, TypeOK
    <3>3. nmsg'[p] = nmsg[p] + 1
          BY <3>1 DEF OwnInv, TypeOK
    <3> QED BY <1>1, <3>1, <3>2, <3>3
  <2>2. held'[p].of = <<p, nmsg[p] + 1>>
    <3> DEFINE e == <<p, nmsg[p] + 1>>
    <3>1. held'[p] = [of |-> e, text |-> "as is"]
          BY <1>6 DEF Recv, OwnInv, TypeOK
    <3> HIDE DEF e
    <3>2. [of |-> e, text |-> "as is"].of = e
          OBVIOUS
    <3>3. held'[p].of = e
          BY <3>1, <3>2, Zenon
    <3> QED BY <3>3 DEF e
  <2>3. cur(p)' = <<p, nmsg[p] + 1>>
        BY <2>1 DEF cur
  <2>4. Waits(p)' /\ HoldsCur(p)' /\ OneReply(p)'
        BY <2>1, <2>2, <2>3 DEF Once, Waits, HoldsCur, OneReply, Replied
  <2>5. row[<<p, nmsg[p] + 1>>] = "absent"
        BY <1>1, <2>1 DEF Once, Heard
  <2>6. Heard(p)'
    <3>1. Len(out'[p]) <= nmsg'[p]
          BY <1>1, <2>1 DEF Once, Heard
    <3>2. \A n \in 1 .. MaxMsgs : n > nmsg'[p] => row'[<<p, n>>] = "absent"
          BY <1>1, <2>1 DEF Once, Heard
    <3>3. row'[cur(p)'] = "absent"
          BY <2>1, <2>3, <2>5
    <3>4. \A n \in 1 .. Len(out'[p]) : row'[<<p, n>>] # "absent" => sends'[<<p, n>>] = 1
          BY <1>0, <2>1 DEF Once, Heard
    <3> QED BY <3>1, <3>2, <3>3, <3>4 DEF Heard
  <2> QED BY <2>4, <2>6 DEF Once
<1>7. CASE Notify(p)
  <2>1. /\ pc[p] = "notify" /\ pc'[p] = "register"
        /\ UNCHANGED <<nmsg, held, debugqs, out, waitfor>>
        /\ row' = [row EXCEPT ![cur(p)] = "queued"]
        BY <1>7 DEF Notify, Goto, OwnInv, TypeOK
  <2>2. cur(p)' = cur(p)
        BY <2>1 DEF cur
  <2>3. Waits(p)' /\ HoldsCur(p)' /\ OneReply(p)'
        BY <2>1, <2>2 DEF Once, Waits, HoldsCur, OneReply, Replied, Holding
  <2>4. \A n \in 1 .. MaxMsgs : n # nmsg[p] => row'[<<p, n>>] = row[<<p, n>>]
    <3>1. ASSUME NEW n \in 1 .. MaxMsgs, n # nmsg[p]
          PROVE  row'[<<p, n>>] = row[<<p, n>>]
      <4>1. <<p, n>> # cur(p)
            BY <3>1 DEF cur
      <4> QED BY <1>2, <2>1, <4>1 DEF OwnInv, TypeOK
    <3> QED BY <3>1
  <2>5. nmsg[p] = Len(out[p]) + 1
        BY <2>1 DEF OwnInv, Progress, Holding
  <2>6. Heard(p)'
        BY <1>0, <1>1, <2>1, <2>4, <2>5 DEF Once, Heard
  <2> QED BY <2>3, <2>6 DEF Once
<1>8. CASE Register(p)
  <2>1. /\ pc[p] = "register" /\ pc'[p] = "poll" /\ UNCHANGED <<nmsg, held, debugqs, out, row>>
        /\ waitfor'[p] = cur(p)
        BY <1>8 DEF Register, Goto, OwnInv, TypeOK, guiVars
  <2>2. cur(p)' = cur(p)
        BY <2>1 DEF cur
  <2>3. Waits(p)' /\ HoldsCur(p)' /\ OneReply(p)'
        BY <2>1, <2>2 DEF Once, Waits, HoldsCur, OneReply, Replied, Holding
  <2>4. Heard(p)'
        BY <1>0, <2>1, <2>2 DEF Once, Heard
  <2> QED BY <2>3, <2>4 DEF Once
<1>9. CASE GetReply(p)
  <2>1. /\ pc[p] = "poll" /\ pc'[p] = "got" /\ UNCHANGED <<nmsg, out, row, waitfor>>
        /\ debugqs[p] # <<>> /\ held'[p] = Head(debugqs[p]) /\ debugqs'[p] = Tail(debugqs[p])
        BY <1>9 DEF GetReply, Goto, OwnInv, TypeOK, guiVars
  <2>2. cur(p)' = cur(p)
        BY <2>1 DEF cur
  <2>3. Len(debugqs[p]) = 1 /\ debugqs[p][1].of = cur(p) /\ debugqs[p] \in Seq(Bytes)
        BY <2>1 DEF Once, OneReply, OwnInv, TypeOK
  <2>4. held'[p].of = cur(p) /\ debugqs'[p] = <<>>
    <3>1. Head(debugqs[p]) = debugqs[p][1] /\ Tail(debugqs[p]) = <<>>
          BY <2>3, OneLeft
    <3> QED BY <2>1, <2>3, <3>1
  <2>5. sends'[cur(p)] = 1 /\ Delivered(p)'
        BY <1>0, <2>1, <2>2 DEF Once, OneReply, Replied, Delivered
  <2>6. Waits(p)' /\ HoldsCur(p)' /\ OneReply(p)'
        BY <2>1, <2>2, <2>4, <2>5 DEF Once, Waits, HoldsCur, OneReply
  <2>7. Heard(p)'
        BY <1>0, <2>1, <2>2 DEF Once, Heard
  <2> QED BY <2>6, <2>7 DEF Once
<1>10. CASE Resume(p)
  <2>1. /\ pc[p] = "got" /\ pc'[p] = "send" /\ UNCHANGED <<nmsg, held, debugqs, out, row>>
        /\ waitfor'[p] = NoEvent
        BY <1>10 DEF Resume, Goto, OwnInv, TypeOK, guiVars
  <2>2. cur(p)' = cur(p)
        BY <2>1 DEF cur
  <2>3. sends[cur(p)] = 1
        BY <2>1 DEF Once, OneReply, Replied
  <2>4. Waits(p)' /\ HoldsCur(p)' /\ OneReply(p)'
        BY <2>1, <2>2 DEF Once, Waits, HoldsCur, OneReply, Replied, Holding
  <2>5. Heard(p)'
        BY <1>0, <2>1, <2>2, <2>3 DEF Once, Heard
  <2> QED BY <2>4, <2>5 DEF Once
<1>11. CASE Send(p)
  <2>1. /\ pc[p] = "send" /\ pc'[p] \in {"ended", "recv"}
        /\ UNCHANGED <<nmsg, held, debugqs, row, waitfor>>
        /\ out'[p] = Append(out[p], held[p]) /\ out[p] \in Seq(Bytes)
        BY <1>11 DEF Send, Goto, OwnInv, TypeOK, guiVars
  <2>2. held[p] \in Bytes /\ nmsg[p] = Len(out[p]) + 1
        BY <2>1 DEF OwnInv, Progress, Holding
  <2>3. Len(out'[p]) = nmsg[p]
        BY <2>1, <2>2
  <2>4. Waits(p)' /\ HoldsCur(p)' /\ OneReply(p)'
        BY <2>1 DEF Once, Waits, HoldsCur, OneReply, Replied, Holding
  <2>5. \A n \in 1 .. Len(out'[p]) : n \in 1 .. Len(out[p]) \/ n = nmsg[p]
        BY <1>1, <2>2, <2>3
  <2>6. row[<<p, nmsg[p]>>] # "absent" => sends[<<p, nmsg[p]>>] = 1
        BY <2>1 DEF Once, Heard, cur
  <2>7. Heard(p)'
        BY <1>0, <1>1, <2>1, <2>3, <2>5, <2>6 DEF Once, Heard
  <2> QED BY <2>4, <2>7 DEF Once
<1> QED BY <1>5, <1>6, <1>7, <1>8, <1>9, <1>10, <1>11 DEF Pumping

\* VisitSendDe gives a pump the reply it waits for, and no second one: the call goes
\* round to each observer once.
LEMMA ReplyOnce ==
    ASSUME CallInv, Returned, \A p \in Pumps : Once(p), VisitSendDe, NEW q \in Pumps
    PROVE  Once(q)'
<1> DEFINE o == <<Observer, rpc.de[1][2]>>
           r == [of |-> rpc.de, text |-> rpc.text]
<1>1. /\ rpc.op = "send_de" /\ rpc.de \in Event /\ r \in Bytes
      /\ told' = told + 1 /\ told < Len(observers) /\ told \in Nat
      /\ UNCHANGED <<pc, nmsg, held, waitfor, out, row, sends, rpc, observers>>
      BY DEF VisitSendDe, Visit, CallInv, OwnInv, TypeOK, Calls, Bytes, pumpVars, guiVars,
         acceptVars
<1>2. o \in Pumps /\ o[1] = observers[told + 1]
      BY <1>1, ObserverType DEF Event, Pumps, VisitSendDe, CallInv, OwnInv, Observer
<1>3. Delivered(q) => Delivered(q)'
      BY <1>1 DEF Delivered, cur
<1>4. Len(debugqs[q]) \in Nat /\ debugqs[q] \in Seq(Bytes)
      BY DEF CallInv, OwnInv, TypeOK
<1>5. CASE waitfor[o] # rpc.de \/ q # o
  <2>1. debugqs'[q] = debugqs[q]
        BY <1>2, <1>5 DEF VisitSendDe, CallInv, OwnInv, TypeOK
  <2>2. Still(q)
        BY <1>1, <2>1 DEF Still
  <2>3. Replied(q) => Delivered(q)'
        BY <1>3 DEF Once, OneReply
  <2> QED BY <2>2, <2>3, StillOnce DEF CallInv
<1>6. CASE waitfor[o] = rpc.de /\ q = o
  <2>1. waitfor[q] # NoEvent /\ waitfor[q] = rpc.de
        BY <1>1, <1>6, NoEventAssumption
  <2>2. pc[q] \in {"poll", "got"} /\ cur(q) = rpc.de
        BY <2>1 DEF Once, Waits
  <2>3. ~Replied(q)
    <3>1. SUFFICES ASSUME Replied(q) PROVE FALSE
          OBVIOUS
    <3>2. PICK i \in 1 .. told : observers[i] = q[1]
          BY <1>1, <2>2, <3>1 DEF Once, OneReply, Delivered
    <3>3. i \in 1 .. Len(observers) /\ told + 1 \in 1 .. Len(observers) /\ i # told + 1
      <4>1. Len(observers) \in Nat
            BY DEF CallInv, OwnInv, TypeOK
      <4> QED BY <1>1, <3>2, <4>1
    <3> QED BY <1>2, <1>6, <3>2, <3>3 DEF CallInv, Attached
  <2>4. debugqs[q] = <<>> /\ pc[q] = "poll"
        BY <2>2, <2>3 DEF Replied
  <2>5. debugqs'[q] = <<r>>
    <3>1. debugqs' = [debugqs EXCEPT ![o] = Append(@, r)]
          BY <1>6 DEF VisitSendDe
    <3>2. debugqs'[q] = Append(debugqs[q], r)
          BY <1>2, <1>6, <3>1 DEF CallInv, OwnInv, TypeOK
    <3> QED BY <2>4, <3>2
  <2>6. r.of = rpc.de
        OBVIOUS
  <2> HIDE DEF r, o
  <2>7. Len(debugqs'[q]) = 1 /\ debugqs'[q][1].of = rpc.de
        BY <2>5, <2>6
  <2>8. cur(q)' = cur(q) /\ pc'[q] = "poll"
        BY <1>1, <2>4 DEF cur
  <2>9. Delivered(q)'
        BY <1>1, <1>2, <1>6 DEF Delivered
  <2>10. sends'[cur(q)] = 1
        BY <1>1, <2>2 DEF Returned
  <2>11. OneReply(q)'
        BY <2>2, <2>7, <2>8, <2>9, <2>10 DEF OneReply
  <2>12. Waits(q)' /\ HoldsCur(q)' /\ Heard(q)'
        BY <1>1, <2>8 DEF Once, Waits, HoldsCur, Heard
  <2> QED BY <2>11, <2>12 DEF Once
<1> QED BY <1>5, <1>6

\* Steps of the accept loop, of the GUI and of calls leave each pump as it is.
LEMMA OthersOnce ==
    ASSUME ReturnedOnce', CallInv, Returned, NEW p \in Pumps, Once(p), [Next]_vars,
           ~VisitSendDe, \A q \in Pumps : ~Pumping(q)
    PROVE  Once(p)'
<1>1. ASSUME UNCHANGED <<pc, nmsg, held, waitfor, debugqs, out>>,
             \A e \in Event : row'[e] = "absent" <=> row[e] = "absent",
             \A e \in Event : sends[e] = 1 => sends'[e] = 1,
             Replied(p) => Delivered(p)'
      PROVE  Once(p)'
  <2>1. Still(p)
        BY <1>1 DEF Still
  <2> QED BY <1>1, <2>1, StillOnce DEF CallInv
<1>2. Replied(p) => Delivered(p) /\ sends[cur(p)] = 1
      BY DEF Once, OneReply
<1>3. ASSUME NEW c \in Conns, CopyFlag(c)
      PROVE  Once(p)'
  <2>1. UNCHANGED <<pc, nmsg, held, waitfor, debugqs, out, row, sends, rpc, told, observers>>
        BY <1>3 DEF CopyFlag, pumpVars, guiVars, rpcVars
  <2> QED BY <1>1, <1>2, <2>1 DEF Delivered, cur
<1>4. ASSUME NEW c \in Conns, Attach(c)
      PROVE  Once(p)'
  <2>1. UNCHANGED <<pc, nmsg, held, waitfor, debugqs, out, row, sends, rpc, told>>
        BY <1>4 DEF Attach, pumpVars, guiVars, rpcVars
  <2>2. told \in 0 .. Len(observers) /\ Len(observers) \in Nat
        BY DEF CallInv, OwnInv, TypeOK
  <2>3. \A i \in 1 .. told : observers'[i] = observers[i]
        BY <1>4, <2>2, AttachOne DEF CallInv, OwnInv
  <2>4. Delivered(p) => Delivered(p)'
        BY <2>1, <2>3 DEF Delivered, cur
  <2> QED BY <1>1, <1>2, <2>1, <2>4
<1>5. ASSUME NEW c \in Conns, StartPumps(c)
      PROVE  Once(p)'
  <2>1. /\ UNCHANGED <<nmsg, held, waitfor, debugqs, out, row, sends, rpc, told, observers>>
        /\ pc'[p] = IF p[1] = c THEN "recv" ELSE pc[p]
        BY <1>5 DEF StartPumps, guiVars, rpcVars
  <2>2. CASE p[1] # c
    <3>1. Still(p) /\ (Delivered(p) => Delivered(p)')
          BY <2>1, <2>2 DEF Still, Delivered, cur
    <3> QED BY <1>2, <3>1, StillOnce DEF CallInv
  <2>3. CASE p[1] = c
    <3>1. pc[p] = "off"
          BY <1>5, <2>3 DEF StartPumps, CallInv, OwnInv, Progress
    <3>2. Waits(p)' /\ HoldsCur(p)' /\ OneReply(p)'
          BY <2>1, <2>3, <3>1 DEF Once, Waits, HoldsCur, OneReply, Replied, Holding
    <3>3. Heard(p)'
          BY <2>1, <2>3, <3>1 DEF Once, Heard
    <3> QED BY <3>2, <3>3 DEF Once
  <2> QED BY <2>2, <2>3
<1>6. ASSUME NEW e \in Event, NEW t \in Texts, HandleSend(e, t) \/ AutoSend(e, t)
      PROVE  Once(p)'
  <2>1. /\ UNCHANGED <<pc, nmsg, held, waitfor, debugqs, out, row, told, observers>>
        /\ sends' = [sends EXCEPT ![e] = @ + 1] /\ rpc'.de = e
        BY <1>6 DEF HandleSend, AutoSend, Call, pumpVars, acceptVars
  <2>2. sends[e] # 1
    <3>1. sends[e] \in Nat /\ sends'[e] = sends[e] + 1 /\ sends'[e] <= 1
          BY <2>1, BoundsAssumption DEF CallInv, OwnInv, TypeOK, ReturnedOnce
    <3> QED BY <3>1
  <2>3. \A d \in Event : sends[d] = 1 => sends'[d] = 1
        BY <2>1, <2>2 DEF CallInv, OwnInv, TypeOK
  <2>4. Replied(p) => Delivered(p)'
    <3>1. cur(p)' = cur(p)
          BY <2>1 DEF cur
    <3> QED BY <1>2, <2>1, <2>2, <3>1 DEF Delivered
  <2> QED BY <1>1, <2>1, <2>3, <2>4
<1>7. CASE ToggleAuto \/ UNCHANGED vars
  <2>1. UNCHANGED <<pc, nmsg, held, waitfor, debugqs, out, row, sends, rpc, told, observers>>
        BY <1>7 DEF ToggleAuto, vars, pumpVars, guiVars, rpcVars, acceptVars
  <2> QED BY <1>1, <1>2, <2>1 DEF Delivered, cur
<1>8. CASE HandleClearStreams \/ GetDebugQ
  <2>1. UNCHANGED <<pc, nmsg, held, waitfor, debugqs, out, sends, rpc, told, observers>>
        BY <1>8 DEF HandleClearStreams, GetDebugQ, pumpVars, rpcVars, acceptVars
  <2>2. \A e \in Event : row'[e] = "absent" <=> row[e] = "absent"
        BY <1>8 DEF HandleClearStreams, GetDebugQ
  <2> QED BY <1>1, <1>2, <2>1, <2>2 DEF Delivered, cur
<1>9. CASE SetDebug
  <2>1. /\ UNCHANGED <<pc, nmsg, held, waitfor, debugqs, out, row, sends>>
        /\ rpc'.op = "setdebug"
        BY <1>9 DEF SetDebug, pumpVars
  <2> QED BY <1>1, <2>1 DEF Delivered
<1>10. CASE VisitSetDebug
  <2>1. /\ UNCHANGED <<pc, nmsg, held, waitfor, debugqs, out, row, sends>>
        /\ rpc' = rpc /\ rpc.op = "setdebug"
        BY <1>10 DEF VisitSetDebug, Visit, pumpVars, guiVars
  <2> QED BY <1>1, <2>1 DEF Delivered
<1>12. CASE NotifyEnds
  <2>1. /\ UNCHANGED <<pc, nmsg, held, waitfor, debugqs, out, row, sends>>
        BY <1>12 DEF NotifyEnds, EndCall, pumpVars, guiVars
  <2>2. rpc'.op = "return"
        BY <1>12 DEF NotifyEnds, EndCall, CallInv, OwnInv, TypeOK, Calls
  <2> QED BY <1>1, <2>1, <2>2 DEF Delivered
<1>11. CASE Return
  <2>1. /\ UNCHANGED <<pc, nmsg, held, waitfor, debugqs, out, sends>> /\ rpc'.op = "idle"
        BY <1>11 DEF Return, pumpVars, Idle
  <2>2. \A e \in Event : row'[e] = "absent" <=> row[e] = "absent"
        BY <1>11 DEF Return, CallInv, OwnInv, TypeOK
  <2> QED BY <1>1, <2>1, <2>2 DEF Delivered
<1> QED BY <1>3, <1>4, <1>5, <1>6, <1>7, <1>8, <1>9, <1>10, <1>11, <1>12
        DEF Next, Accepting, Operator, Polling, Calling

\* All of it together is inductive.
LEMMA OnceStep ==
    ASSUME OnceInv, [Next]_vars, ReturnedOnce'
    PROVE  OnceInv'
<1>1. CallInv /\ Returned /\ \A p \in Pumps : Once(p)
      BY DEF OnceInv
<1>2. CallInv'
  <2>1. OwnInv'
        BY <1>1, TypeStep, OwnStep DEF CallInv, OwnInv, Own
  <2> QED BY <1>1, <2>1, CallStep DEF CallInv, OwnInv
<1>3. Returned'
  <2>1. ASSUME NEW e \in Event, NEW t \in Texts, HandleSend(e, t) \/ AutoSend(e, t)
        PROVE  Returned'
    <3>1. rpc'.de = e /\ sends' = [sends EXCEPT ![e] = @ + 1]
          BY <2>1 DEF HandleSend, AutoSend, Call
    <3>2. sends[e] \in Nat /\ sends'[e] = sends[e] + 1 /\ sends'[e] <= 1
          BY <1>1, <3>1, BoundsAssumption DEF CallInv, OwnInv, TypeOK, ReturnedOnce
    <3>3. sends'[e] = 1
          BY <3>2
    <3> QED BY <3>1, <3>3 DEF Returned
  <2>2. CASE SetDebug \/ NotifyEnds \/ Return
    <3>1. rpc'.op # "send_de"
      <4>1. CASE SetDebug
        <5>1. rpc' = [op |-> "setdebug", de |-> NoEvent, text |-> "as is"]
              BY <4>1 DEF SetDebug
        <5> QED BY <5>1
      <4>2. CASE Return
        <5>1. rpc' = [op |-> "idle", de |-> NoEvent, text |-> "as is"]
              BY <4>2 DEF Return, Idle
        <5> QED BY <5>1
      <4>3. CASE NotifyEnds
            BY <1>1, <4>3 DEF NotifyEnds, EndCall, CallInv, OwnInv, TypeOK, Calls
      <4> QED BY <2>2, <4>1, <4>2, <4>3
    <3> QED BY <3>1 DEF Returned
  <2>3. ASSUME UNCHANGED <<rpc, sends>>
        PROVE  Returned'
        BY <1>1, <2>3 DEF Returned
  <2>4. ASSUME NEW p \in Pumps, Pumping(p)
        PROVE  Returned'
        BY <1>1, <2>3, <2>4, OtherPumps DEF CallInv
  <2>5. ASSUME NEW c \in Conns, Accepting(c)
        PROVE  Returned'
        BY <2>3, <2>5 DEF Accepting, CopyFlag, Attach, StartPumps, rpcVars, guiVars
  <2>6. CASE ToggleAuto \/ HandleClearStreams \/ GetDebugQ \/ UNCHANGED vars
        BY <2>3, <2>6 DEF ToggleAuto, HandleClearStreams, GetDebugQ, vars, rpcVars, guiVars
  <2>7. CASE VisitSetDebug \/ VisitSendDe
        BY <2>3, <2>7 DEF VisitSetDebug, VisitSendDe, Visit, guiVars
  <2> QED BY <2>1, <2>2, <2>4, <2>5, <2>6, <2>7 DEF Next, Operator, Polling, Calling
<1>4. ASSUME NEW p \in Pumps
      PROVE  Once(p)'
  <2>1. CASE VisitSendDe
        BY <1>1, <2>1, ReplyOnce
  <2>2. CASE Pumping(p)
        BY <1>1, <2>2, PumpOnce DEF CallInv
  <2>3. ASSUME NEW q \in Pumps, q # p, Pumping(q)
        PROVE  Once(p)'
    <3>1. Still(p) /\ (Replied(p) => Delivered(p)')
          BY <1>1, <2>3, OtherPumps DEF CallInv, Once, OneReply
    <3> QED BY <1>1, <3>1, StillOnce DEF CallInv
  <2> QED BY <1>1, <2>1, <2>2, <2>3, OthersOnce
<1> QED BY <1>2, <1>3, <1>4 DEF OnceInv

\* It holds from the start on.
LEMMA OnceInvariance == Spec /\ []ReturnedOnce => []OnceInv
<1>0. Init => Returned
  <2> SUFFICES ASSUME Init PROVE rpc.op = "idle"
      BY DEF Returned
  <2> QED BY DEF Init, Idle
<1>1. Init => \A p \in Pumps : Once(p)
  <2> SUFFICES ASSUME Init, NEW p \in Pumps PROVE Once(p)
      OBVIOUS
  <2>2. Waits(p) /\ HoldsCur(p) /\ OneReply(p)
        BY DEF Init, Waits, HoldsCur, OneReply, Replied, Holding
  <2>3. Heard(p)
    <3>1. \A n \in 1 .. MaxMsgs : <<p, n>> \in Event
          BY DEF Event
    <3> QED BY <3>1 DEF Init, Heard
  <2> QED BY <2>2, <2>3 DEF Once
<1>2. OnceInv /\ [Next]_vars /\ ReturnedOnce' => OnceInv'
      BY OnceStep
<1>3. CallInv /\ Returned /\ (\A p \in Pumps : Once(p)) => OnceInv
      BY DEF OnceInv
<1>4. Init => CallInv
      BY CallInit, OwnInit DEF CallInv
<1> QED BY <1>0, <1>1, <1>2, <1>3, <1>4, PTL DEF Spec

\* A chunk that the Debugger was notified of is not sent on, and nothing in its place,
\* before the GUI returned its event, in every behaviour in which the GUI returns no
\* event twice.
THEOREM HeldAlways == Spec /\ []ReturnedOnce => []HeldUntilReturned
<1>1. OnceInv => HeldUntilReturned
      BY DEF OnceInv, Once, Heard, HeldUntilReturned
<1> QED BY <1>1, OnceInvariance, PTL

\* forward_any with waitfordebug implements the abstract relay, in every behaviour in
\* which the GUI returns no event twice: a chunk goes out once, in order, and never in
\* the place of another.
THEOREM PumpRelays == Spec /\ []ReturnedOnce => RelaySpec
<1>1. Init => Relay!Init
      BY DEF Init, Relay!Init, given
<1>2. OnceInv /\ [Next]_vars => [Relay!Next]_(Relay!vars)
  <2> SUFFICES ASSUME OnceInv, [Next]_vars
               PROVE  [Relay!Next]_(Relay!vars)
      OBVIOUS
  <2>0. OwnInv /\ TypeOK /\ \A p \in Pumps : Once(p)
        BY DEF OnceInv, CallInv, OwnInv
  <2>1. ASSUME UNCHANGED <<nmsg, out>>
        PROVE  [Relay!Next]_(Relay!vars)
        BY <2>1 DEF given, Relay!vars
  <2>2. ASSUME NEW p \in Pumps, Recv(p)
        PROVE  Relay!Take(p)
    <3>1. pc[p] = "recv" /\ out' = out /\ nmsg' = [nmsg EXCEPT ![p] = @ + 1]
          BY <2>2 DEF Recv
    <3>2. Len(given[p]) = nmsg[p]
      <4>1. nmsg[p] = Len(out[p]) /\ out[p] \in Seq(Bytes)
            BY <2>0, <3>1 DEF OwnInv, Progress, TypeOK
      <4>2. given[p] = [k \in 1 .. Len(out[p]) |-> out[p][k].of]
            BY DEF given
      <4> QED BY <4>1, <4>2
    <3> QED BY <3>1, <3>2 DEF Relay!Take, given
  <2>3. ASSUME NEW p \in Pumps, Send(p)
        PROVE  Relay!Give(p)
    <3>1. /\ pc[p] = "send" /\ nmsg' = nmsg
          /\ out' = [out EXCEPT ![p] = Append(@, held[p])]
          BY <2>3 DEF Send
    <3>2. /\ nmsg[p] = Len(out[p]) + 1 /\ out[p] \in Seq(Bytes) /\ held[p] \in Bytes
          /\ held[p].of = <<p, nmsg[p]>>
          BY <2>0, <3>1 DEF OwnInv, Progress, TypeOK, Holding, Once, HoldsCur, cur
    <3>3. /\ given[p] = [k \in 1 .. Len(out[p]) |-> out[p][k].of]
          /\ given'[p] = [k \in 1 .. Len(out'[p]) |-> out'[p][k].of]
          /\ \A q \in Pumps : q # p => given'[q] = given[q]
          BY <2>0, <3>1 DEF given, TypeOK
    <3>4. given'[p] = Append(given[p], <<p, nmsg[p]>>) /\ Len(given[p]) < nmsg[p]
      <4> DEFINE n == Len(out[p])
                 f == [k \in 1 .. n |-> out[p][k].of]
                 x == <<p, nmsg[p]>>
      <4>1. out'[p] = Append(out[p], held[p])
            BY <2>0, <3>1 DEF TypeOK
      <4>2. n \in Nat /\ Len(out'[p]) = n + 1
            BY <3>2, <4>1
      <4>3. Len(f) = n /\ f \in Seq(Event)
        <5>1. \A k \in 1 .. n : out[p][k].of \in Event
          <6>1. \A k \in 1 .. n : out[p][k] \in Bytes
                BY <3>2
          <6> QED BY <6>1 DEF Bytes
        <5> QED BY <4>2, <5>1
      <4>4. x \in Event
            BY <3>2 DEF Bytes
      <4>5. ASSUME NEW k \in 1 .. n + 1
            PROVE  out'[p][k].of = IF k = n + 1 THEN x ELSE f[k]
        <5>1. CASE k = n + 1
              BY <3>2, <4>1, <5>1
        <5>2. CASE k # n + 1
              BY <3>2, <4>1, <4>2, <5>2
        <5> QED BY <5>1, <5>2
      <4>6. given'[p] = [k \in 1 .. n + 1 |-> IF k = n + 1 THEN x ELSE f[k]]
            BY <3>3, <4>2, <4>5
      <4>7. given[p] = f /\ n < nmsg[p]
            BY <3>2, <3>3, <4>2
      <4> HIDE DEF f, x, n
      <4>8. Append(f, x) = [k \in 1 .. n + 1 |-> IF k = n + 1 THEN x ELSE f[k]]
            BY <4>2, <4>3, <4>4, AppendIs
      <4> QED BY <4>3, <4>6, <4>7, <4>8 DEF x
    <3>5. given' = [given EXCEPT ![p] = Append(@, <<p, nmsg[p]>>)]
          BY <3>3, <3>4 DEF given
    <3> QED BY <3>1, <3>4, <3>5 DEF Relay!Give
  <2>4. ASSUME NEW p \in Pumps, Pumping(p)
        PROVE  [Relay!Next]_(Relay!vars)
    <3>1. CASE Recv(p)
          BY <2>2, <3>1 DEF Relay!Next
    <3>2. CASE Send(p)
          BY <2>3, <3>2 DEF Relay!Next
    <3>3. CASE ~Recv(p) /\ ~Send(p)
          BY <2>1, <2>4, <3>3 DEF Pumping, RecvEnds, TestFlag, Notify, PeerGone, Register,
             GetReply, Resume, SendFails
    <3> QED BY <3>1, <3>2, <3>3
  <2>5. ASSUME ~(\E p \in Pumps : Pumping(p))
        PROVE  [Relay!Next]_(Relay!vars)
        BY <2>1, <2>5 DEF Next, Accepting, CopyFlag, Attach, StartPumps, Operator, Polling,
           HandleSend, AutoSend, ToggleAuto, HandleClearStreams, SetDebug, GetDebugQ,
           Calling, VisitSetDebug, VisitSendDe, Visit, NotifyEnds, EndCall, Return, vars,
           pumpVars
  <2> QED BY <2>4, <2>5
<1> QED BY <1>1, <1>2, OnceInvariance, PTL DEF Spec, RelaySpec, Relay!Spec

=============================================================================
