------------------------- MODULE UdpSessions_proofs -------------------------
(***************************************************************************)
(* Theorems about UdpSessions, for every set of victims and ports, every   *)
(* number of ticks and any number of datagrams and answers.                *)
(***************************************************************************)
EXTENDS UdpSessions, TLAPS

\* What the main thread may rely on while it handles a datagram: a port that it
\* has bound is nobody's, and nobody else adds a session for its victim.
MainKnows ==
    /\ mainpc # "recv" => caddr \in Clients
    /\ mainpc = "lookup" => sport \in Ports
    /\ mainpc \in {"bind", "firstsend", "addsession"} =>
          \A p \in Ports : session[p] # caddr
    /\ mainpc \in {"firstsend", "addsession", "start"} =>
          sport \in Ports /\ thread[sport] = "none"
    /\ mainpc \in {"firstsend", "addsession"} => session[sport] = None
    /\ mainpc = "start" => session[sport] = caddr

\* What a receive thread may rely on: only it removes its session, and it does so
\* before it lets go of the socket.
ThreadKnows ==
    \A p \in Ports :
        /\ thread[p] \in {"select", "delsession"} =>
              session[p] = serves[p] /\ serves[p] \in Clients
        /\ thread[p] = "exit" => session[p] = None

\* A tick is a time-out or the answer from which the time-outs are counted.
TicksCounted ==
    \A p \in Ports :
        /\ thread[p] = "select" => failticks[p] <= idle[p] + 1
        /\ thread[p] = "delsession" => idle[p] + 1 >= MaxFailTicks

\* What MainKnows and ThreadKnows make of the table, in one formula.
Table == MainKnows /\ ThreadKnows /\ OneSessionPerClient /\ SessionServed
                   /\ LookupFindsOwnSession

\* The inductive invariant.
Inv == TypeOK /\ Table /\ TicksCounted

-----------------------------------------------------------------------------

\* Every step keeps the types; the main thread has a port when it starts a thread.
LEMMA TypeStep ==
    ASSUME TypeOK, MainKnows, [Next]_vars
    PROVE  TypeOK'
<1>1. ASSUME NEW c \in Clients, RecvFrom(c)
      PROVE  TypeOK'
      BY <1>1 DEF RecvFrom, TypeOK, threadVars
<1>2. ASSUME GetSession
      PROVE  TypeOK'
      BY <1>2 DEF GetSession, TypeOK, threadVars, netVars
<1>3. ASSUME Lookup
      PROVE  TypeOK'
      BY <1>3 DEF Lookup, TypeOK, threadVars, netVars
<1>4. ASSUME SendTo
      PROVE  TypeOK'
      BY <1>4 DEF SendTo, TypeOK, threadVars, netVars
<1>5. ASSUME NEW p \in Ports, Bind(p)
      PROVE  TypeOK'
      BY <1>5 DEF Bind, TypeOK, threadVars
<1>6. ASSUME FirstSend
      PROVE  TypeOK'
      BY <1>6 DEF FirstSend, TypeOK, threadVars, netVars
<1>7. ASSUME AddSession
      PROVE  TypeOK'
      BY <1>7 DEF AddSession, TypeOK, threadVars, netVars
<1>8. ASSUME StartThread
      PROVE  TypeOK'
      BY <1>8 DEF StartThread, TypeOK, netVars
<1>9. ASSUME StartFails
      PROVE  TypeOK'
      BY <1>9 DEF StartFails, TypeOK, MainKnows, threadVars, netVars
<1>10. ASSUME NEW p \in Ports, Answer(p)
      PROVE  TypeOK'
      BY <1>10 DEF Answer, Tick, TypeOK, mainVars
<1>11. ASSUME NEW p \in Ports, AnswerRaises(p)
      PROVE  TypeOK'
      BY <1>11 DEF AnswerRaises, TypeOK, mainVars, threadVars
<1>12. ASSUME NEW p \in Ports, SelectTimeout(p)
      PROVE  TypeOK'
      BY <1>12 DEF SelectTimeout, Tick, TypeOK, mainVars, netVars
<1>13. ASSUME NEW p \in Ports, DelSession(p)
      PROVE  TypeOK'
      BY <1>13 DEF DelSession, TypeOK, mainVars, netVars
<1>14. ASSUME NEW p \in Ports, ThreadExit(p)
      PROVE  TypeOK'
      BY <1>14 DEF ThreadExit, TypeOK, mainVars, netVars
<1>15. ASSUME NEW p \in Ports, ServerSends(p)
      PROVE  TypeOK'
      BY <1>15 DEF ServerSends, TypeOK, mainVars, threadVars
<1>16. ASSUME UNCHANGED vars
      PROVE  TypeOK'
      BY <1>16 DEF vars, TypeOK, mainVars, threadVars, netVars
<1>17. QED
      BY <1>1, <1>2, <1>3, <1>4, <1>5, <1>6, <1>7, <1>8,
         <1>9, <1>10, <1>11, <1>12, <1>13, <1>14, <1>15, <1>16
      DEF Next, MainThread, ReceiveThread

\* Every step keeps what the threads rely on, and the table in order.
LEMMA TableStep ==
    ASSUME TypeOK, Table, [Next]_vars
    PROVE  Table'
<1>1. ASSUME NEW c \in Clients, RecvFrom(c)
      PROVE  Table'
  <2>1. MainKnows'
        BY <1>1 DEF RecvFrom, MainKnows
  <2>2. ThreadKnows'
        BY <1>1 DEF RecvFrom, Table, ThreadKnows, threadVars
  <2>3. OneSessionPerClient'
        BY <1>1 DEF RecvFrom, Table, OneSessionPerClient, threadVars
  <2>4. SessionServed'
        BY <1>1 DEF RecvFrom, Table, SessionServed, threadVars
  <2>5. LookupFindsOwnSession'
        BY <1>1, NoneAssumption DEF RecvFrom, Table, LookupFindsOwnSession,
           threadVars
  <2> QED BY <2>1, <2>2, <2>3, <2>4, <2>5 DEF Table
<1>2. ASSUME GetSession
      PROVE  Table'
  <2>1. MainKnows'
        BY <1>2 DEF GetSession, Table, TypeOK, MainKnows, mainVars, netVars
  <2>2. ThreadKnows'
        BY <1>2 DEF GetSession, Table, ThreadKnows, mainVars, threadVars, netVars
  <2>3. OneSessionPerClient'
        BY <1>2 DEF GetSession, Table, OneSessionPerClient, threadVars
  <2>4. SessionServed'
        BY <1>2 DEF GetSession, Table, SessionServed, threadVars
  <2>5. LookupFindsOwnSession'
        BY <1>2 DEF GetSession, Table, LookupFindsOwnSession, threadVars
  <2> QED BY <2>1, <2>2, <2>3, <2>4, <2>5 DEF Table
<1>3. ASSUME Lookup
      PROVE  Table'
  <2>1. MainKnows'
        BY <1>3 DEF Lookup, Table, MainKnows
  <2>2. ThreadKnows'
        BY <1>3 DEF Lookup, Table, ThreadKnows, threadVars
  <2>3. OneSessionPerClient'
        BY <1>3 DEF Lookup, Table, OneSessionPerClient, threadVars
  <2>4. SessionServed'
        BY <1>3 DEF Lookup, Table, SessionServed, threadVars
  <2>5. LookupFindsOwnSession'
        BY <1>3 DEF Lookup, Table, LookupFindsOwnSession, threadVars
  <2> QED BY <2>1, <2>2, <2>3, <2>4, <2>5 DEF Table
<1>4. ASSUME SendTo
      PROVE  Table'
  <2>1. MainKnows'
        BY <1>4 DEF SendTo, MainKnows
  <2>2. ThreadKnows'
        BY <1>4 DEF SendTo, Table, ThreadKnows, threadVars
  <2>3. OneSessionPerClient'
        BY <1>4 DEF SendTo, Table, OneSessionPerClient, threadVars
  <2>4. SessionServed'
        BY <1>4 DEF SendTo, Table, SessionServed, threadVars
  <2>5. LookupFindsOwnSession'
        BY <1>4 DEF SendTo, Table, LookupFindsOwnSession, threadVars
  <2> QED BY <2>1, <2>2, <2>3, <2>4, <2>5 DEF Table
<1>5. ASSUME NEW p \in Ports, Bind(p)
      PROVE  Table'
  <2>1. MainKnows'
        BY <1>5 DEF Bind, Table, MainKnows, InUse, threadVars
  <2>2. ThreadKnows'
        BY <1>5 DEF Bind, Table, ThreadKnows, threadVars
  <2>3. OneSessionPerClient'
        BY <1>5 DEF Bind, Table, OneSessionPerClient, threadVars
  <2>4. SessionServed'
        BY <1>5 DEF Bind, Table, SessionServed, threadVars
  <2>5. LookupFindsOwnSession'
        BY <1>5 DEF Bind, Table, LookupFindsOwnSession, threadVars
  <2> QED BY <2>1, <2>2, <2>3, <2>4, <2>5 DEF Table
<1>6. ASSUME FirstSend
      PROVE  Table'
  <2>1. MainKnows'
        BY <1>6 DEF FirstSend, Table, MainKnows, threadVars
  <2>2. ThreadKnows'
        BY <1>6 DEF FirstSend, Table, ThreadKnows, threadVars
  <2>3. OneSessionPerClient'
        BY <1>6 DEF FirstSend, Table, OneSessionPerClient, threadVars
  <2>4. SessionServed'
        BY <1>6 DEF FirstSend, Table, SessionServed, threadVars
  <2>5. LookupFindsOwnSession'
        BY <1>6 DEF FirstSend, Table, LookupFindsOwnSession, threadVars
  <2> QED BY <2>1, <2>2, <2>3, <2>4, <2>5 DEF Table
<1>7. ASSUME AddSession
      PROVE  Table'
  <2>1. MainKnows'
        BY <1>7 DEF AddSession, Table, TypeOK, MainKnows, threadVars
  <2>2. ThreadKnows'
        BY <1>7 DEF AddSession, Table, TypeOK, ThreadKnows, MainKnows, threadVars
  <2>3. OneSessionPerClient'
        BY <1>7 DEF AddSession, Table, OneSessionPerClient, MainKnows, threadVars
  <2>4. SessionServed'
        BY <1>7 DEF AddSession, Table, SessionServed, threadVars
  <2>5. LookupFindsOwnSession'
        BY <1>7 DEF AddSession, LookupFindsOwnSession, threadVars
  <2> QED BY <2>1, <2>2, <2>3, <2>4, <2>5 DEF Table
<1>8. ASSUME StartThread
      PROVE  Table'
  <2>1. MainKnows'
        BY <1>8 DEF StartThread, MainKnows
  <2>2. ThreadKnows'
        BY <1>8 DEF StartThread, Table, TypeOK, ThreadKnows, MainKnows
  <2>3. OneSessionPerClient'
        BY <1>8 DEF StartThread, Table, OneSessionPerClient
  <2>4. SessionServed'
        BY <1>8 DEF StartThread, Table, TypeOK, SessionServed, MainKnows
  <2>5. LookupFindsOwnSession'
        BY <1>8 DEF StartThread, LookupFindsOwnSession
  <2> QED BY <2>1, <2>2, <2>3, <2>4, <2>5 DEF Table
<1>9. ASSUME StartFails
      PROVE  Table'
  <2>1. MainKnows'
        BY <1>9 DEF StartFails, MainKnows
  <2>2. ThreadKnows'
        BY <1>9 DEF StartFails, Table, ThreadKnows, MainKnows, threadVars
  <2>3. OneSessionPerClient'
        BY <1>9, NoneAssumption DEF StartFails, Table, OneSessionPerClient,
           MainKnows, threadVars
  <2>4. SessionServed'
        BY <1>9, NoneAssumption DEF StartFails, Table, SessionServed, threadVars
  <2>5. LookupFindsOwnSession'
        BY <1>9 DEF StartFails, LookupFindsOwnSession, threadVars
  <2> QED BY <2>1, <2>2, <2>3, <2>4, <2>5 DEF Table
<1>10. ASSUME NEW p \in Ports, Answer(p)
      PROVE  Table'
  <2>1. MainKnows'
        BY <1>10 DEF Answer, Tick, Table, MainKnows, mainVars
  <2>2. ThreadKnows'
        BY <1>10 DEF Answer, Tick, Table, ThreadKnows, mainVars
  <2>3. OneSessionPerClient'
        BY <1>10 DEF Answer, Table, OneSessionPerClient
  <2>4. SessionServed'
        BY <1>10 DEF Answer, Tick, Table, SessionServed, mainVars
  <2>5. LookupFindsOwnSession'
        BY <1>10 DEF Answer, Table, LookupFindsOwnSession, mainVars
  <2> QED BY <2>1, <2>2, <2>3, <2>4, <2>5 DEF Table
<1>11. ASSUME NEW p \in Ports, AnswerRaises(p)
      PROVE  Table'
  <2>1. MainKnows'
        BY <1>11 DEF AnswerRaises, Table, MainKnows, mainVars, threadVars
  <2>2. ThreadKnows'
        BY <1>11 DEF AnswerRaises, Table, ThreadKnows, mainVars, threadVars
  <2>3. OneSessionPerClient'
        BY <1>11 DEF AnswerRaises, Table, OneSessionPerClient, threadVars
  <2>4. SessionServed'
        BY <1>11 DEF AnswerRaises, Table, SessionServed, mainVars, threadVars
  <2>5. LookupFindsOwnSession'
        BY <1>11 DEF AnswerRaises, Table, LookupFindsOwnSession, mainVars,
           threadVars
  <2> QED BY <2>1, <2>2, <2>3, <2>4, <2>5 DEF Table
<1>12. ASSUME NEW p \in Ports, SelectTimeout(p)
      PROVE  Table'
  <2>1. MainKnows'
        BY <1>12 DEF SelectTimeout, Tick, Table, MainKnows, mainVars
  <2>2. ThreadKnows'
        BY <1>12 DEF SelectTimeout, Tick, Table, ThreadKnows, mainVars
  <2>3. OneSessionPerClient'
        BY <1>12 DEF SelectTimeout, Table, OneSessionPerClient, netVars
  <2>4. SessionServed'
        BY <1>12 DEF SelectTimeout, Tick, Table, SessionServed, mainVars,
           threadVars, netVars
  <2>5. LookupFindsOwnSession'
        BY <1>12 DEF SelectTimeout, Table, LookupFindsOwnSession, mainVars,
           threadVars
  <2> QED BY <2>1, <2>2, <2>3, <2>4, <2>5 DEF Table
<1>13. ASSUME NEW p \in Ports, DelSession(p)
      PROVE  Table'
  <2>1. MainKnows'
        BY <1>13, NoneAssumption DEF DelSession, Table, MainKnows, mainVars
  <2>2. ThreadKnows'
        BY <1>13 DEF DelSession, Table, TypeOK, ThreadKnows
  <2>3. OneSessionPerClient'
        BY <1>13 DEF DelSession, Table, TypeOK, OneSessionPerClient, ThreadKnows
  <2>4. SessionServed'
        BY <1>13 DEF DelSession, Table, TypeOK, SessionServed, MainKnows, mainVars
  <2>5. LookupFindsOwnSession'
        BY <1>13, NoneAssumption DEF DelSession, Table, LookupFindsOwnSession,
           mainVars
  <2> QED BY <2>1, <2>2, <2>3, <2>4, <2>5 DEF Table
<1>14. ASSUME NEW p \in Ports, ThreadExit(p)
      PROVE  Table'
  <2>1. MainKnows'
        BY <1>14 DEF ThreadExit, Table, MainKnows, mainVars
  <2>2. ThreadKnows'
        BY <1>14 DEF ThreadExit, Table, ThreadKnows, mainVars
  <2>3. OneSessionPerClient'
        BY <1>14 DEF ThreadExit, Table, OneSessionPerClient, MainKnows, ThreadKnows
  <2>4. SessionServed'
        BY <1>14, NoneAssumption DEF ThreadExit, Table, SessionServed, ThreadKnows,
           mainVars
  <2>5. LookupFindsOwnSession'
        BY <1>14 DEF ThreadExit, Table, LookupFindsOwnSession, mainVars
  <2> QED BY <2>1, <2>2, <2>3, <2>4, <2>5 DEF Table
<1>15. ASSUME NEW p \in Ports, ServerSends(p)
      PROVE  Table'
  <2>1. MainKnows'
        BY <1>15 DEF ServerSends, Table, MainKnows, mainVars, threadVars
  <2>2. ThreadKnows'
        BY <1>15 DEF ServerSends, Table, ThreadKnows, mainVars, threadVars
  <2>3. OneSessionPerClient'
        BY <1>15 DEF ServerSends, Table, OneSessionPerClient, threadVars
  <2>4. SessionServed'
        BY <1>15 DEF ServerSends, Table, TypeOK, SessionServed, mainVars, threadVars
  <2>5. LookupFindsOwnSession'
        BY <1>15 DEF ServerSends, Table, TypeOK, LookupFindsOwnSession, mainVars,
           threadVars
  <2> QED BY <2>1, <2>2, <2>3, <2>4, <2>5 DEF Table
<1>16. ASSUME UNCHANGED vars
      PROVE  Table'
      BY <1>16 DEF vars, Table, MainKnows, ThreadKnows, OneSessionPerClient,
         SessionServed, LookupFindsOwnSession, mainVars, threadVars
<1>17. QED
      BY <1>1, <1>2, <1>3, <1>4, <1>5, <1>6, <1>7, <1>8,
         <1>9, <1>10, <1>11, <1>12, <1>13, <1>14, <1>15, <1>16
      DEF Next, MainThread, ReceiveThread

\* Every step keeps the count.
LEMMA TicksStep ==
    ASSUME TypeOK, TicksCounted, [Next]_vars
    PROVE  TicksCounted'
<1>1. ASSUME NEW c \in Clients, RecvFrom(c)
      PROVE  TicksCounted'
      BY <1>1 DEF RecvFrom, TicksCounted, threadVars
<1>2. ASSUME GetSession
      PROVE  TicksCounted'
      BY <1>2 DEF GetSession, TicksCounted, threadVars
<1>3. ASSUME Lookup
      PROVE  TicksCounted'
      BY <1>3 DEF Lookup, TicksCounted, mainVars, threadVars
<1>4. ASSUME SendTo
      PROVE  TicksCounted'
      BY <1>4 DEF SendTo, TicksCounted, mainVars, threadVars, netVars
<1>5. ASSUME NEW p \in Ports, Bind(p)
      PROVE  TicksCounted'
      BY <1>5 DEF Bind, TicksCounted, threadVars, netVars
<1>6. ASSUME FirstSend
      PROVE  TicksCounted'
      BY <1>6 DEF FirstSend, TicksCounted, threadVars
<1>7. ASSUME AddSession
      PROVE  TicksCounted'
      BY <1>7 DEF AddSession, TicksCounted, threadVars
<1>8. ASSUME StartThread
      PROVE  TicksCounted'
      BY <1>8 DEF StartThread, TypeOK, TicksCounted, mainVars, threadVars
<1>9. ASSUME StartFails
      PROVE  TicksCounted'
      BY <1>9 DEF StartFails, TicksCounted, threadVars, netVars
<1>10. ASSUME NEW p \in Ports, Answer(p)
      PROVE  TicksCounted'
      BY <1>10 DEF Answer, Tick, TypeOK, TicksCounted
<1>11. ASSUME NEW p \in Ports, AnswerRaises(p)
      PROVE  TicksCounted'
      BY <1>11 DEF AnswerRaises, TicksCounted, threadVars
<1>12. ASSUME NEW p \in Ports, SelectTimeout(p)
      PROVE  TicksCounted'
      BY <1>12 DEF SelectTimeout, Tick, TypeOK, TicksCounted, threadVars
<1>13. ASSUME NEW p \in Ports, DelSession(p)
      PROVE  TicksCounted'
      BY <1>13 DEF DelSession, TicksCounted
<1>14. ASSUME NEW p \in Ports, ThreadExit(p)
      PROVE  TicksCounted'
      BY <1>14 DEF ThreadExit, TicksCounted
<1>15. ASSUME NEW p \in Ports, ServerSends(p)
      PROVE  TicksCounted'
      BY <1>15 DEF ServerSends, TicksCounted, threadVars
<1>16. ASSUME UNCHANGED vars
      PROVE  TicksCounted'
      BY <1>16 DEF vars, TicksCounted, threadVars
<1>17. QED
      BY <1>1, <1>2, <1>3, <1>4, <1>5, <1>6, <1>7, <1>8,
         <1>9, <1>10, <1>11, <1>12, <1>13, <1>14, <1>15, <1>16
      DEF Next, MainThread, ReceiveThread

-----------------------------------------------------------------------------

\* Nothing is bound, served or counted at the start.
LEMMA InvInit == Init => Inv
<1> SUFFICES ASSUME Init PROVE Inv
    OBVIOUS
<1>1. TypeOK
      BY DEF Init, TypeOK
<1>2. Table
      BY DEF Init, Table, MainKnows, ThreadKnows, OneSessionPerClient,
         SessionServed, LookupFindsOwnSession
<1>3. TicksCounted
      BY DEF Init, TicksCounted
<1> QED BY <1>1, <1>2, <1>3 DEF Inv

\* So it always holds.
LEMMA Invariance == Spec => []Inv
<1>1. Inv /\ [Next]_vars => Inv'
      BY TypeStep, TableStep, TicksStep DEF Inv, Table
<1> QED BY InvInit, <1>1, PTL DEF Spec

\* Every reachable state is well typed.
THEOREM TypeCorrect == Spec => []TypeOK
<1>1. Inv => TypeOK
      BY DEF Inv
<1> QED BY Invariance, <1>1, PTL

\* A victim never has two sessions, however many victims and ports there are and
\* however receive threads come and go between getsession and addsession.
THEOREM OneSession == Spec => []OneSessionPerClient
<1>1. Inv => OneSessionPerClient
      BY DEF Inv, Table
<1> QED BY Invariance, <1>1, PTL

\* A session in the table has its thread, is about to get it, or is one whose
\* thread could not be started.
THEOREM Served == Spec => []SessionServed
<1>1. Inv => SessionServed
      BY DEF Inv, Table
<1> QED BY Invariance, <1>1, PTL

\* A receive thread at work has its session in the table: nobody else removes it,
\* and nobody takes over its port.
THEOREM ThreadServes == Spec => []ThreadHasSession
<1>1. Inv => ThreadHasSession
      BY DEF Inv, Table, ThreadKnows, ThreadHasSession
<1> QED BY Invariance, <1>1, PTL

\* When addsession is called the port is free, although the main thread looked at
\* the table before it bound the port, and without holding the lock since.
THEOREM PortFree == Spec => []AddFindsPortFree
<1>1. Inv => AddFindsPortFree
      BY DEF Inv, Table, MainKnows, AddFindsPortFree
<1> QED BY Invariance, <1>1, PTL

\* The port found by getsession is never that of another victim by the time it
\* is used, although it is used without the lock.
THEOREM LookupOwn == Spec => []LookupFindsOwnSession
<1>1. Inv => LookupFindsOwnSession
      BY DEF Inv, Table
<1> QED BY Invariance, <1>1, PTL

\* No receive thread gives up before all but one of its time-outs.
THEOREM GivesUpLate == Spec => []WaitsBeforeGivingUp
<1>1. Inv => WaitsBeforeGivingUp
      BY DEF Inv, TicksCounted, WaitsBeforeGivingUp
<1> QED BY Invariance, <1>1, PTL

=============================================================================
