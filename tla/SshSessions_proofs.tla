------------------------- MODULE SshSessions_proofs -------------------------
(***************************************************************************)
(* Theorems about SshSessions, for any number of connections and of chunks *)
(* on each.                                                                *)
(***************************************************************************)
EXTENDS SshSessions, WellFoundedInduction, TLAPS

Directions == {"c2s", "s2c"}

\* The types of what the invariants below speak of.
Types ==
    /\ mainpc \in {"cleanup", "accept", "connect", "client", "server", "channel",
                   "request", "open", "pumps"}
    /\ accepted \in 0 .. NumConns
    /\ mainpc \notin {"cleanup", "accept"} => accepted \in Conns
    /\ destt \in [Conns -> {"none", "bad", "up", "authed"}]
    /\ victim \in [Conns -> {"off", "up", "authed", "channel", "shell", "dead"}]
    /\ pump \in [Conns -> {"off", "start", "select", "over"} \cup Directions]
    /\ taken \in [Streams -> Nat]
    /\ given \in [Streams -> Seq(Streams \X Nat)]

\* The transport to the server is made once, before the server for the victim, and
\* a pump is started once.
SetupOrder ==
    /\ \A i \in Conns : i > accepted => destt[i] = "none" /\ pump[i] = "off"
    /\ mainpc \notin {"cleanup", "accept"} => pump[accepted] = "off"
    /\ mainpc \in {"connect", "client"} => destt[accepted] = "none"
    /\ mainpc = "server" => destt[accepted] # "none"

\* A second shell is open at a server that took the victim's password.
LoggedIn ==
    operator = "shell" => picked[3] \in Conns /\ destt[picked[3]] = "authed"

\* A shell that has not ended holds the one chunk it is about to send, if any.
Relaying ==
    \A i \in Conns, d \in Directions :
        /\ pump[i] = d => taken[<<i, d>>] = Len(given[<<i, d>>]) + 1
        /\ pump[i] \notin {d, "over"} => taken[<<i, d>>] = Len(given[<<i, d>>])

\* The inductive invariant.
Inv == Types /\ SetupOrder /\ AuthFindsTransport /\ LoggedIn /\ Relaying

-----------------------------------------------------------------------------

\* Every step keeps the types.
LEMMA TypesStep ==
    ASSUME Types, [Next]_vars
    PROVE  Types'
<1>1. ASSUME CleanupProto
      PROVE  Types'
      BY <1>1, BoundsAssumption DEF CleanupProto, Types, mainVars, setupVars, pumpVars,
         opVars, c, Conns, Streams, Directions
<1>2. ASSUME Accept
      PROVE  Types'
      BY <1>2, BoundsAssumption DEF Accept, Types, mainVars, setupVars, pumpVars, opVars, c,
         Conns, Streams, Directions
<1>3. ASSUME Connect
      PROVE  Types'
      BY <1>3, BoundsAssumption DEF Connect, At, Types, mainVars, setupVars, pumpVars,
         opVars, c, Conns, Streams, Directions
<1>4. ASSUME InitSshClient
      PROVE  Types'
      BY <1>4, BoundsAssumption DEF InitSshClient, At, Types, mainVars, setupVars, pumpVars,
         opVars, c, Conns, Streams, Directions
<1>5. ASSUME StartServer
      PROVE  Types'
      BY <1>5, BoundsAssumption DEF StartServer, At, Types, mainVars, setupVars, pumpVars,
         opVars, c, Conns, Streams, Directions
<1>6. ASSUME AcceptChannel
      PROVE  Types'
      BY <1>6, BoundsAssumption DEF AcceptChannel, At, Types, mainVars, setupVars, pumpVars,
         opVars, c, Conns, Streams, Directions
<1>7. ASSUME WaitForShell
      PROVE  Types'
      BY <1>7, BoundsAssumption DEF WaitForShell, At, Types, mainVars, setupVars, pumpVars,
         opVars, c, Conns, Streams, Directions
<1>8. ASSUME OpenSession
      PROVE  Types'
      BY <1>8, BoundsAssumption DEF OpenSession, At, Types, mainVars, setupVars, pumpVars,
         opVars, c, Conns, Streams, Directions
<1>9. ASSUME SetupRaises
      PROVE  Types'
      BY <1>9, BoundsAssumption DEF SetupRaises, Types, mainVars, setupVars, pumpVars,
         opVars, c, Conns, Streams, Directions
<1>10. ASSUME StartPumps
      PROVE  Types'
      BY <1>10, BoundsAssumption DEF StartPumps, At, Types, mainVars, setupVars, pumpVars,
         opVars, c, Conns, Streams, Directions
<1>11. ASSUME Begin
      PROVE  Types'
      BY <1>11, BoundsAssumption DEF Begin, Operator, Types, mainVars, setupVars, pumpVars,
         opVars, c, Conns, Streams, Directions
<1>12. ASSUME List
      PROVE  Types'
      BY <1>12, BoundsAssumption DEF List, Operator, Types, mainVars, setupVars, pumpVars,
         opVars, c, Conns, Streams, Directions
<1>13. ASSUME Listed
      PROVE  Types'
      BY <1>13, BoundsAssumption DEF Listed, Operator, Types, mainVars, setupVars, pumpVars,
         opVars, c, Conns, Streams, Directions
<1>14. ASSUME Pick
      PROVE  Types'
      BY <1>14, BoundsAssumption DEF Pick, Operator, Types, mainVars, setupVars, pumpVars,
         opVars, c, Conns, Streams, Directions
<1>15. ASSUME OpenHijack
      PROVE  Types'
      BY <1>15, BoundsAssumption DEF OpenHijack, Operator, Types, mainVars, setupVars,
         pumpVars, opVars, c, Conns, Streams, Directions
<1>16. ASSUME Bombed
      PROVE  Types'
      BY <1>16, BoundsAssumption DEF Bombed, Operator, Types, mainVars, setupVars, pumpVars,
         opVars, c, Conns, Streams, Directions
<1>17. ASSUME NEW i \in Conns, CheckAuthPassword(i)
      PROVE  Types'
      BY <1>17, BoundsAssumption DEF CheckAuthPassword, Callback, Types, mainVars,
         setupVars, pumpVars, opVars, c, Conns, Streams, Directions
<1>18. ASSUME NEW i \in Conns, CheckAuthPublickey(i)
      PROVE  Types'
      BY <1>18, BoundsAssumption DEF CheckAuthPublickey, Callback, Types, mainVars,
         setupVars, pumpVars, opVars, c, Conns, Streams, Directions
<1>19. ASSUME NEW i \in Conns, CheckChannelRequest(i)
      PROVE  Types'
      BY <1>19, BoundsAssumption DEF CheckChannelRequest, Callback, Types, mainVars,
         setupVars, pumpVars, opVars, c, Conns, Streams, Directions
<1>20. ASSUME NEW i \in Conns, CheckShellRequest(i)
      PROVE  Types'
      BY <1>20, BoundsAssumption DEF CheckShellRequest, Callback, Types, mainVars,
         setupVars, pumpVars, opVars, c, Conns, Streams, Directions
<1>21. ASSUME NEW i \in Conns, VictimDies(i)
      PROVE  Types'
      BY <1>21, BoundsAssumption DEF VictimDies, Callback, Types, mainVars, setupVars,
         pumpVars, opVars, c, Conns, Streams, Directions
<1>22. ASSUME NEW i \in Conns, StartShell(i)
      PROVE  Types'
      BY <1>22, BoundsAssumption DEF StartShell, Goto, Types, mainVars, setupVars, pumpVars,
         opVars, c, Conns, Streams, Directions
<1>23. ASSUME NEW i \in Conns, ShellEnds(i)
      PROVE  Types'
      BY <1>23, BoundsAssumption DEF ShellEnds, Goto, Types, mainVars, setupVars, pumpVars,
         opVars, c, Conns, Streams, Directions
<1>24. ASSUME NEW i \in Conns, NEW d \in Directions, Recv(i, d)
      PROVE  Types'
      BY <1>24, BoundsAssumption DEF Recv, Goto, Types, mainVars, setupVars, pumpVars,
         opVars, c, Conns, Streams, Directions
<1>25. ASSUME NEW i \in Conns, NEW d \in Directions, Send(i, d)
      PROVE  Types'
  <2>1. <<i, d>> \in Streams /\ taken[<<i, d>>] \in Nat
        BY DEF Types, Streams, Directions
  <2>2. Append(given[<<i, d>>], <<<<i, d>>, taken[<<i, d>>]>>) \in Seq(Streams \X Nat)
    <3>1. given[<<i, d>>] \in Seq(Streams \X Nat)
          BY <2>1 DEF Types
    <3>2. <<<<i, d>>, taken[<<i, d>>]>> \in Streams \X Nat
          BY <2>1
    <3> QED BY <3>1, <3>2
  <2>3. given' \in [Streams -> Seq(Streams \X Nat)]
        BY <1>25, <2>2 DEF Send, Types
  <2> QED BY <1>25, <2>3 DEF Send, Goto, Types, mainVars, setupVars
<1>26. ASSUME NEW i \in Conns, OtherDone(i)
      PROVE  Types'
      BY <1>26, BoundsAssumption DEF OtherDone, Types, mainVars, setupVars, pumpVars,
         opVars, c, Conns, Streams, Directions
<1>27. ASSUME UNCHANGED vars
      PROVE  Types'
      BY <1>27, BoundsAssumption DEF vars, Types, mainVars, setupVars, pumpVars, opVars, c,
         Conns, Streams, Directions
<1>28. QED
      BY <1>1, <1>2, <1>3, <1>4, <1>5, <1>6, <1>7, <1>8, <1>9, <1>10, <1>11, <1>12, <1>13,
         <1>14, <1>15, <1>16, <1>17, <1>18, <1>19, <1>20, <1>21, <1>22, <1>23, <1>24, <1>25,
         <1>26, <1>27 DEF Next, Main, ProvideShell, Victim, Shell, Directions

\* Only the accept loop makes a transport, for the connection it sets up.
LEMMA SetupOrderStep ==
    ASSUME Types, SetupOrder, [Next]_vars
    PROVE  SetupOrder'
<1>1. ASSUME CleanupProto
      PROVE  SetupOrder'
      BY <1>1, BoundsAssumption DEF CleanupProto, Types, SetupOrder, mainVars, setupVars,
         pumpVars, opVars, c, Conns, Streams, Directions
<1>2. ASSUME Accept
      PROVE  SetupOrder'
      BY <1>2, BoundsAssumption DEF Accept, Types, SetupOrder, mainVars, setupVars,
         pumpVars, opVars, c, Conns, Streams, Directions
<1>3. ASSUME Connect
      PROVE  SetupOrder'
      BY <1>3, BoundsAssumption DEF Connect, At, Types, SetupOrder, mainVars, setupVars,
         pumpVars, opVars, c, Conns, Streams, Directions
<1>4. ASSUME InitSshClient
      PROVE  SetupOrder'
      BY <1>4, BoundsAssumption DEF InitSshClient, At, Types, SetupOrder, mainVars,
         setupVars, pumpVars, opVars, c, Conns, Streams, Directions
<1>5. ASSUME StartServer
      PROVE  SetupOrder'
      BY <1>5, BoundsAssumption DEF StartServer, At, Types, SetupOrder, mainVars, setupVars,
         pumpVars, opVars, c, Conns, Streams, Directions
<1>6. ASSUME AcceptChannel
      PROVE  SetupOrder'
      BY <1>6, BoundsAssumption DEF AcceptChannel, At, Types, SetupOrder, mainVars,
         setupVars, pumpVars, opVars, c, Conns, Streams, Directions
<1>7. ASSUME WaitForShell
      PROVE  SetupOrder'
      BY <1>7, BoundsAssumption DEF WaitForShell, At, Types, SetupOrder, mainVars,
         setupVars, pumpVars, opVars, c, Conns, Streams, Directions
<1>8. ASSUME OpenSession
      PROVE  SetupOrder'
      BY <1>8, BoundsAssumption DEF OpenSession, At, Types, SetupOrder, mainVars, setupVars,
         pumpVars, opVars, c, Conns, Streams, Directions
<1>9. ASSUME SetupRaises
      PROVE  SetupOrder'
      BY <1>9, BoundsAssumption DEF SetupRaises, Types, SetupOrder, mainVars, setupVars,
         pumpVars, opVars, c, Conns, Streams, Directions
<1>10. ASSUME StartPumps
      PROVE  SetupOrder'
      BY <1>10, BoundsAssumption DEF StartPumps, At, Types, SetupOrder, mainVars, setupVars,
         pumpVars, opVars, c, Conns, Streams, Directions
<1>11. ASSUME Begin
      PROVE  SetupOrder'
      BY <1>11, BoundsAssumption DEF Begin, Operator, Types, SetupOrder, mainVars,
         setupVars, pumpVars, opVars, c, Conns, Streams, Directions
<1>12. ASSUME List
      PROVE  SetupOrder'
      BY <1>12, BoundsAssumption DEF List, Operator, Types, SetupOrder, mainVars, setupVars,
         pumpVars, opVars, c, Conns, Streams, Directions
<1>13. ASSUME Listed
      PROVE  SetupOrder'
      BY <1>13, BoundsAssumption DEF Listed, Operator, Types, SetupOrder, mainVars,
         setupVars, pumpVars, opVars, c, Conns, Streams, Directions
<1>14. ASSUME Pick
      PROVE  SetupOrder'
      BY <1>14, BoundsAssumption DEF Pick, Operator, Types, SetupOrder, mainVars, setupVars,
         pumpVars, opVars, c, Conns, Streams, Directions
<1>15. ASSUME OpenHijack
      PROVE  SetupOrder'
      BY <1>15, BoundsAssumption DEF OpenHijack, Operator, Types, SetupOrder, mainVars,
         setupVars, pumpVars, opVars, c, Conns, Streams, Directions
<1>16. ASSUME Bombed
      PROVE  SetupOrder'
      BY <1>16, BoundsAssumption DEF Bombed, Operator, Types, SetupOrder, mainVars,
         setupVars, pumpVars, opVars, c, Conns, Streams, Directions
<1>17. ASSUME NEW i \in Conns, CheckAuthPassword(i)
      PROVE  SetupOrder'
      BY <1>17, BoundsAssumption DEF CheckAuthPassword, Callback, Types, SetupOrder,
         mainVars, setupVars, pumpVars, opVars, c, Conns, Streams, Directions
<1>18. ASSUME NEW i \in Conns, CheckAuthPublickey(i)
      PROVE  SetupOrder'
      BY <1>18, BoundsAssumption DEF CheckAuthPublickey, Callback, Types, SetupOrder,
         mainVars, setupVars, pumpVars, opVars, c, Conns, Streams, Directions
<1>19. ASSUME NEW i \in Conns, CheckChannelRequest(i)
      PROVE  SetupOrder'
      BY <1>19, BoundsAssumption DEF CheckChannelRequest, Callback, Types, SetupOrder,
         mainVars, setupVars, pumpVars, opVars, c, Conns, Streams, Directions
<1>20. ASSUME NEW i \in Conns, CheckShellRequest(i)
      PROVE  SetupOrder'
      BY <1>20, BoundsAssumption DEF CheckShellRequest, Callback, Types, SetupOrder,
         mainVars, setupVars, pumpVars, opVars, c, Conns, Streams, Directions
<1>21. ASSUME NEW i \in Conns, VictimDies(i)
      PROVE  SetupOrder'
      BY <1>21, BoundsAssumption DEF VictimDies, Callback, Types, SetupOrder, mainVars,
         setupVars, pumpVars, opVars, c, Conns, Streams, Directions
<1>22. ASSUME NEW i \in Conns, StartShell(i)
      PROVE  SetupOrder'
      BY <1>22, BoundsAssumption DEF StartShell, Goto, Types, SetupOrder, mainVars,
         setupVars, pumpVars, opVars, c, Conns, Streams, Directions
<1>23. ASSUME NEW i \in Conns, ShellEnds(i)
      PROVE  SetupOrder'
      BY <1>23, BoundsAssumption DEF ShellEnds, Goto, Types, SetupOrder, mainVars,
         setupVars, pumpVars, opVars, c, Conns, Streams, Directions
<1>24. ASSUME NEW i \in Conns, NEW d \in Directions, Recv(i, d)
      PROVE  SetupOrder'
      BY <1>24, BoundsAssumption DEF Recv, Goto, Types, SetupOrder, mainVars, setupVars,
         pumpVars, opVars, c, Conns, Streams, Directions
<1>25. ASSUME NEW i \in Conns, NEW d \in Directions, Send(i, d)
      PROVE  SetupOrder'
      BY <1>25, BoundsAssumption DEF Send, Goto, Types, SetupOrder, mainVars, setupVars,
         pumpVars, opVars, c, Conns, Streams, Directions
<1>26. ASSUME NEW i \in Conns, OtherDone(i)
      PROVE  SetupOrder'
      BY <1>26, BoundsAssumption DEF OtherDone, Types, SetupOrder, mainVars, setupVars,
         pumpVars, opVars, c, Conns, Streams, Directions
<1>27. ASSUME UNCHANGED vars
      PROVE  SetupOrder'
      BY <1>27, BoundsAssumption DEF vars, Types, SetupOrder, mainVars, setupVars, pumpVars,
         opVars, c, Conns, Streams, Directions
<1>28. QED
      BY <1>1, <1>2, <1>3, <1>4, <1>5, <1>6, <1>7, <1>8, <1>9, <1>10, <1>11, <1>12, <1>13,
         <1>14, <1>15, <1>16, <1>17, <1>18, <1>19, <1>20, <1>21, <1>22, <1>23, <1>24, <1>25,
         <1>26, <1>27 DEF Next, Main, ProvideShell, Victim, Shell, Directions

\* A victim's thread is started when its transport is there, and none is taken away.
LEMMA AuthFindsTransportStep ==
    ASSUME Types, SetupOrder, AuthFindsTransport, [Next]_vars
    PROVE  AuthFindsTransport'
<1>1. ASSUME CleanupProto
      PROVE  AuthFindsTransport'
      BY <1>1, BoundsAssumption DEF CleanupProto, Types, SetupOrder, AuthFindsTransport,
         mainVars, setupVars, pumpVars, opVars, c, Conns, Streams, Directions
<1>2. ASSUME Accept
      PROVE  AuthFindsTransport'
      BY <1>2, BoundsAssumption DEF Accept, Types, SetupOrder, AuthFindsTransport, mainVars,
         setupVars, pumpVars, opVars, c, Conns, Streams, Directions
<1>3. ASSUME Connect
      PROVE  AuthFindsTransport'
      BY <1>3, BoundsAssumption DEF Connect, At, Types, SetupOrder, AuthFindsTransport,
         mainVars, setupVars, pumpVars, opVars, c, Conns, Streams, Directions
<1>4. ASSUME InitSshClient
      PROVE  AuthFindsTransport'
      BY <1>4, BoundsAssumption DEF InitSshClient, At, Types, SetupOrder,
         AuthFindsTransport, mainVars, setupVars, pumpVars, opVars, c, Conns, Streams,
         Directions
<1>5. ASSUME StartServer
      PROVE  AuthFindsTransport'
      BY <1>5, BoundsAssumption DEF StartServer, At, Types, SetupOrder, AuthFindsTransport,
         mainVars, setupVars, pumpVars, opVars, c, Conns, Streams, Directions
<1>6. ASSUME AcceptChannel
      PROVE  AuthFindsTransport'
      BY <1>6, BoundsAssumption DEF AcceptChannel, At, Types, SetupOrder,
         AuthFindsTransport, mainVars, setupVars, pumpVars, opVars, c, Conns, Streams,
         Directions
<1>7. ASSUME WaitForShell
      PROVE  AuthFindsTransport'
      BY <1>7, BoundsAssumption DEF WaitForShell, At, Types, SetupOrder, AuthFindsTransport,
         mainVars, setupVars, pumpVars, opVars, c, Conns, Streams, Directions
<1>8. ASSUME OpenSession
      PROVE  AuthFindsTransport'
      BY <1>8, BoundsAssumption DEF OpenSession, At, Types, SetupOrder, AuthFindsTransport,
         mainVars, setupVars, pumpVars, opVars, c, Conns, Streams, Directions
<1>9. ASSUME SetupRaises
      PROVE  AuthFindsTransport'
      BY <1>9, BoundsAssumption DEF SetupRaises, Types, SetupOrder, AuthFindsTransport,
         mainVars, setupVars, pumpVars, opVars, c, Conns, Streams, Directions
<1>10. ASSUME StartPumps
      PROVE  AuthFindsTransport'
      BY <1>10, BoundsAssumption DEF StartPumps, At, Types, SetupOrder, AuthFindsTransport,
         mainVars, setupVars, pumpVars, opVars, c, Conns, Streams, Directions
<1>11. ASSUME Begin
      PROVE  AuthFindsTransport'
      BY <1>11, BoundsAssumption DEF Begin, Operator, Types, SetupOrder, AuthFindsTransport,
         mainVars, setupVars, pumpVars, opVars, c, Conns, Streams, Directions
<1>12. ASSUME List
      PROVE  AuthFindsTransport'
      BY <1>12, BoundsAssumption DEF List, Operator, Types, SetupOrder, AuthFindsTransport,
         mainVars, setupVars, pumpVars, opVars, c, Conns, Streams, Directions
<1>13. ASSUME Listed
      PROVE  AuthFindsTransport'
      BY <1>13, BoundsAssumption DEF Listed, Operator, Types, SetupOrder,
         AuthFindsTransport, mainVars, setupVars, pumpVars, opVars, c, Conns, Streams,
         Directions
<1>14. ASSUME Pick
      PROVE  AuthFindsTransport'
      BY <1>14, BoundsAssumption DEF Pick, Operator, Types, SetupOrder, AuthFindsTransport,
         mainVars, setupVars, pumpVars, opVars, c, Conns, Streams, Directions
<1>15. ASSUME OpenHijack
      PROVE  AuthFindsTransport'
      BY <1>15, BoundsAssumption DEF OpenHijack, Operator, Types, SetupOrder,
         AuthFindsTransport, mainVars, setupVars, pumpVars, opVars, c, Conns, Streams,
         Directions
<1>16. ASSUME Bombed
      PROVE  AuthFindsTransport'
      BY <1>16, BoundsAssumption DEF Bombed, Operator, Types, SetupOrder,
         AuthFindsTransport, mainVars, setupVars, pumpVars, opVars, c, Conns, Streams,
         Directions
<1>17. ASSUME NEW i \in Conns, CheckAuthPassword(i)
      PROVE  AuthFindsTransport'
      BY <1>17, BoundsAssumption DEF CheckAuthPassword, Callback, Types, SetupOrder,
         AuthFindsTransport, mainVars, setupVars, pumpVars, opVars, c, Conns, Streams,
         Directions
<1>18. ASSUME NEW i \in Conns, CheckAuthPublickey(i)
      PROVE  AuthFindsTransport'
      BY <1>18, BoundsAssumption DEF CheckAuthPublickey, Callback, Types, SetupOrder,
         AuthFindsTransport, mainVars, setupVars, pumpVars, opVars, c, Conns, Streams,
         Directions
<1>19. ASSUME NEW i \in Conns, CheckChannelRequest(i)
      PROVE  AuthFindsTransport'
      BY <1>19, BoundsAssumption DEF CheckChannelRequest, Callback, Types, SetupOrder,
         AuthFindsTransport, mainVars, setupVars, pumpVars, opVars, c, Conns, Streams,
         Directions
<1>20. ASSUME NEW i \in Conns, CheckShellRequest(i)
      PROVE  AuthFindsTransport'
      BY <1>20, BoundsAssumption DEF CheckShellRequest, Callback, Types, SetupOrder,
         AuthFindsTransport, mainVars, setupVars, pumpVars, opVars, c, Conns, Streams,
         Directions
<1>21. ASSUME NEW i \in Conns, VictimDies(i)
      PROVE  AuthFindsTransport'
      BY <1>21, BoundsAssumption DEF VictimDies, Callback, Types, SetupOrder,
         AuthFindsTransport, mainVars, setupVars, pumpVars, opVars, c, Conns, Streams,
         Directions
<1>22. ASSUME NEW i \in Conns, StartShell(i)
      PROVE  AuthFindsTransport'
      BY <1>22, BoundsAssumption DEF StartShell, Goto, Types, SetupOrder,
         AuthFindsTransport, mainVars, setupVars, pumpVars, opVars, c, Conns, Streams,
         Directions
<1>23. ASSUME NEW i \in Conns, ShellEnds(i)
      PROVE  AuthFindsTransport'
      BY <1>23, BoundsAssumption DEF ShellEnds, Goto, Types, SetupOrder, AuthFindsTransport,
         mainVars, setupVars, pumpVars, opVars, c, Conns, Streams, Directions
<1>24. ASSUME NEW i \in Conns, NEW d \in Directions, Recv(i, d)
      PROVE  AuthFindsTransport'
      BY <1>24, BoundsAssumption DEF Recv, Goto, Types, SetupOrder, AuthFindsTransport,
         mainVars, setupVars, pumpVars, opVars, c, Conns, Streams, Directions
<1>25. ASSUME NEW i \in Conns, NEW d \in Directions, Send(i, d)
      PROVE  AuthFindsTransport'
      BY <1>25, BoundsAssumption DEF Send, Goto, Types, SetupOrder, AuthFindsTransport,
         mainVars, setupVars, pumpVars, opVars, c, Conns, Streams, Directions
<1>26. ASSUME NEW i \in Conns, OtherDone(i)
      PROVE  AuthFindsTransport'
      BY <1>26, BoundsAssumption DEF OtherDone, Types, SetupOrder, AuthFindsTransport,
         mainVars, setupVars, pumpVars, opVars, c, Conns, Streams, Directions
<1>27. ASSUME UNCHANGED vars
      PROVE  AuthFindsTransport'
      BY <1>27, BoundsAssumption DEF vars, Types, SetupOrder, AuthFindsTransport, mainVars,
         setupVars, pumpVars, opVars, c, Conns, Streams, Directions
<1>28. QED
      BY <1>1, <1>2, <1>3, <1>4, <1>5, <1>6, <1>7, <1>8, <1>9, <1>10, <1>11, <1>12, <1>13,
         <1>14, <1>15, <1>16, <1>17, <1>18, <1>19, <1>20, <1>21, <1>22, <1>23, <1>24, <1>25,
         <1>26, <1>27 DEF Next, Main, ProvideShell, Victim, Shell, Directions

\* A server that took the password is never forgotten for one that did not.
LEMMA LoggedInStep ==
    ASSUME Types, SetupOrder, LoggedIn, [Next]_vars
    PROVE  LoggedIn'
<1>1. ASSUME CleanupProto
      PROVE  LoggedIn'
      BY <1>1, BoundsAssumption DEF CleanupProto, Types, SetupOrder, LoggedIn, mainVars,
         setupVars, pumpVars, opVars, c, Conns, Streams, Directions
<1>2. ASSUME Accept
      PROVE  LoggedIn'
      BY <1>2, BoundsAssumption DEF Accept, Types, SetupOrder, LoggedIn, mainVars,
         setupVars, pumpVars, opVars, c, Conns, Streams, Directions
<1>3. ASSUME Connect
      PROVE  LoggedIn'
      BY <1>3, BoundsAssumption DEF Connect, At, Types, SetupOrder, LoggedIn, mainVars,
         setupVars, pumpVars, opVars, c, Conns, Streams, Directions
<1>4. ASSUME InitSshClient
      PROVE  LoggedIn'
      BY <1>4, BoundsAssumption DEF InitSshClient, At, Types, SetupOrder, LoggedIn,
         mainVars, setupVars, pumpVars, opVars, c, Conns, Streams, Directions
<1>5. ASSUME StartServer
      PROVE  LoggedIn'
      BY <1>5, BoundsAssumption DEF StartServer, At, Types, SetupOrder, LoggedIn, mainVars,
         setupVars, pumpVars, opVars, c, Conns, Streams, Directions
<1>6. ASSUME AcceptChannel
      PROVE  LoggedIn'
      BY <1>6, BoundsAssumption DEF AcceptChannel, At, Types, SetupOrder, LoggedIn,
         mainVars, setupVars, pumpVars, opVars, c, Conns, Streams, Directions
<1>7. ASSUME WaitForShell
      PROVE  LoggedIn'
      BY <1>7, BoundsAssumption DEF WaitForShell, At, Types, SetupOrder, LoggedIn, mainVars,
         setupVars, pumpVars, opVars, c, Conns, Streams, Directions
<1>8. ASSUME OpenSession
      PROVE  LoggedIn'
      BY <1>8, BoundsAssumption DEF OpenSession, At, Types, SetupOrder, LoggedIn, mainVars,
         setupVars, pumpVars, opVars, c, Conns, Streams, Directions
<1>9. ASSUME SetupRaises
      PROVE  LoggedIn'
      BY <1>9, BoundsAssumption DEF SetupRaises, Types, SetupOrder, LoggedIn, mainVars,
         setupVars, pumpVars, opVars, c, Conns, Streams, Directions
<1>10. ASSUME StartPumps
      PROVE  LoggedIn'
      BY <1>10, BoundsAssumption DEF StartPumps, At, Types, SetupOrder, LoggedIn, mainVars,
         setupVars, pumpVars, opVars, c, Conns, Streams, Directions
<1>11. ASSUME Begin
      PROVE  LoggedIn'
      BY <1>11, BoundsAssumption DEF Begin, Operator, Types, SetupOrder, LoggedIn, mainVars,
         setupVars, pumpVars, opVars, c, Conns, Streams, Directions
<1>12. ASSUME List
      PROVE  LoggedIn'
      BY <1>12, BoundsAssumption DEF List, Operator, Types, SetupOrder, LoggedIn, mainVars,
         setupVars, pumpVars, opVars, c, Conns, Streams, Directions
<1>13. ASSUME Listed
      PROVE  LoggedIn'
      BY <1>13, BoundsAssumption DEF Listed, Operator, Types, SetupOrder, LoggedIn,
         mainVars, setupVars, pumpVars, opVars, c, Conns, Streams, Directions
<1>14. ASSUME Pick
      PROVE  LoggedIn'
      BY <1>14, BoundsAssumption DEF Pick, Operator, Types, SetupOrder, LoggedIn, mainVars,
         setupVars, pumpVars, opVars, c, Conns, Streams, Directions
<1>15. ASSUME OpenHijack
      PROVE  LoggedIn'
      BY <1>15, BoundsAssumption DEF OpenHijack, Operator, Types, SetupOrder, LoggedIn,
         mainVars, setupVars, pumpVars, opVars, c, Conns, Streams, Directions
<1>16. ASSUME Bombed
      PROVE  LoggedIn'
      BY <1>16, BoundsAssumption DEF Bombed, Operator, Types, SetupOrder, LoggedIn,
         mainVars, setupVars, pumpVars, opVars, c, Conns, Streams, Directions
<1>17. ASSUME NEW i \in Conns, CheckAuthPassword(i)
      PROVE  LoggedIn'
      BY <1>17, BoundsAssumption DEF CheckAuthPassword, Callback, Types, SetupOrder,
         LoggedIn, mainVars, setupVars, pumpVars, opVars, c, Conns, Streams, Directions
<1>18. ASSUME NEW i \in Conns, CheckAuthPublickey(i)
      PROVE  LoggedIn'
      BY <1>18, BoundsAssumption DEF CheckAuthPublickey, Callback, Types, SetupOrder,
         LoggedIn, mainVars, setupVars, pumpVars, opVars, c, Conns, Streams, Directions
<1>19. ASSUME NEW i \in Conns, CheckChannelRequest(i)
      PROVE  LoggedIn'
      BY <1>19, BoundsAssumption DEF CheckChannelRequest, Callback, Types, SetupOrder,
         LoggedIn, mainVars, setupVars, pumpVars, opVars, c, Conns, Streams, Directions
<1>20. ASSUME NEW i \in Conns, CheckShellRequest(i)
      PROVE  LoggedIn'
      BY <1>20, BoundsAssumption DEF CheckShellRequest, Callback, Types, SetupOrder,
         LoggedIn, mainVars, setupVars, pumpVars, opVars, c, Conns, Streams, Directions
<1>21. ASSUME NEW i \in Conns, VictimDies(i)
      PROVE  LoggedIn'
      BY <1>21, BoundsAssumption DEF VictimDies, Callback, Types, SetupOrder, LoggedIn,
         mainVars, setupVars, pumpVars, opVars, c, Conns, Streams, Directions
<1>22. ASSUME NEW i \in Conns, StartShell(i)
      PROVE  LoggedIn'
      BY <1>22, BoundsAssumption DEF StartShell, Goto, Types, SetupOrder, LoggedIn,
         mainVars, setupVars, pumpVars, opVars, c, Conns, Streams, Directions
<1>23. ASSUME NEW i \in Conns, ShellEnds(i)
      PROVE  LoggedIn'
      BY <1>23, BoundsAssumption DEF ShellEnds, Goto, Types, SetupOrder, LoggedIn, mainVars,
         setupVars, pumpVars, opVars, c, Conns, Streams, Directions
<1>24. ASSUME NEW i \in Conns, NEW d \in Directions, Recv(i, d)
      PROVE  LoggedIn'
      BY <1>24, BoundsAssumption DEF Recv, Goto, Types, SetupOrder, LoggedIn, mainVars,
         setupVars, pumpVars, opVars, c, Conns, Streams, Directions
<1>25. ASSUME NEW i \in Conns, NEW d \in Directions, Send(i, d)
      PROVE  LoggedIn'
      BY <1>25, BoundsAssumption DEF Send, Goto, Types, SetupOrder, LoggedIn, mainVars,
         setupVars, pumpVars, opVars, c, Conns, Streams, Directions
<1>26. ASSUME NEW i \in Conns, OtherDone(i)
      PROVE  LoggedIn'
      BY <1>26, BoundsAssumption DEF OtherDone, Types, SetupOrder, LoggedIn, mainVars,
         setupVars, pumpVars, opVars, c, Conns, Streams, Directions
<1>27. ASSUME UNCHANGED vars
      PROVE  LoggedIn'
      BY <1>27, BoundsAssumption DEF vars, Types, SetupOrder, LoggedIn, mainVars, setupVars,
         pumpVars, opVars, c, Conns, Streams, Directions
<1>28. QED
      BY <1>1, <1>2, <1>3, <1>4, <1>5, <1>6, <1>7, <1>8, <1>9, <1>10, <1>11, <1>12, <1>13,
         <1>14, <1>15, <1>16, <1>17, <1>18, <1>19, <1>20, <1>21, <1>22, <1>23, <1>24, <1>25,
         <1>26, <1>27 DEF Next, Main, ProvideShell, Victim, Shell, Directions

\* A shell sends what it has taken before it takes more.
LEMMA RelayingStep ==
    ASSUME Types, SetupOrder, Relaying, [Next]_vars
    PROVE  Relaying'
<1>1. ASSUME CleanupProto
      PROVE  Relaying'
      BY <1>1, BoundsAssumption DEF CleanupProto, Relaying, mainVars, setupVars, pumpVars,
         opVars
<1>2. ASSUME Accept
      PROVE  Relaying'
      BY <1>2, BoundsAssumption DEF Accept, Relaying, mainVars, setupVars, pumpVars, opVars
<1>3. ASSUME Connect
      PROVE  Relaying'
      BY <1>3, BoundsAssumption DEF Connect, At, Relaying, mainVars, setupVars, pumpVars, opVars
<1>4. ASSUME InitSshClient
      PROVE  Relaying'
      BY <1>4, BoundsAssumption DEF InitSshClient, At, Relaying, mainVars, setupVars,
         pumpVars, opVars
<1>5. ASSUME StartServer
      PROVE  Relaying'
      BY <1>5, BoundsAssumption DEF StartServer, At, Relaying, mainVars, setupVars,
         pumpVars, opVars
<1>6. ASSUME AcceptChannel
      PROVE  Relaying'
      BY <1>6, BoundsAssumption DEF AcceptChannel, At, Relaying, mainVars, setupVars,
         pumpVars, opVars
<1>7. ASSUME WaitForShell
      PROVE  Relaying'
      BY <1>7, BoundsAssumption DEF WaitForShell, At, Relaying, mainVars, setupVars,
         pumpVars, opVars
<1>8. ASSUME OpenSession
      PROVE  Relaying'
      BY <1>8, BoundsAssumption DEF OpenSession, At, Relaying, mainVars, setupVars,
         pumpVars, opVars
<1>9. ASSUME SetupRaises
      PROVE  Relaying'
      BY <1>9, BoundsAssumption DEF SetupRaises, Relaying, mainVars, setupVars, pumpVars, opVars
<1>10. ASSUME StartPumps
      PROVE  Relaying'
      BY <1>10, BoundsAssumption DEF StartPumps, At, Types, SetupOrder, Relaying, mainVars,
         setupVars, pumpVars, opVars, c, Conns, Streams, Directions
<1>11. ASSUME Begin
      PROVE  Relaying'
      BY <1>11, BoundsAssumption DEF Begin, Operator, Relaying, mainVars, setupVars,
         pumpVars, opVars
<1>12. ASSUME List
      PROVE  Relaying'
      BY <1>12, BoundsAssumption DEF List, Operator, Relaying, mainVars, setupVars,
         pumpVars, opVars
<1>13. ASSUME Listed
      PROVE  Relaying'
      BY <1>13, BoundsAssumption DEF Listed, Operator, Relaying, mainVars, setupVars,
         pumpVars, opVars
<1>14. ASSUME Pick
      PROVE  Relaying'
      BY <1>14, BoundsAssumption DEF Pick, Operator, Relaying, mainVars, setupVars,
         pumpVars, opVars
<1>15. ASSUME OpenHijack
      PROVE  Relaying'
      BY <1>15, BoundsAssumption DEF OpenHijack, Operator, Relaying, mainVars, setupVars,
         pumpVars, opVars
<1>16. ASSUME Bombed
      PROVE  Relaying'
      BY <1>16, BoundsAssumption DEF Bombed, Operator, Relaying, mainVars, setupVars,
         pumpVars, opVars
<1>17. ASSUME NEW i \in Conns, CheckAuthPassword(i)
      PROVE  Relaying'
  <2>1. UNCHANGED <<pump, taken, given>>
        BY <1>17 DEF CheckAuthPassword, Callback, pumpVars
  <2> QED BY <2>1 DEF Relaying
<1>18. ASSUME NEW i \in Conns, CheckAuthPublickey(i)
      PROVE  Relaying'
      BY <1>18, BoundsAssumption DEF CheckAuthPublickey, Callback, Relaying, mainVars,
         setupVars, pumpVars, opVars
<1>19. ASSUME NEW i \in Conns, CheckChannelRequest(i)
      PROVE  Relaying'
      BY <1>19, BoundsAssumption DEF CheckChannelRequest, Callback, Relaying, mainVars,
         setupVars, pumpVars, opVars
<1>20. ASSUME NEW i \in Conns, CheckShellRequest(i)
      PROVE  Relaying'
      BY <1>20, BoundsAssumption DEF CheckShellRequest, Callback, Relaying, mainVars,
         setupVars, pumpVars, opVars
<1>21. ASSUME NEW i \in Conns, VictimDies(i)
      PROVE  Relaying'
      BY <1>21, BoundsAssumption DEF VictimDies, Callback, Relaying, mainVars, setupVars,
         pumpVars, opVars
<1>22. ASSUME NEW i \in Conns, StartShell(i)
      PROVE  Relaying'
      BY <1>22, BoundsAssumption DEF StartShell, Goto, Types, SetupOrder, Relaying,
         mainVars, setupVars, pumpVars, opVars, c, Conns, Streams, Directions
<1>23. ASSUME NEW i \in Conns, ShellEnds(i)
      PROVE  Relaying'
  <2>1. \A j \in Conns : pump'[j] = pump[j] \/ pump'[j] = "over"
        BY <1>23 DEF ShellEnds, Goto, Types
  <2>2. UNCHANGED <<taken, given>>
        BY <1>23 DEF ShellEnds
  <2> QED BY <2>1, <2>2 DEF Relaying, Directions
<1>24. ASSUME NEW i \in Conns, NEW d \in Directions, Recv(i, d)
      PROVE  Relaying'
  <2> SUFFICES ASSUME NEW j \in Conns, NEW e \in Directions
               PROVE  /\ pump'[j] = e => taken'[<<j, e>>] = Len(given'[<<j, e>>]) + 1
                      /\ pump'[j] \notin {e, "over"} => taken'[<<j, e>>] = Len(given'[<<j, e>>])
      BY DEF Relaying
  <2>1. <<j, e>> \in Streams /\ Len(given[<<j, e>>]) \in Nat
        BY DEF Types, Streams, Directions
  <2>2. CASE j = i
    <3>1. pump[i] = "select" /\ pump'[i] = d
          BY <1>24 DEF Recv, Goto, Types
    <3>2. taken[<<i, e>>] = Len(given[<<i, e>>])
          BY <3>1, <2>1, <2>2 DEF Relaying, Types, Directions
    <3>3. CASE e = d
          BY <1>24, <2>1, <2>2, <3>1, <3>2, <3>3 DEF Recv, Types
    <3>4. CASE e # d
          BY <1>24, <2>1, <2>2, <3>1, <3>2, <3>4 DEF Recv, Types
    <3> QED BY <3>3, <3>4
  <2>3. CASE j # i
    <3>1. pump'[j] = pump[j] /\ taken'[<<j, e>>] = taken[<<j, e>>]
          BY <1>24, <2>1, <2>3 DEF Recv, Goto, Types
    <3> QED BY <1>24, <3>1 DEF Recv, Relaying
  <2> QED BY <2>2, <2>3
<1>25. ASSUME NEW i \in Conns, NEW d \in Directions, Send(i, d)
      PROVE  Relaying'
  <2> SUFFICES ASSUME NEW j \in Conns, NEW e \in Directions
               PROVE  /\ pump'[j] = e => taken'[<<j, e>>] = Len(given'[<<j, e>>]) + 1
                      /\ pump'[j] \notin {e, "over"} => taken'[<<j, e>>] = Len(given'[<<j, e>>])
      BY DEF Relaying
  <2>1. <<j, e>> \in Streams /\ Len(given[<<j, e>>]) \in Nat
        BY DEF Types, Streams, Directions
  <2>2. CASE j = i
    <3>1. pump[i] = d /\ pump'[i] = "select"
          BY <1>25 DEF Send, Goto, Types
    <3>2. taken[<<i, e>>] = IF d = e THEN Len(given[<<i, e>>]) + 1 ELSE Len(given[<<i, e>>])
          BY <3>1, <2>2 DEF Relaying, Directions
    <3>3. CASE e = d
      <4>1. given'[<<i, d>>] = Append(given[<<i, d>>], <<<<i, d>>, taken[<<i, d>>]>>)
            BY <1>25, <2>1, <2>2, <3>3 DEF Send, Types
      <4>2. Len(given'[<<i, d>>]) = Len(given[<<i, d>>]) + 1
            BY <4>1, <2>1, <2>2, <3>3 DEF Types
      <4> QED BY <1>25, <4>2, <2>2, <3>1, <3>2, <3>3 DEF Send, Directions
    <3>4. CASE e # d
          BY <1>25, <2>1, <2>2, <3>1, <3>2, <3>4 DEF Send, Types, Directions
    <3> QED BY <3>3, <3>4
  <2>3. CASE j # i
    <3>1. pump'[j] = pump[j] /\ given'[<<j, e>>] = given[<<j, e>>]
          BY <1>25, <2>1, <2>3 DEF Send, Goto, Types
    <3> QED BY <1>25, <3>1 DEF Send, Relaying
  <2> QED BY <2>2, <2>3
<1>26. ASSUME NEW i \in Conns, OtherDone(i)
      PROVE  Relaying'
      BY <1>26, BoundsAssumption DEF OtherDone, Relaying, mainVars, setupVars, pumpVars, opVars
<1>27. ASSUME UNCHANGED vars
      PROVE  Relaying'
      BY <1>27, BoundsAssumption DEF vars, Relaying, mainVars, setupVars, pumpVars, opVars
<1>28. QED
      BY <1>1, <1>2, <1>3, <1>4, <1>5, <1>6, <1>7, <1>8, <1>9, <1>10, <1>11, <1>12, <1>13,
         <1>14, <1>15, <1>16, <1>17, <1>18, <1>19, <1>20, <1>21, <1>22, <1>23, <1>24, <1>25,
         <1>26, <1>27 DEF Next, Main, ProvideShell, Victim, Shell, Directions

\* The invariant holds at the start.
LEMMA InvInit ==
    ASSUME Init
    PROVE  Inv
<1>1. Types
      BY BoundsAssumption DEF Init, Types, Directions
<1>2. SetupOrder /\ AuthFindsTransport /\ LoggedIn
      BY DEF Init, SetupOrder, AuthFindsTransport, LoggedIn
<1>3. Relaying
  <2>1. \A i \in Conns, d \in Directions : <<i, d>> \in Streams
        BY DEF Streams, Directions
  <2> QED BY <2>1 DEF Init, Relaying, Directions
<1>4. QED
      BY <1>1, <1>2, <1>3 DEF Inv

\* Every step keeps it.
LEMMA InvStep ==
    ASSUME Inv, [Next]_vars
    PROVE  Inv'
BY TypesStep, SetupOrderStep, AuthFindsTransportStep, LoggedInStep, RelayingStep DEF Inv

\* All of it together is inductive: whatever the accept loop, paramiko's threads, the
\* shells and the operator do, each part is kept.
THEOREM Invariance == Spec => []Inv
BY InvInit, InvStep, PTL DEF Spec

\* ssh.py:82: whenever the victim's thread may ask for the password to be tried,
\* there is a transport to try it on, for any number of connections.
THEOREM AuthHasTransport == Spec => []AuthFindsTransport
BY Invariance, PTL DEF Inv

\* Every step of the shells and of everybody else is one of the abstract relay, or
\* leaves it alone.
LEMMA RelayStep ==
    ASSUME Inv, [Next]_vars
    PROVE  [Relay!Next]_(Relay!vars)
<1>1. ASSUME CleanupProto
      PROVE  UNCHANGED Relay!vars
      BY <1>1 DEF CleanupProto, Relay!vars, mainVars, setupVars, pumpVars, opVars
<1>2. ASSUME Accept
      PROVE  UNCHANGED Relay!vars
      BY <1>2 DEF Accept, Relay!vars, mainVars, setupVars, pumpVars, opVars
<1>3. ASSUME Connect
      PROVE  UNCHANGED Relay!vars
      BY <1>3 DEF Connect, At, Relay!vars, mainVars, setupVars, pumpVars, opVars
<1>4. ASSUME InitSshClient
      PROVE  UNCHANGED Relay!vars
      BY <1>4 DEF InitSshClient, At, Relay!vars, mainVars, setupVars, pumpVars, opVars
<1>5. ASSUME StartServer
      PROVE  UNCHANGED Relay!vars
      BY <1>5 DEF StartServer, At, Relay!vars, mainVars, setupVars, pumpVars, opVars
<1>6. ASSUME AcceptChannel
      PROVE  UNCHANGED Relay!vars
      BY <1>6 DEF AcceptChannel, At, Relay!vars, mainVars, setupVars, pumpVars, opVars
<1>7. ASSUME WaitForShell
      PROVE  UNCHANGED Relay!vars
      BY <1>7 DEF WaitForShell, At, Relay!vars, mainVars, setupVars, pumpVars, opVars
<1>8. ASSUME OpenSession
      PROVE  UNCHANGED Relay!vars
      BY <1>8 DEF OpenSession, At, Relay!vars, mainVars, setupVars, pumpVars, opVars
<1>9. ASSUME SetupRaises
      PROVE  UNCHANGED Relay!vars
      BY <1>9 DEF SetupRaises, Relay!vars, mainVars, setupVars, pumpVars, opVars
<1>10. ASSUME StartPumps
      PROVE  UNCHANGED Relay!vars
      BY <1>10 DEF StartPumps, At, Relay!vars, mainVars, setupVars, pumpVars, opVars
<1>11. ASSUME Begin
      PROVE  UNCHANGED Relay!vars
      BY <1>11 DEF Begin, Operator, Relay!vars, mainVars, setupVars, pumpVars, opVars
<1>12. ASSUME List
      PROVE  UNCHANGED Relay!vars
      BY <1>12 DEF List, Operator, Relay!vars, mainVars, setupVars, pumpVars, opVars
<1>13. ASSUME Listed
      PROVE  UNCHANGED Relay!vars
      BY <1>13 DEF Listed, Operator, Relay!vars, mainVars, setupVars, pumpVars, opVars
<1>14. ASSUME Pick
      PROVE  UNCHANGED Relay!vars
      BY <1>14 DEF Pick, Operator, Relay!vars, mainVars, setupVars, pumpVars, opVars
<1>15. ASSUME OpenHijack
      PROVE  UNCHANGED Relay!vars
      BY <1>15 DEF OpenHijack, Operator, Relay!vars, mainVars, setupVars, pumpVars, opVars
<1>16. ASSUME Bombed
      PROVE  UNCHANGED Relay!vars
      BY <1>16 DEF Bombed, Operator, Relay!vars, mainVars, setupVars, pumpVars, opVars
<1>17. ASSUME NEW i \in Conns, CheckAuthPassword(i)
      PROVE  UNCHANGED Relay!vars
      BY <1>17 DEF CheckAuthPassword, Callback, Relay!vars, mainVars, setupVars, pumpVars,
         opVars
<1>18. ASSUME NEW i \in Conns, CheckAuthPublickey(i)
      PROVE  UNCHANGED Relay!vars
      BY <1>18 DEF CheckAuthPublickey, Callback, Relay!vars, mainVars, setupVars, pumpVars,
         opVars
<1>19. ASSUME NEW i \in Conns, CheckChannelRequest(i)
      PROVE  UNCHANGED Relay!vars
      BY <1>19 DEF CheckChannelRequest, Callback, Relay!vars, mainVars, setupVars, pumpVars,
         opVars
<1>20. ASSUME NEW i \in Conns, CheckShellRequest(i)
      PROVE  UNCHANGED Relay!vars
      BY <1>20 DEF CheckShellRequest, Callback, Relay!vars, mainVars, setupVars, pumpVars,
         opVars
<1>21. ASSUME NEW i \in Conns, VictimDies(i)
      PROVE  UNCHANGED Relay!vars
      BY <1>21 DEF VictimDies, Callback, Relay!vars, mainVars, setupVars, pumpVars, opVars
<1>22. ASSUME NEW i \in Conns, StartShell(i)
      PROVE  UNCHANGED Relay!vars
      BY <1>22 DEF StartShell, Goto, Relay!vars, mainVars, setupVars, pumpVars, opVars
<1>23. ASSUME NEW i \in Conns, ShellEnds(i)
      PROVE  UNCHANGED Relay!vars
      BY <1>23 DEF ShellEnds, Goto, Relay!vars, mainVars, setupVars, pumpVars, opVars
<1>24. ASSUME NEW i \in Conns, OtherDone(i)
      PROVE  UNCHANGED Relay!vars
      BY <1>24 DEF OtherDone, Relay!vars, mainVars, setupVars, pumpVars, opVars
<1>25. ASSUME UNCHANGED vars
      PROVE  UNCHANGED Relay!vars
      BY <1>25 DEF vars, Relay!vars, mainVars, setupVars, pumpVars, opVars
<1>26. ASSUME NEW i \in Conns, NEW d \in Directions, Recv(i, d)
      PROVE  Relay!Next
  <2>1. <<i, d>> \in Streams
        BY DEF Streams, Directions
  <2>2. pump[i] = "select" /\ Len(given[<<i, d>>]) \in Nat
        BY <1>26, <2>1 DEF Recv, Goto, Inv, Types
  <2>3. taken[<<i, d>>] = Len(given[<<i, d>>])
        BY <2>2 DEF Inv, Relaying, Directions
  <2>4. Relay!Take(<<i, d>>)
        BY <1>26, <2>3 DEF Recv, Relay!Take
  <2> QED BY <2>1, <2>4 DEF Relay!Next
<1>27. ASSUME NEW i \in Conns, NEW d \in Directions, Send(i, d)
      PROVE  Relay!Next
  <2>1. <<i, d>> \in Streams
        BY DEF Streams, Directions
  <2>2. pump[i] = d /\ Len(given[<<i, d>>]) \in Nat
        BY <1>27, <2>1 DEF Send, Goto, Inv, Types
  <2>3. taken[<<i, d>>] = Len(given[<<i, d>>]) + 1
        BY <2>2 DEF Inv, Relaying
  <2>4. Len(given[<<i, d>>]) < taken[<<i, d>>]
        BY <2>2, <2>3
  <2>5. Relay!Give(<<i, d>>)
        BY <1>27, <2>4 DEF Send, Relay!Give
  <2> QED BY <2>1, <2>5 DEF Relay!Next
<1>28. QED
      BY <1>1, <1>2, <1>3, <1>4, <1>5, <1>6, <1>7, <1>8, <1>9, <1>10, <1>11, <1>12, <1>13,
         <1>14, <1>15, <1>16, <1>17, <1>18, <1>19, <1>20, <1>21, <1>22, <1>23, <1>24, <1>25,
         <1>26, <1>27
      DEF Next, Main, ProvideShell, Victim, Shell, Directions

\* ssh.py:157-174: however both directions take turns in their one thread, and
\* wherever a shell ends, each implements the abstract relay.
THEOREM ShellRelays == Spec => RelaySpec
<1>1. Init => Relay!Init
      BY DEF Init, Relay!Init
<1>2. QED
      BY <1>1, RelayStep, Invariance, PTL DEF Spec, RelaySpec, Relay!Spec

-----------------------------------------------------------------------------

(***************************************************************************)
(* What cleanup_proto leaves of a list.  The library's induction theorems  *)
(* take an operator; here its place is taken by the least counterexample.  *)
(***************************************************************************)

\* Every set of naturals has a least element.
LEMMA Least ==
    ASSUME NEW T \in SUBSET Nat, T # {}
    PROVE  \E n \in T : \A m \in T : n <= m
<1>1. IsWellFoundedOn(OpToRel(<, Nat), Nat)
      BY NatLessThanWellFounded, Zenon
<1>2. PICK n \in T : \A m \in T : <<m, n>> \notin OpToRel(<, Nat)
      BY <1>1, WFMin, Zenon
<1>3. \A m \in T : ~(m < n)
      BY <1>2, Zenon DEF OpToRel
<1> QED BY <1>3

\* What is left of the first n instances, if g is what is left of fewer.
KeptOf(s, g, n) ==
    IF n = 0 THEN <<>>
    ELSE IF s[n] \in done THEN g[n - 1] ELSE Append(g[n - 1], s[n])

\* There is a function that is what is left, however many instances there are.
LEMMA KeptExists ==
    ASSUME NEW s, NEW n \in Nat
    PROVE  \E g : g = [i \in 0 .. n |-> KeptOf(s, g, i)]
<1> DEFINE Has(k) == \E g : g = [i \in 0 .. k |-> KeptOf(s, g, i)]
           Bad == {k \in Nat : ~Has(k)}
<1>1. Has(0)
  <2> DEFINE g == [i \in 0 .. 0 |-> <<>>]
  <2>1. g = [i \in 0 .. 0 |-> KeptOf(s, g, i)]
        BY DEF KeptOf
  <2> QED BY <2>1
<1>2. ASSUME NEW k \in Nat, Has(k)
      PROVE  Has(k + 1)
  <2>1. PICK g : g = [i \in 0 .. k |-> KeptOf(s, g, i)]
        BY <1>2
  <2> DEFINE h == [i \in 0 .. k + 1 |-> IF i = k + 1 THEN KeptOf(s, g, i) ELSE g[i]]
  <2>2. ASSUME NEW i \in 0 .. k + 1
        PROVE  h[i] = KeptOf(s, h, i)
    <3>1. KeptOf(s, h, i) = KeptOf(s, g, i)
      <4>1. CASE i = 0
            BY <4>1 DEF KeptOf
      <4>2. CASE i # 0
        <5>1. h[i - 1] = g[i - 1]
              BY <4>2
        <5> HIDE DEF h
        <5> QED BY <5>1, Zenon DEF KeptOf
      <4> QED BY <4>1, <4>2
    <3>2. CASE i = k + 1
          BY <3>1, <3>2
    <3>3. CASE i # k + 1
      <4>1. i \in 0 .. k
            BY <3>3
      <4>2. g[i] = KeptOf(s, g, i)
            BY <2>1, <4>1
      <4> QED BY <3>1, <3>3, <4>2
    <3> QED BY <3>2, <3>3
  <2>3. h = [i \in 0 .. k + 1 |-> KeptOf(s, h, i)]
        BY <2>2
  <2> HIDE DEF h
  <2> QED BY <2>3
<1> HIDE DEF Has
<1>3. Bad = {}
  <2>1. SUFFICES ASSUME Bad # {} PROVE FALSE
        OBVIOUS
  <2>2. PICK m \in Bad : \A k \in Bad : m <= k
        BY <2>1, Least, Bad \in SUBSET Nat
  <2>3. m \in Nat /\ ~Has(m)
        BY <2>2
  <2>4. m # 0
        BY <1>1, <2>3
  <2>5. Has(m - 1)
        BY <2>2, <2>3, <2>4
  <2>6. Has((m - 1) + 1)
        BY <1>2, <2>3, <2>4, <2>5
  <2> QED BY <2>3, <2>6
<1>4. Has(n)
      BY <1>3
<1> QED BY <1>4 DEF Has

\* What is left of a list of connections is one.
LEMMA KeptType ==
    ASSUME NEW s \in Seq(Conns)
    PROVE  Kept(s)[Len(s)] \in Seq(Conns)
<1> DEFINE n == Len(s)
           K == Kept(s)
           Is(g) == g = [i \in 0 .. n |->
                          IF i = 0 THEN <<>>
                          ELSE IF s[i] \in done THEN g[i - 1] ELSE Append(g[i - 1], s[i])]
           Was(g) == g = [i \in 0 .. n |-> KeptOf(s, g, i)]
           Bad == {i \in 0 .. n : K[i] \notin Seq(Conns)}
<1>1. n \in Nat
      OBVIOUS
<1>2. \A g : Is(g) <=> Was(g)
      BY Zenon DEF KeptOf
<1>3. \E g : Was(g)
      BY <1>1, KeptExists
<1>4. K = CHOOSE g : Is(g)
      BY Zenon DEF Kept
<1> HIDE DEF Is
<1>5. Is(K)
      BY <1>2, <1>3, <1>4, Zenon
<1>6. Was(K)
      BY <1>2, <1>5
<1> HIDE DEF K
<1>7. K[0] \in Seq(Conns)
  <2>1. K[0] = <<>>
        BY <1>1, <1>6 DEF KeptOf
  <2>2. <<>> \in Seq(Conns)
        OBVIOUS
  <2> QED BY <2>1, <2>2
<1>8. ASSUME NEW i \in 1 .. n, K[i - 1] \in Seq(Conns)
      PROVE  K[i] \in Seq(Conns)
  <2>1. K[i] = KeptOf(s, K, i)
        BY <1>1, <1>6
  <2>2. K[i] = K[i - 1] \/ K[i] = Append(K[i - 1], s[i])
    <3>1. i # 0
          OBVIOUS
    <3> QED BY <2>1, <3>1, Zenon DEF KeptOf
  <2>3. s[i] \in Conns
        OBVIOUS
  <2> DEFINE k == K[i - 1]
             x == s[i]
  <2>4. k \in Seq(Conns) /\ x \in Conns
        BY <1>8, <2>3
  <2> HIDE DEF k, x
  <2>5. Append(k, x) \in Seq(Conns)
        BY <2>4
  <2> QED BY <1>8, <2>2, <2>5 DEF k, x
<1>9. Bad = {}
  <2>1. SUFFICES ASSUME Bad # {} PROVE FALSE
        OBVIOUS
  <2>2. PICK m \in Bad : \A k \in Bad : m <= k
        BY <1>1, <2>1, Least, Bad \in SUBSET Nat
  <2>3. m \in 1 .. n /\ K[m] \notin Seq(Conns)
    <3>1. m \in 0 .. n /\ K[m] \notin Seq(Conns)
          BY <2>2
    <3>2. m # 0
          BY <1>7, <3>1
    <3> QED BY <1>1, <3>1, <3>2
  <2>4. K[m - 1] \in Seq(Conns)
        BY <1>1, <2>2, <2>3
  <2> QED BY <1>8, <2>3, <2>4
<1> QED BY <1>1, <1>9 DEF K

\* As long as no instance was removed since the list began, what was shown is there.
Showing ==
    /\ protoinstances \in Seq(Conns)
    /\ operator = "list" => pos \in Nat \ {0}
    /\ operator # "accept" /\ ~shifted =>
         \A x \in shown : /\ x[1] \in 1 .. Len(protoinstances)
                          /\ protoinstances[x[1]] = x[2]
    /\ operator \in {"open", "shell"} /\ ~shifted => picked[2] = picked[3]

\* Every step keeps that: the accept loop appends, or says that it removed something.
LEMMA ShowingStep ==
    ASSUME Types, Showing, [Next]_vars
    PROVE  Showing'
<1>0. Len(protoinstances) \in Nat
      BY DEF Showing
<1>1. CASE CleanupProto
  <2>1. /\ protoinstances' = Kept(protoinstances)[Len(protoinstances)]
        /\ shifted' = (shifted \/ protoinstances' # protoinstances)
        /\ UNCHANGED <<operator, pos, shown, picked>>
        BY <1>1 DEF CleanupProto, opVars
  <2>2. protoinstances' \in Seq(Conns)
        BY <2>1, KeptType DEF Showing
  <2>3. ~shifted' => ~shifted /\ protoinstances' = protoinstances
        BY <2>1
  <2> QED BY <2>1, <2>2, <2>3 DEF Showing
<1>2. CASE Accept
  <2>1. /\ protoinstances' = Append(protoinstances, accepted + 1)
        /\ accepted < NumConns /\ UNCHANGED <<operator, pos, shown, picked, shifted>>
        BY <1>2 DEF Accept, opVars
  <2>2. accepted + 1 \in Conns
        BY <2>1, BoundsAssumption DEF Types, Conns
  <2>3. /\ protoinstances' \in Seq(Conns) /\ Len(protoinstances') = Len(protoinstances) + 1
        /\ \A n \in 1 .. Len(protoinstances) : protoinstances'[n] = protoinstances[n]
        BY <2>1, <2>2 DEF Showing
  <2>4. 1 .. Len(protoinstances) \subseteq 1 .. Len(protoinstances')
        BY <1>0, <2>3
  <2> QED BY <2>1, <2>3, <2>4 DEF Showing
<1>3. CASE UNCHANGED <<protoinstances, operator, pos, shown, picked, shifted>>
      BY <1>3 DEF Showing
<1>4. CASE Begin
      BY <1>4 DEF Begin, Operator, mainVars, Showing
<1>5. CASE List
  <2> DEFINE i == protoinstances[pos]
  <2>1. /\ operator = "list" /\ operator' = "list" /\ pos <= Len(protoinstances)
        /\ shown' \subseteq shown \cup {<<pos, i>>} /\ pos' = pos + 1
        /\ UNCHANGED <<protoinstances, picked, shifted>>
        BY <1>5 DEF List, Operator, mainVars
  <2>2. pos \in 1 .. Len(protoinstances)
        BY <1>0, <2>1 DEF Showing
  <2>3. ASSUME ~shifted, NEW x \in shown'
        PROVE  x[1] \in 1 .. Len(protoinstances) /\ protoinstances[x[1]] = x[2]
    <3>1. x \in shown \/ x = <<pos, i>>
          BY <2>1
    <3> QED BY <2>1, <2>2, <2>3, <3>1 DEF Showing
  <2> QED BY <2>1, <2>2, <2>3 DEF Showing
<1>6. CASE Listed
      BY <1>6 DEF Listed, Operator, mainVars, Showing
<1>7. CASE Pick
  <2>1. /\ operator = "ask" /\ operator' = "open"
        /\ UNCHANGED <<protoinstances, pos, shown, shifted>>
        BY <1>7 DEF Pick, Operator, mainVars
  <2>2. PICK x \in shown : picked' = <<x[1], x[2], protoinstances[x[1]]>>
        BY <1>7 DEF Pick
  <2>3. ~shifted => picked'[2] = picked'[3]
        BY <2>1, <2>2 DEF Showing
  <2> QED BY <2>1, <2>3 DEF Showing
<1>8. CASE OpenHijack
      BY <1>8 DEF OpenHijack, Operator, mainVars, Showing
<1>9. CASE Bombed
      BY <1>9 DEF Bombed, Operator, mainVars, Showing
<1>10. CASE Connect \/ InitSshClient \/ StartServer \/ AcceptChannel \/ WaitForShell
            \/ OpenSession \/ SetupRaises \/ StartPumps \/ UNCHANGED vars
  <2>1. UNCHANGED <<protoinstances, operator, pos, shown, picked, shifted>>
        BY <1>10 DEF Connect, InitSshClient, StartServer, AcceptChannel, WaitForShell,
           OpenSession, SetupRaises, StartPumps, At, vars, opVars, mainVars
  <2> QED BY <1>3, <2>1
<1>11. ASSUME NEW i \in Conns, Victim(i) \/ Shell(i) \/ OtherDone(i)
       PROVE  Showing'
  <2>1. UNCHANGED <<protoinstances, operator, pos, shown, picked, shifted>>
        BY <1>11 DEF Victim, CheckAuthPassword, CheckAuthPublickey, CheckChannelRequest,
           CheckShellRequest, VictimDies, Callback, Shell, StartShell, ShellEnds, Recv, Send,
           Goto, OtherDone, opVars, mainVars
  <2> QED BY <1>3, <2>1
<1> QED BY <1>1, <1>2, <1>4, <1>5, <1>6, <1>7, <1>8, <1>9, <1>10, <1>11
        DEF Next, Main, ProvideShell

\* An operator gets a shell at a server that a victim logged in to, and at the one he
\* was shown unless instances were removed meanwhile.
THEOREM ShownIsHijacked == Spec => []HijackedAsShown
<1>1. Init => Showing
      BY DEF Init, Showing
<1>2. Inv /\ Showing /\ [Next]_vars => Showing'
      BY ShowingStep DEF Inv
<1>3. Inv /\ Showing => HijackedAsShown
      BY DEF Inv, LoggedIn, Showing, HijackedAsShown
<1> QED BY <1>1, <1>2, <1>3, Invariance, PTL DEF Spec

=============================================================================
