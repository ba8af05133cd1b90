------------------------ MODULE ProtocolConfig_proofs ------------------------
(***************************************************************************)
(* Theorems about ProtocolConfig, for every number of reloads, all files   *)
(* and all ports: the list of the UDP protocol stays as it is; the class   *)
(* of a connection and what it does to its sockets are what the file says. *)
(***************************************************************************)
EXTENDS ProtocolConfig, WellFoundedInduction, TLAPS

\* Nobody touches the lists before main has configured the protocols, and from
\* then on only the RPC thread, which fills the list in force.
Inv ==
    /\ mainpc \in {"options", "main"} => loader = "off" /\ udp = 0
    /\ loader = "append" => meant[configured] = protocols
    /\ configured \in Nat
    /\ udp \in 0 .. configured
    /\ configured <= MaxLoads + (IF loader = "reset" THEN 0 ELSE 1)
    /\ DOMAIN lists = Lists /\ DOMAIN meant = Lists

-----------------------------------------------------------------------------

\* Every step keeps the invariant: lists are only made, and filled, by a reload.
LEMMA InvStep ==
    ASSUME Inv, [Next]_vars
    PROVE  Inv'
<1>1. ASSUME AddCommandLine
      PROVE  Inv'
      BY <1>1 DEF AddCommandLine, Inv, Lists
<1>2. ASSUME ConfigureProtocols
      PROVE  Inv'
      BY <1>2, LoadsAssumption DEF ConfigureProtocols, Inv, Loop, confVars, mainVars
<1>3. ASSUME StartUdp
      PROVE  Inv'
      BY <1>3 DEF StartUdp, Inv, confVars
<1>4. ASSUME NEW p \in Ports, Accept(p)
      PROVE  Inv'
      BY <1>4 DEF Accept, Inv, Loop, confVars
<1>5. ASSUME Choose
      PROVE  Inv'
      BY <1>5 DEF Choose, Inv, confVars
<1>6. ASSUME CreateServerSocket
      PROVE  Inv'
      BY <1>6 DEF CreateServerSocket, Inv, Loop, confVars
<1>7. ASSUME ConfigureServer
      PROVE  Inv'
      BY <1>7 DEF ConfigureServer, Inv, confVars
<1>8. ASSUME Connect
      PROVE  Inv'
      BY <1>8 DEF Connect, Inv, Loop, confVars
<1>9. ASSUME ConfigureClient
      PROVE  Inv'
      BY <1>9 DEF ConfigureClient, Inv, confVars
<1>10. ASSUME NextConnection
      PROVE  Inv'
      BY <1>10 DEF NextConnection, Inv, confVars
<1>11. ASSUME NEW f \in Files, SaveConfigRaw(f)
      PROVE  Inv'
      BY <1>11 DEF SaveConfigRaw, Inv, mainVars
<1>12. ASSUME LoadConfig
      PROVE  Inv'
      BY <1>12, LoadsAssumption DEF LoadConfig, Inv, mainVars
<1>13. ASSUME Reset
      PROVE  Inv'
      BY <1>13, LoadsAssumption DEF Reset, Inv, Lists, mainVars
<1>14. ASSUME AppendNext
      PROVE  Inv'
      BY <1>14 DEF AppendNext, Inv, mainVars
<1>15. ASSUME UNCHANGED vars
      PROVE  Inv'
      BY <1>15 DEF Inv, vars, confVars, mainVars
<1>16. QED
      BY <1>1, <1>2, <1>3, <1>4, <1>5, <1>6, <1>7, <1>8, <1>9, <1>10, <1>11, <1>12,
         <1>13, <1>14, <1>15 DEF Next, Main, Rpc

\* It holds in every reachable state.
THEOREM Invariance == Spec => []Inv
<1>1. Init => Inv
      BY LoadsAssumption DEF Init, Inv
<1>2. QED
      BY <1>1, InvStep, PTL DEF Spec

\* The RPC thread appends to the list in force until it holds what it is meant to.
LEMMA CompleteListStays ==
    ASSUME Inv, [Next]_vars, udp # 0, lists[udp] = meant[udp]
    PROVE  lists'[udp] = lists[udp]
<1>1. ASSUME AddCommandLine
      PROVE  lists'[udp] = lists[udp]
      BY <1>1 DEF AddCommandLine
<1>2. ASSUME ConfigureProtocols
      PROVE  lists'[udp] = lists[udp]
      BY <1>2 DEF ConfigureProtocols, Inv
<1>3. ASSUME StartUdp
      PROVE  lists'[udp] = lists[udp]
      BY <1>3 DEF StartUdp, confVars
<1>4. ASSUME NEW p \in Ports, Accept(p)
      PROVE  lists'[udp] = lists[udp]
      BY <1>4 DEF Accept, confVars
<1>5. ASSUME Choose
      PROVE  lists'[udp] = lists[udp]
      BY <1>5 DEF Choose, confVars
<1>6. ASSUME CreateServerSocket
      PROVE  lists'[udp] = lists[udp]
      BY <1>6 DEF CreateServerSocket, confVars
<1>7. ASSUME ConfigureServer
      PROVE  lists'[udp] = lists[udp]
      BY <1>7 DEF ConfigureServer, confVars
<1>8. ASSUME Connect
      PROVE  lists'[udp] = lists[udp]
      BY <1>8 DEF Connect, Inv, confVars
<1>9. ASSUME ConfigureClient
      PROVE  lists'[udp] = lists[udp]
      BY <1>9 DEF ConfigureClient, Lists, confVars
<1>10. ASSUME NextConnection
      PROVE  lists'[udp] = lists[udp]
      BY <1>10 DEF NextConnection, confVars
<1>11. ASSUME NEW f \in Files, SaveConfigRaw(f)
      PROVE  lists'[udp] = lists[udp]
      BY <1>11 DEF SaveConfigRaw
<1>12. ASSUME LoadConfig
      PROVE  lists'[udp] = lists[udp]
      BY <1>12, LoadsAssumption DEF LoadConfig, Loop, confVars, mainVars
<1>13. ASSUME Reset
      PROVE  lists'[udp] = lists[udp]
      BY <1>13 DEF Reset
<1>14. ASSUME AppendNext
      PROVE  lists'[udp] = lists[udp]
      BY <1>14, LoadsAssumption DEF AppendNext, Inv, Lists
<1>15. ASSUME UNCHANGED vars
      PROVE  lists'[udp] = lists[udp]
      BY <1>15 DEF vars, confVars
<1>16. QED
      BY <1>1, <1>2, <1>3, <1>4, <1>5, <1>6, <1>7, <1>8, <1>9, <1>10, <1>11, <1>12,
         <1>13, <1>14, <1>15 DEF Next, Main, Rpc

\* base.py:167: however often the protocols are reloaded, the complete list that the
\* UDP protocol goes through in its own thread is never changed.
THEOREM UdpListStays == Spec => UdpListFixed
<1>1. Inv /\ [Next]_vars => [udp # 0 /\ lists[udp] = meant[udp] => lists'[udp] = lists[udp]]_vars
      BY CompleteListStays
<1>2. QED
      BY <1>1, Invariance, PTL DEF Spec, UdpListFixed

-----------------------------------------------------------------------------

(***************************************************************************)
(* What Parse computes.  The library's induction theorems take an          *)
(* operator; here its place is taken by the least counterexample.          *)
(***************************************************************************)

\* Every set of naturals has a least element.
LEMMA Least ==
    ASSUME NEW T \in SUBSET Nat, T # {}
    PROVE  \E n \in T : \A m \in T : n <= m
<1>1. IsWellFoundedOn(OpToRel(<, Nat), Nat)
      BY NatLessThanWellFounded, Zenon
<1>2. PICK n \in T : \A m \in T : <<m, n>> \notin OpToRel(<, Nat)
      BY <1>1, WFMin, Zenon
<1>3. \A m \in T : ~(m < n)
      BY <1>2, Zenon DEF OpToRel
<1> QED BY <1>3

\* The lines of a list, each with a port of its own.
Good(l) ==
    /\ l \in Seq(Line)
    /\ \A i, j \in 1 .. Len(l) : l[i].port = l[j].port => i = j

\* What is kept of the first i lines, if g is what is kept of fewer.
KeptOf(f, g, i) ==
    IF i = 0 THEN <<>>
    ELSE IF \/ f[i].proto = Unknown
            \/ \E k \in 1 .. Len(g[i - 1]) : g[i - 1][k].port = f[i].port
         THEN g[i - 1]
         ELSE Append(g[i - 1], f[i])

\* There is a function that is what is kept, however many lines there are.
LEMMA KeptExists ==
    ASSUME NEW f, NEW n \in Nat
    PROVE  \E g : g = [i \in 0 .. n |-> KeptOf(f, g, i)]
<1> DEFINE Has(k) == \E g : g = [i \in 0 .. k |-> KeptOf(f, g, i)]
           Bad == {k \in Nat : ~Has(k)}
<1>1. Has(0)
  <2> DEFINE g == [i \in 0 .. 0 |-> <<>>]
  <2>1. g = [i \in 0 .. 0 |-> KeptOf(f, g, i)]
        BY DEF KeptOf
  <2> QED BY <2>1
<1>2. ASSUME NEW k \in Nat, Has(k)
      PROVE  Has(k + 1)
  <2>1. PICK g : g = [i \in 0 .. k |-> KeptOf(f, g, i)]
        BY <1>2
  <2> DEFINE h == [i \in 0 .. k + 1 |-> IF i = k + 1 THEN KeptOf(f, g, i) ELSE g[i]]
  <2>2. ASSUME NEW i \in 0 .. k + 1
        PROVE  h[i] = KeptOf(f, h, i)
    <3>1. i # 0 => i - 1 \in 0 .. k /\ h[i - 1] = g[i - 1]
          OBVIOUS
    <3>2. KeptOf(f, h, i) = KeptOf(f, g, i)
      <4>1. CASE i = 0
            BY <4>1 DEF KeptOf
      <4>2. CASE i # 0
        <5>1. h[i - 1] = g[i - 1]
              BY <3>1, <4>2
        <5> HIDE DEF h
        <5> QED BY <5>1, Zenon DEF KeptOf
      <4> QED BY <4>1, <4>2
    <3>3. CASE i = k + 1
          BY <3>2, <3>3
    <3>4. CASE i # k + 1
      <4>1. i \in 0 .. k
            BY <3>4
      <4>2. g[i] = KeptOf(f, g, i)
            BY <2>1, <4>1
      <4> QED BY <3>2, <3>4, <4>2
    <3> QED BY <3>3, <3>4
  <2>3. h = [i \in 0 .. k + 1 |-> KeptOf(f, h, i)]
        BY <2>2
  <2> HIDE DEF h
  <2> QED BY <2>3
<1> HIDE DEF Has
<1>3. Bad = {}
  <2>1. SUFFICES ASSUME Bad # {} PROVE FALSE
        OBVIOUS
  <2>2. PICK m \in Bad : \A k \in Bad : m <= k
        BY <2>1, Least, Bad \in SUBSET Nat
  <2>3. m \in Nat /\ ~Has(m)
        BY <2>2
  <2>4. m # 0
        BY <1>1, <2>3
  <2>5. Has(m - 1)
        BY <2>2, <2>3, <2>4
  <2>6. Has((m - 1) + 1)
        BY <1>2, <2>3, <2>4, <2>5
  <2> QED BY <2>3, <2>6
<1>4. Has(n)
      BY <1>3
<1> QED BY <1>4 DEF Has

\* Kept is that function.
LEMMA KeptIs ==
    ASSUME NEW f, NEW S, f \in Seq(S)
    PROVE  \A i \in 0 .. Len(f) : Kept(f)[i] = KeptOf(f, Kept(f), i)
<1> DEFINE n == Len(f)
           Is(g) == g = [i \in 0 .. n |->
                          IF i = 0 THEN <<>>
                          ELSE IF \/ f[i].proto = Unknown
                                  \/ \E k \in 1 .. Len(g[i - 1]) :
                                        g[i - 1][k].port = f[i].port
                               THEN g[i - 1]
                               ELSE Append(g[i - 1], f[i])]
           Was(g) == g = [i \in 0 .. n |-> KeptOf(f, g, i)]
<1>1. n \in Nat
      OBVIOUS
<1>2. \A g : Is(g) <=> Was(g)
      BY Zenon DEF KeptOf
<1>3. \E g : Was(g)
      BY <1>1, KeptExists
<1>4. Kept(f) = CHOOSE g : Is(g)
      BY Zenon DEF Kept
<1> HIDE DEF Is
<1>5. Is(Kept(f))
      BY <1>2, <1>3, <1>4, Zenon
<1>6. Was(Kept(f))
      BY <1>2, <1>5
<1> QED BY <1>6

\* A file that parses gives a list in which no port is claimed twice.
LEMMA ParseGood ==
    ASSUME NEW f \in Files, ~Raises(f)
    PROVE  Good(Parse(f))
<1> DEFINE K == Kept(f)
           n == Len(f)
           Bad == {i \in 0 .. n : ~Good(K[i])}
<1>1. /\ n \in Nat
      /\ \A i \in 1 .. n : f[i] \in [proto : Protos \cup {Unknown}, port : Ports]
  <2> DEFINE L == [proto : Protos \cup {Unknown}, port : Ports \cup {NoPort}]
  <2>1. f \in Seq(L)
        BY FilesAssumption
  <2>2. \A i \in 1 .. n : f[i].port # NoPort
        BY DEF Raises
  <2>3. ASSUME NEW i \in 1 .. n
        PROVE  f[i] \in [proto : Protos \cup {Unknown}, port : Ports]
    <3>1. f[i] \in L
      <4> HIDE DEF L
      <4> QED BY <2>1
    <3> QED BY <2>2, <3>1
  <2>4. n \in Nat
        BY <2>1
  <2> QED BY <2>3, <2>4
<1>2. \A i \in 0 .. n : K[i] = KeptOf(f, K, i)
      BY FilesAssumption, KeptIs
<1> HIDE DEF K
<1>3. Good(K[0])
  <2>1. K[0] = <<>>
        BY <1>1, <1>2 DEF KeptOf
  <2> QED BY <2>1 DEF Good
<1>4. ASSUME NEW i \in 1 .. n, Good(K[i - 1])
      PROVE  Good(K[i])
  <2>1. K[i] = KeptOf(f, K, i) /\ i # 0
        BY <1>1, <1>2
  <2> DEFINE s == K[i - 1]
  <2>2. CASE K[i] = s
        BY <1>4, <2>2
  <2>3. CASE K[i] # s
    <3>1. /\ f[i].proto # Unknown /\ \A k \in 1 .. Len(s) : s[k].port # f[i].port
          /\ K[i] = Append(s, f[i])
          BY <2>1, <2>3 DEF KeptOf
    <3>2. f[i] \in Line
          BY <1>1, <3>1 DEF Line
    <3>3. s \in Seq(Line) /\ \A k, j \in 1 .. Len(s) : s[k].port = s[j].port => k = j
          BY <1>4 DEF Good
    <3> HIDE DEF s
    <3>4. K[i] \in Seq(Line) /\ Len(K[i]) = Len(s) + 1 /\ K[i][Len(s) + 1] = f[i]
          BY <3>1, <3>2, <3>3
    <3>5. \A k \in 1 .. Len(s) : K[i][k] = s[k]
          BY <3>1, <3>2, <3>3
    <3>6. ASSUME NEW k \in 1 .. Len(K[i]), NEW j \in 1 .. Len(K[i]),
                 K[i][k].port = K[i][j].port
          PROVE  k = j
      <4>1. /\ k \in 1 .. Len(s) \/ k = Len(s) + 1
            /\ j \in 1 .. Len(s) \/ j = Len(s) + 1
            BY <3>3, <3>4
      <4> QED BY <3>1, <3>3, <3>4, <3>5, <3>6, <4>1
    <3> QED BY <3>4, <3>6 DEF Good
  <2> QED BY <2>2, <2>3
<1>5. Bad = {}
  <2>1. SUFFICES ASSUME Bad # {} PROVE FALSE
        OBVIOUS
  <2>2. PICK m \in Bad : \A k \in Bad : m <= k
        BY <1>1, <2>1, Least, Bad \in SUBSET Nat
  <2>3. m \in 1 .. n /\ ~Good(K[m])
        BY <1>1, <1>3, <2>2
  <2>4. Good(K[m - 1])
        BY <1>1, <2>2, <2>3
  <2> QED BY <1>4, <2>3, <2>4
<1>6. Good(K[n])
      BY <1>1, <1>5
<1> QED BY <1>6 DEF Parse, K

-----------------------------------------------------------------------------

\* s is what a loop has appended so far of t.
Prefix(s, t) ==
    /\ Len(s) <= Len(t)
    /\ \A i \in 1 .. Len(s) : s[i] = t[i]

\* Each list that was ever bound is, or is on the way to, one that the file gave.
Conf ==
    /\ file \in Files
    /\ Good(protocols)
    /\ lists \in [Lists -> Seq(Line)]
    /\ \A l \in Lists : l # 0 => Good(meant[l]) /\ Prefix(lists[l], meant[l])
    /\ \A l \in Lists : l > configured => lists[l] = <<>>
    /\ mainpc \in {"options", "main"} => configured = 0
    /\ mainpc \notin {"options", "main"} => configured >= 1

\* Only these three change a list; the others may call load_config.
LEMMA ConfFrame ==
    ASSUME Conf, UNCHANGED <<lists, meant, configured>>, file' \in Files, Good(protocols'),
           mainpc' \in {"options", "main"} <=> mainpc \in {"options", "main"}
    PROVE  Conf'
BY DEF Conf

\* Every step keeps the lists as the file gave them.
LEMMA ConfStep ==
    ASSUME Inv, Conf, [Next]_vars
    PROVE  Conf'
<1>0. MaxLoads \in Nat /\ 0 \in Lists /\ 1 \in Lists /\ configured \in Nat
      BY LoadsAssumption DEF Lists, Inv
<1>1. CASE AddCommandLine
  <2>1. /\ lists' = [lists EXCEPT ![0] = @ \o CmdLine] /\ mainpc \in {"options", "main"}
        /\ mainpc' \in {"options", "main"}
        /\ UNCHANGED <<file, protocols, meant, configured>>
        BY <1>1 DEF AddCommandLine
  <2>2. lists' \in [Lists -> Seq(Line)]
    <3>1. lists[0] \o CmdLine \in Seq(Line)
          BY <1>0, CmdLineAssumption DEF Conf
    <3> QED BY <2>1, <3>1 DEF Conf
  <2>3. \A l \in Lists : l # 0 => lists'[l] = lists[l]
        BY <2>1 DEF Conf
  <2> QED BY <1>0, <2>1, <2>2, <2>3 DEF Conf
<1>2. CASE ConfigureProtocols
  <2>1. /\ lists' = [lists EXCEPT ![1] = protocols] /\ meant' = [meant EXCEPT ![1] = protocols]
        /\ configured' = 1 /\ mainpc = "main" /\ mainpc' = "udp" /\ UNCHANGED <<file, protocols>>
        BY <1>2 DEF ConfigureProtocols
  <2>2. protocols \in Seq(Line) /\ Prefix(protocols, protocols)
        BY DEF Conf, Good, Prefix
  <2>3. lists' \in [Lists -> Seq(Line)]
        BY <2>1, <2>2 DEF Conf
  <2>4. ASSUME NEW l \in Lists, l # 0
        PROVE  Good(meant'[l]) /\ Prefix(lists'[l], meant'[l])
    <3>1. CASE l = 1
      <4>1. lists'[l] = protocols /\ meant'[l] = protocols
            BY <2>1, <3>1 DEF Conf, Inv
      <4> QED BY <2>2, <4>1 DEF Conf
    <3>2. CASE l # 1
      <4>1. lists'[l] = lists[l] /\ meant'[l] = meant[l]
            BY <2>1, <3>2 DEF Conf, Inv
      <4> QED BY <2>4, <4>1 DEF Conf
    <3> QED BY <3>1, <3>2
  <2>5. \A l \in Lists : l > 1 => lists'[l] = <<>>
        BY <1>0, <2>1 DEF Conf, Lists
  <2> QED BY <2>1, <2>3, <2>4, <2>5 DEF Conf
<1>3. CASE StartUdp \/ Choose \/ CreateServerSocket \/ ConfigureServer \/ Connect
           \/ ConfigureClient \/ NextConnection \/ \E p \in Ports : Accept(p)
  <2>1. UNCHANGED confVars /\ mainpc \notin {"options", "main"}
        BY <1>3 DEF StartUdp, Choose, CreateServerSocket, ConfigureServer, Connect,
           ConfigureClient, NextConnection, Accept
  <2>2. mainpc' \notin {"options", "main"}
        BY <1>3 DEF StartUdp, Choose, CreateServerSocket, ConfigureServer, Connect,
           ConfigureClient, NextConnection, Accept, Loop
  <2> QED BY <2>1, <2>2, ConfFrame DEF Conf, confVars
<1>4. ASSUME NEW f \in Files, SaveConfigRaw(f)
      PROVE  Conf'
      BY <1>4, ConfFrame DEF SaveConfigRaw, Conf, mainVars
<1>5. CASE LoadConfig
  <2>1. /\ protocols' = Parse(file) /\ ~Raises(file)
        /\ UNCHANGED <<file, lists, meant, configured, mainpc>>
        BY <1>5 DEF LoadConfig, mainVars
  <2>2. Good(Parse(file))
        BY <2>1, ParseGood DEF Conf
  <2> QED BY <2>1, <2>2, ConfFrame DEF Conf
<1>6. CASE Reset
  <2> DEFINE c == configured + 1
  <2>1. /\ configured' = c /\ meant' = [meant EXCEPT ![c] = protocols]
        /\ UNCHANGED <<file, protocols, lists, mainpc>> /\ loader = "reset"
        BY <1>6 DEF Reset, mainVars
  <2>2. c \in Lists /\ mainpc \notin {"options", "main"}
        BY <1>0, <2>1 DEF Inv, Lists
  <2>3. lists[c] = <<>> /\ Prefix(<<>>, protocols)
    <3>1. protocols \in Seq(Line)
          BY DEF Conf, Good
    <3> QED BY <1>0, <2>2, <3>1 DEF Conf, Prefix
  <2>4. ASSUME NEW l \in Lists, l # 0
        PROVE  Good(meant'[l]) /\ Prefix(lists'[l], meant'[l])
    <3>1. CASE l = c
      <4>1. meant'[l] = protocols /\ lists'[l] = <<>>
            BY <2>1, <2>3, <3>1 DEF Inv
      <4> QED BY <2>3, <4>1 DEF Conf
    <3>2. CASE l # c
      <4>1. meant'[l] = meant[l] /\ lists'[l] = lists[l]
            BY <2>1, <3>2 DEF Inv
      <4> QED BY <2>4, <4>1 DEF Conf
    <3> QED BY <3>1, <3>2
  <2>5. \A l \in Lists : l > c => lists'[l] = <<>>
        BY <1>0, <2>1 DEF Conf, Lists
  <2> HIDE DEF c
  <2>6. configured' >= 1
        BY <1>0, <2>1 DEF c
  <2> QED BY <2>1, <2>2, <2>4, <2>5, <2>6 DEF Conf
<1>7. CASE AppendNext
  <2> DEFINE n == Len(lists[configured])
  <2>1. /\ loader = "append" /\ UNCHANGED <<file, protocols, configured, meant, mainpc>>
        /\ \/ n < Len(protocols)
              /\ lists' = [lists EXCEPT ![configured] = Append(@, protocols[n + 1])]
           \/ lists' = lists
        BY <1>7 DEF AppendNext, mainVars
  <2>2. CASE lists' = lists
        BY <2>1, <2>2, ConfFrame DEF Conf
  <2>3. CASE n < Len(protocols)
             /\ lists' = [lists EXCEPT ![configured] = Append(@, protocols[n + 1])]
    <3>1. /\ configured \in Lists /\ configured # 0 /\ mainpc \notin {"options", "main"}
          /\ meant[configured] = protocols
          BY <1>0, <2>1 DEF Inv, Conf, Lists
    <3> DEFINE s == lists[configured]
    <3>2. /\ s \in Seq(Line) /\ protocols \in Seq(Line) /\ Prefix(s, protocols)
          /\ n \in Nat
          BY <3>1 DEF Conf, Good
    <3>3. lists'[configured] = Append(s, protocols[n + 1])
          BY <2>3, <3>1 DEF Conf
    <3>4. \A l \in Lists : l # configured => lists'[l] = lists[l]
          BY <2>3 DEF Conf
    <3>5. protocols[n + 1] \in Line
          BY <2>3, <3>2
    <3> HIDE DEF s
    <3>6. n = Len(s)
          BY DEF s
    <3>7. Append(s, protocols[n + 1]) \in Seq(Line)
          BY <3>2, <3>5
    <3>8. Prefix(Append(s, protocols[n + 1]), protocols)
          BY <2>3, <3>2, <3>5, <3>6 DEF Prefix
    <3>9. lists' \in [Lists -> Seq(Line)]
          BY <2>3, <3>1, <3>7 DEF Conf, s
    <3>10. ASSUME NEW l \in Lists, l # 0
           PROVE  Good(meant'[l]) /\ Prefix(lists'[l], meant'[l])
      <4>1. CASE l = configured
            BY <2>1, <3>1, <3>3, <3>8, <4>1 DEF Conf
      <4>2. CASE l # configured
            BY <2>1, <3>4, <3>10, <4>2 DEF Conf
      <4> QED BY <4>1, <4>2
    <3>11. \A l \in Lists : l > configured => lists'[l] = <<>>
          BY <1>0, <3>4 DEF Conf, Lists
    <3> QED BY <2>1, <3>1, <3>9, <3>10, <3>11 DEF Conf
  <2> QED BY <2>1, <2>2, <2>3
<1>8. CASE UNCHANGED vars
      BY <1>8, ConfFrame DEF vars, confVars, mainVars, Conf
<1> QED BY <1>1, <1>2, <1>3, <1>4, <1>5, <1>6, <1>7, <1>8 DEF Next, Main, Rpc

\* A list that a loop may go over only grows.
LEMMA ListsGrow ==
    ASSUME Inv, Conf, [Next]_vars, mainpc \notin {"options", "main"}, NEW l \in 1 .. configured
    PROVE  /\ l \in Lists /\ Len(lists[l]) \in Nat /\ Len(lists'[l]) \in Nat
           /\ Len(lists[l]) <= Len(lists'[l])
           /\ \A i \in 1 .. Len(lists[l]) : lists'[l][i] = lists[l][i]
<1>1. l \in Lists
      BY LoadsAssumption DEF Inv, Lists
<1>2. lists[l] \in Seq(Line) /\ lists'[l] \in Seq(Line)
      BY <1>1, ConfStep DEF Conf
<1>3. CASE lists' = lists
      BY <1>1, <1>2, <1>3
<1>4. CASE AppendNext
  <2> DEFINE n == Len(lists[configured])
  <2>1. \/ n < Len(protocols)
           /\ lists' = [lists EXCEPT ![configured] = Append(@, protocols[n + 1])]
        \/ lists' = lists
        BY <1>4 DEF AppendNext
  <2>2. protocols \in Seq(Line)
        BY DEF Conf, Good
  <2>3. CASE l = configured /\ n < Len(protocols)
             /\ lists' = [lists EXCEPT ![configured] = Append(@, protocols[n + 1])]
    <3>1. n + 1 \in 1 .. Len(protocols)
          BY <1>2, <2>2, <2>3
    <3>2. protocols[n + 1] \in Line
          BY <2>2, <3>1
    <3>3. lists'[l] = Append(lists[l], protocols[n + 1])
          BY <1>1, <2>3 DEF Conf
    <3> QED BY <1>1, <1>2, <3>2, <3>3
  <2>4. CASE l # configured
             /\ lists' = [lists EXCEPT ![configured] = Append(@, protocols[n + 1])]
    <3>1. lists'[l] = lists[l]
          BY <1>1, <2>4 DEF Conf
    <3> QED BY <1>1, <1>2, <3>1
  <2> QED BY <1>3, <2>1, <2>3, <2>4
<1>5. CASE ~AppendNext
  <2>1. lists' = lists
        BY <1>5 DEF Next, Main, Rpc, AddCommandLine, ConfigureProtocols, StartUdp, Accept, Choose,
           CreateServerSocket, ConfigureServer, Connect, ConfigureClient, NextConnection,
           SaveConfigRaw, LoadConfig, Reset, vars, confVars
  <2> QED BY <1>3, <2>1
<1> QED BY <1>4, <1>5

-----------------------------------------------------------------------------

\* Where a connection is being set up.
Busy == {"choose", "chosen", "server", "connect", "client", "served"}

\* Line i of the list l is for the port of this connection.
Matches(l, i) == lists[l][i].port = port

\* The loop is somewhere in a list bound when the connection was accepted, or later.
Looping ==
    mainpc \in Busy => /\ iter[1] \in 1 .. configured /\ began \in 1 .. iter[1]
                       /\ iter[2] \in Nat \ {0}

\* What the first loop has made of the lines it has seen.
Choosing ==
    mainpc \in {"choose", "chosen"} =>
        /\ wrapped = {} /\ iter[1] = began /\ iter[2] <= Len(list) + 1
        /\ \/ chosen = Plain
              /\ \A i \in 1 .. Len(list) : i < iter[2] => ~Matches(iter[1], i)
           \/ \E i \in 1 .. Len(list) : Matches(iter[1], i) /\ list[i].proto = chosen

\* A class that does not configure its sockets has none wrapped; what the other two
\* loops have made of the line that named one that does.
Wrapping ==
    /\ mainpc \in Busy /\ chosen \notin Wrappers => wrapped = {}
    /\ mainpc \in {"server", "connect", "client", "served"} /\ configured = began
          /\ chosen \in Wrappers =>
       \E i \in 1 .. Len(lists[began]) :
          /\ Matches(began, i) /\ lists[began][i].proto = chosen
          /\ wrapped \subseteq {"server", "client"}
          /\ "client" \in wrapped => mainpc \in {"client", "served"}
          /\ mainpc = "server" /\ i < iter[2] => "server" \in wrapped
          /\ mainpc \in {"connect", "client", "served"} => "server" \in wrapped
          /\ mainpc = "client" /\ i < iter[2] /\ ~refused => "client" \in wrapped
          /\ mainpc = "served" /\ ~refused => "client" \in wrapped

Conn == Looping /\ Choosing /\ Wrapping

\* A step of the RPC thread leaves a connection what it has seen.
LEMMA ConnFrame ==
    ASSUME Inv, Conf, Conn, [Next]_vars, UNCHANGED mainVars
    PROVE  Conn'
<1>1. UNCHANGED <<mainpc, iter, port, chosen, wrapped, began, refused>>
      BY DEF mainVars, connVars
<1>2. configured' \in Nat /\ configured <= configured' /\ configured \in Nat
  <2>1. CASE mainpc \in {"options", "main"}
        BY <2>1, ConfStep, InvStep DEF Conf, Inv
  <2>2. CASE mainpc \notin {"options", "main"}
        BY <2>2 DEF Inv, Next, Main, Rpc, AddCommandLine, ConfigureProtocols, StartUdp, Accept,
           Choose, CreateServerSocket, ConfigureServer, Connect, ConfigureClient,
           NextConnection, SaveConfigRaw, LoadConfig, Reset, AppendNext, vars, confVars
  <2> QED BY <2>1, <2>2
<1>3. ASSUME mainpc \in Busy
      PROVE  /\ iter[1] \in 1 .. configured /\ began \in 1 .. iter[1] /\ iter[2] \in Nat \ {0}
             /\ began \in 1 .. configured
             /\ \A l \in 1 .. configured :
                  /\ Len(lists[l]) \in Nat /\ Len(lists'[l]) \in Nat
                  /\ Len(lists[l]) <= Len(lists'[l])
                  /\ \A i \in 1 .. Len(lists[l]) : lists'[l][i] = lists[l][i]
  <2>1. mainpc \notin {"options", "main"}
        BY <1>3 DEF Busy
  <2>2. iter[1] \in 1 .. configured /\ began \in 1 .. iter[1] /\ iter[2] \in Nat \ {0}
        BY <1>3 DEF Conn, Looping
  <2>3. began \in 1 .. configured
        BY <1>2, <2>2
  <2>4. \A l \in 1 .. configured :
           /\ Len(lists[l]) \in Nat /\ Len(lists'[l]) \in Nat
           /\ Len(lists[l]) <= Len(lists'[l])
           /\ \A i \in 1 .. Len(lists[l]) : lists'[l][i] = lists[l][i]
        BY <2>1, ListsGrow
  <2> QED BY <2>2, <2>3, <2>4
<1>4. Looping'
      BY <1>1, <1>2, <1>3 DEF Looping
<1>5. Choosing'
  <2> SUFFICES ASSUME mainpc \in {"choose", "chosen"}
               PROVE  Choosing'
      BY <1>1 DEF Choosing
  <2> DEFINE l == iter[1]
             n == Len(lists[l])
  <2>1. mainpc \in Busy
        BY DEF Busy
  <2>2. l \in 1 .. configured /\ n \in Nat /\ n <= Len(lists'[l]) /\ Len(lists'[l]) \in Nat
        BY <1>3, <2>1
  <2>3. \A i \in 1 .. n : lists'[l][i] = lists[l][i]
        BY <1>3, <2>1
  <2>4. iter[2] \in Nat \ {0} /\ iter[2] <= n + 1 /\ wrapped = {} /\ iter[1] = began
        BY <1>3, <2>1 DEF Conn, Choosing, list
  <2>5. CASE chosen = Plain /\ \A i \in 1 .. n : i < iter[2] => lists[l][i].port # port
    <3>1. \A i \in 1 .. Len(lists'[l]) : i < iter[2] => i \in 1 .. n
          BY <2>2, <2>4
    <3>2. \A i \in 1 .. Len(lists'[l]) : i < iter[2] => lists'[l][i].port # port
          BY <2>3, <2>5, <3>1
    <3> QED BY <1>1, <2>2, <2>4, <2>5, <3>2 DEF Choosing, list, Matches
  <2>6. CASE \E i \in 1 .. n : lists[l][i].port = port /\ lists[l][i].proto = chosen
    <3>1. \E i \in 1 .. Len(lists'[l]) : lists'[l][i].port = port /\ lists'[l][i].proto = chosen
          BY <2>2, <2>3, <2>6
    <3> QED BY <1>1, <2>2, <2>4, <3>1 DEF Choosing, list, Matches
  <2> QED BY <2>5, <2>6 DEF Conn, Choosing, list, Matches
<1>6. Wrapping'
  <2>1. mainpc' \in Busy /\ chosen' \notin Wrappers => wrapped' = {}
        BY <1>1 DEF Conn, Wrapping
  <2>2. ASSUME mainpc \in {"server", "connect", "client", "served"}, configured' = began,
               chosen \in Wrappers
        PROVE  \E i \in 1 .. Len(lists'[began]) :
                  /\ lists'[began][i].port = port /\ lists'[began][i].proto = chosen
                  /\ wrapped \subseteq {"server", "client"}
                  /\ "client" \in wrapped => mainpc \in {"client", "served"}
                  /\ mainpc = "server" /\ i < iter[2] => "server" \in wrapped
                  /\ mainpc \in {"connect", "client", "served"} => "server" \in wrapped
                  /\ mainpc = "client" /\ i < iter[2] /\ ~refused => "client" \in wrapped
                  /\ mainpc = "served" /\ ~refused => "client" \in wrapped
    <3>1. mainpc \in Busy
          BY <2>2 DEF Busy
    <3>2. configured = began /\ began \in 1 .. configured
          BY <1>2, <1>3, <2>2, <3>1
    <3>3. PICK i \in 1 .. Len(lists[began]) :
                  /\ lists[began][i].port = port /\ lists[began][i].proto = chosen
                  /\ wrapped \subseteq {"server", "client"}
                  /\ "client" \in wrapped => mainpc \in {"client", "served"}
                  /\ mainpc = "server" /\ i < iter[2] => "server" \in wrapped
                  /\ mainpc \in {"connect", "client", "served"} => "server" \in wrapped
                  /\ mainpc = "client" /\ i < iter[2] /\ ~refused => "client" \in wrapped
                  /\ mainpc = "served" /\ ~refused => "client" \in wrapped
          BY <2>2, <3>2 DEF Conn, Wrapping, Matches
    <3>4. i \in 1 .. Len(lists'[began]) /\ lists'[began][i] = lists[began][i]
          BY <1>3, <3>1, <3>2
    <3> QED BY <3>3, <3>4
  <2> QED BY <1>1, <2>1, <2>2 DEF Wrapping, Matches
<1> QED BY <1>4, <1>5, <1>6 DEF Conn

\* Each step of the main thread keeps what is said of the connection.
LEMMA ConnStep ==
    ASSUME Inv, Conf, Conn, [Next]_vars
    PROVE  Conn'
<1>0. Plain \notin Wrappers /\ configured \in Nat
      BY NamesAssumption DEF Inv
<1>1. CASE AddCommandLine \/ ConfigureProtocols \/ StartUdp \/ NextConnection
  <2>1. mainpc' \in {"main", "udp", "accept"}
        BY <1>1 DEF AddCommandLine, ConfigureProtocols, StartUdp, NextConnection
  <2> QED BY <2>1 DEF Conn, Looping, Choosing, Wrapping, Busy
<1>2. ASSUME NEW p \in Ports, Accept(p)
      PROVE  Conn'
  <2>1. /\ mainpc = "accept" /\ mainpc' = "choose" /\ iter' = <<configured, 1>> /\ chosen' = Plain
        /\ wrapped' = {} /\ began' = configured /\ UNCHANGED <<lists, configured>>
        BY <1>2 DEF Accept, Loop, confVars
  <2>2. configured \in 1 .. configured /\ Len(lists[configured]) \in Nat
    <3>1. configured >= 1 /\ configured \in Lists
          BY <1>0, <2>1, LoadsAssumption DEF Conf, Inv, Lists
    <3> QED BY <1>0, <3>1 DEF Conf
  <2>3. Looping' /\ Choosing'
        BY <2>1, <2>2 DEF Looping, Choosing, list
  <2> QED BY <2>1, <2>3 DEF Conn, Wrapping
<1>3. CASE Choose
  <2> DEFINE n == Len(list)
  <2>1. /\ mainpc = "choose" /\ mainpc \in Busy /\ mainpc' \in {"choose", "chosen"}
        /\ UNCHANGED <<lists, configured, port, wrapped, began>>
        BY <1>3 DEF Choose, confVars, Busy
  <2>2. /\ iter[1] \in 1 .. configured /\ began \in 1 .. iter[1] /\ iter[2] \in Nat \ {0}
        /\ wrapped = {} /\ iter[1] = began /\ iter[2] <= n + 1
        BY <2>1 DEF Conn, Looping, Choosing
  <2>3. n \in Nat
    <3>1. iter[1] \in Lists
          BY <1>0, <2>2, LoadsAssumption DEF Inv, Lists
    <3> QED BY <3>1 DEF Conf, list
  <2>4. CASE UNCHANGED <<chosen, iter>>
        BY <2>1, <2>4 DEF Conn, Looping, Choosing, Wrapping, Matches, list, Busy
  <2>5. CASE iter[2] <= n /\ iter' = <<iter[1], iter[2] + 1>>
             /\ chosen' = IF line.port = port THEN line.proto ELSE chosen
    <3>1. iter'[1] = iter[1] /\ iter'[2] = iter[2] + 1 /\ list' = list /\ iter[2] \in 1 .. n
          BY <2>1, <2>2, <2>3, <2>5 DEF list
    <3>2. Looping'
          BY <2>1, <2>2, <3>1 DEF Looping
    <3>3. \/ chosen' = Plain /\ \A i \in 1 .. n : i < iter[2] + 1 => list[i].port # port
          \/ \E i \in 1 .. n : list[i].port = port /\ list[i].proto = chosen'
      <4>1. CASE line.port = port
            BY <2>5, <3>1, <4>1 DEF line
      <4>2. CASE line.port # port
        <5>1. \/ chosen = Plain /\ \A i \in 1 .. n : i < iter[2] => list[i].port # port
              \/ \E i \in 1 .. n : list[i].port = port /\ list[i].proto = chosen
              BY <2>1 DEF Conn, Choosing, Matches, list
        <5>2. \A i \in 1 .. n : i < iter[2] + 1 => i < iter[2] \/ i = iter[2]
              BY <2>2
        <5>3. chosen' = chosen
              BY <2>5, <4>2
        <5> QED BY <4>2, <5>1, <5>2, <5>3 DEF line
      <4> QED BY <4>1, <4>2
    <3>4. Choosing'
          BY <2>1, <2>2, <2>3, <3>1, <3>3, <2>5 DEF Choosing, Matches, list
    <3>5. Wrapping'
          BY <2>1, <2>2 DEF Wrapping
    <3> QED BY <3>2, <3>4, <3>5 DEF Conn
  <2> QED BY <1>3, <2>4, <2>5 DEF Choose, InLoop, NextLine
<1>4. CASE CreateServerSocket
  <2>1. /\ mainpc = "chosen" /\ mainpc \in Busy /\ mainpc' = "server" /\ iter' = <<configured, 1>>
        /\ UNCHANGED <<lists, configured, port, chosen, wrapped, began, refused>>
        BY <1>4 DEF CreateServerSocket, Loop, confVars, connVars, Busy
  <2>2. /\ began \in 1 .. configured /\ configured \in 1 .. configured
        /\ wrapped = {} /\ iter[1] = began
        BY <1>0, <2>1 DEF Conn, Looping, Choosing
  <2>3. Looping' /\ Choosing'
        BY <2>1, <2>2 DEF Looping, Choosing
  <2>4. ASSUME chosen \in Wrappers
        PROVE  \E i \in 1 .. Len(lists[began]) :
                  Matches(began, i) /\ lists[began][i].proto = chosen
        BY <1>0, <2>1, <2>2, <2>4 DEF Conn, Choosing, list
  <2>5. Wrapping'
        BY <2>1, <2>2, <2>4 DEF Wrapping, Matches
  <2> QED BY <2>3, <2>5 DEF Conn
<1>5. CASE ConfigureServer
  <2>1. /\ mainpc = "server" /\ mainpc \in Busy
        /\ UNCHANGED <<lists, configured, port, chosen, began, refused>>
        BY <1>5 DEF ConfigureServer, confVars, Busy
  <2>2. iter[1] \in 1 .. configured /\ began \in 1 .. iter[1] /\ iter[2] \in Nat \ {0}
        BY <2>1 DEF Conn, Looping
  <2>3. CASE mainpc' = "failed"
        BY <2>3 DEF Conn, Looping, Choosing, Wrapping, Busy
  <2>4. CASE ~InLoop /\ mainpc' = "connect" /\ UNCHANGED <<wrapped, iter>>
    <3>1. Looping' /\ Choosing'
          BY <2>1, <2>2, <2>4 DEF Looping, Choosing
    <3>2. chosen \notin Wrappers => wrapped = {}
          BY <2>1 DEF Conn, Wrapping
    <3>3. ASSUME configured = began, chosen \in Wrappers
          PROVE  \E i \in 1 .. Len(lists[began]) :
                    /\ Matches(began, i) /\ lists[began][i].proto = chosen
                    /\ wrapped \subseteq {"server"} /\ "server" \in wrapped
      <4>1. iter[1] = began
            BY <2>2, <3>3
      <4>2. PICK i \in 1 .. Len(lists[began]) :
                    /\ Matches(began, i) /\ lists[began][i].proto = chosen
                    /\ wrapped \subseteq {"server", "client"}
                    /\ "client" \in wrapped => mainpc \in {"client", "served"}
                    /\ mainpc = "server" /\ i < iter[2] => "server" \in wrapped
            BY <2>1, <3>3 DEF Conn, Wrapping
      <4>3. i < iter[2]
        <5>1. began \in Lists
              BY <1>0, <2>2, LoadsAssumption DEF Inv, Lists
        <5>2. Len(lists[began]) \in Nat
              BY <5>1 DEF Conf
        <5> QED BY <2>2, <2>4, <4>1, <5>2 DEF InLoop, list
      <4> QED BY <2>1, <4>2, <4>3
    <3>4. Wrapping'
          BY <2>1, <2>4, <3>2, <3>3 DEF Wrapping, Matches
    <3> QED BY <3>1, <3>4 DEF Conn
  <2>5. CASE /\ InLoop /\ mainpc' = mainpc /\ (Called => Able)
             /\ wrapped' = IF Called /\ Able THEN wrapped \cup {"server"} ELSE wrapped
             /\ iter' = <<iter[1], iter[2] + 1>>
    <3>1. iter'[1] = iter[1] /\ iter'[2] = iter[2] + 1
          BY <2>5
    <3>2. Looping' /\ Choosing'
          BY <2>1, <2>2, <2>5, <3>1 DEF Looping, Choosing
    <3>3. chosen \notin Wrappers => wrapped' = {}
          BY <2>1, <2>5 DEF Conn, Wrapping, Able
    <3>4. ASSUME configured = began, chosen \in Wrappers
          PROVE  \E i \in 1 .. Len(lists[began]) :
                    /\ Matches(began, i) /\ lists[began][i].proto = chosen
                    /\ wrapped' \subseteq {"server"}
                    /\ i < iter[2] + 1 => "server" \in wrapped'
      <4>1. iter[1] = began
            BY <2>2, <3>4
      <4>2. PICK i \in 1 .. Len(lists[began]) :
                    /\ Matches(began, i) /\ lists[began][i].proto = chosen
                    /\ wrapped \subseteq {"server", "client"}
                    /\ "client" \in wrapped => mainpc \in {"client", "served"}
                    /\ mainpc = "server" /\ i < iter[2] => "server" \in wrapped
            BY <2>1, <3>4 DEF Conn, Wrapping
      <4>3. wrapped' \subseteq {"server"} /\ wrapped \subseteq wrapped'
            BY <2>1, <2>5, <4>2
      <4>4. CASE i = iter[2]
        <5>1. Called /\ Able
              BY <3>4, <4>1, <4>2, <4>4 DEF Called, Able, Matches, line, list
        <5> QED BY <2>5, <4>2, <4>3, <5>1
      <4>5. CASE i # iter[2]
        <5>1. i < iter[2] + 1 => i < iter[2]
              BY <2>2, <4>5
        <5> QED BY <2>1, <4>2, <4>3, <5>1
      <4> QED BY <4>4, <4>5
    <3>5. Wrapping'
          BY <2>1, <2>5, <3>1, <3>3, <3>4 DEF Wrapping, Matches
    <3> QED BY <3>2, <3>5 DEF Conn
  <2> QED BY <1>5, <2>3, <2>4, <2>5 DEF ConfigureServer, NextLine
<1>6. CASE Connect
  <2>1. /\ mainpc = "connect" /\ mainpc \in Busy
        /\ UNCHANGED <<lists, configured, port, chosen, wrapped, began, refused>>
        BY <1>6 DEF Connect, confVars, connVars, Busy
  <2>2. iter[1] \in 1 .. configured /\ began \in 1 .. iter[1]
        BY <2>1 DEF Conn, Looping
  <2>3. CASE mainpc' = "failed"
        BY <2>3 DEF Conn, Looping, Choosing, Wrapping, Busy
  <2>4. CASE mainpc' = "client" /\ iter' = <<configured, 1>>
    <3>1. Looping' /\ Choosing'
          BY <1>0, <2>1, <2>2, <2>4 DEF Looping, Choosing
    <3>2. chosen \notin Wrappers => wrapped = {}
          BY <2>1 DEF Conn, Wrapping
    <3>3. ASSUME configured = began, chosen \in Wrappers
          PROVE  \E i \in 1 .. Len(lists[began]) :
                    /\ Matches(began, i) /\ lists[began][i].proto = chosen
                    /\ wrapped \subseteq {"server"} /\ "server" \in wrapped
          BY <2>1, <3>3 DEF Conn, Wrapping
    <3>4. Wrapping'
          BY <2>1, <2>4, <3>2, <3>3 DEF Wrapping, Matches
    <3> QED BY <3>1, <3>4 DEF Conn
  <2> QED BY <1>6, <2>3, <2>4 DEF Connect, Loop
<1>7. CASE ConfigureClient
  <2>1. /\ mainpc = "client" /\ mainpc \in Busy
        /\ UNCHANGED <<lists, configured, port, chosen, began>>
        BY <1>7 DEF ConfigureClient, confVars, Busy
  <2>2. iter[1] \in 1 .. configured /\ began \in 1 .. iter[1] /\ iter[2] \in Nat \ {0}
        BY <2>1 DEF Conn, Looping
  <2>3. CASE mainpc' = "failed"
        BY <2>3 DEF Conn, Looping, Choosing, Wrapping, Busy
  <2>4. CASE ~InLoop /\ mainpc' = "served" /\ UNCHANGED <<wrapped, refused, iter>>
    <3>1. Looping' /\ Choosing'
          BY <2>1, <2>2, <2>4 DEF Looping, Choosing
    <3>2. chosen \notin Wrappers => wrapped = {}
          BY <2>1 DEF Conn, Wrapping
    <3>3. ASSUME configured = began, chosen \in Wrappers
          PROVE  \E i \in 1 .. Len(lists[began]) :
                    /\ Matches(began, i) /\ lists[began][i].proto = chosen
                    /\ wrapped \subseteq {"server", "client"} /\ "server" \in wrapped
                    /\ ~refused => "client" \in wrapped
      <4>1. iter[1] = began
            BY <2>2, <3>3
      <4>2. PICK i \in 1 .. Len(lists[began]) :
                    /\ Matches(began, i) /\ lists[began][i].proto = chosen
                    /\ wrapped \subseteq {"server", "client"} /\ "server" \in wrapped
                    /\ i < iter[2] /\ ~refused => "client" \in wrapped
            BY <2>1, <3>3 DEF Conn, Wrapping
      <4>3. i < iter[2]
        <5>1. began \in Lists
              BY <1>0, <2>2, LoadsAssumption DEF Inv, Lists
        <5>2. Len(lists[began]) \in Nat
              BY <5>1 DEF Conf
        <5> QED BY <2>2, <2>4, <4>1, <5>2 DEF InLoop, list
      <4> QED BY <4>2, <4>3
    <3>4. Wrapping'
          BY <2>1, <2>4, <3>2, <3>3 DEF Wrapping, Matches
    <3> QED BY <3>1, <3>4 DEF Conn
  <2>5. CASE /\ InLoop /\ mainpc' = mainpc /\ (Called => Able /\ "server" \in wrapped)
             /\ \/ Called /\ wrapped' = wrapped \cup {"client"} /\ UNCHANGED refused
                \/ Called /\ refused' = TRUE /\ UNCHANGED wrapped
                \/ ~Called /\ UNCHANGED <<wrapped, refused>>
             /\ iter' = <<iter[1], iter[2] + 1>>
    <3>1. iter'[1] = iter[1] /\ iter'[2] = iter[2] + 1
          BY <2>5
    <3>2. Looping' /\ Choosing'
          BY <2>1, <2>2, <2>5, <3>1 DEF Looping, Choosing
    <3>3. chosen \notin Wrappers => wrapped' = {}
          BY <2>1, <2>5 DEF Conn, Wrapping, Able
    <3>4. ASSUME configured = began, chosen \in Wrappers
          PROVE  \E i \in 1 .. Len(lists[began]) :
                    /\ Matches(began, i) /\ lists[began][i].proto = chosen
                    /\ wrapped' \subseteq {"server", "client"} /\ "server" \in wrapped'
                    /\ i < iter[2] + 1 /\ ~refused' => "client" \in wrapped'
      <4>1. iter[1] = began
            BY <2>2, <3>4
      <4>2. PICK i \in 1 .. Len(lists[began]) :
                    /\ Matches(began, i) /\ lists[began][i].proto = chosen
                    /\ wrapped \subseteq {"server", "client"} /\ "server" \in wrapped
                    /\ i < iter[2] /\ ~refused => "client" \in wrapped
            BY <2>1, <3>4 DEF Conn, Wrapping
      <4>3. /\ wrapped' \subseteq {"server", "client"} /\ wrapped \subseteq wrapped'
            /\ refused' = refused \/ refused' = TRUE
            BY <2>5, <4>2
      <4>4. CASE i = iter[2]
        <5>1. Called
              BY <3>4, <4>1, <4>2, <4>4 DEF Called, Matches, line, list
        <5>2. ~refused' => "client" \in wrapped'
              BY <2>5, <5>1
        <5> QED BY <4>2, <4>3, <5>2
      <4>5. CASE i # iter[2]
        <5>1. i < iter[2] + 1 => i < iter[2]
              BY <2>2, <4>5
        <5> QED BY <4>2, <4>3, <5>1
      <4> QED BY <4>4, <4>5
    <3>5. Wrapping'
          BY <2>1, <2>5, <3>1, <3>3, <3>4 DEF Wrapping, Matches
    <3> QED BY <3>2, <3>5 DEF Conn
  <2> QED BY <1>7, <2>3, <2>4, <2>5 DEF ConfigureClient, NextLine
<1>8. CASE Rpc \/ UNCHANGED vars
  <2>1. UNCHANGED mainVars
        BY <1>8 DEF Rpc, SaveConfigRaw, LoadConfig, Reset, AppendNext, vars
  <2> QED BY <2>1, ConnFrame
<1> QED BY <1>1, <1>2, <1>3, <1>4, <1>5, <1>6, <1>7, <1>8 DEF Next, Main

\* All of it holds in every reachable state.
LEMMA ConnInvariance == Spec => [](Inv /\ Conf /\ Conn)
<1>1. Init => Conf /\ Conn
  <2> SUFFICES ASSUME Init PROVE Conf /\ Conn
      OBVIOUS
  <2>1. file \in Files /\ Good(protocols)
        BY ParseGood DEF Init
  <2>2. lists = [l \in Lists |-> <<>>] /\ meant = [l \in Lists |-> <<>>]
        /\ configured = 0 /\ mainpc = "options"
        BY DEF Init
  <2>3. Good(<<>>) /\ Prefix(<<>>, <<>>)
        BY DEF Good, Prefix
  <2>4. Conf
        BY <2>1, <2>2, <2>3 DEF Conf
  <2>5. Conn
        BY <2>2 DEF Conn, Looping, Choosing, Wrapping, Busy
  <2> QED BY <2>4, <2>5
<1>2. Inv /\ Conf /\ Conn /\ [Next]_vars => (Conf /\ Conn)'
      BY ConfStep, ConnStep
<1> QED BY <1>1, <1>2, Invariance, PTL DEF Spec

\* The class a connection gets is the one the list says that was in force when it was
\* accepted, for any files, however reloads fall; while that list is being filled it
\* may be taken for plain TCP.
THEOREM ChoiceFits == Spec => []ChosenFits
<1>1. Inv /\ Conf /\ Conn => ChosenFits
  <2> SUFFICES ASSUME Inv, Conf, Conn, mainpc = "chosen",
                      ~(chosen = Plain /\ iter[2] <= Len(meant[iter[1]]))
               PROVE  \/ Claims(meant[iter[1]], port) = {chosen}
                      \/ chosen = Plain /\ Claims(meant[iter[1]], port) = {}
      BY DEF ChosenFits
  <2> DEFINE l == iter[1]
             m == meant[l]
  <2>1. l \in Lists /\ l # 0 /\ iter[2] \in Nat
    <3>1. iter[1] \in 1 .. configured /\ iter[2] \in Nat
          BY DEF Conn, Looping, Busy
    <3> QED BY <3>1, LoadsAssumption DEF Inv, Lists
  <2>2. Good(m) /\ Prefix(lists[l], m) /\ lists[l] \in Seq(Line) /\ m \in Seq(Line)
        BY <2>1 DEF Conf, Good
  <2> DEFINE s == lists[l]
  <2>3. /\ iter[2] <= Len(s) + 1
        /\ \/ chosen = Plain /\ \A i \in 1 .. Len(s) : i < iter[2] => s[i].port # port
           \/ \E i \in 1 .. Len(s) : s[i].port = port /\ s[i].proto = chosen
        BY DEF Conn, Choosing, list, Matches
  <2> HIDE DEF s, m
  <2>4. /\ Len(s) \in Nat /\ Len(m) \in Nat /\ Len(s) <= Len(m)
        /\ \A i \in 1 .. Len(s) : s[i] = m[i]
        BY <2>2 DEF Prefix, s
  <2>5. CASE chosen = Plain /\ \A i \in 1 .. Len(s) : i < iter[2] => s[i].port # port
    <3>1. iter[2] > Len(m)
          BY <2>1, <2>4, <2>5 DEF m
    <3>2. \A i \in 1 .. Len(m) : i \in 1 .. Len(s) /\ i < iter[2]
          BY <2>1, <2>3, <2>4, <3>1
    <3>3. \A i \in 1 .. Len(m) : m[i].port # port
          BY <2>4, <2>5, <3>2
    <3>4. Claims(m, port) = {}
          BY <3>3 DEF Claims
    <3> QED BY <2>5, <3>4 DEF m
  <2>6. CASE \E i \in 1 .. Len(s) : s[i].port = port /\ s[i].proto = chosen
    <3>1. PICK i \in 1 .. Len(m) : m[i].port = port /\ m[i].proto = chosen
          BY <2>4, <2>6
    <3>2. \A j \in 1 .. Len(m) : m[j].port = port => j = i
          BY <2>2, <3>1 DEF Good
    <3>3. Claims(m, port) = {chosen}
          BY <3>1, <3>2 DEF Claims
    <3> QED BY <3>3 DEF m
  <2> QED BY <2>3, <2>5, <2>6
<1> QED BY <1>1, ConnInvariance, PTL

\* A connection served with no reload since it was accepted has both sockets wrapped,
\* or neither, as its class wants it, even if the list grew while it was set up.
THEOREM WrappingFits == Spec => []WrapsFit
<1>1. Inv /\ Conf /\ Conn => WrapsFit
  <2> SUFFICES ASSUME Conn, mainpc = "served", configured = began, ~refused
               PROVE  wrapped = IF chosen \in Wrappers THEN {"server", "client"} ELSE {}
      BY DEF WrapsFit
  <2>1. chosen \notin Wrappers => wrapped = {}
        BY DEF Conn, Wrapping, Busy
  <2>2. chosen \in Wrappers => wrapped = {"server", "client"}
        BY DEF Conn, Wrapping
  <2> QED BY <2>1, <2>2
<1> QED BY <1>1, ConnInvariance, PTL

=============================================================================
