-------------------------- MODULE RuleChain_proofs --------------------------
(***************************************************************************)
(* Theorems about RuleChain, for any instances and threads, arrays of      *)
(* rules of any length, and any number of updates and chunks.              *)
(***************************************************************************)
EXTENDS RuleChain, FiniteSetTheorems, WellFoundedInduction, TLAPS

(***************************************************************************)
(* What the loop of processrules computes.  The library's induction        *)
(* theorems take an operator; here its place is taken by the least element *)
(* of the set of counterexamples.                                          *)
(***************************************************************************)

\* Every set of naturals has a least element.
LEMMA Least ==
    ASSUME NEW T \in SUBSET Nat, T # {}
    PROVE  \E n \in T : \A m \in T : n <= m
<1>1. IsWellFoundedOn(OpToRel(<, Nat), Nat)
      BY NatLessThanWellFounded, Zenon
<1>2. PICK n \in T : \A m \in T : <<m, n>> \notin OpToRel(<, Nat)
      BY <1>1, WFMin, Zenon
<1>3. \A m \in T : ~(m < n)
      BY <1>2, Zenon DEF OpToRel
<1> QED BY <1>3

\* A sequence over a set is one over any larger set.
LEMMA SeqWider ==
    ASSUME NEW S, NEW T, S \subseteq T, NEW s \in Seq(S)
    PROVE  s \in Seq(T)
OBVIOUS

\* The loop from index i of n on, where M are the indices of the rules that match and
\* P those of the rules that are passthru; f is what it returns from any later one.
Loop(f, i, n, M, P) ==
    IF i > n THEN <<>>
    ELSE IF i \notin M THEN f[i + 1]
    ELSE IF i \in P THEN <<i>> \o f[i + 1] ELSE <<i>>

\* There is a function that is what it returns, from every index on.
LoopEnds(n, M, P) == \E f : f = [i \in 1 .. n + 1 |-> Loop(f, i, n, M, P)]

\* The loop ends, whatever the rules are.
LEMMA LoopAlwaysEnds ==
    ASSUME NEW n \in Nat, NEW M, NEW P
    PROVE  LoopEnds(n, M, P)
<1> DEFINE Has(k) == \E f : f = [i \in (n + 1 - k) .. n + 1 |-> Loop(f, i, n, M, P)]
           Bad == {k \in 0 .. n : ~Has(k)}
<1>1. Has(0)
  <2> DEFINE f == [i \in (n + 1 - 0) .. n + 1 |-> <<>>]
  <2>1. f = [i \in (n + 1 - 0) .. n + 1 |-> Loop(f, i, n, M, P)]
        BY DEF Loop
  <2> QED BY <2>1
<1>2. ASSUME NEW k \in 0 .. n - 1, Has(k)
      PROVE  Has(k + 1)
  <2>1. PICK f : f = [i \in (n + 1 - k) .. n + 1 |-> Loop(f, i, n, M, P)]
        BY <1>2
  <2> DEFINE g == [i \in (n + 1 - (k + 1)) .. n + 1 |->
                     IF i = n - k THEN Loop(f, i, n, M, P) ELSE f[i]]
  <2>2. ASSUME NEW i \in (n + 1 - (k + 1)) .. n + 1
        PROVE  g[i] = Loop(g, i, n, M, P)
    <3>1. i <= n => i + 1 \in (n + 1 - k) .. n + 1 /\ g[i + 1] = f[i + 1]
          OBVIOUS
    <3>2. Loop(g, i, n, M, P) = Loop(f, i, n, M, P)
          BY <3>1 DEF Loop
    <3>3. CASE i = n - k
          BY <3>2, <3>3
    <3>4. CASE i # n - k
      <4>1. i \in (n + 1 - k) .. n + 1
            BY <3>4
      <4> QED BY <2>1, <3>2, <3>4, <4>1
    <3> QED BY <3>3, <3>4
  <2>3. g = [i \in (n + 1 - (k + 1)) .. n + 1 |-> Loop(g, i, n, M, P)]
        BY <2>2
  <2> HIDE DEF g
  <2> QED BY <2>3
<1> HIDE DEF Has
<1>3. Bad = {}
  <2>1. SUFFICES ASSUME Bad # {} PROVE FALSE
        OBVIOUS
  <2>2. PICK m \in Bad : \A k \in Bad : m <= k
        BY <2>1, Least, Bad \in SUBSET Nat
  <2>3. m \in 0 .. n /\ ~Has(m)
        BY <2>2
  <2>4. m # 0
        BY <1>1, <2>3
  <2>5. Has(m - 1)
        BY <2>2, <2>3, <2>4
  <2>6. Has((m - 1) + 1)
        BY <1>2, <2>3, <2>4, <2>5
  <2> QED BY <2>3, <2>6
<1>4. Has(n)
      BY <1>3
<1> QED BY <1>4, n + 1 - n = 1 DEF Has, LoopEnds

\* s are the indices, from i on, of the rules that are to act: those that match and
\* come after passthru rules only, each once and in order.
Chain(s, i, n, M, P) ==
    /\ s \in Seq(i .. n)
    /\ \A k \in 1 .. Len(s) - 1 : s[k] < s[k + 1]
    /\ {s[k] : k \in 1 .. Len(s)} =
         {j \in i .. n : j \in M /\ \A h \in i .. j - 1 : h \in M => h \in P}

\* One round of the loop: a rule that matches and is passthru,
LEMMA ChainCons ==
    ASSUME NEW n \in Nat, NEW M, NEW P, NEW i \in 1 .. n, i \in M, i \in P,
           NEW s, Chain(s, i + 1, n, M, P)
    PROVE  Chain(<<i>> \o s, i, n, M, P)
<1> DEFINE t == <<i>> \o s
<1>1. s \in Seq(i + 1 .. n) /\ Len(s) \in Nat
      BY DEF Chain
<1>10. s \in Seq(i .. n) /\ <<i>> \in Seq(i .. n)
  <2>1. i + 1 .. n \subseteq i .. n
        OBVIOUS
  <2> QED BY <1>1, <2>1
<1>2. t \in Seq(i .. n) /\ Len(t) = Len(s) + 1
      BY <1>10
<1>3. t[1] = i
      BY <1>1
<1>4. \A k \in 1 .. Len(s) : t[k + 1] = s[k] /\ s[k] \in i + 1 .. n
      BY <1>1
<1> HIDE DEF t
<1>5. ASSUME NEW k \in 1 .. Len(t) - 1
      PROVE  t[k] < t[k + 1]
  <2>1. CASE k = 1
        BY <2>1, <1>1, <1>2, <1>3, <1>4
  <2>2. CASE k > 1
    <3>1. k - 1 \in 1 .. Len(s) - 1 /\ k \in 1 .. Len(s)
          BY <2>2, <1>1, <1>2
    <3>2. t[(k - 1) + 1] = s[k - 1] /\ t[k + 1] = s[k]
          BY <3>1, <1>1, <1>4
    <3>3. s[k - 1] < s[(k - 1) + 1]
          BY <3>1 DEF Chain
    <3> QED BY <3>1, <3>2, <3>3
  <2> QED BY <2>1, <2>2, <1>1, <1>2
<1>6. ASSUME NEW j \in i .. n
      PROVE  (\E k \in 1 .. Len(t) : t[k] = j)
             <=> j \in M /\ \A h \in i .. j - 1 : h \in M => h \in P
  <2>1. CASE j = i
        BY <2>1, <1>1, <1>2, <1>3
  <2>2. CASE j > i
    <3>1. (\E k \in 1 .. Len(t) : t[k] = j) <=> \E k \in 1 .. Len(s) : s[k] = j
      <4>1. ASSUME NEW k \in 1 .. Len(t), t[k] = j
            PROVE  \E l \in 1 .. Len(s) : s[l] = j
        <5>1. k # 1
              BY <4>1, <2>2, <1>3
        <5>2. k - 1 \in 1 .. Len(s)
              BY <5>1, <1>1, <1>2
        <5>3. s[k - 1] = t[(k - 1) + 1]
              BY <5>2, <1>4
        <5> QED BY <4>1, <5>2, <5>3
      <4>2. ASSUME NEW k \in 1 .. Len(s), s[k] = j
            PROVE  \E l \in 1 .. Len(t) : t[l] = j
        <5>1. k + 1 \in 1 .. Len(t)
              BY <1>1, <1>2
        <5> QED BY <4>2, <5>1, <1>4
      <4> QED BY <4>1, <4>2
    <3>2. (\E k \in 1 .. Len(s) : s[k] = j)
          <=> j \in M /\ \A h \in i + 1 .. j - 1 : h \in M => h \in P
      <4>1. j \in i + 1 .. n
            BY <2>2
      <4> QED BY <4>1 DEF Chain
    <3>3. (\A h \in i .. j - 1 : h \in M => h \in P)
          <=> \A h \in i + 1 .. j - 1 : h \in M => h \in P
          BY <2>2
    <3> QED BY <3>1, <3>2, <3>3
  <2> QED BY <2>1, <2>2
<1>7. {t[k] : k \in 1 .. Len(t)} =
        {j \in i .. n : j \in M /\ \A h \in i .. j - 1 : h \in M => h \in P}
  <2>1. \A k \in 1 .. Len(t) : t[k] \in i .. n
        BY <1>2
  <2> QED BY <2>1, <1>6
<1>8. Chain(t, i, n, M, P)
      BY <1>2, <1>5, <1>7 DEF Chain
<1> QED BY <1>8 DEF t

\* one that does not match,
LEMMA ChainSkip ==
    ASSUME NEW n \in Nat, NEW M, NEW P, NEW i \in 1 .. n, i \notin M,
           NEW s, Chain(s, i + 1, n, M, P)
    PROVE  Chain(s, i, n, M, P)
<1>1. s \in Seq(i + 1 .. n)
      BY DEF Chain
<1>2. s \in Seq(i .. n)
  <2>1. i + 1 .. n \subseteq i .. n
        OBVIOUS
  <2> QED BY <1>1, <2>1, SeqWider
<1>3. {j \in i .. n : j \in M /\ \A h \in i .. j - 1 : h \in M => h \in P} =
        {j \in i + 1 .. n : j \in M /\ \A h \in i + 1 .. j - 1 : h \in M => h \in P}
      OBVIOUS
<1> QED BY <1>2, <1>3 DEF Chain

\* and one that matches and is not passthru.
LEMMA ChainLast ==
    ASSUME NEW n \in Nat, NEW M, NEW P, NEW i \in 1 .. n, i \in M, i \notin P
    PROVE  Chain(<<i>>, i, n, M, P)
<1>1. {j \in i .. n : j \in M /\ \A h \in i .. j - 1 : h \in M => h \in P} = {i}
      OBVIOUS
<1>2. <<i>> \in Seq(i .. n) /\ Len(<<i>>) = 1 /\ <<i>>[1] = i
      OBVIOUS
<1>3. {<<i>>[l] : l \in 1 .. Len(<<i>>)} = {i}
      BY <1>2
<1> QED BY <1>1, <1>2, <1>3 DEF Chain

\* What the loop returns is the chain of the rules that are to act.
LEMMA ChainOf ==
    ASSUME NEW n \in Nat, NEW M, NEW P,
           NEW f, f = [i \in 1 .. n + 1 |-> Loop(f, i, n, M, P)]
    PROVE  Chain(f[1], 1, n, M, P)
<1> DEFINE Has(k) == Chain(f[n + 1 - k], n + 1 - k, n, M, P)
           Bad == {k \in 0 .. n : ~Has(k)}
<1>1. Has(0)
  <2>1. f[n + 1] = <<>>
        BY DEF Loop
  <2>2. n + 1 - 0 = n + 1 /\ n + 1 .. n = {}
        OBVIOUS
  <2>3. {<<>>[k] : k \in 1 .. Len(<<>>)} = {}
        OBVIOUS
  <2>4. <<>> \in Seq(n + 1 .. n) /\ Len(<<>>) = 0
        OBVIOUS
  <2>5. Chain(<<>>, n + 1, n, M, P)
        BY <2>2, <2>3, <2>4 DEF Chain
  <2> QED BY <2>1, <2>2, <2>5
<1>2. ASSUME NEW k \in 0 .. n - 1, Has(k)
      PROVE  Has(k + 1)
  <2> DEFINE i == n - k
  <2>1. i \in 1 .. n /\ n + 1 - k = i + 1 /\ n + 1 - (k + 1) = i
        OBVIOUS
  <2>2. Chain(f[i + 1], i + 1, n, M, P)
        BY <1>2, <2>1
  <2>3. f[i] = IF i \notin M THEN f[i + 1]
               ELSE IF i \in P THEN <<i>> \o f[i + 1] ELSE <<i>>
    <3>1. i \in 1 .. n + 1 /\ ~(i > n)
          BY <2>1
    <3>2. f[i] = Loop(f, i, n, M, P)
          BY <3>1, Zenon
    <3> QED BY <3>1, <3>2 DEF Loop
  <2> HIDE DEF i
  <2>4. ASSUME i \notin M
        PROVE  Chain(f[i], i, n, M, P)
        BY <2>1, <2>2, <2>3, <2>4, ChainSkip
  <2>5. ASSUME i \in M /\ i \in P
      PROVE  Chain(f[i], i, n, M, P)
        BY <2>1, <2>2, <2>3, <2>5, ChainCons
  <2>6. ASSUME i \in M /\ i \notin P
        PROVE  Chain(f[i], i, n, M, P)
        BY <2>1, <2>3, <2>6, ChainLast
  <2>7. Chain(f[i], i, n, M, P)
        BY <2>4, <2>5, <2>6
  <2> QED BY <2>1, <2>7
<1> HIDE DEF Has
<1>3. Bad = {}
  <2>1. SUFFICES ASSUME Bad # {} PROVE FALSE
        OBVIOUS
  <2>2. PICK m \in Bad : \A k \in Bad : m <= k
        BY <2>1, Least, Bad \in SUBSET Nat
  <2>3. m \in 0 .. n /\ ~Has(m)
        BY <2>2
  <2>4. m # 0
        BY <1>1, <2>3
  <2>5. Has(m - 1)
        BY <2>2, <2>3, <2>4
  <2>6. Has((m - 1) + 1)
        BY <1>2, <2>3, <2>4, <2>5
  <2> QED BY <2>3, <2>6
<1>4. Has(n)
      BY <1>3
<1> QED BY <1>4, n + 1 - n = 1 DEF Has

\* The indices of the rules of an array that match, and of those that are passthru.
Matching(g, t) == {i \in 1 .. Len(ruleset[g]) : match(ruleset[g][i], t)}
Passing(g)     == {i \in 1 .. Len(ruleset[g]) : passthru(g, ruleset[g][i])}

\* MatchingRules is such a loop.
LEMMA MatchingLoop ==
    ASSUME NEW g, NEW t, ruleset[g] \in Seq(Rules)
    PROVE  \E f : /\ f = [i \in 1 .. Len(ruleset[g]) + 1 |->
                            Loop(f, i, Len(ruleset[g]), Matching(g, t), Passing(g))]
                  /\ MatchingRules(g, t) = f[1]
<1> DEFINE n == Len(ruleset[g])
           Is(f) == f = [i \in 1 .. n + 1 |->
                           IF i > n THEN <<>>
                           ELSE IF ~match(ruleset[g][i], t) THEN f[i + 1]
                           ELSE IF passthru(g, ruleset[g][i]) THEN <<i>> \o f[i + 1] ELSE <<i>>]
           Was(f) == f = [i \in 1 .. n + 1 |-> Loop(f, i, n, Matching(g, t), Passing(g))]
<1>1. n \in Nat
      OBVIOUS
<1>2. ASSUME NEW f
      PROVE  Is(f) <=> Was(f)
  <2>1. ASSUME NEW i \in 1 .. n + 1
        PROVE  Loop(f, i, n, Matching(g, t), Passing(g)) =
                 IF i > n THEN <<>>
                 ELSE IF ~match(ruleset[g][i], t) THEN f[i + 1]
                 ELSE IF passthru(g, ruleset[g][i]) THEN <<i>> \o f[i + 1] ELSE <<i>>
    <3>1. CASE i > n
          BY <3>1 DEF Loop
    <3>2. CASE ~(i > n)
      <4>1. i \in 1 .. n
            BY <1>1, <3>2
      <4>2. (i \in Matching(g, t) <=> match(ruleset[g][i], t))
            /\ (i \in Passing(g) <=> passthru(g, ruleset[g][i]))
            BY <4>1, Zenon DEF Matching, Passing
      <4> QED BY <3>2, <4>2, Zenon DEF Loop
    <3> QED BY <3>1, <3>2
  <2> QED BY <2>1, Zenon
<1>3. \E f : Was(f)
  <2>1. LoopEnds(n, Matching(g, t), Passing(g))
        BY <1>1, LoopAlwaysEnds
  <2> QED BY <2>1, Zenon DEF LoopEnds
<1>4. MatchingFrom(g, t) = CHOOSE f : Is(f)
      BY Zenon DEF MatchingFrom
<1> HIDE DEF Is
<1>5. Is(MatchingFrom(g, t))
      BY <1>2, <1>3, <1>4, Zenon
<1>6. Was(MatchingFrom(g, t))
      BY <1>2, <1>5
<1> QED BY <1>6, Zenon DEF MatchingRules

\* MatchingRules returns the chain of an array for the chunk of a thread.
LEMMA MatchingIsChain ==
    ASSUME NEW g, NEW t, ruleset[g] \in Seq(Rules)
    PROVE  Chain(MatchingRules(g, t), 1, Len(ruleset[g]), Matching(g, t), Passing(g))
<1>1. Len(ruleset[g]) \in Nat
      OBVIOUS
<1>2. PICK f : /\ f = [i \in 1 .. Len(ruleset[g]) + 1 |->
                         Loop(f, i, Len(ruleset[g]), Matching(g, t), Passing(g))]
               /\ MatchingRules(g, t) = f[1]
      BY MatchingLoop
<1>3. Chain(f[1], 1, Len(ruleset[g]), Matching(g, t), Passing(g))
      BY <1>1, <1>2, ChainOf
<1> QED BY <1>2, <1>3

-----------------------------------------------------------------------------

\* The types of what the rules are and who has them.
ConfTypes ==
    /\ gen \in 0 .. MaxUpdates
    /\ \A g \in 0 .. gen : ruleset[g] \in RuleSets[g]
    /\ rules \in [Instances -> (0 .. gen) \cup {NoRules}]
    /\ calls \subseteq 1 .. gen
    /\ todo \subseteq calls \X Instances
    /\ attached \subseteq Instances
    /\ \A i \in attached : rules[i] \in 0 .. gen

\* The types of what the threads have.
Later == {"act", "set data", "muck", "send"}

ThreadTypes ==
    /\ pc \in [Threads -> {"recv", "check", "match", "ended", "dead"} \cup Later]
    /\ nth \in [Threads -> 0 .. MaxChunks]
    /\ payload \in [Threads -> SUBSET Patterns]
    /\ string \in [Threads -> Chunks \cup {NoData}]
    /\ list \in [Threads -> 0 .. gen]
    /\ matching \in [Threads -> Seq(Index)]
    /\ shoulddebug \in [Threads -> BOOLEAN]
    /\ wasFuzzed \in [Threads -> BOOLEAN]
    /\ mp \in [Muckers -> Pipes \cup {NoData}]
    /\ data \in [Pipes -> Chunks \cup {NoData}]
    /\ acted \in [Threads -> Seq(Index)]
    /\ fuzzed \in [Threads -> SUBSET Index]
    /\ rows \in [Threads -> Nat]
    /\ met \in [Threads -> BOOLEAN]

\* A thread that works on a chunk is one of an instance that has rules, and one
\* that is in Muck.execute is there for the next matching rule, and finds a pipe.
Placed ==
    \A t \in Threads :
        /\ pc[t] # "recv" => t[1] \in attached /\ nth[t] \in 1 .. MaxChunks
        /\ pc[t] \in {"recv", "check", "match", "send"} => matching[t] = <<>>
        /\ pc[t] \in {"set data", "muck"} =>
             /\ matching[t] # <<>>
             /\ array(t)[Head(matching[t])].action \in Mucks
             /\ mp[mucker(t)] \in Pipes

Types == ConfTypes /\ ThreadTypes /\ Placed

\* One call at a time: whoever has not got the newest array is going to be told, or
\* had made its copy and was not attached when the call began.
Told ==
    ~overlap =>
        /\ calls \subseteq {gen}
        /\ \A i \in Instances :
              rules[i] \in {NoRules, gen} \/ i \in gap \/ <<gen, i>> \in todo

\* The loop was not entered with an empty array; and only an instance that was
\* never told anything has the rules of the start.
LoopEntered ==
    \A t \in Threads :
        pc[t] = "match" => array(t) # <<>> /\ (rules[t[1]] = 0 => list[t] = 0)

\* The indices that were acted on and those yet to be are the chain of the array.
OnChain(t) ==
    /\ pc[t] \in {"check", "match"} => acted[t] = <<>>
    /\ pc[t] \in Later => Chain(acted[t] \o matching[t], 1, Len(array(t)),
                                Matching(list[t], t), Passing(list[t]))

\* The positions in s of the rules of an array that have this action.
Acts(rs, s, a) == {k \in 1 .. Len(s) : rs[s[k]].action = a}

\* What the thread remembers for the debugger.
Debugs(t) ==
    /\ pc[t] \in {"check", "match"} => shoulddebug[t] = FALSE
    /\ pc[t] \in Later /\ ~IsUdp(t) =>
         (shoulddebug[t] = TRUE <=> Acts(array(t), acted[t], "debug") # {})

\* What is recorded of fuzzing, as long as at most one fuzz rule acted.
Lone(t) == \A j, k \in Acts(array(t), acted[t], "fuzz") : j = k

Fuzzes(t) ==
    /\ pc[t] \in {"check", "match"} => wasFuzzed[t] = FALSE /\ fuzzed[t] = {} /\ rows[t] = 0
    /\ pc[t] \in Later /\ Lone(t) =>
         /\ rows[t] = IF wasFuzzed[t] = TRUE /\ (IsUdp(t) \/ pc[t] = "send") THEN 1 ELSE 0
         /\ Acts(array(t), acted[t], "fuzz") = {} => wasFuzzed[t] = FALSE /\ fuzzed[t] = {}
         /\ \A k \in Acts(array(t), acted[t], "fuzz") :
               fuzzed[t] = IF wasFuzzed[t] = TRUE THEN {acted[t][k]} ELSE {}

\* A pipe is where its maker put it, for a chunk that it has seen the rules of.
PipesPut ==
    \A a \in Muckers, t \in Threads, n \in 1 .. MaxChunks, k \in Index :
        mp[a] = <<<<t, n>>, k>> =>
            /\ n <= nth[t]
            /\ n = nth[t] => pc[t] \notin {"check", "match"} /\ a = <<list[t], k>>

\* A thread that was alone in every action has its own bytes, in its own pipe.
OwnPipe ==
    \A t \in Threads : met[t] = FALSE =>
        /\ pc[t] \in ({"check", "match"} \cup Later) \ {"muck"} => string[t] = <<t, nth[t]>>
        /\ InMuck(t) => mp[mucker(t)] = <<<<t, nth[t]>>, Head(matching[t])>>
        /\ pc[t] = "muck" => data[mp[mucker(t)]] = <<t, nth[t]>>

\* Two threads in one action have met.
Meeting ==
    \A t, u \in Threads :
        t # u /\ InMuck(t) /\ InMuck(u) /\ mucker(t) = mucker(u) => met[t] = TRUE

\* The inductive invariant.
Inv ==
    /\ Types
    /\ Told
    /\ LoopEntered
    /\ \A t \in Threads : OnChain(t) /\ Debugs(t) /\ Fuzzes(t)
    /\ PipesPut /\ OwnPipe /\ Meeting
    /\ DiesInTwoWays

\* The steps that are not a thread's.
Conf ==
    \/ gen < MaxUpdates /\ \E rs \in RuleSets[gen + 1] : UpdateRules(rs)
    \/ \E g \in Gens : NotifyEnds(g) \/ \E i \in Instances : Tell(g, i)
    \/ \E i \in Instances : SetRules(i) \/ Attach(i)

-----------------------------------------------------------------------------

\* Arrays are sequences of rules, as long as the bound says.
LEMMA Arrays ==
    ASSUME ConfTypes, NEW g \in 0 .. gen
    PROVE  g \in Gens /\ ruleset[g] \in Seq(Rules) /\ Len(ruleset[g]) <= MaxRules
BY BoundsAssumption, RuleSetsAssumption DEF ConfTypes, Gens

\* Every step of ConfigRules and of the accept loop keeps the types of the rules,
\* and an array is never changed.
LEMMA ConfStep ==
    ASSUME ConfTypes, Conf
    PROVE  /\ ConfTypes' /\ gen <= gen' /\ UNCHANGED threadVars
           /\ attached \subseteq attached'
           /\ \A g \in 0 .. gen : ruleset'[g] = ruleset[g]
<1>1. ASSUME NEW rs \in RuleSets[gen + 1], UpdateRules(rs)
      PROVE  /\ ConfTypes' /\ gen <= gen' /\ UNCHANGED threadVars
             /\ attached \subseteq attached'
             /\ \A g \in 0 .. gen : ruleset'[g] = ruleset[g]
  <2>1. gen \in Nat /\ gen' = gen + 1 /\ gen' \in 0 .. MaxUpdates
        BY <1>1, BoundsAssumption DEF UpdateRules, ConfTypes
  <2>2. \A g \in 0 .. gen + 1 : ruleset'[g] = IF g = gen + 1 THEN rs ELSE ruleset[g]
        BY <1>1, <2>1 DEF UpdateRules
  <2>3. \A g \in 0 .. gen : ruleset'[g] = ruleset[g]
        BY <2>1, <2>2
  <2>4. \A g \in 0 .. gen' : ruleset'[g] \in RuleSets[g]
        BY <1>1, <2>1, <2>2 DEF ConfTypes
  <2>5. rules' \in [Instances -> (0 .. gen') \cup {NoRules}]
        BY <1>1, <2>1 DEF UpdateRules, ConfTypes
  <2>6. calls' \subseteq 1 .. gen' /\ attached' \subseteq Instances
        BY <1>1, <2>1 DEF UpdateRules, ConfTypes
  <2>7. todo' \subseteq calls' \X Instances
        BY <1>1 DEF UpdateRules, ConfTypes
  <2>8. \A i \in attached' : rules'[i] \in 0 .. gen'
        BY <1>1, <2>1 DEF UpdateRules, ConfTypes
  <2>9. ConfTypes'
        BY <2>1, <2>4, <2>5, <2>6, <2>7, <2>8 DEF ConfTypes
  <2> QED BY <1>1, <2>1, <2>3, <2>9 DEF UpdateRules
<1>2. ASSUME NEW g \in Gens, NotifyEnds(g)
      PROVE  ConfTypes' /\ UNCHANGED <<gen, ruleset, threadVars, attached>>
  <2>1. todo' \subseteq calls' \X Instances
        BY <1>2 DEF NotifyEnds, ConfTypes
  <2> QED BY <1>2, <2>1 DEF NotifyEnds, ConfTypes
<1>3. ASSUME NEW g \in Gens, NEW i \in Instances, Tell(g, i)
      PROVE  ConfTypes' /\ UNCHANGED <<gen, ruleset, threadVars, attached>>
  <2>1. g \in 1 .. gen
    <3>1. <<g, i>> \in calls \X Instances
          BY <1>3 DEF Tell, ConfTypes
    <3> QED BY <3>1 DEF ConfTypes
  <2> QED BY <1>3, <2>1 DEF Tell, ConfTypes
<1>4. ASSUME NEW i \in Instances, SetRules(i)
      PROVE  ConfTypes' /\ UNCHANGED <<gen, ruleset, threadVars, attached>>
      BY <1>4 DEF SetRules, ConfTypes
<1>5. ASSUME NEW i \in Instances, Attach(i)
      PROVE  /\ ConfTypes' /\ UNCHANGED <<gen, ruleset, threadVars>>
             /\ attached \subseteq attached'
  <2>1. todo' \subseteq calls' \X Instances
        BY <1>5 DEF Attach, ConfTypes
  <2>2. rules[i] \in 0 .. gen
        BY <1>5 DEF Attach, ConfTypes
  <2> QED BY <1>5, <2>1, <2>2 DEF Attach, ConfTypes
<1>6. gen <= gen
      BY DEF ConfTypes
<1> QED BY <1>1, <1>2, <1>3, <1>4, <1>5, <1>6 DEF Conf

\* A thread's step changes no rules.
LEMMA ThreadKeepsConf ==
    ASSUME NEW t \in Threads, Thread(t)
    PROVE  UNCHANGED confVars
BY DEF Thread, Recv, CheckRules, MatchRules, ActNothing, ActDebug, ActFuzz, NewPipe,
       SetData, Muck, MuckRaises, Finish, Send, Acted

\* What every thread but one, or every thread, keeps.
Same(t) ==
    /\ pc'[t] = pc[t] /\ nth'[t] = nth[t] /\ payload'[t] = payload[t]
    /\ string'[t] = string[t] /\ list'[t] = list[t] /\ matching'[t] = matching[t]
    /\ shoulddebug'[t] = shoulddebug[t] /\ wasFuzzed'[t] = wasFuzzed[t]
    /\ acted'[t] = acted[t] /\ fuzzed'[t] = fuzzed[t] /\ rows'[t] = rows[t]
    /\ ruleset'[list[t]] = ruleset[list[t]]

\* The steps that are not a thread's leave every thread as it is.
LEMMA ConfSame ==
    ASSUME ConfTypes, ThreadTypes, Conf \/ UNCHANGED vars, NEW t \in Threads
    PROVE  Same(t) /\ UNCHANGED <<mp, data, met>>
<1>1. UNCHANGED threadVars /\ \A g \in 0 .. gen : ruleset'[g] = ruleset[g]
  <2>1. CASE Conf
        BY <2>1, ConfStep
  <2>2. CASE UNCHANGED vars
        BY <2>2 DEF vars, confVars, threadVars, fuzzVars, loopVars, muckVars
  <2> QED BY <2>1, <2>2
<1>2. list[t] \in 0 .. gen
      BY DEF ThreadTypes
<1> QED BY <1>1, <1>2 DEF Same, threadVars, fuzzVars, loopVars, muckVars

\* A thread leaves the others as they are.
LEMMA OthersSame ==
    ASSUME ThreadTypes, NEW u \in Threads, Thread(u), NEW t \in Threads, t # u
    PROVE  Same(t)
<1>1. CASE Recv(u)
      BY <1>1 DEF Recv, Goto, Same, ThreadTypes, confVars
<1>2. CASE CheckRules(u)
      BY <1>2 DEF CheckRules, Goto, Same, ThreadTypes, confVars, fuzzVars
<1>3. CASE MatchRules(u)
      BY <1>3 DEF MatchRules, Goto, Same, ThreadTypes, confVars, fuzzVars
<1>4. CASE ActNothing(u)
      BY <1>4 DEF ActNothing, Acted, Goto, Same, ThreadTypes, confVars, fuzzVars
<1>5. CASE ActDebug(u)
      BY <1>5 DEF ActDebug, Acted, Goto, Same, ThreadTypes, confVars, fuzzVars
<1>6. CASE ActFuzz(u)
      BY <1>6 DEF ActFuzz, Acted, Goto, Same, ThreadTypes, confVars
<1>7. CASE NewPipe(u)
      BY <1>7 DEF NewPipe, Goto, Same, ThreadTypes, confVars, fuzzVars, loopVars
<1>8. CASE SetData(u)
      BY <1>8 DEF SetData, Goto, Same, ThreadTypes, confVars, fuzzVars, loopVars
<1>9. CASE Muck(u)
      BY <1>9 DEF Muck, Acted, Goto, Same, ThreadTypes, confVars, fuzzVars
<1>10. CASE Finish(u)
      BY <1>10 DEF Finish, Goto, Same, ThreadTypes, confVars, loopVars
<1>11. CASE Send(u)
      BY <1>11 DEF Send, Goto, Same, ThreadTypes, confVars, fuzzVars, loopVars
<1>12. CASE MuckRaises(u)
      BY <1>12 DEF MuckRaises, Goto, Same, ThreadTypes, confVars, fuzzVars
<1> QED BY <1>1, <1>2, <1>3, <1>4, <1>5, <1>6, <1>7, <1>8, <1>9, <1>10, <1>11, <1>12
        DEF Thread

\* Acting on the next rule keeps the types of the lists.
LEMMA ActedTypes ==
    ASSUME ThreadTypes, NEW t \in Threads, matching[t] # <<>>, Acted(t)
    PROVE  /\ Head(matching[t]) \in Index
           /\ matching' \in [Threads -> Seq(Index)]
           /\ acted' \in [Threads -> Seq(Index)]
           /\ pc' = [pc EXCEPT ![t] = "act"]
           /\ UNCHANGED <<confVars, nth, payload, list>>
<1>1. matching[t] \in Seq(Index) /\ acted[t] \in Seq(Index)
      BY DEF ThreadTypes
<1>2. Head(matching[t]) \in Index /\ Tail(matching[t]) \in Seq(Index)
      BY <1>1
<1>3. Append(acted[t], Head(matching[t])) \in Seq(Index)
      BY <1>1, <1>2
<1>4. matching' \in [Threads -> Seq(Index)]
      BY <1>2 DEF Acted, ThreadTypes
<1>5. acted' \in [Threads -> Seq(Index)]
      BY <1>3 DEF Acted, ThreadTypes
<1> QED BY <1>2, <1>4, <1>5 DEF Acted, Goto

\* ... and leaves what it changes of a thread of its type.
LEMMA ActedKeeps ==
    ASSUME ThreadTypes, NEW t \in Threads, matching[t] # <<>>, Acted(t)
    PROVE  /\ pc' \in [Threads -> {"recv", "check", "match", "ended", "dead"} \cup Later]
           /\ matching' \in [Threads -> Seq(Index)]
           /\ acted' \in [Threads -> Seq(Index)]
           /\ UNCHANGED <<gen, nth, payload, list>>
<1>1. pc' = [pc EXCEPT ![t] = "act"]
      BY ActedTypes
<1>2. pc' \in [Threads -> {"recv", "check", "match", "ended", "dead"} \cup Later]
      BY <1>1 DEF ThreadTypes, Later
<1>3. UNCHANGED <<gen, nth, payload, list>>
      BY ActedTypes DEF confVars
<1> QED BY <1>2, <1>3, ActedTypes

\* A thread that is about to make a pipe, or has, is at a Muck object.
LEMMA MuckerIn ==
    ASSUME ConfTypes, ThreadTypes, NEW t \in Threads, matching[t] # <<>>
    PROVE  mucker(t) \in Muckers /\ Head(matching[t]) \in Index
<1>1. list[t] \in Gens
      BY Arrays DEF ThreadTypes
<1>2. matching[t] \in Seq(Index)
      BY DEF ThreadTypes
<1>3. Head(matching[t]) \in Index
      BY <1>2
<1> QED BY <1>1, <1>3 DEF mucker, Muckers

\* Every step of a thread keeps the types of what threads have.
LEMMA ThreadTypesStep ==
    ASSUME Types, NEW t \in Threads, Thread(t)
    PROVE  ThreadTypes'
<1> USE DEF Types
<1>0. UNCHANGED confVars
      BY ThreadKeepsConf
<1>1. CASE Recv(t)
  <2>1. nth[t] + 1 \in 1 .. MaxChunks /\ nth[t] + 1 \in 0 .. MaxChunks
        BY <1>1, BoundsAssumption DEF Recv, ThreadTypes
  <2>2. <<t, nth[t] + 1>> \in Chunks
        BY <2>1 DEF Chunks
  <2>3. <<>> \in Seq(Index) /\ 0 \in Nat /\ {} \in SUBSET Index
        OBVIOUS
  <2>4. nth' \in [Threads -> 0 .. MaxChunks] /\ string' \in [Threads -> Chunks \cup {NoData}]
        BY <1>1, <2>1, <2>2 DEF Recv, ThreadTypes
  <2>5. /\ payload' \in [Threads -> SUBSET Patterns]
        /\ pc' \in [Threads -> {"recv", "check", "match", "ended", "dead"} \cup Later]
        BY <1>1 DEF Recv, Goto, ThreadTypes
  <2>6. /\ shoulddebug' \in [Threads -> BOOLEAN] /\ wasFuzzed' \in [Threads -> BOOLEAN]
        /\ met' \in [Threads -> BOOLEAN]
        BY <1>1 DEF Recv, ThreadTypes
  <2>7. acted' \in [Threads -> Seq(Index)] /\ fuzzed' \in [Threads -> SUBSET Index]
        BY <1>1, <2>3 DEF Recv, ThreadTypes
  <2>8. rows' \in [Threads -> Nat]
        BY <1>1, <2>3 DEF Recv, ThreadTypes
  <2> QED BY <1>1, <2>4, <2>5, <2>6, <2>7, <2>8 DEF Recv, ThreadTypes, confVars
<1>2. CASE CheckRules(t)
  <2>1. t[1] \in attached /\ rules[t[1]] \in 0 .. gen
        BY <1>2 DEF CheckRules, Placed, ConfTypes
  <2>2. list' \in [Threads -> 0 .. gen]
        BY <1>2, <2>1 DEF CheckRules, ThreadTypes
  <2>3. pc' \in [Threads -> {"recv", "check", "match", "ended", "dead"} \cup Later]
        BY <1>2 DEF CheckRules, Goto, ThreadTypes, Later
  <2> QED BY <1>2, <2>2, <2>3 DEF CheckRules, ThreadTypes, confVars, fuzzVars, muckVars
<1>3. CASE MatchRules(t)
  <2>1. t[1] \in attached /\ rules[t[1]] \in 0 .. gen
        BY <1>3 DEF MatchRules, Placed, ConfTypes
  <2>2. list' \in [Threads -> 0 .. gen]
        BY <1>3, <2>1 DEF MatchRules, ThreadTypes
  <2>3. pc' \in [Threads -> {"recv", "check", "match", "ended", "dead"} \cup Later]
        BY <1>3 DEF MatchRules, Goto, ThreadTypes, Later
  <2>4. MatchingRules(rules[t[1]], t) \in Seq(Index)
    <3> DEFINE g == rules[t[1]]
    <3>1. ruleset[g] \in Seq(Rules) /\ Len(ruleset[g]) <= MaxRules
          BY <2>1, Arrays
    <3>2. MatchingRules(g, t) \in Seq(1 .. Len(ruleset[g]))
          BY <3>1, MatchingIsChain DEF Chain
    <3>3. 1 .. Len(ruleset[g]) \subseteq Index
          BY <3>1, BoundsAssumption DEF Index
    <3> QED BY <3>2, <3>3, SeqWider
  <2>5. matching' \in [Threads -> Seq(Index)]
        BY <1>3, <2>4 DEF MatchRules, ThreadTypes
  <2> QED BY <1>3, <2>2, <2>3, <2>5 DEF MatchRules, ThreadTypes, confVars, fuzzVars, muckVars
<1>4. CASE ActNothing(t)
  <2>1. matching[t] # <<>> /\ Acted(t)
        BY <1>4 DEF ActNothing, Acting
  <2>2. UNCHANGED <<string, shoulddebug, wasFuzzed, fuzzed, rows, mp, data, met>>
        BY <1>4 DEF ActNothing, fuzzVars, muckVars
  <2> QED BY <2>1, <2>2, ActedKeeps DEF ThreadTypes
<1>5. CASE ActDebug(t)
  <2>1. matching[t] # <<>> /\ Acted(t)
        BY <1>5 DEF ActDebug, Acting
  <2>2. shoulddebug' \in [Threads -> BOOLEAN]
        BY <1>5 DEF ActDebug, ThreadTypes
  <2>3. UNCHANGED <<string, wasFuzzed, fuzzed, rows, mp, data, met>>
        BY <1>5 DEF ActDebug, fuzzVars, muckVars
  <2> QED BY <2>1, <2>2, <2>3, ActedKeeps DEF ThreadTypes
<1>6. CASE ActFuzz(t)
  <2>1. matching[t] # <<>> /\ Acted(t)
        BY <1>6 DEF ActFuzz, Acting
  <2>2. Head(matching[t]) \in Index
        BY <2>1, ActedTypes
  <2>3. wasFuzzed' \in [Threads -> BOOLEAN] /\ fuzzed' \in [Threads -> SUBSET Index]
        BY <1>6, <2>2 DEF ActFuzz, ThreadTypes
  <2>4. rows' \in [Threads -> Nat]
        BY <1>6 DEF ActFuzz, ThreadTypes
  <2>5. UNCHANGED <<string, shoulddebug, mp, data, met>>
        BY <1>6 DEF ActFuzz, muckVars
  <2> QED BY <2>1, <2>3, <2>4, <2>5, ActedKeeps DEF ThreadTypes
<1>7. CASE NewPipe(t)
  <2>1. matching[t] # <<>>
        BY <1>7 DEF NewPipe, Acting
  <2>2. Head(matching[t]) \in Index
        BY <2>1, MuckerIn
  <2>3. nth[t] \in 1 .. MaxChunks
        BY <1>7 DEF NewPipe, Acting, Placed
  <2>4. <<<<t, nth[t]>>, Head(matching[t])>> \in Pipes
        BY <2>2, <2>3 DEF Pipes, Chunks
  <2>5. mp' \in [Muckers -> Pipes \cup {NoData}]
        BY <1>7, <2>4 DEF NewPipe, ThreadTypes
  <2>6. met' \in [Threads -> BOOLEAN]
    <3> DEFINE others == {u \in Threads : InMuck(u) /\ mucker(u) = mucker(t)}
    <3>1. met' = [u \in Threads |-> met[u] \/ u \in others \/ (u = t /\ others # {})]
          BY <1>7 DEF NewPipe
    <3> HIDE DEF others
    <3> QED BY <3>1
  <2>7. pc' \in [Threads -> {"recv", "check", "match", "ended", "dead"} \cup Later]
        BY <1>7 DEF NewPipe, Goto, ThreadTypes, Later
  <2> QED BY <1>7, <2>5, <2>6, <2>7 DEF NewPipe, ThreadTypes, confVars, fuzzVars, loopVars
<1>8. CASE SetData(t)
  <2>1. data' \in [Pipes -> Chunks \cup {NoData}]
        BY <1>8 DEF SetData, ThreadTypes
  <2>2. pc' \in [Threads -> {"recv", "check", "match", "ended", "dead"} \cup Later]
        BY <1>8 DEF SetData, Goto, ThreadTypes, Later
  <2> QED BY <1>8, <2>1, <2>2 DEF SetData, ThreadTypes, confVars, fuzzVars, loopVars
<1>9. CASE Muck(t)
  <2>1. matching[t] # <<>> /\ Acted(t) /\ mp[mucker(t)] \in Pipes
        BY <1>9 DEF Muck, Placed
  <2>2. data[mp[mucker(t)]] \in Chunks \cup {NoData}
        BY <2>1 DEF ThreadTypes
  <2>3. string' \in [Threads -> Chunks \cup {NoData}]
        BY <1>9, <2>2 DEF Muck, ThreadTypes
  <2> QED BY <1>9, <2>1, <2>3, ActedTypes DEF Muck, ThreadTypes, Later, confVars, fuzzVars,
             muckVars
<1>10. CASE Finish(t)
  <2>1. rows' \in [Threads -> Nat]
        BY <1>10 DEF Finish, ThreadTypes
  <2>2. pc' \in [Threads -> {"recv", "check", "match", "ended", "dead"} \cup Later]
        BY <1>10 DEF Finish, Goto, ThreadTypes, Later
  <2> QED BY <1>10, <2>1, <2>2 DEF Finish, ThreadTypes, confVars, loopVars, muckVars
<1>11. CASE Send(t)
  <2>1. pc' \in [Threads -> {"recv", "check", "match", "ended", "dead"} \cup Later]
        BY <1>11 DEF Send, Goto, ThreadTypes, Later
  <2> QED BY <1>11, <2>1 DEF Send, ThreadTypes, confVars, fuzzVars, loopVars, muckVars
<1>12. CASE MuckRaises(t)
  <2>1. pc' \in [Threads -> {"recv", "check", "match", "ended", "dead"} \cup Later]
        BY <1>12 DEF MuckRaises, Goto, ThreadTypes, Later
  <2>2. <<>> \in Seq(Index)
        OBVIOUS
  <2>3. matching' \in [Threads -> Seq(Index)]
        BY <1>12, <2>2 DEF MuckRaises, ThreadTypes
  <2> QED BY <1>12, <2>1, <2>3 DEF MuckRaises, ThreadTypes, confVars, fuzzVars, muckVars
<1> QED BY <1>1, <1>2, <1>3, <1>4, <1>5, <1>6, <1>7, <1>8, <1>9, <1>10, <1>11, <1>12
        DEF Thread

\* A thread that is left as it is stays placed, whatever happens to pipes.
LEMMA PlacedSame ==
    ASSUME Types, ConfTypes', ThreadTypes', attached \subseteq attached',
           NEW t \in Threads, Same(t),
           \A a \in Muckers : mp[a] \in Pipes => mp'[a] \in Pipes
    PROVE  /\ pc'[t] # "recv" => t[1] \in attached' /\ nth'[t] \in 1 .. MaxChunks
           /\ pc'[t] \in {"recv", "check", "match", "send"} => matching'[t] = <<>>
           /\ pc'[t] \in {"set data", "muck"} =>
                /\ matching'[t] # <<>>
                /\ array(t)'[Head(matching'[t])].action \in Mucks
                /\ mp'[mucker(t)'] \in Pipes
<1>1. ASSUME pc[t] \in {"set data", "muck"}
      PROVE  /\ matching[t] # <<>> /\ array(t)[Head(matching[t])].action \in Mucks
             /\ mp'[mucker(t)] \in Pipes
  <2>1. /\ matching[t] # <<>> /\ array(t)[Head(matching[t])].action \in Mucks
        /\ mp[mucker(t)] \in Pipes
        BY <1>1 DEF Types, Placed
  <2>2. mucker(t) \in Muckers
        BY <2>1, MuckerIn DEF Types
  <2> QED BY <2>1, <2>2
<1>2. mucker(t)' = mucker(t) /\ array(t)' = array(t)
      BY DEF Same, mucker, array
<1> QED BY <1>1, <1>2 DEF Types, Placed, Same

\* Every step keeps the types and the places of the threads.
LEMMA TypesStep ==
    ASSUME Types, [Next]_vars
    PROVE  Types'
<1>1. ASSUME Conf \/ UNCHANGED vars
      PROVE  Types'
  <2>1. ConfTypes' /\ gen <= gen' /\ UNCHANGED threadVars /\ attached \subseteq attached'
    <3>1. CASE Conf
          BY <3>1, ConfStep DEF Types
    <3>2. CASE UNCHANGED vars
      <4>1. gen <= gen
            BY DEF Types, ConfTypes
      <4>2. UNCHANGED <<gen, ruleset, rules, todo, calls, attached>> /\ UNCHANGED threadVars
            BY <3>2 DEF vars, confVars, threadVars
      <4> QED BY <4>1, <4>2 DEF Types, ConfTypes
    <3> QED BY <1>1, <3>1, <3>2
  <2>2. ThreadTypes'
    <3>1. list' \in [Threads -> 0 .. gen']
          BY <2>1 DEF Types, ConfTypes, ThreadTypes, threadVars, loopVars
    <3> QED BY <2>1, <3>1 DEF Types, ThreadTypes, threadVars, fuzzVars, loopVars, muckVars
  <2>3. Placed'
    <3>1. \A t \in Threads : Same(t) /\ mp' = mp
          BY <1>1, ConfSame DEF Types
    <3> QED BY <2>1, <2>2, <3>1, PlacedSame DEF Placed
  <2> QED BY <2>1, <2>2, <2>3 DEF Types
<1>2. ASSUME NEW u \in Threads, Thread(u)
      PROVE  Types'
  <2>1. UNCHANGED confVars
        BY <1>2, ThreadKeepsConf
  <2>2. ConfTypes'
        BY <2>1 DEF Types, ConfTypes, confVars
  <2>3. ThreadTypes'
        BY <1>2, ThreadTypesStep
  <2>4. \A a \in Muckers : mp[a] \in Pipes => mp'[a] \in Pipes
    <3>1. CASE NewPipe(u)
      <4>1. Head(matching[u]) \in Index
            BY <3>1, MuckerIn DEF NewPipe, Acting, Types
      <4>2. nth[u] \in 1 .. MaxChunks
            BY <3>1 DEF NewPipe, Acting, Types, Placed
      <4>3. <<<<u, nth[u]>>, Head(matching[u])>> \in Pipes
            BY <4>1, <4>2 DEF Pipes, Chunks
      <4> QED BY <3>1, <4>3 DEF NewPipe, Types, ThreadTypes
    <3>2. CASE ~NewPipe(u)
      <4>1. mp' = mp
            BY <1>2, <3>2 DEF Thread, Recv, CheckRules, MatchRules, ActNothing, ActDebug,
               ActFuzz,
                              SetData, Muck, MuckRaises, Finish, Send, muckVars
      <4> QED BY <4>1
    <3> QED BY <3>1, <3>2
  <2>5. ASSUME NEW t \in Threads
        PROVE  /\ pc'[t] # "recv" => t[1] \in attached' /\ nth'[t] \in 1 .. MaxChunks
               /\ pc'[t] \in {"recv", "check", "match", "send"} => matching'[t] = <<>>
               /\ pc'[t] \in {"set data", "muck"} =>
                    /\ matching'[t] # <<>>
                    /\ array(t)'[Head(matching'[t])].action \in Mucks
                    /\ mp'[mucker(t)'] \in Pipes
    <3>1. CASE t # u
      <4>1. Same(t)
            BY <1>2, <3>1, OthersSame DEF Types
      <4>2. attached \subseteq attached'
            BY <2>1 DEF confVars
      <4> QED BY <2>2, <2>3, <2>4, <4>1, <4>2, PlacedSame
    <3>2. CASE t = u
      <4> USE <3>2
      <4>1. attached' = attached /\ ruleset' = ruleset
            BY <2>1 DEF confVars
      <4>2. ASSUME pc[u] # "recv", pc'[u] \in {"act", "ended", "dead"},
                   UNCHANGED nth
            PROVE  t[1] \in attached' /\ nth'[t] \in 1 .. MaxChunks
            BY <4>1, <4>2 DEF Types, Placed
      <4>3. CASE Recv(u)
        <5>1. nth'[u] = nth[u] + 1 /\ nth[u] + 1 \in 1 .. MaxChunks
              BY <4>3, BoundsAssumption DEF Recv, Types, ThreadTypes
        <5>2. pc'[u] = "check" /\ matching'[u] = <<>> /\ u[1] \in attached
              BY <4>3 DEF Recv, Goto, Types, ThreadTypes, Placed
        <5> QED BY <4>1, <5>1, <5>2
      <4>4. CASE CheckRules(u)
        <5>1. /\ pc'[u] \in {"send", "match"} /\ matching'[u] = <<>> /\ nth' = nth
              /\ pc[u] = "check"
              BY <4>4 DEF CheckRules, Goto, Types, ThreadTypes, Placed
        <5> QED BY <4>1, <5>1 DEF Types, Placed
      <4>5. CASE MatchRules(u)
        <5>1. pc'[u] \in {"dead", "act"} /\ nth' = nth /\ pc[u] = "match"
              BY <4>5 DEF MatchRules, Goto, Types, ThreadTypes
        <5> QED BY <4>1, <5>1 DEF Types, Placed
      <4>6. CASE ActNothing(u) \/ ActDebug(u) \/ ActFuzz(u) \/ Muck(u)
        <5>1. Acted(u) /\ pc[u] \in {"act", "muck"}
              BY <4>6 DEF ActNothing, ActDebug, ActFuzz, Muck, Acting
        <5>2. pc'[u] = "act" /\ nth' = nth
              BY <5>1 DEF Acted, Goto, Types, ThreadTypes
        <5> QED BY <4>1, <5>1, <5>2 DEF Types, Placed
      <4>7. CASE NewPipe(u)
        <5>1. /\ pc[u] = "act" /\ pc'[u] = "set data" /\ matching[u] # <<>>
              /\ array(u)[Head(matching[u])].action \in Mucks
              /\ UNCHANGED <<nth, matching, list>>
              BY <4>7 DEF NewPipe, Acting, Goto, Types, ThreadTypes, loopVars
        <5>2. mucker(u) \in Muckers /\ Head(matching[u]) \in Index
              BY <5>1, MuckerIn DEF Types
        <5>3. nth[u] \in 1 .. MaxChunks /\ u[1] \in attached
              BY <5>1 DEF Types, Placed
        <5>4. mp'[mucker(u)] = <<<<u, nth[u]>>, Head(matching[u])>>
              BY <4>7, <5>2 DEF NewPipe, Types, ThreadTypes
        <5>5. mp'[mucker(u)] \in Pipes
              BY <5>2, <5>3, <5>4 DEF Pipes, Chunks
        <5>6. mucker(u)' = mucker(u) /\ array(u)' = array(u)
              BY <4>1, <5>1 DEF mucker, array
        <5> QED BY <4>1, <5>1, <5>3, <5>5, <5>6
      <4>8. CASE SetData(u)
        <5>1. /\ pc[u] = "set data" /\ pc'[u] = "muck"
              /\ UNCHANGED <<nth, matching, list, mp>>
              BY <4>8 DEF SetData, Goto, Types, ThreadTypes, loopVars
        <5>2. mucker(u)' = mucker(u) /\ array(u)' = array(u)
              BY <4>1, <5>1 DEF mucker, array
        <5> QED BY <4>1, <5>1, <5>2 DEF Types, Placed
      <4>9. CASE Finish(u)
        <5>1. /\ pc[u] = "act" /\ pc'[u] = "send" /\ matching[u] = <<>>
              /\ UNCHANGED <<nth, matching>>
              BY <4>9 DEF Finish, Goto, Types, ThreadTypes, loopVars
        <5> QED BY <4>1, <5>1 DEF Types, Placed
      <4>10. CASE Send(u)
        <5>1. /\ pc[u] = "send" /\ pc'[u] \in {"ended", "recv"} /\ UNCHANGED <<nth, matching>>
              BY <4>10 DEF Send, Goto, Types, ThreadTypes, loopVars
        <5> QED BY <4>1, <5>1 DEF Types, Placed
      <4>11. CASE MuckRaises(u)
        <5>1. /\ pc[u] = "muck" /\ nth' = nth
              /\ pc'[u] = IF IsUdp(u) THEN "recv" ELSE "dead"
              /\ matching'[u] = IF IsUdp(u) THEN <<>> ELSE matching[u]
              BY <4>11 DEF MuckRaises, Goto, Types, ThreadTypes
        <5>2. t[1] \in attached' /\ nth'[t] \in 1 .. MaxChunks
              BY <4>1, <5>1 DEF Types, Placed
        <5> QED BY <5>1, <5>2
      <4> QED BY <1>2, <4>3, <4>4, <4>5, <4>6, <4>7, <4>8, <4>9, <4>10, <4>11 DEF Thread
    <3> QED BY <3>1, <3>2
  <2>6. Placed'
        BY <2>5 DEF Placed
  <2> QED BY <2>2, <2>3, <2>6 DEF Types
<1>3. Conf \/ UNCHANGED vars \/ \E u \in Threads : Thread(u)
      BY DEF Next, Conf
<1> QED BY <1>1, <1>2, <1>3

\* Every step keeps the promise of update_rules.
LEMMA ToldStep ==
    ASSUME Types, Told, [Next]_vars
    PROVE  Told'
<1>1. ASSUME NEW rs \in RuleSets[gen + 1], UpdateRules(rs)
      PROVE  Told'
  <2>1. /\ calls' = calls \cup {gen + 1} /\ gen' = gen + 1 /\ rules' = rules
        /\ overlap' = (calls # {})
        /\ gap' = {i \in Instances \ attached : rules[i] # NoRules}
        /\ todo' = todo \cup {<<gen + 1, i>> : i \in attached}
        BY <1>1 DEF UpdateRules
  <2>2. ASSUME NEW i \in Instances
        PROVE  rules'[i] \in {NoRules, gen'} \/ i \in gap' \/ <<gen', i>> \in todo'
        BY <2>1
  <2> QED BY <2>1, <2>2 DEF Told
<1>2. ASSUME NEW g \in Gens, NotifyEnds(g)
      PROVE  Told'
      BY <1>2 DEF NotifyEnds, Told
<1>3. ASSUME NEW g \in Gens, NEW j \in Instances, Tell(g, j)
      PROVE  Told'
  <2>1. g \in calls
    <3>1. <<g, j>> \in calls \X Instances
          BY <1>3 DEF Tell, Types, ConfTypes
    <3> QED BY <3>1
  <2>2. /\ todo' = todo \ {<<g, j>>} /\ UNCHANGED <<gen, calls, gap, overlap>>
        /\ \A i \in Instances : rules'[i] = IF i = j THEN g ELSE rules[i]
        BY <1>3 DEF Tell, Types, ConfTypes
  <2> QED BY <2>1, <2>2 DEF Told
<1>4. ASSUME NEW j \in Instances, SetRules(j)
      PROVE  Told'
  <2>1. /\ UNCHANGED <<gen, calls, gap, overlap, todo>>
        /\ \A i \in Instances : rules'[i] = IF i = j THEN gen ELSE rules[i]
        BY <1>4 DEF SetRules, Types, ConfTypes
  <2> QED BY <2>1 DEF Told
<1>5. ASSUME NEW j \in Instances, Attach(j)
      PROVE  Told'
      BY <1>5 DEF Attach, Told
<1>6. ASSUME NEW t \in Threads, Thread(t)
      PROVE  Told'
      BY <1>6, ThreadKeepsConf DEF confVars, Told
<1>7. CASE UNCHANGED vars
      BY <1>7 DEF vars, confVars, Told
<1> QED BY <1>1, <1>2, <1>3, <1>4, <1>5, <1>6, <1>7 DEF Next

\* Whoever is attached and has the rules of the start always had them.
LEMMA StartRules ==
    ASSUME Types, Conf, NEW j \in attached, rules'[j] = 0
    PROVE  rules[j] = 0
<1>0. j \in Instances /\ rules[j] \in 0 .. gen /\ rules[j] # NoRules
  <2>1. j \in Instances /\ rules[j] \in 0 .. gen
        BY DEF Types, ConfTypes
  <2>2. rules[j] \in Gens
        BY <2>1, Arrays DEF Types
  <2> QED BY <2>1, <2>2, NoRulesAssumption
<1>1. ASSUME NEW rs \in RuleSets[gen + 1], UpdateRules(rs)
      PROVE  rules' = rules
      BY <1>1 DEF UpdateRules
<1>2. ASSUME NEW g \in Gens, NotifyEnds(g)
      PROVE  rules' = rules
      BY <1>2 DEF NotifyEnds
<1>3. ASSUME NEW g \in Gens, NEW i \in Instances, Tell(g, i)
      PROVE  rules'[j] = rules[j] \/ rules'[j] # 0
  <2>1. g \in 1 .. gen
    <3>1. <<g, i>> \in calls \X Instances
          BY <1>3 DEF Tell, Types, ConfTypes
    <3> QED BY <3>1 DEF Types, ConfTypes
  <2> QED BY <1>0, <1>3, <2>1 DEF Tell, Types, ConfTypes
<1>4. ASSUME NEW i \in Instances, SetRules(i)
      PROVE  rules'[j] = rules[j]
      BY <1>0, <1>4 DEF SetRules, Types, ConfTypes
<1>5. ASSUME NEW i \in Instances, Attach(i)
      PROVE  rules' = rules
      BY <1>5 DEF Attach
<1> QED BY <1>1, <1>2, <1>3, <1>4, <1>5 DEF Conf

\* Every step keeps what a thread knows when it enters the loop.
LEMMA LoopEnteredStep ==
    ASSUME Types, LoopEntered, [Next]_vars
    PROVE  LoopEntered'
<1> SUFFICES ASSUME NEW t \in Threads, pc'[t] = "match"
             PROVE  array(t)' # <<>> /\ (rules'[t[1]] = 0 => list'[t] = 0)
    BY DEF LoopEntered
<1>1. CASE Conf \/ UNCHANGED vars
  <2>1. Same(t)
        BY <1>1, ConfSame DEF Types
  <2>2. pc[t] = "match" /\ t[1] \in attached /\ array(t)' = array(t) /\ list'[t] = list[t]
        BY <2>1 DEF Same, Types, Placed, array
  <2>3. rules'[t[1]] = 0 => rules[t[1]] = 0
    <3>1. CASE Conf
          BY <2>2, <3>1, StartRules
    <3>2. CASE UNCHANGED vars
          BY <3>2 DEF vars, confVars
    <3> QED BY <1>1, <3>1, <3>2
  <2> QED BY <2>2, <2>3 DEF LoopEntered
<1>2. ASSUME NEW u \in Threads, Thread(u)
      PROVE  array(t)' # <<>> /\ (rules'[t[1]] = 0 => list'[t] = 0)
  <2>0. ruleset' = ruleset /\ rules' = rules
        BY <1>2, ThreadKeepsConf DEF confVars
  <2>1. CASE t # u
    <3>1. Same(t)
          BY <1>2, <2>1, OthersSame DEF Types
    <3> QED BY <2>0, <3>1 DEF LoopEntered, Same, array
  <2>2. CASE t = u
    <3>1. CheckRules(t)
          BY <1>2, <2>2 DEF Thread, Recv, MatchRules, ActNothing, ActDebug, ActFuzz, NewPipe,
                            SetData, Muck, MuckRaises, Finish, Send, Acted, Goto, Types,
                            ThreadTypes
    <3>2. list'[t] = rules[t[1]] /\ ruleset[rules[t[1]]] # <<>>
          BY <3>1 DEF CheckRules, Goto, Types, ThreadTypes
    <3> QED BY <2>0, <3>2 DEF array
  <2> QED BY <2>1, <2>2
<1> QED BY <1>1, <1>2 DEF Next, Conf

\* What a thread has done, and has yet to do, of a chain stays when the first of the
\* rules to act on moves from the one to the other.
LEMMA MoveOne ==
    ASSUME NEW S, NEW a \in Seq(S), NEW m \in Seq(S), m # <<>>
    PROVE  Append(a, Head(m)) \o Tail(m) = a \o m
<1>1. /\ Len(a) \in Nat /\ Len(m) \in Nat /\ Len(m) # 0
      /\ Head(m) \in S /\ Tail(m) \in Seq(S) /\ Len(Tail(m)) = Len(m) - 1
      OBVIOUS
<1>2. Append(a, Head(m)) \in Seq(S) /\ Len(Append(a, Head(m))) = Len(a) + 1
      BY <1>1
<1> DEFINE x == Append(a, Head(m)) \o Tail(m)
           y == a \o m
<1>3. x \in Seq(S) /\ y \in Seq(S) /\ Len(x) = Len(a) + Len(m) /\ Len(y) = Len(a) + Len(m)
      BY <1>1, <1>2
<1>4. ASSUME NEW i \in 1 .. Len(a) + Len(m)
      PROVE  x[i] = y[i]
  <2>1. CASE i <= Len(a)
        BY <1>1, <1>2, <2>1
  <2>2. CASE i = Len(a) + 1
        BY <1>1, <1>2, <2>2
  <2>3. CASE i > Len(a) + 1
        BY <1>1, <1>2, <2>3
  <2> QED BY <1>1, <2>1, <2>2, <2>3
<1> HIDE DEF x, y
<1>5. x = y
      BY <1>3, <1>4
<1> QED BY <1>5 DEF x, y

\* A thread that is left as it is stays on its chain.
LEMMA OnChainSame ==
    ASSUME NEW t, Same(t), OnChain(t)
    PROVE  OnChain(t)'
<1>1. /\ array(t)' = array(t)
      /\ Matching(list[t], t)' = Matching(list[t], t)
      /\ Passing(list[t])' = Passing(list[t])
      BY DEF Same, array, Matching, Passing, match, passthru
<1> QED BY <1>1 DEF OnChain, Same

\* Every step of a thread keeps it on the chain of its array.
LEMMA OnChainStep ==
    ASSUME Types, NEW t \in Threads, OnChain(t), Thread(t)
    PROVE  OnChain(t)'
<1>0. ruleset' = ruleset
      BY ThreadKeepsConf DEF confVars
<1>1. CASE Recv(t)
      BY <1>1 DEF Recv, Goto, OnChain, Types, ThreadTypes, Later
<1>2. CASE CheckRules(t)
  <2>1. /\ acted'[t] = <<>> /\ matching'[t] = <<>> /\ list'[t] = rules[t[1]]
        /\ pc'[t] = IF ruleset[rules[t[1]]] = <<>> THEN "send" ELSE "match"
        BY <1>2 DEF CheckRules, Goto, OnChain, Types, ThreadTypes, Placed
  <2>2. CASE ruleset[rules[t[1]]] = <<>>
    <3>1. Len(array(t)') = 0
          BY <1>0, <2>1, <2>2 DEF array
    <3>2. acted'[t] \o matching'[t] = <<>>
          BY <2>1
    <3>3. <<>> \in Seq(1 .. 0) /\ Len(<<>>) = 0 /\ 1 .. 0 = {}
          OBVIOUS
    <3>4. Chain(<<>>, 1, 0, Matching(list[t], t)', Passing(list[t])')
          BY <3>3 DEF Chain
    <3> QED BY <2>1, <2>2, <3>1, <3>2, <3>4 DEF OnChain, Later
  <2>3. CASE ruleset[rules[t[1]]] # <<>>
        BY <2>1, <2>3 DEF OnChain, Later
  <2> QED BY <2>2, <2>3
<1>3. CASE MatchRules(t)
  <2> DEFINE g == rules[t[1]]
  <2>1. /\ acted'[t] = <<>> /\ matching'[t] = MatchingRules(g, t) /\ list'[t] = g
        /\ payload' = payload
        BY <1>3 DEF MatchRules, OnChain, Types, ThreadTypes
  <2>2. ruleset[g] \in Seq(Rules)
        BY <1>3, Arrays DEF MatchRules, Types, Placed, ConfTypes
  <2>3. Chain(MatchingRules(g, t), 1, Len(ruleset[g]), Matching(g, t), Passing(g))
        BY <2>2, MatchingIsChain
  <2>4. /\ array(t)' = ruleset[g] /\ Matching(list[t], t)' = Matching(g, t)
        /\ Passing(list[t])' = Passing(g)
        BY <1>0, <2>1 DEF array, Matching, Passing, match, passthru
  <2>5. acted'[t] \o matching'[t] = MatchingRules(g, t)
    <3>1. MatchingRules(g, t) \in Seq(1 .. Len(ruleset[g]))
          BY <2>3 DEF Chain
    <3> QED BY <2>1, <3>1
  <2>6. pc'[t] \notin {"check", "match"}
        BY <1>3 DEF MatchRules, Goto, Types, ThreadTypes
  <2> QED BY <2>3, <2>4, <2>5, <2>6 DEF OnChain
<1>4. ASSUME matching[t] # <<>>, Acted(t), pc[t] \in {"act", "muck"}
      PROVE  OnChain(t)'
  <2>1. /\ pc'[t] = "act" /\ list' = list /\ payload' = payload
        /\ matching'[t] = Tail(matching[t])
        /\ acted'[t] = Append(acted[t], Head(matching[t]))
        BY <1>4 DEF Acted, Goto, Types, ThreadTypes
  <2>2. acted'[t] \o matching'[t] = acted[t] \o matching[t]
    <3>1. acted[t] \in Seq(Index) /\ matching[t] \in Seq(Index)
          BY DEF Types, ThreadTypes
    <3> QED BY <1>4, <2>1, <3>1, MoveOne
  <2>3. /\ array(t)' = array(t)
        /\ Matching(list[t], t)' = Matching(list[t], t)
        /\ Passing(list[t])' = Passing(list[t])
        BY <1>0, <2>1 DEF array, Matching, Passing, match, passthru
  <2> QED BY <1>4, <2>1, <2>2, <2>3 DEF OnChain, Later
<1>5. ASSUME UNCHANGED <<payload, matching, acted, list>>, pc[t] \in Later,
             pc'[t] \notin {"check", "match"}
      PROVE  OnChain(t)'
  <2>1. /\ array(t)' = array(t)
        /\ Matching(list[t], t)' = Matching(list[t], t)
        /\ Passing(list[t])' = Passing(list[t])
        BY <1>0, <1>5 DEF array, Matching, Passing, match, passthru
  <2> QED BY <1>5, <2>1 DEF OnChain
<1>6. CASE ActNothing(t) \/ ActDebug(t) \/ ActFuzz(t)
      BY <1>4, <1>6 DEF ActNothing, ActDebug, ActFuzz, Acting
<1>7. CASE Muck(t)
      BY <1>4, <1>7 DEF Muck, Types, Placed
<1>8. CASE NewPipe(t)
  <2>1. /\ UNCHANGED <<payload, matching, acted, list>>
        /\ pc[t] \in Later /\ pc'[t] \notin {"check", "match"}
        BY <1>8 DEF NewPipe, Acting, Goto, Types, ThreadTypes, loopVars, Later
  <2> QED BY <1>5, <2>1
<1>9. CASE SetData(t) \/ Finish(t) \/ Send(t)
  <2>1. /\ UNCHANGED <<payload, matching, acted, list>>
        /\ pc[t] \in Later /\ pc'[t] \notin {"check", "match"}
        BY <1>9 DEF SetData, Finish, Send, Goto, Types, ThreadTypes, loopVars, Later
  <2> QED BY <1>5, <2>1
<1>10. CASE MuckRaises(t)
  <2>1. pc'[t] \in {"recv", "dead"}
        BY <1>10 DEF MuckRaises, Goto, Types, ThreadTypes
  <2> QED BY <2>1 DEF OnChain, Later
<1> QED BY <1>1, <1>2, <1>3, <1>6, <1>7, <1>8, <1>9, <1>10 DEF Thread

\* Acting on one more rule adds its position, if it has the action asked for.
LEMMA ActsAppend ==
    ASSUME NEW S, NEW s \in Seq(S), NEW e \in S, NEW rs, NEW a
    PROVE  Acts(rs, Append(s, e), a) =
             IF rs[e].action = a THEN Acts(rs, s, a) \cup {Len(s) + 1} ELSE Acts(rs, s, a)
<1>1. /\ Len(s) \in Nat /\ Len(Append(s, e)) = Len(s) + 1
      /\ Append(s, e)[Len(s) + 1] = e
      /\ \A k \in 1 .. Len(s) : Append(s, e)[k] = s[k]
      OBVIOUS
<1> DEFINE x == Append(s, e)
<1> HIDE DEF x
<1>2. ASSUME NEW k
      PROVE  k \in Acts(rs, x, a) <=>
               (k \in Acts(rs, s, a) \/ (k = Len(s) + 1 /\ rs[e].action = a))
  <2>1. CASE k \in 1 .. Len(s)
        BY <1>1, <2>1 DEF Acts, x
  <2>2. CASE k = Len(s) + 1
        BY <1>1, <2>2 DEF Acts, x
  <2>3. CASE k \notin 1 .. Len(s) + 1
        BY <1>1, <2>3 DEF Acts, x
  <2>4. k \in 1 .. Len(s) + 1 => k \in 1 .. Len(s) \/ k = Len(s) + 1
        BY <1>1
  <2> QED BY <2>1, <2>2, <2>3, <2>4
<1>3. Acts(rs, x, a) =
        IF rs[e].action = a THEN Acts(rs, s, a) \cup {Len(s) + 1} ELSE Acts(rs, s, a)
      BY <1>2
<1> QED BY <1>3 DEF x

\* The same in a step of a thread.
LEMMA ActedOne ==
    ASSUME Types, NEW t \in Threads, matching[t] # <<>>, Acted(t), NEW a
    PROVE  /\ Acts(array(t)', acted'[t], a) =
                IF array(t)[Head(matching[t])].action = a
                THEN Acts(array(t), acted[t], a) \cup {Len(acted[t]) + 1}
                ELSE Acts(array(t), acted[t], a)
           /\ acted'[t] = Append(acted[t], Head(matching[t]))
           /\ array(t)' = array(t) /\ pc'[t] = "act"
<1>1. acted[t] \in Seq(Index) /\ Head(matching[t]) \in Index
      BY ActedTypes DEF Types, ThreadTypes
<1>2. /\ acted'[t] = Append(acted[t], Head(matching[t]))
      /\ pc'[t] = "act" /\ list' = list /\ ruleset' = ruleset
      BY DEF Acted, Goto, Types, ThreadTypes, confVars
<1>3. array(t)' = array(t)
      BY <1>2 DEF array
<1>4. Acts(array(t), Append(acted[t], Head(matching[t])), a) =
        IF array(t)[Head(matching[t])].action = a
        THEN Acts(array(t), acted[t], a) \cup {Len(acted[t]) + 1}
        ELSE Acts(array(t), acted[t], a)
  <2> DEFINE rs == array(t)
             done == acted[t]
             e == Head(matching[t])
  <2> HIDE DEF rs, done, e
  <2>1. done \in Seq(Index) /\ e \in Index
        BY <1>1 DEF done, e
  <2>2. Acts(rs, Append(done, e), a) =
          IF rs[e].action = a THEN Acts(rs, done, a) \cup {Len(done) + 1} ELSE Acts(rs, done, a)
        BY <2>1, ActsAppend
  <2> QED BY <2>2 DEF rs, done, e
<1> QED BY <1>2, <1>3, <1>4

\* What a thread that is left as it is remembers and has recorded stays right.
LEMMA LocalSame ==
    ASSUME NEW t, Same(t), Debugs(t), Fuzzes(t)
    PROVE  Debugs(t)' /\ Fuzzes(t)'
<1>1. array(t)' = array(t) /\ IsUdp(t)' = IsUdp(t)
      BY DEF Same, array, IsUdp
<1>2. \A a : Acts(array(t), acted[t], a)' = Acts(array(t), acted[t], a)
      BY <1>1 DEF Same, Acts
<1>3. Lone(t)' = Lone(t)
      BY <1>2 DEF Lone
<1>4. Debugs(t)'
      BY <1>1, <1>2 DEF Debugs, Same
<1>5. Fuzzes(t)'
      BY <1>1, <1>2, <1>3 DEF Fuzzes, Same
<1> QED BY <1>4, <1>5

\* Every step of a thread keeps what it remembers for the debugger right.
LEMMA DebugsStep ==
    ASSUME Types, NEW t \in Threads, OnChain(t), Debugs(t), Thread(t)
    PROVE  Debugs(t)'
<1>0. ruleset' = ruleset /\ IsUdp(t)' = IsUdp(t)
      BY ThreadKeepsConf DEF confVars, IsUdp
<1>1. CASE Recv(t)
      BY <1>1 DEF Recv, Goto, Debugs, Types, ThreadTypes, Later
<1>2. CASE CheckRules(t) \/ MatchRules(t)
  <2>1. acted'[t] = <<>> /\ shoulddebug' = shoulddebug /\ shoulddebug[t] = FALSE
        BY <1>2 DEF CheckRules, MatchRules, OnChain, Debugs
  <2>2. \A rs : Acts(rs, <<>>, "debug") = {}
        BY DEF Acts
  <2> QED BY <2>1, <2>2 DEF Debugs
<1>3. ASSUME UNCHANGED <<acted, list, shoulddebug>>, pc[t] \in Later,
             pc'[t] \notin {"check", "match"}
      PROVE  Debugs(t)'
  <2>1. array(t)' = array(t)
        BY <1>0, <1>3 DEF array
  <2>2. Acts(array(t), acted[t], "debug")' = Acts(array(t), acted[t], "debug")
        BY <1>3, <2>1 DEF Acts
  <2> QED BY <1>0, <1>3, <2>2 DEF Debugs
<1>4. ASSUME matching[t] # <<>>, Acted(t), pc[t] \in Later,
             array(t)[Head(matching[t])].action # "debug", shoulddebug' = shoulddebug
      PROVE  Debugs(t)'
  <2>1. /\ Acts(array(t)', acted'[t], "debug") = Acts(array(t), acted[t], "debug")
        /\ pc'[t] = "act"
        BY <1>4, ActedOne
  <2> QED BY <1>0, <1>4, <2>1 DEF Debugs, Later
<1>5. CASE ActNothing(t) \/ ActFuzz(t)
  <2>1. /\ matching[t] # <<>> /\ Acted(t) /\ pc[t] \in Later
        /\ array(t)[Head(matching[t])].action # "debug" /\ shoulddebug' = shoulddebug
        BY <1>5 DEF ActNothing, ActFuzz, Acting, Later
  <2> QED BY <1>4, <2>1
<1>6. CASE Muck(t)
  <2>1. /\ matching[t] # <<>> /\ Acted(t) /\ pc[t] \in Later
        /\ array(t)[Head(matching[t])].action # "debug" /\ shoulddebug' = shoulddebug
        BY <1>6 DEF Muck, Mucks, Later, Types, Placed
  <2> QED BY <1>4, <2>1
<1>7. CASE ActDebug(t)
  <2>1. /\ matching[t] # <<>> /\ Acted(t)
        /\ array(t)[Head(matching[t])].action = "debug"
        /\ shoulddebug'[t] = ~IsUdp(t)
        BY <1>7 DEF ActDebug, Acting, Types, ThreadTypes
  <2>2. Acts(array(t)', acted'[t], "debug") # {} /\ pc'[t] = "act"
        BY <2>1, ActedOne
  <2> QED BY <1>0, <2>1, <2>2 DEF Debugs, Later
<1>8. CASE NewPipe(t) \/ SetData(t) \/ MuckRaises(t) \/ Finish(t) \/ Send(t)
  <2>1. /\ UNCHANGED <<acted, list, shoulddebug>> /\ pc[t] \in Later
        /\ pc'[t] \notin {"check", "match"}
        BY <1>8 DEF NewPipe, SetData, MuckRaises, Finish, Send, Acting, Goto, Types,
           ThreadTypes, loopVars, Later
  <2> QED BY <1>3, <2>1
<1> QED BY <1>1, <1>2, <1>5, <1>6, <1>7, <1>8 DEF Thread

\* Every step of a thread keeps what is recorded of its fuzzing right.
LEMMA FuzzesStep ==
    ASSUME Types, NEW t \in Threads, OnChain(t), Fuzzes(t), Thread(t)
    PROVE  Fuzzes(t)'
<1>0. ruleset' = ruleset /\ IsUdp(t)' = IsUdp(t)
      BY ThreadKeepsConf DEF confVars, IsUdp
<1>1. CASE Recv(t)
      BY <1>1 DEF Recv, Goto, Fuzzes, Types, ThreadTypes, Later
<1>2. CASE CheckRules(t) \/ MatchRules(t)
  <2>1. /\ acted'[t] = <<>> /\ UNCHANGED fuzzVars
        /\ wasFuzzed[t] = FALSE /\ fuzzed[t] = {} /\ rows[t] = 0
        BY <1>2 DEF CheckRules, MatchRules, OnChain, Fuzzes
  <2>2. \A rs : Acts(rs, <<>>, "fuzz") = {}
        BY DEF Acts
  <2> QED BY <2>1, <2>2 DEF Fuzzes, fuzzVars
<1>3. ASSUME UNCHANGED <<acted, list, fuzzVars>>, pc[t] \in Later,
             pc'[t] \notin {"check", "match"},
             pc'[t] \in Later => (pc'[t] = "send" <=> pc[t] = "send")
      PROVE  Fuzzes(t)'
  <2>1. array(t)' = array(t)
        BY <1>0, <1>3 DEF array
  <2>2. Acts(array(t), acted[t], "fuzz")' = Acts(array(t), acted[t], "fuzz")
        BY <1>3, <2>1 DEF Acts
  <2>3. Lone(t)' = Lone(t)
        BY <2>2 DEF Lone
  <2> QED BY <1>0, <1>3, <2>2, <2>3 DEF Fuzzes, fuzzVars
<1>4. ASSUME matching[t] # <<>>, Acted(t), pc[t] \in Later \ {"send"},
             array(t)[Head(matching[t])].action # "fuzz", UNCHANGED fuzzVars
      PROVE  Fuzzes(t)'
  <2>1. /\ Acts(array(t)', acted'[t], "fuzz") = Acts(array(t), acted[t], "fuzz")
        /\ pc'[t] = "act" /\ acted'[t] = Append(acted[t], Head(matching[t]))
        BY <1>4, ActedOne
  <2>2. \A k \in Acts(array(t), acted[t], "fuzz") : acted'[t][k] = acted[t][k]
    <3>1. acted[t] \in Seq(Index) /\ Head(matching[t]) \in Index
          BY <1>4, ActedTypes DEF Types, ThreadTypes
    <3> QED BY <2>1, <3>1 DEF Acts
  <2>3. Lone(t)' = Lone(t)
        BY <2>1 DEF Lone
  <2> QED BY <1>0, <1>4, <2>1, <2>2, <2>3 DEF Fuzzes, fuzzVars, Later
<1>5. CASE ActNothing(t) \/ ActDebug(t)
  <2>1. /\ matching[t] # <<>> /\ Acted(t) /\ pc[t] \in Later \ {"send"}
        /\ array(t)[Head(matching[t])].action # "fuzz" /\ UNCHANGED fuzzVars
        BY <1>5 DEF ActNothing, ActDebug, Acting, Later
  <2> QED BY <1>4, <2>1
<1>6. CASE Muck(t)
  <2>1. /\ matching[t] # <<>> /\ Acted(t) /\ pc[t] \in Later \ {"send"}
        /\ array(t)[Head(matching[t])].action # "fuzz" /\ UNCHANGED fuzzVars
        BY <1>6 DEF Muck, Mucks, Later, Types, Placed
  <2> QED BY <1>4, <2>1
<1>7. CASE ActFuzz(t)
  <2> DEFINE F == Acts(array(t), acted[t], "fuzz")
             h == Head(matching[t])
             k == Len(acted[t]) + 1
  <2>1. /\ matching[t] # <<>> /\ Acted(t) /\ pc[t] = "act" /\ array(t)[h].action = "fuzz"
        BY <1>7 DEF ActFuzz, Acting
  <2>2. /\ Acts(array(t)', acted'[t], "fuzz") = F \cup {k}
        /\ pc'[t] = "act" /\ acted'[t] = Append(acted[t], h)
        BY <2>1, ActedOne
  <2>3. acted[t] \in Seq(Index) /\ h \in Index
        BY <2>1, ActedTypes DEF Types, ThreadTypes
  <2>4. acted'[t][k] = h
        BY <2>2, <2>3
  <2>5. k \notin F
        BY <2>3 DEF Acts
  <2>6. PICK touched \in BOOLEAN :
           /\ wasFuzzed'[t] = touched
           /\ fuzzed'[t] = IF touched THEN fuzzed[t] \cup {h} ELSE fuzzed[t]
           /\ rows'[t] = IF touched /\ IsUdp(t) THEN rows[t] + 1 ELSE rows[t]
        BY <1>7 DEF ActFuzz, Types, ThreadTypes
  <2>7. CASE F = {}
    <3>1. wasFuzzed[t] = FALSE /\ fuzzed[t] = {} /\ rows[t] = 0
          BY <2>1, <2>7 DEF Fuzzes, Lone, Later
    <3>2. Acts(array(t)', acted'[t], "fuzz") = {k}
          BY <2>2, <2>7
    <3>3. wasFuzzed'[t] = TRUE \/ wasFuzzed'[t] = FALSE
          BY <2>6
    <3>4. /\ fuzzed'[t] = IF wasFuzzed'[t] = TRUE THEN {acted'[t][k]} ELSE {}
          /\ rows'[t] = IF wasFuzzed'[t] = TRUE /\ (IsUdp(t) \/ pc'[t] = "send") THEN 1 ELSE 0
      <4>1. CASE touched = TRUE
            BY <2>2, <2>4, <2>6, <3>1, <4>1
      <4>2. CASE touched = FALSE
            BY <2>2, <2>6, <3>1, <4>2
      <4> QED BY <4>1, <4>2
    <3> HIDE DEF k
    <3> QED BY <1>0, <2>2, <3>2, <3>4 DEF Fuzzes, Later
  <2>8. CASE F # {}
    <3>1. ~Lone(t)'
          BY <2>2, <2>5, <2>8 DEF Lone
    <3> QED BY <2>2, <3>1 DEF Fuzzes
  <2> QED BY <2>7, <2>8
<1>8. CASE NewPipe(t) \/ SetData(t)
  <2>1. /\ UNCHANGED <<acted, list, fuzzVars>> /\ pc[t] \in Later /\ pc[t] # "send"
        /\ pc'[t] \notin {"check", "match", "send"}
        BY <1>8 DEF NewPipe, SetData, Acting, Goto, Types, ThreadTypes, loopVars, Later
  <2> QED BY <1>3, <2>1
<1>9. CASE MuckRaises(t) \/ Send(t)
  <2>1. pc'[t] \in {"ended", "recv", "dead"}
        BY <1>9 DEF MuckRaises, Send, Goto, Types, ThreadTypes
  <2> QED BY <2>1 DEF Fuzzes, Later
<1>10. CASE Finish(t)
  <2>1. /\ UNCHANGED <<acted, list, wasFuzzed, fuzzed>> /\ pc[t] = "act" /\ pc'[t] = "send"
        /\ rows'[t] = IF wasFuzzed[t] /\ ~IsUdp(t) THEN rows[t] + 1 ELSE rows[t]
        BY <1>10 DEF Finish, Goto, Types, ThreadTypes, loopVars
  <2>2. array(t)' = array(t)
        BY <1>0, <2>1 DEF array
  <2>3. Acts(array(t), acted[t], "fuzz")' = Acts(array(t), acted[t], "fuzz")
        BY <2>1, <2>2 DEF Acts
  <2>4. Lone(t)' = Lone(t)
        BY <2>3 DEF Lone
  <2>5. wasFuzzed[t] = TRUE \/ wasFuzzed[t] = FALSE
        BY DEF Types, ThreadTypes
  <2>6. Lone(t) => rows'[t] = IF wasFuzzed[t] = TRUE THEN 1 ELSE 0
        BY <2>1, <2>5 DEF Fuzzes, Later
  <2> QED BY <1>0, <2>1, <2>3, <2>4, <2>6 DEF Fuzzes, Later
<1> QED BY <1>1, <1>2, <1>5, <1>6, <1>7, <1>8, <1>9, <1>10 DEF Thread

\* What a new pipe does to the pipes and to those in the same action.
LEMMA NewPipeMade ==
    ASSUME Types, NEW u \in Threads, NewPipe(u)
    PROVE  /\ mucker(u) \in Muckers /\ Head(matching[u]) \in Index /\ nth[u] \in 1 .. MaxChunks
           /\ \A a \in Muckers :
                 mp'[a] = IF a = mucker(u) THEN <<<<u, nth[u]>>, Head(matching[u])>> ELSE mp[a]
           /\ \A t \in Threads :
                 met'[t] = TRUE <=>
                ( \/ met[t] = TRUE
                  \/ InMuck(t) /\ mucker(t) = mucker(u)
                  \/ t = u /\ \E v \in Threads : InMuck(v) /\ mucker(v) = mucker(u) )
           /\ pc[u] = "act" /\ pc'[u] = "set data"
           /\ UNCHANGED <<string, data, nth, matching, list>>
<1>1. mucker(u) \in Muckers /\ Head(matching[u]) \in Index
      BY MuckerIn DEF NewPipe, Acting, Types
<1>2. nth[u] \in 1 .. MaxChunks
      BY DEF NewPipe, Acting, Types, Placed
<1>3. \A a \in Muckers :
         mp'[a] = IF a = mucker(u) THEN <<<<u, nth[u]>>, Head(matching[u])>> ELSE mp[a]
      BY <1>1 DEF NewPipe, Types, ThreadTypes
<1>4. ASSUME NEW t \in Threads
      PROVE  met'[t] = TRUE <=>
                ( \/ met[t] = TRUE
                  \/ InMuck(t) /\ mucker(t) = mucker(u)
                  \/ t = u /\ \E v \in Threads : InMuck(v) /\ mucker(v) = mucker(u) )
  <2> DEFINE others == {v \in Threads : InMuck(v) /\ mucker(v) = mucker(u)}
  <2>1. met' = [v \in Threads |-> met[v] \/ v \in others \/ (v = u /\ others # {})]
        BY DEF NewPipe
  <2>2. (t \in others <=> InMuck(t) /\ mucker(t) = mucker(u))
        /\ (others # {} <=> \E v \in Threads : InMuck(v) /\ mucker(v) = mucker(u))
        BY Zenon
  <2> HIDE DEF others
  <2>3. met'[t] = (met[t] \/ t \in others \/ (t = u /\ others # {}))
        BY <2>1
  <2>4. met[t] = TRUE \/ met[t] = FALSE
        BY DEF Types, ThreadTypes
  <2> QED BY <2>2, <2>3, <2>4, Zenon
<1>5. /\ pc[u] = "act" /\ pc'[u] = "set data"
      /\ UNCHANGED <<string, data, nth, matching, list>>
      BY DEF NewPipe, Acting, Goto, Types, ThreadTypes, loopVars
<1> QED BY <1>1, <1>2, <1>3, <1>4, <1>5

\* Only NewPipe changes where pipes are, only SetData what is in them, and only a
\* thread's own Recv forgets that it met another.
LEMMA MuckKept ==
    ASSUME Types, NEW u \in Threads, Thread(u)
    PROVE  /\ ~NewPipe(u) => mp' = mp
           /\ ~SetData(u) => data' = data
           /\ \A t \in Threads : t # u /\ ~NewPipe(u) => met'[t] = met[t]
           /\ ~NewPipe(u) /\ ~Recv(u) => met' = met
<1>1. CASE Recv(u)
      BY <1>1 DEF Recv, Types, ThreadTypes
<1>2. CASE NewPipe(u)
      BY <1>2 DEF NewPipe
<1>3. CASE SetData(u)
      BY <1>3 DEF SetData
<1>4. CASE ~Recv(u) /\ ~NewPipe(u) /\ ~SetData(u)
      BY <1>4 DEF Thread, CheckRules, MatchRules, ActNothing, ActDebug, ActFuzz, Muck,
                  MuckRaises, Finish, Send, muckVars
<1> QED BY <1>1, <1>2, <1>3, <1>4

\* A thread's chunk and array change when it takes the next chunk and looks at its
\* rules, and where it goes then.
LEMMA OwnMoves ==
    ASSUME Types, NEW u \in Threads, Thread(u)
    PROVE  \/ Recv(u) /\ nth'[u] = nth[u] + 1 /\ pc'[u] = "check"
           \/ pc[u] = "check" /\ nth'[u] = nth[u]
           \/ pc[u] = "match" /\ nth'[u] = nth[u]
           \/ /\ nth'[u] = nth[u] /\ list'[u] = list[u]
              /\ pc[u] \notin {"check", "match"} /\ pc'[u] \notin {"check", "match"}
<1>1. CASE Recv(u)
      BY <1>1 DEF Recv, Goto, Types, ThreadTypes
<1>2. CASE CheckRules(u) \/ MatchRules(u)
      BY <1>2 DEF CheckRules, MatchRules
<1>3. CASE ActNothing(u) \/ ActDebug(u) \/ ActFuzz(u) \/ Muck(u)
  <2>1. Acted(u) /\ pc[u] \in {"act", "muck"}
        BY <1>3 DEF ActNothing, ActDebug, ActFuzz, Muck, Acting
  <2> QED BY <2>1 DEF Acted, Goto, Types, ThreadTypes
<1>4. CASE NewPipe(u) \/ SetData(u) \/ Finish(u) \/ Send(u)
      BY <1>4 DEF NewPipe, SetData, Finish, Send, Acting, Goto, Types, ThreadTypes, loopVars
<1>5. CASE MuckRaises(u)
      BY <1>5 DEF MuckRaises, Goto, Types, ThreadTypes
<1> QED BY <1>1, <1>2, <1>3, <1>4, <1>5 DEF Thread

\* Every step keeps pipes where their makers put them.
LEMMA PipesPutStep ==
    ASSUME Types, PipesPut, [Next]_vars
    PROVE  PipesPut'
<1> SUFFICES ASSUME NEW a \in Muckers, NEW t \in Threads, NEW n \in 1 .. MaxChunks,
                    NEW k \in Index, mp'[a] = <<<<t, n>>, k>>
             PROVE  /\ n <= nth'[t]
                    /\ n = nth'[t] => pc'[t] \notin {"check", "match"} /\ a = <<list'[t], k>>
    BY DEF PipesPut
<1>1. ASSUME mp[a] = <<<<t, n>>, k>>, Same(t)
      PROVE  /\ n <= nth'[t]
             /\ n = nth'[t] => pc'[t] \notin {"check", "match"} /\ a = <<list'[t], k>>
      BY <1>1 DEF PipesPut, Same
<1>2. CASE Conf \/ UNCHANGED vars
  <2>1. Same(t) /\ mp' = mp
        BY <1>2, ConfSame DEF Types
  <2> QED BY <1>1, <2>1
<1>3. ASSUME NEW u \in Threads, Thread(u)
      PROVE  /\ n <= nth'[t]
             /\ n = nth'[t] => pc'[t] \notin {"check", "match"} /\ a = <<list'[t], k>>
  <2>1. CASE ~(NewPipe(u) /\ a = mucker(u)) /\ t # u
    <3>1. mp'[a] = mp[a]
          BY <1>3, <2>1, MuckKept, NewPipeMade
    <3> QED BY <1>1, <1>3, <2>1, <3>1, OthersSame DEF Types
  <2>2. CASE ~(NewPipe(u) /\ a = mucker(u)) /\ t = u
    <3>1. mp[a] = <<<<t, n>>, k>>
      <4>1. CASE NewPipe(u)
        <5>1. mp'[a] = mp[a]
              BY <2>2, <4>1, NewPipeMade
        <5> QED BY <5>1
      <4>2. CASE ~NewPipe(u)
        <5>1. mp' = mp
              BY <1>3, <4>2, MuckKept
        <5> QED BY <5>1
      <4> QED BY <4>1, <4>2
    <3>2. /\ n <= nth[t]
          /\ n = nth[t] => pc[t] \notin {"check", "match"} /\ a = <<list[t], k>>
          BY <3>1 DEF PipesPut
    <3>3. nth[t] \in Nat
          BY BoundsAssumption DEF Types, ThreadTypes
    <3> QED BY <1>3, <2>2, <3>2, <3>3, OwnMoves
  <2>3. CASE NewPipe(u) /\ a = mucker(u)
    <3>1. mp'[a] = <<<<u, nth[u]>>, Head(matching[u])>>
          BY <2>3, NewPipeMade
    <3>2. t = u /\ n = nth[u] /\ k = Head(matching[u])
          BY <3>1
    <3>3. pc'[u] = "set data" /\ nth' = nth /\ list' = list
          BY <2>3, NewPipeMade
    <3>4. nth[u] <= nth[u]
          BY BoundsAssumption DEF Types, ThreadTypes
    <3>5. a = <<list[u], Head(matching[u])>>
          BY <2>3 DEF mucker
    <3> QED BY <3>2, <3>3, <3>4, <3>5
  <2> QED BY <2>1, <2>2, <2>3
<1> QED BY <1>2, <1>3 DEF Next, Conf

\* Every step that brings two threads together marks them.
LEMMA MeetingStep ==
    ASSUME Types, Meeting, [Next]_vars
    PROVE  Meeting'
<1> SUFFICES ASSUME NEW t \in Threads, NEW v \in Threads, t # v,
                    InMuck(t)', InMuck(v)', mucker(t)' = mucker(v)'
             PROVE  met'[t] = TRUE
    BY DEF Meeting
<1>1. ASSUME NEW w \in Threads, Same(w)
      PROVE  InMuck(w)' = InMuck(w) /\ mucker(w)' = mucker(w)
      BY <1>1 DEF Same, InMuck, mucker
<1>2. CASE Conf \/ UNCHANGED vars
  <2>1. Same(t) /\ Same(v) /\ met' = met
        BY <1>2, ConfSame DEF Types
  <2> QED BY <1>1, <2>1 DEF Meeting
<1>3. ASSUME NEW u \in Threads, Thread(u)
      PROVE  met'[t] = TRUE
  <2>0. \A w \in Threads : w # u => InMuck(w)' = InMuck(w) /\ mucker(w)' = mucker(w)
        BY <1>1, <1>3, OthersSame DEF Types
  <2>1. CASE NewPipe(u)
    <3>1. mucker(u)' = mucker(u) /\ ~InMuck(u)
          BY <2>1, NewPipeMade DEF mucker, InMuck
    <3>2. \A w \in Threads :
             met'[w] = TRUE <=>
                ( \/ met[w] = TRUE
                  \/ InMuck(w) /\ mucker(w) = mucker(u)
                  \/ w = u /\ \E x \in Threads : InMuck(x) /\ mucker(x) = mucker(u) )
          BY <2>1, NewPipeMade
    <3>3. CASE t = u
      <4>1. InMuck(v) /\ mucker(v) = mucker(u)
            BY <2>0, <3>1, <3>3
      <4> QED BY <3>2, <3>3, <4>1
    <3>4. CASE v = u
      <4>1. InMuck(t) /\ mucker(t) = mucker(u)
            BY <2>0, <3>1, <3>4
      <4> QED BY <3>2, <4>1
    <3>5. CASE t # u /\ v # u
      <4>1. InMuck(t) /\ InMuck(v) /\ mucker(t) = mucker(v)
            BY <2>0, <3>5
      <4>2. met[t] = TRUE
            BY <3>5, <4>1 DEF Meeting
      <4> QED BY <3>2, <4>2, Zenon
    <3> QED BY <3>3, <3>4, <3>5
  <2>2. CASE SetData(u)
    <3>1. mucker(u)' = mucker(u) /\ InMuck(u) /\ met' = met
          BY <2>2 DEF SetData, mucker, InMuck, loopVars
    <3> QED BY <2>0, <3>1 DEF Meeting
  <2>3. CASE ~NewPipe(u) /\ ~SetData(u)
    <3>1. ~InMuck(u)'
          BY <1>3, <2>3 DEF Thread, Recv, CheckRules, MatchRules, ActNothing, ActDebug, ActFuzz,
                            Muck, MuckRaises, Finish, Send, Acted, Goto, Types,
                            ThreadTypes, InMuck
    <3>2. t # u /\ v # u
          BY <3>1
    <3>3. met'[t] = met[t]
          BY <1>3, <2>3, <3>2, MuckKept
    <3> QED BY <2>0, <3>2, <3>3 DEF Meeting
  <2> QED BY <2>1, <2>2, <2>3
<1> QED BY <1>2, <1>3 DEF Next, Conf

\* Every step keeps the pipes and the bytes of those who have met nobody.
LEMMA OwnPipeStep ==
    ASSUME Types, PipesPut, Meeting, OwnPipe, [Next]_vars
    PROVE  OwnPipe'
<1> SUFFICES ASSUME NEW t \in Threads, met'[t] = FALSE
             PROVE  /\ pc'[t] \in ({"check", "match"} \cup Later) \ {"muck"} =>
                             string'[t] = <<t, nth'[t]>>
                    /\ InMuck(t)' => mp'[mucker(t)'] = <<<<t, nth'[t]>>, Head(matching'[t])>>
                    /\ pc'[t] = "muck" => data'[mp'[mucker(t)']] = <<t, nth'[t]>>
    BY DEF OwnPipe
<1>1. ASSUME Same(t), met[t] = FALSE,
             InMuck(t) => mp'[mucker(t)] = mp[mucker(t)],
             pc[t] = "muck" => data'[mp[mucker(t)]] = data[mp[mucker(t)]]
      PROVE  /\ pc'[t] \in ({"check", "match"} \cup Later) \ {"muck"} =>
                      string'[t] = <<t, nth'[t]>>
             /\ InMuck(t)' => mp'[mucker(t)'] = <<<<t, nth'[t]>>, Head(matching'[t])>>
             /\ pc'[t] = "muck" => data'[mp'[mucker(t)']] = <<t, nth'[t]>>
  <2>1. /\ InMuck(t)' = InMuck(t) /\ mucker(t)' = mucker(t)
        /\ pc'[t] = pc[t] /\ string'[t] = string[t] /\ nth'[t] = nth[t]
        /\ matching'[t] = matching[t]
        BY <1>1 DEF Same, InMuck, mucker
  <2>2. pc[t] = "muck" => InMuck(t)
        BY DEF InMuck
  <2> QED BY <1>1, <2>1, <2>2 DEF OwnPipe
<1>2. CASE Conf \/ UNCHANGED vars
      BY <1>1, <1>2, ConfSame DEF Types
<1>3. ASSUME NEW u \in Threads, Thread(u), u # t
      PROVE  /\ pc'[t] \in ({"check", "match"} \cup Later) \ {"muck"} =>
                      string'[t] = <<t, nth'[t]>>
             /\ InMuck(t)' => mp'[mucker(t)'] = <<<<t, nth'[t]>>, Head(matching'[t])>>
             /\ pc'[t] = "muck" => data'[mp'[mucker(t)']] = <<t, nth'[t]>>
  <2>1. Same(t)
        BY <1>3, OthersSame DEF Types
  <2>2. met[t] = FALSE
    <3>1. met[t] = TRUE \/ met[t] = FALSE
          BY DEF Types, ThreadTypes
    <3>2. met[t] = TRUE => met'[t] = TRUE
      <4>1. CASE NewPipe(u)
            BY <4>1, NewPipeMade, Zenon
      <4>2. CASE ~NewPipe(u)
        <5>1. met'[t] = met[t]
              BY <1>3, <4>2, MuckKept
        <5> QED BY <5>1
      <4> QED BY <4>1, <4>2
    <3> QED BY <3>1, <3>2
  <2>3. InMuck(t) => /\ mucker(t) \in Muckers
                     /\ mp[mucker(t)] = <<<<t, nth[t]>>, Head(matching[t])>>
    <3>1. InMuck(t) => matching[t] # <<>>
          BY DEF InMuck, Types, Placed
    <3> QED BY <2>2, <3>1, MuckerIn DEF OwnPipe, Types
  <2>4. InMuck(t) => mp'[mucker(t)] = mp[mucker(t)]
    <3>1. CASE NewPipe(u)
          BY <2>3, <3>1, NewPipeMade
    <3>2. CASE ~NewPipe(u)
          BY <1>3, <3>2, MuckKept
    <3> QED BY <3>1, <3>2
  <2>5. ASSUME pc[t] = "muck"
        PROVE  data'[mp[mucker(t)]] = data[mp[mucker(t)]]
    <3>1. CASE SetData(u)
      <4>1. InMuck(t) /\ InMuck(u) /\ matching[u] # <<>>
            BY <2>5, <3>1 DEF InMuck, SetData, Types, Placed
      <4>2. mucker(u) # mucker(t)
            BY <1>3, <2>2, <4>1 DEF Meeting
      <4>3. mucker(u) \in Muckers /\ Head(matching[t]) \in Index /\ nth[t] \in 1 .. MaxChunks
        <5>1. matching[t] # <<>> /\ nth[t] \in 1 .. MaxChunks
              BY <2>5 DEF Types, Placed
        <5> QED BY <4>1, <5>1, MuckerIn DEF Types
      <4>4. mp[mucker(u)] # mp[mucker(t)]
        <5>1. SUFFICES ASSUME mp[mucker(u)] = <<<<t, nth[t]>>, Head(matching[t])>>
                       PROVE  FALSE
              BY <2>3, <4>1
        <5>2. mucker(u) = <<list[t], Head(matching[t])>>
              BY <4>3, <5>1 DEF PipesPut
        <5> QED BY <4>2, <5>2 DEF mucker
      <4>5. mp[mucker(t)] \in Pipes
            BY <2>5 DEF Types, Placed
      <4> QED BY <3>1, <4>4, <4>5 DEF SetData, Types, ThreadTypes
    <3>2. CASE ~SetData(u)
          BY <1>3, <3>2, MuckKept
    <3> QED BY <3>1, <3>2
  <2> QED BY <1>1, <2>1, <2>2, <2>4, <2>5
<1>4. ASSUME Thread(t)
      PROVE  /\ pc'[t] \in ({"check", "match"} \cup Later) \ {"muck"} =>
                      string'[t] = <<t, nth'[t]>>
             /\ InMuck(t)' => mp'[mucker(t)'] = <<<<t, nth'[t]>>, Head(matching'[t])>>
             /\ pc'[t] = "muck" => data'[mp'[mucker(t)']] = <<t, nth'[t]>>
  <2>1. CASE Recv(t)
    <3>1. pc'[t] = "check" /\ string'[t] = <<t, nth[t] + 1>> /\ nth'[t] = nth[t] + 1
          BY <2>1 DEF Recv, Goto, Types, ThreadTypes
    <3> QED BY <3>1 DEF InMuck
  <2>2. CASE NewPipe(t)
    <3>1. met[t] = FALSE
      <4>1. met[t] = TRUE => met'[t] = TRUE
            BY <2>2, NewPipeMade, Zenon
      <4>2. met[t] = TRUE \/ met[t] = FALSE
            BY DEF Types, ThreadTypes
      <4> QED BY <4>1, <4>2
    <3>2. mucker(t)' = mucker(t)
          BY <2>2, NewPipeMade DEF mucker
    <3>3. string[t] = <<t, nth[t]>>
          BY <2>2, <3>1, NewPipeMade DEF OwnPipe, Later
    <3> QED BY <2>2, <3>2, <3>3, NewPipeMade
  <2>3. CASE SetData(t)
    <3>1. /\ pc[t] = "set data" /\ pc'[t] = "muck"
          /\ UNCHANGED <<nth, matching, list, mp, met>>
          BY <2>3 DEF SetData, Goto, Types, ThreadTypes, loopVars
    <3>2. mucker(t)' = mucker(t) /\ mp[mucker(t)] \in Pipes
          BY <3>1 DEF mucker, Types, Placed
    <3>3. data'[mp[mucker(t)]] = string[t]
          BY <2>3, <3>2 DEF SetData, Types, ThreadTypes
    <3>4. string[t] = <<t, nth[t]>> /\ mp[mucker(t)] = <<<<t, nth[t]>>, Head(matching[t])>>
          BY <3>1 DEF OwnPipe, InMuck, Later
    <3> QED BY <3>1, <3>2, <3>3, <3>4
  <2>4. CASE Muck(t)
    <3>1. pc[t] = "muck" /\ pc'[t] = "act" /\ UNCHANGED <<nth, met>>
          BY <2>4 DEF Muck, Acted, Goto, Types, ThreadTypes, muckVars
    <3>2. string'[t] = data[mp[mucker(t)]]
          BY <2>4 DEF Muck, Types, ThreadTypes
    <3> QED BY <3>1, <3>2 DEF OwnPipe, InMuck
  <2>5. CASE MuckRaises(t) \/ Send(t)
    <3>1. pc'[t] \in {"ended", "recv", "dead"}
          BY <2>5 DEF MuckRaises, Send, Goto, Types, ThreadTypes
    <3> QED BY <3>1 DEF InMuck, Later
  <2>6. CASE CheckRules(t) \/ MatchRules(t) \/ Finish(t)
    <3>1. /\ UNCHANGED <<nth, met, string>> /\ pc[t] \in {"check", "match", "act"}
          /\ pc'[t] \in {"match", "send", "act", "dead"}
          BY <2>6 DEF CheckRules, MatchRules, Finish, Goto, Types, ThreadTypes, loopVars,
             muckVars
    <3>2. string[t] = <<t, nth[t]>>
          BY <3>1 DEF OwnPipe, Later
    <3> QED BY <3>1, <3>2 DEF InMuck
  <2>7. CASE ActNothing(t) \/ ActDebug(t) \/ ActFuzz(t)
    <3>1. UNCHANGED <<met, string>> /\ pc[t] = "act" /\ Acted(t)
          BY <2>7 DEF ActNothing, ActDebug, ActFuzz, Acting, muckVars
    <3>2. nth' = nth /\ pc'[t] = "act"
          BY <3>1 DEF Acted, Goto, Types, ThreadTypes
    <3>3. string[t] = <<t, nth[t]>>
          BY <3>1 DEF OwnPipe, Later
    <3> QED BY <3>1, <3>2, <3>3 DEF InMuck
  <2> QED BY <1>4, <2>1, <2>2, <2>3, <2>4, <2>5, <2>6, <2>7 DEF Thread
<1> QED BY <1>2, <1>3, <1>4 DEF Next, Conf

\* What comes after what was done is the first of what is yet to be done.
LEMMA NextComes ==
    ASSUME NEW S, NEW a \in Seq(S), NEW m \in Seq(S), m # <<>>
    PROVE  Len(a) + 1 \in 1 .. Len(a \o m) /\ (a \o m)[Len(a) + 1] = Head(m)
<1>1. Len(a) \in Nat /\ Len(m) \in Nat /\ Len(m) # 0 /\ Head(m) = m[1]
      OBVIOUS
<1>2. Len(a \o m) = Len(a) + Len(m)
      OBVIOUS
<1>3. (a \o m)[Len(a) + 1] = m[1]
      BY <1>1
<1> QED BY <1>1, <1>2, <1>3

\* Every step keeps what is known of the threads that died.
LEMMA DiedStep ==
    ASSUME Types, LoopEntered, DiesInTwoWays, \A t \in Threads : OnChain(t), [Next]_vars
    PROVE  DiesInTwoWays'
<1> DEFINE Raised(t) == /\ matching[t] # <<>>
                        /\ match(array(t)[Head(matching[t])], t)
                        /\ array(t)[Head(matching[t])].action = "bad muck"
<1> SUFFICES ASSUME NEW t \in Threads, pc'[t] = "dead"
             PROVE  (array(t)' = <<>> /\ list'[t] > 0) \/ Raised(t)'
    BY DEF DiesInTwoWays
<1>0. ASSUME UNCHANGED <<matching[t], payload[t], array(t)>>
      PROVE  Raised(t)' = Raised(t)
      BY <1>0 DEF match
<1>1. ASSUME Same(t)
      PROVE  (array(t)' = <<>> /\ list'[t] > 0) \/ Raised(t)'
  <2>1. array(t)' = array(t) /\ list'[t] = list[t] /\ pc[t] = "dead"
        BY <1>1 DEF Same, array
  <2>2. Raised(t)' = Raised(t)
        BY <1>0, <1>1, <2>1 DEF Same
  <2>3. (array(t) = <<>> /\ list[t] > 0) \/ Raised(t)
        BY <2>1 DEF DiesInTwoWays
  <2> QED BY <2>1, <2>2, <2>3
<1>2. CASE Conf \/ UNCHANGED vars
      BY <1>1, <1>2, ConfSame DEF Types
<1>3. ASSUME NEW u \in Threads, Thread(u), t # u
      PROVE  (array(t)' = <<>> /\ list'[t] > 0) \/ Raised(t)'
      BY <1>1, <1>3, OthersSame DEF Types
<1>4. ASSUME MatchRules(t)
      PROVE  array(t)' = <<>> /\ list'[t] > 0
  <2>2. /\ pc[t] = "match" /\ list'[t] = rules[t[1]] /\ ruleset' = ruleset
        /\ ruleset[rules[t[1]]] = <<>>
        BY <1>4 DEF MatchRules, Goto, Types, ThreadTypes, confVars
  <2>3. rules[t[1]] \in 0 .. gen
    <3>1. t[1] \in attached
          BY <2>2 DEF Types, Placed
    <3> QED BY <3>1 DEF Types, ConfTypes
  <2>4. rules[t[1]] # 0
        BY <2>2 DEF LoopEntered, array
  <2> QED BY <2>2, <2>3, <2>4 DEF array
<1>5. ASSUME MuckRaises(t)
      PROVE  Raised(t)'
  <2>1. /\ pc[t] = "muck" /\ matching'[t] = matching[t] /\ list' = list
        /\ payload' = payload /\ ruleset' = ruleset
        /\ array(t)[Head(matching[t])].action = "bad muck"
        BY <1>5 DEF MuckRaises, Goto, Types, ThreadTypes, confVars
  <2>2. matching[t] \in Seq(Index) /\ acted[t] \in Seq(Index) /\ matching[t] # <<>>
        BY <2>1 DEF Types, ThreadTypes, Placed
  <2>3. match(array(t)[Head(matching[t])], t)
    <3> DEFINE s == acted[t] \o matching[t]
               k == Len(acted[t]) + 1
    <3>1. k \in 1 .. Len(s) /\ s[k] = Head(matching[t])
          BY <2>2, NextComes
    <3>2. Chain(s, 1, Len(array(t)), Matching(list[t], t), Passing(list[t]))
          BY <2>1 DEF OnChain, Later
    <3> HIDE DEF s, k
    <3>3. s[k] \in Matching(list[t], t)
          BY <3>1, <3>2 DEF Chain
    <3> QED BY <3>1, <3>3 DEF Matching, array
  <2>4. array(t)' = array(t)
        BY <2>1 DEF array
  <2> QED BY <1>0, <2>1, <2>2, <2>3, <2>4
<1>6. Thread(t) => MatchRules(t) \/ MuckRaises(t)
      BY DEF Thread, Recv, CheckRules, ActNothing, ActDebug, ActFuzz, NewPipe,
             SetData, Muck, Finish, Send, Acted, Goto, Types, ThreadTypes
<1> QED BY <1>2, <1>3, <1>4, <1>5, <1>6 DEF Next, Conf

-----------------------------------------------------------------------------

\* At the start nobody has received anything.
LEMMA InitInv ==
    Init => Inv
<1> SUFFICES ASSUME Init PROVE Inv
    OBVIOUS
<1>1. ConfTypes
  <2>1. gen = 0 /\ 0 \in 0 .. MaxUpdates
        BY BoundsAssumption DEF Init
  <2>2. \A g \in 0 .. gen : ruleset[g] \in RuleSets[g]
        BY <2>1 DEF Init
  <2>3. rules \in [Instances -> (0 .. gen) \cup {NoRules}]
        BY <2>1 DEF Init
  <2>4. attached \subseteq Instances /\ \A i \in attached : rules[i] \in 0 .. gen
        BY <2>1, UdpAssumption DEF Init
  <2>5. calls \subseteq 1 .. gen /\ todo \subseteq calls \X Instances
        BY DEF Init
  <2> QED BY <2>1, <2>2, <2>3, <2>4, <2>5 DEF ConfTypes
<1>2. ThreadTypes
  <2>1. gen = 0 /\ 0 \in 0 .. MaxChunks /\ 0 \in 0 .. gen /\ <<>> \in Seq(Index)
        BY BoundsAssumption DEF Init
  <2>2. /\ pc \in [Threads -> {"recv", "check", "match", "ended", "dead"} \cup Later]
        /\ nth \in [Threads -> 0 .. MaxChunks] /\ list \in [Threads -> 0 .. gen]
        /\ matching \in [Threads -> Seq(Index)] /\ acted \in [Threads -> Seq(Index)]
        BY <2>1 DEF Init
  <2>3. /\ payload \in [Threads -> SUBSET Patterns]
        /\ string \in [Threads -> Chunks \cup {NoData}]
        /\ shoulddebug \in [Threads -> BOOLEAN] /\ wasFuzzed \in [Threads -> BOOLEAN]
        /\ met \in [Threads -> BOOLEAN]
        BY DEF Init
  <2>4. /\ mp \in [Muckers -> Pipes \cup {NoData}] /\ data \in [Pipes -> Chunks \cup {NoData}]
        /\ fuzzed \in [Threads -> SUBSET Index] /\ rows \in [Threads -> Nat]
        BY DEF Init
  <2> QED BY <2>2, <2>3, <2>4 DEF ThreadTypes
<1>3. \A t \in Threads : pc[t] = "recv" /\ matching[t] = <<>>
      BY DEF Init
<1>4. Placed
      BY <1>3 DEF Placed
<1>5. Told
      BY DEF Told, Init
<1>6. LoopEntered /\ DiesInTwoWays
      BY <1>3 DEF LoopEntered, DiesInTwoWays
<1>7. \A t \in Threads : OnChain(t) /\ Debugs(t) /\ Fuzzes(t)
      BY <1>3 DEF OnChain, Debugs, Fuzzes, Later
<1>8. PipesPut
  <2>1. ASSUME NEW a \in Muckers, NEW t \in Threads, NEW n \in 1 .. MaxChunks, NEW k \in Index
        PROVE  mp[a] # <<<<t, n>>, k>>
    <3>1. <<<<t, n>>, k>> \in Pipes /\ mp[a] = NoData
          BY DEF Pipes, Chunks, Init
    <3> QED BY <3>1, NoDataAssumption
  <2> QED BY <2>1 DEF PipesPut
<1>9. OwnPipe /\ Meeting
      BY <1>3 DEF OwnPipe, Meeting, InMuck, Later
<1> QED BY <1>1, <1>2, <1>4, <1>5, <1>6, <1>7, <1>8, <1>9 DEF Inv, Types

\* Every step of the threads, of update_rules and of the accept loop keeps the
\* invariant.
LEMMA InvStep ==
    Inv /\ [Next]_vars => Inv'
<1> SUFFICES ASSUME Inv, [Next]_vars PROVE Inv'
    OBVIOUS
<1>1. /\ Types /\ Told /\ LoopEntered /\ PipesPut /\ OwnPipe /\ Meeting
      /\ DiesInTwoWays
      /\ \A t \in Threads : OnChain(t) /\ Debugs(t) /\ Fuzzes(t)
      BY DEF Inv
<1>2. Types'
      BY <1>1, TypesStep
<1>3. Told' /\ LoopEntered'
      BY <1>1, ToldStep, LoopEnteredStep
<1>4. PipesPut' /\ Meeting'
      BY <1>1, PipesPutStep, MeetingStep
<1>5. OwnPipe' /\ DiesInTwoWays'
      BY <1>1, OwnPipeStep, DiedStep
<1>6. ASSUME NEW t \in Threads
      PROVE  OnChain(t)' /\ Debugs(t)' /\ Fuzzes(t)'
  <2>1. CASE Same(t)
        BY <1>1, <2>1, OnChainSame, LocalSame
  <2>2. CASE Thread(t)
        BY <1>1, <2>2, OnChainStep, DebugsStep, FuzzesStep
  <2>3. Conf \/ UNCHANGED vars => Same(t)
        BY <1>1, ConfSame DEF Types
  <2>4. ASSUME NEW u \in Threads, Thread(u), t # u
        PROVE  Same(t)
        BY <1>1, <2>4, OthersSame DEF Types
  <2> QED BY <2>1, <2>2, <2>3, <2>4 DEF Next, Conf
<1> QED BY <1>2, <1>3, <1>4, <1>5, <1>6 DEF Inv

\* Whatever the threads, the accept loop and the calls of update_rules do, every
\* variable has its type, each chain is on its course, and every pipe is where its
\* maker put it.
THEOREM Invariance == Spec => []Inv
<1>1. Init => Inv
      BY InitInv
<1>2. Inv /\ [Next]_vars => Inv'
      BY InvStep
<1> QED BY <1>1, <1>2, PTL DEF Spec

\* However updates fall, the rules that processrules lets act on a chunk are those of
\* one array, up to the first that matched and is not passthru.
THEOREM ChainIsTheRules == Spec => []ChainActs
<1>1. ASSUME Inv, NEW t \in Threads, pc[t] = "send"
      PROVE  /\ \A k \in 1 .. Len(acted[t]) - 1 : acted[t][k] < acted[t][k + 1]
             /\ {acted[t][k] : k \in 1 .. Len(acted[t])} =
                  {i \in 1 .. Len(array(t)) :
                     /\ match(array(t)[i], t)
                     /\ \A j \in 1 .. i - 1 :
                           match(array(t)[j], t) => passthru(list[t], array(t)[j])}
  <2>1. matching[t] = <<>> /\ acted[t] \in Seq(Index)
        BY <1>1 DEF Inv, Types, Placed, ThreadTypes
  <2>2. Chain(acted[t] \o matching[t], 1, Len(array(t)), Matching(list[t], t), Passing(list[t]))
        BY <1>1 DEF Inv, OnChain, Later
  <2>3. acted[t] \o matching[t] = acted[t]
        BY <2>1
  <2>4. Chain(acted[t], 1, Len(array(t)), Matching(list[t], t), Passing(list[t]))
        BY <2>2, <2>3
  <2>5. Len(array(t)) \in Nat
    <3>1. list[t] \in 0 .. gen
          BY <1>1 DEF Inv, Types, ThreadTypes
    <3>2. array(t) \in Seq(Rules)
          BY <1>1, <3>1, Arrays DEF Inv, Types, array
    <3> QED BY <3>2
  <2>6. ASSUME NEW i \in 1 .. Len(array(t))
        PROVE  /\ i \in Matching(list[t], t) <=> match(array(t)[i], t)
               /\ i \in Passing(list[t]) <=> passthru(list[t], array(t)[i])
        BY Zenon DEF Matching, Passing, array
  <2>7. ASSUME NEW i \in 1 .. Len(array(t))
        PROVE  (\A j \in 1 .. i - 1 : j \in Matching(list[t], t) => j \in Passing(list[t]))
               <=> (\A j \in 1 .. i - 1 :
                       match(array(t)[j], t) => passthru(list[t], array(t)[j]))
    <3>1. \A j \in 1 .. i - 1 : j \in 1 .. Len(array(t))
          BY <2>5
    <3> QED BY <2>6, <3>1, Zenon
  <2>8. {acted[t][k] : k \in 1 .. Len(acted[t])} =
          {i \in 1 .. Len(array(t)) : i \in Matching(list[t], t) /\
             \A j \in 1 .. i - 1 : j \in Matching(list[t], t) => j \in Passing(list[t])}
        BY <2>4, Zenon DEF Chain
  <2>9. {i \in 1 .. Len(array(t)) : i \in Matching(list[t], t) /\
           \A j \in 1 .. i - 1 : j \in Matching(list[t], t) => j \in Passing(list[t])} =
        {i \in 1 .. Len(array(t)) :
           /\ match(array(t)[i], t)
           /\ \A j \in 1 .. i - 1 :
                 match(array(t)[j], t) => passthru(list[t], array(t)[j])}
        BY <2>6, <2>7, Zenon
  <2>10. \A k \in 1 .. Len(acted[t]) - 1 : acted[t][k] < acted[t][k + 1]
        BY <2>4, Zenon DEF Chain
  <2> QED BY <2>8, <2>9, <2>10, Zenon
<1>2. Inv => ChainActs
      BY <1>1, Zenon DEF ChainActs
<1> QED BY <1>2, Invariance, PTL

\* Muck.execute gives a thread back what was made from its own bytes, as long as no
\* other thread was in the same Muck object with it.
THEOREM AloneMeansOwnBytes == Spec => []LoneMuckOwnData
<1>1. Inv => LoneMuckOwnData
  <2> SUFFICES ASSUME Inv, NEW t \in Threads, pc[t] = "send", ~met[t]
               PROVE  string[t] = <<t, nth[t]>>
      BY DEF LoneMuckOwnData
  <2>1. met[t] = FALSE
    <3>1. met[t] \in BOOLEAN
          BY DEF Inv, Types, ThreadTypes
    <3> QED BY <3>1, Zenon
  <2> QED BY <2>1 DEF Inv, OwnPipe, Later
<1> QED BY <1>1, Invariance, PTL

\* A set with at most one element has no two.
LEMMA AtMostOne ==
    ASSUME NEW S, IsFiniteSet(S), Cardinality(S) <= 1, NEW x \in S, NEW y \in S
    PROVE  x = y
<1> SUFFICES ASSUME x # y PROVE FALSE
    OBVIOUS
<1>1. IsFiniteSet({x}) /\ Cardinality({x}) = 1
      BY FS_Singleton
<1>2. IsFiniteSet({x} \cup {y}) /\ Cardinality({x} \cup {y}) = 2
  <2>1. y \notin {x}
        OBVIOUS
  <2>2. Cardinality({x} \cup {y}) = Cardinality({x}) + 1 /\ IsFiniteSet({x} \cup {y})
        BY <1>1, <2>1, FS_AddElement, Zenon
  <2> QED BY <1>1, <2>2
<1>3. {x} \cup {y} \subseteq S
      OBVIOUS
<1>4. Cardinality({x} \cup {y}) <= Cardinality(S)
      BY <1>3, FS_Subset
<1>5. Cardinality(S) \in Nat
      BY FS_CardinalityType
<1> QED BY <1>2, <1>4, <1>5

\* TcpProtocol and UdpProtocol record what one fuzz rule did to a chunk, and nothing
\* else.
THEOREM FuzzIsRecorded == Spec => []LoneFuzzRecorded
<1>1. ASSUME Inv, NEW t \in Threads, pc[t] = "send",
             Cardinality(Acts(array(t), acted[t], "fuzz")) <= 1
      PROVE  rows[t] = Cardinality(fuzzed[t])
  <2> DEFINE A == Acts(array(t), acted[t], "fuzz")
  <2>1. IsFiniteSet(A)
    <3>1. Len(acted[t]) \in Nat
          BY <1>1 DEF Inv, Types, ThreadTypes
    <3>2. IsFiniteSet(1 .. Len(acted[t]))
          BY <3>1, FS_Interval
    <3>3. A \subseteq 1 .. Len(acted[t])
          BY DEF Acts
    <3> QED BY <3>2, <3>3, FS_Subset
  <2>2. Lone(t)
    <3> HIDE DEF A
    <3>1. \A j, k \in A : j = k
          BY <1>1, <2>1, AtMostOne DEF A
    <3> QED BY <3>1, Zenon DEF A, Lone
  <2>3. /\ rows[t] = IF wasFuzzed[t] = TRUE THEN 1 ELSE 0
        /\ A = {} => wasFuzzed[t] = FALSE /\ fuzzed[t] = {}
        /\ \A k \in A : fuzzed[t] = IF wasFuzzed[t] = TRUE THEN {acted[t][k]} ELSE {}
        BY <1>1, <2>2 DEF Inv, Fuzzes, Later
  <2> HIDE DEF A
  <2>4. Cardinality({}) = 0 /\ \A x : Cardinality({x}) = 1
        BY FS_EmptySet, FS_Singleton
  <2>5. CASE A = {}
        BY <2>3, <2>4, <2>5
  <2>6. CASE A # {}
    <3>1. PICK k \in A : TRUE
          BY <2>6
    <3> QED BY <2>3, <2>4, <3>1
  <2> QED BY <2>5, <2>6
<1>2. Inv => LoneFuzzRecorded
      BY <1>1, Zenon DEF LoneFuzzRecorded, Acts
<1> QED BY <1>2, Invariance, PTL

\* TcpProtocol hands a chunk to the debugger exactly if a debug rule acted on it.
THEOREM DebugIsHeeded == Spec => []DebugRuleHeeded
<1>1. ASSUME Inv, NEW t \in Threads, pc[t] = "send", ~IsUdp(t)
      PROVE  shoulddebug[t] = (\E k \in 1 .. Len(acted[t]) :
                                   array(t)[acted[t][k]].action = "debug")
  <2>1. shoulddebug[t] \in BOOLEAN
        BY <1>1 DEF Inv, Types, ThreadTypes
  <2>2. shoulddebug[t] = TRUE <=> Acts(array(t), acted[t], "debug") # {}
        BY <1>1 DEF Inv, Debugs, Later
  <2>3. Acts(array(t), acted[t], "debug") # {} <=>
          \E k \in 1 .. Len(acted[t]) : array(t)[acted[t][k]].action = "debug"
        BY DEF Acts
  <2> QED BY <2>1, <2>2, <2>3, Zenon
<1>2. Inv => DebugRuleHeeded
      BY <1>1, Zenon DEF DebugRuleHeeded
<1> QED BY <1>2, Invariance, PTL

\* Once the loop of update_rules has ended, whoever is attached has the array it
\* brought, but for the instances made and not yet attached when the call began.
THEOREM UpdateIsHeard == Spec => []UpdateReachesAll
<1>1. Inv => UpdateReachesAll
  <2> SUFFICES ASSUME Inv, calls = {}, ~overlap, NEW i \in attached
               PROVE  rules[i] = gen \/ i \in gap
      BY DEF UpdateReachesAll
  <2>1. ConfTypes /\ Told
        BY DEF Inv, Types
  <2>2. i \in Instances /\ rules[i] \in 0 .. gen
        BY <2>1 DEF ConfTypes
  <2>3. rules[i] # NoRules
    <3>1. rules[i] \in Gens
          BY <2>1, <2>2, Arrays
    <3> QED BY <3>1, NoRulesAssumption
  <2>4. todo = {}
        BY <2>1 DEF ConfTypes
  <2> QED BY <2>1, <2>2, <2>3, <2>4 DEF Told
<1> QED BY <1>1, Invariance, PTL

\* processrules ends a thread of TcpProtocol in two cases only: the rules it had seen
\* were all taken away by an update before its loop read them, or a muck of a rule
\* that matched the chunk made re.sub raise.
THEOREM DeathHasTwoCauses == Spec => []DiesInTwoWays
<1>1. Inv => DiesInTwoWays
      BY DEF Inv
<1> QED BY <1>1, Invariance, PTL

=============================================================================
