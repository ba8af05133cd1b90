----------------------------- MODULE RuleChain -----------------------------
(***************************************************************************)
(* The rules: processrules of TcpProtocol and of UdpProtocol, executed by  *)
(* the threads that move data, while ConfigRules.update_rules replaces the *)
(* rules of one protocol instance after the other.  The UDP instance is    *)
(* there from the start; the accept loop makes the others meanwhile, each  *)
(* with a copy of the rules, and attaches them for updates after that.     *)
(*                                                                         *)
(* All instances hold the same Rule objects, and so share each rule's      *)
(* action.  Muck.execute keeps its pipe in that action (self.mp), where    *)
(* the next thread finds it.  A rule tests address, port, direction and    *)
(* payload; address and port are compared as the direction is, and left    *)
(* out.  What the bytes say is abstracted to the chunk they belong to.     *)
(***************************************************************************)
EXTENDS Naturals, Sequences, FiniteSets

CONSTANTS
    Threads,     \* <<protocol instance, direction>>
    Udp,         \* the instance that is the UdpProtocol
    Patterns,    \* what a rule may look for in a payload
    RuleSets,    \* the rule arrays there may be at startup (0), and that each
                 \* update may bring
    MaxRules,    \* bound: rules in an array
    MaxChunks,   \* bound: chunks for each thread
    MaxUpdates,  \* bound: calls of update_rules
    NoData,      \* the empty string; no pipe
    NoRules      \* the rules of an instance that has yet to be made

Instances == {t[1] : t \in Threads}
Chunks    == Threads \X (1 .. MaxChunks)
Index     == 1 .. MaxRules
Gens      == 0 .. MaxUpdates
Muckers   == Gens \X Index      \* the Muck objects: which array, which rule
Pipes     == Chunks \X Index    \* the MuckPipe objects: who made it, and for what

\* Muckr.fromstr takes any text for an expression.  With that of a "bad muck"
\* re.sub raises, for every payload (no such group) or for some (a group without
\* a match).
Mucks == {"muck", "bad muck"}

\* passthru is the text of the rule's option, "absent" if it has none.
Rules == [direction : {"c2s", "s2c", "*"}, payload : Patterns \cup {"*"},
          passthru : {"True", "False", "absent"},
          action : {"nothing", "debug", "fuzz"} \cup Mucks]

ASSUME UdpAssumption == Udp \in Instances
ASSUME RuleSetsAssumption ==
    \A g \in Gens : \A rs \in RuleSets[g] : rs \in Seq(Rules) /\ Len(rs) <= MaxRules
ASSUME BoundsAssumption == MaxRules \in Nat /\ MaxChunks \in Nat /\ MaxUpdates \in Nat
ASSUME NoRulesAssumption == NoRules \notin Gens
ASSUME NoDataAssumption == NoData \notin Chunks /\ NoData \notin Pipes

VARIABLES
    gen,         \* number of update_rules calls so far
    ruleset,     \* the array each of them brought; 0 is rules.ini at startup
    rules,       \* Protocol.rules: which array each instance has
    todo,        \* whom each call in progress has yet to tell, as <<call, instance>>
    calls,       \* the calls in progress
    attached,    \* the instances that are attached
    gap,         \* history: instances between their copy of the rules and their
                 \* attachment when the last call began
    overlap,     \* history: two calls were in progress at once
    pc,          \* where each thread is
    nth,         \* chunks it has received
    payload,     \* patterns in the chunk it works on
    string,      \* the chunk whose bytes its variable string holds
    list,        \* the array its loop went over
    matching,    \* matchingrules: indices yet to be acted on
    shoulddebug, \* the result for the debugger
    wasFuzzed,   \* was_fuzzed
    mp,          \* Muck.mp: the pipe in each Muck object
    data,        \* MuckPipe.data
    acted,       \* history: the indices the thread acted on
    fuzzed,      \* history: those that changed the bytes
    rows,        \* history: rows it queued for the fuzz tables
    met          \* history: two threads were in one Muck object together

confVars == <<gen, ruleset, rules, todo, calls, attached, gap, overlap>>
fuzzVars == <<wasFuzzed, fuzzed, rows>>
loopVars == <<nth, payload, list, matching, acted, shoulddebug>>
muckVars == <<mp, data, met>>
vars == <<confVars, pc, string, fuzzVars, loopVars, muckVars>>

Init ==
    /\ gen = 0
    /\ ruleset \in [{0} -> RuleSets[0]]
    /\ rules = [i \in Instances |-> IF i = Udp THEN 0 ELSE NoRules]
    /\ attached = {Udp}
    /\ todo = {} /\ calls = {}
    /\ gap = {} /\ overlap = FALSE
    /\ pc = [t \in Threads |-> "recv"]
    /\ nth = [t \in Threads |-> 0]
    /\ payload = [t \in Threads |-> {}]
    /\ string = [t \in Threads |-> NoData]
    /\ list = [t \in Threads |-> 0]
    /\ matching = [t \in Threads |-> <<>>]
    /\ shoulddebug = [t \in Threads |-> FALSE]
    /\ wasFuzzed = [t \in Threads |-> FALSE]
    /\ mp = [a \in Muckers |-> NoData]
    /\ data = [p \in Pipes |-> NoData]
    /\ acted = [t \in Threads |-> <<>>]
    /\ fuzzed = [t \in Threads |-> {}]
    /\ rows = [t \in Threads |-> 0]
    /\ met = [t \in Threads |-> FALSE]

(***************************************************************************)
(* ConfigRules.                                                            *)
(***************************************************************************)

threadVars == <<pc, string, fuzzVars, loopVars, muckVars>>

\* The array is replaced, and notify starts with those attached; whoever is
\* attached while it runs is told too.
UpdateRules(rs) ==
    /\ gen < MaxUpdates
    /\ gen' = gen + 1
    /\ ruleset' = [g \in 0 .. gen + 1 |-> IF g = gen + 1 THEN rs ELSE ruleset[g]]
    /\ calls' = calls \cup {gen + 1}
    /\ todo' = todo \cup {<<gen + 1, i>> : i \in attached}
    /\ gap' = {i \in Instances \ attached : rules[i] # NoRules}
    /\ overlap' = (calls # {})
    /\ UNCHANGED <<rules, attached, threadVars>>

\* notify comes to one more instance.
Tell(g, i) ==
    /\ <<g, i>> \in todo
    /\ todo' = todo \ {<<g, i>>}
    /\ rules' = [rules EXCEPT ![i] = g]
    /\ UNCHANGED <<gen, ruleset, calls, attached, gap, overlap, threadVars>>

\* The loop has come to the end of the list.  All that update_rules does after it is
\* to return.
NotifyEnds(g) ==
    /\ g \in calls
    /\ \A i \in Instances : <<g, i>> \notin todo
    /\ calls' = calls \ {g}
    /\ UNCHANGED <<gen, ruleset, rules, todo, attached, gap, overlap, threadVars>>

(***************************************************************************)
(* The accept loop.                                                        *)
(***************************************************************************)

\* Faulty variant: the rules of the start are taken.
SetRulesOfStart(i) ==
    /\ rules[i] = NoRules
    /\ rules' = [rules EXCEPT ![i] = 0]
    /\ UNCHANGED <<gen, ruleset, todo, calls, attached, gap, overlap, threadVars>>

\* setrules(get_rules()).
SetRules(i) ==
    /\ rules[i] = NoRules
    /\ rules' = [rules EXCEPT ![i] = gen]
    /\ UNCHANGED <<gen, ruleset, todo, calls, attached, gap, overlap, threadVars>>

Attach(i) ==
    /\ i \notin attached
    /\ rules[i] # NoRules
    /\ attached' = attached \cup {i}
    /\ todo' = todo \cup {<<g, i>> : g \in calls}
    /\ UNCHANGED <<gen, ruleset, rules, calls, gap, overlap, threadVars>>

(***************************************************************************)
(* A thread that moves data.                                               *)
(***************************************************************************)

Goto(t, l) == pc' = [pc EXCEPT ![t] = l]
array(t)   == ruleset[list[t]]
mucker(t)  == <<list[t], Head(matching[t])>>
IsUdp(t)   == t[1] = Udp

match(r, t) ==
    /\ r.direction \in {"*", t[2]}
    /\ r.payload = "*" \/ r.payload \in payload[t]

\* A rule that came over the wire had its passthru converted (make_bool); one
\* from rules.ini keeps the text, and any text at all counts as true.
passthru(g, r) == IF g = 0 THEN r.passthru # "absent" ELSE r.passthru = "True"

\* Faulty variant: no rule ends the chain.
MatchingRulesAll(g, t) ==
    SelectSeq([i \in 1 .. Len(ruleset[g]) |-> i], LAMBDA i : match(ruleset[g][i], t))

\* The indices of the rules to act on, among those from each index on: up to the
\* first that is not passthru.
MatchingFrom(g, t) ==
    LET rs == ruleset[g]
        from[i \in 1 .. Len(rs) + 1] ==
            IF i > Len(rs) THEN <<>>
            ELSE IF ~match(rs[i], t) THEN from[i + 1]
            ELSE IF passthru(g, rs[i]) THEN <<i>> \o from[i + 1] ELSE <<i>>
    IN from

MatchingRules(g, t) == MatchingFrom(g, t)[1]

Recv(t) ==
    /\ t[1] \in attached
    /\ pc[t] = "recv"
    /\ nth[t] < MaxChunks
    /\ nth' = [nth EXCEPT ![t] = @ + 1]
    /\ string' = [string EXCEPT ![t] = <<t, nth[t] + 1>>]
    /\ \E ps \in SUBSET Patterns : payload' = [payload EXCEPT ![t] = ps]
    /\ shoulddebug' = [shoulddebug EXCEPT ![t] = FALSE]
    /\ wasFuzzed' = [wasFuzzed EXCEPT ![t] = FALSE]
    /\ acted' = [acted EXCEPT ![t] = <<>>]
    /\ fuzzed' = [fuzzed EXCEPT ![t] = {}]
    /\ rows' = [rows EXCEPT ![t] = 0]
    /\ met' = [met EXCEPT ![t] = FALSE]
    /\ Goto(t, "check")
    /\ UNCHANGED <<confVars, list, matching, mp, data>>

\* Faulty variant: an empty array goes through the loop like any other.
CheckRulesNever(t) ==
    /\ pc[t] = "check"
    /\ list' = [list EXCEPT ![t] = rules[t[1]]]
    /\ Goto(t, "match")
    /\ UNCHANGED <<confVars, string, fuzzVars, nth, payload, matching, acted,
                   shoulddebug, muckVars>>

\* An empty array: the chunk is left as it is.
CheckRules(t) ==
    /\ pc[t] = "check"
    /\ list' = [list EXCEPT ![t] = rules[t[1]]]
    /\ Goto(t, IF ruleset[rules[t[1]]] = <<>> THEN "send" ELSE "match")
    /\ UNCHANGED <<confVars, string, fuzzVars, nth, payload, matching, acted,
                   shoulddebug, muckVars>>

\* The loop reads self.rules again.  If the array is empty by now, matched was
\* never assigned and TcpProtocol's log line raises.
MatchRules(t) ==
    /\ pc[t] = "match"
    /\ list' = [list EXCEPT ![t] = rules[t[1]]]
    /\ matching' = [matching EXCEPT ![t] = MatchingRules(rules[t[1]], t)]
    /\ Goto(t, IF ruleset[rules[t[1]]] = <<>> /\ ~IsUdp(t) THEN "dead" ELSE "act")
    /\ UNCHANGED <<confVars, string, fuzzVars, nth, payload, acted, shoulddebug,
                   muckVars>>

\* The next matching rule, with this action; on to the one after it.
Acting(t, a) ==
    /\ pc[t] = "act"
    /\ matching[t] # <<>>
    /\ array(t)[Head(matching[t])].action = a

Acted(t) ==
    /\ matching' = [matching EXCEPT ![t] = Tail(@)]
    /\ acted' = [acted EXCEPT ![t] = Append(@, Head(matching[t]))]
    /\ Goto(t, "act")
    /\ UNCHANGED <<confVars, nth, payload, list>>

\* Faulty variant: shoulddebug is assigned, not raised, by every rule.
ActNothingResets(t) ==
    /\ Acting(t, "nothing")
    /\ Acted(t)
    /\ shoulddebug' = [shoulddebug EXCEPT ![t] = FALSE]
    /\ UNCHANGED <<string, fuzzVars, muckVars>>

ActNothing(t) ==
    /\ Acting(t, "nothing")
    /\ Acted(t)
    /\ UNCHANGED <<string, fuzzVars, shoulddebug, muckVars>>

\* UdpProtocol has no debugger.
ActDebug(t) ==
    /\ Acting(t, "debug")
    /\ Acted(t)
    /\ shoulddebug' = [shoulddebug EXCEPT ![t] = ~IsUdp(t)]
    /\ UNCHANGED <<string, fuzzVars, muckVars>>

\* fuzz.fuzz may or may not touch the bytes; UdpProtocol queues a row at once.
ActFuzz(t) ==
    /\ Acting(t, "fuzz")
    /\ Acted(t)
    /\ \E touched \in BOOLEAN :
          /\ wasFuzzed' = [wasFuzzed EXCEPT ![t] = touched]
          /\ fuzzed' = [fuzzed EXCEPT ![t] =
                          IF touched THEN @ \cup {Head(matching[t])} ELSE @]
          /\ rows' = [rows EXCEPT ![t] = IF touched /\ IsUdp(t) THEN @ + 1 ELSE @]
    /\ UNCHANGED <<string, shoulddebug, muckVars>>

\* Muck.execute, line by line: a new pipe, its data, and what it makes of it.
\* Each line reads self.mp anew.
InMuck(t) == pc[t] \in {"set data", "muck"}

NewPipe(t) ==
    /\ \E a \in Mucks : Acting(t, a)
    /\ Goto(t, "set data")
    /\ mp' = [mp EXCEPT ![mucker(t)] = <<<<t, nth[t]>>, Head(matching[t])>>]
    /\ LET others == {u \in Threads : InMuck(u) /\ mucker(u) = mucker(t)} IN
         met' = [u \in Threads |->
                   met[u] \/ u \in others \/ (u = t /\ others # {})]
    /\ UNCHANGED <<confVars, string, fuzzVars, loopVars, data>>

\* Faulty variant: the pipe never gets its data.
SetDataForgotten(t) ==
    /\ pc[t] = "set data"
    /\ Goto(t, "muck")
    /\ UNCHANGED <<confVars, string, fuzzVars, loopVars, muckVars>>

SetData(t) ==
    /\ pc[t] = "set data"
    /\ Goto(t, "muck")
    /\ data' = [data EXCEPT ![mp[mucker(t)]] = string[t]]
    /\ UNCHANGED <<confVars, string, fuzzVars, loopVars, mp, met>>

Muck(t) ==
    /\ pc[t] = "muck"
    /\ Acted(t)
    /\ string' = [string EXCEPT ![t] = data[mp[mucker(t)]]]
    /\ UNCHANGED <<fuzzVars, shoulddebug, muckVars>>

\* re.sub raises.  That ends a TCP thread; UdpProtocol's loops catch it, and the
\* datagram is gone.
MuckRaises(t) ==
    /\ pc[t] = "muck"
    /\ array(t)[Head(matching[t])].action = "bad muck"
    /\ Goto(t, IF IsUdp(t) THEN "recv" ELSE "dead")
    /\ matching' = [matching EXCEPT ![t] = IF IsUdp(t) THEN <<>> ELSE @]
    /\ UNCHANGED <<confVars, string, fuzzVars, nth, payload, list, acted, shoulddebug,
                   muckVars>>

\* Faulty variant: UdpProtocol queues a row at the end as well.
FinishBoth(t) ==
    /\ pc[t] = "act"
    /\ matching[t] = <<>>
    /\ Goto(t, "send")
    /\ rows' = [rows EXCEPT ![t] = IF wasFuzzed[t] THEN @ + 1 ELSE @]
    /\ UNCHANGED <<confVars, string, wasFuzzed, fuzzed, loopVars, muckVars>>

\* TcpProtocol queues one row, if the last fuzz rule touched the bytes.
Finish(t) ==
    /\ pc[t] = "act"
    /\ matching[t] = <<>>
    /\ Goto(t, "send")
    /\ rows' = [rows EXCEPT ![t] = IF wasFuzzed[t] /\ ~IsUdp(t) THEN @ + 1 ELSE @]
    /\ UNCHANGED <<confVars, string, wasFuzzed, fuzzed, loopVars, muckVars>>

\* The chunk goes out; an empty one ends a TCP stream.
Send(t) ==
    /\ pc[t] = "send"
    /\ Goto(t, IF string[t] = NoData /\ ~IsUdp(t) THEN "ended" ELSE "recv")
    /\ UNCHANGED <<confVars, string, fuzzVars, loopVars, muckVars>>

-----------------------------------------------------------------------------

Thread(t) ==
    \/ Recv(t) \/ CheckRules(t) \/ MatchRules(t)
    \/ ActNothing(t) \/ ActDebug(t) \/ ActFuzz(t)
    \/ NewPipe(t) \/ SetData(t) \/ Muck(t) \/ MuckRaises(t)
    \/ Finish(t) \/ Send(t)

Next ==
    \/ gen < MaxUpdates /\ \E rs \in RuleSets[gen + 1] : UpdateRules(rs)
    \/ \E g \in Gens : NotifyEnds(g) \/ \E i \in Instances : Tell(g, i)
    \/ \E i \in Instances : SetRules(i) \/ Attach(i)
    \/ \E t \in Threads : Thread(t)

Spec == Init /\ [][Next]_vars

(***************************************************************************)
(* Properties.                                                             *)
(***************************************************************************)

\* However updates fall, the rules that acted on a chunk come from one array: all
\* of it that matched the payload as it was received, in order, none after the
\* first that is not passthru, and each once.
ChainActs ==
    \A t \in Threads : pc[t] = "send" =>
        /\ \A k \in 1 .. Len(acted[t]) - 1 : acted[t][k] < acted[t][k + 1]
        /\ {acted[t][k] : k \in 1 .. Len(acted[t])} =
             {i \in 1 .. Len(array(t)) :
                /\ match(array(t)[i], t)
                /\ \A j \in 1 .. i - 1 :
                      match(array(t)[j], t) => passthru(list[t], array(t)[j])}

\* rule.py:43-47: mucking is meant to be a stateless modification of data; but
\* all threads share a rule's action, and the pipe in it.  What a thread gets out
\* is made from what it put in as long as no other was in the action meanwhile.
LoneMuckOwnData ==
    \A t \in Threads : pc[t] = "send" /\ ~met[t] => string[t] = <<t, nth[t]>>

\* A chunk that a chain with one fuzz rule changed has one row in the fuzz
\* tables, and a chunk left alone has none.  (Of two fuzz rules, TcpProtocol
\* remembers only what the last one did.)
LoneFuzzRecorded ==
    \A t \in Threads :
        pc[t] = "send" /\ Cardinality({k \in 1 .. Len(acted[t]) :
                                 array(t)[acted[t][k]].action = "fuzz"}) <= 1
        => rows[t] = Cardinality(fuzzed[t])

\* The debugger gets a chunk of a TCP stream exactly if a debug rule acted on it,
\* whatever other rules act before or after.
DebugRuleHeeded ==
    \A t \in Threads : pc[t] = "send" /\ ~IsUdp(t) =>
        shoulddebug[t] = (\E k \in 1 .. Len(acted[t]) :
                              array(t)[acted[t][k]].action = "debug")

\* mallory.py:402-414, config_rule.py:148-169: once the loop over the list
\* has ended, every attached instance has the array of the last call, also those
\* made or attached while it went on or since, unless two calls overlapped.
\* Only an instance that had made its copy and was not attached yet when the
\* call began may have missed it, and the next call puts that right.
UpdateReachesAll ==
    calls = {} /\ ~overlap => \A i \in attached : rules[i] = gen \/ i \in gap

\* base.py:617-668: a TCP thread dies in the rules in two cases only.  Either its
\* rules were taken away altogether after it saw that there were some; or it came to
\* a rule that matches the chunk and has a muck with which re.sub raises.
DiesInTwoWays ==
    \A t \in Threads : pc[t] = "dead" =>
        \/ array(t) = <<>> /\ list[t] > 0
        \/ /\ matching[t] # <<>>
           /\ match(array(t)[Head(matching[t])], t)
           /\ array(t)[Head(matching[t])].action = "bad muck"

=============================================================================
