---------------------------- MODULE MCRuleChain ----------------------------
(***************************************************************************)
(* Small instance of RuleChain: one direction of a TCP connection and one  *)
(* of the UDP threads, and arrays of no or two rules.                      *)
(***************************************************************************)
EXTENDS RuleChain, TLC

MCThreads == {<<"tcp", "c2s">>, <<"udp", "s2c">>}

\* Rules that match everything, one payload or one direction.
MCRule(d, p, pt, a) == [direction |-> d, payload |-> p, passthru |-> pt, action |-> a]

MCDebug  == MCRule("*", "*", "True", "debug")
MCFuzz   == MCRule("*", "x", "False", "fuzz")
MCMuck   == MCRule("*", "*", "absent", "muck")
MCBad    == MCRule("*", "*", "True", "bad muck")
MCMuckUp == MCRule("c2s", "*", "True", "muck")

\* At startup; the first update; the second.
MCRuleSets ==
    (0 :> {<<>>, <<MCFuzz, MCDebug>>, <<MCMuckUp, MCFuzz>>, <<MCMuck, MCFuzz>>,
           <<MCBad, MCDebug>>, <<MCDebug, MCRule("*", "*", "absent", "nothing")>>})
    @@ (1 :> {<<>>, <<MCMuckUp, MCMuck>>})
    @@ (2 :> {<<>>})

=============================================================================
