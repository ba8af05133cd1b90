----------------------------- MODULE MCTrafficDb -----------------------------
(***************************************************************************)
(* Small instance of TrafficDb: a first run with one datagram, and a       *)
(* second with two connections, one of two chunks.                         *)
(***************************************************************************)
EXTENDS TrafficDb

MCLimit == [x \in Runs \X Producers |->
              CASE x = <<2, 1>> -> 2 [] x \in {<<1, Udp>>, <<2, 2>>} -> 1 [] OTHER -> 0]

=============================================================================
