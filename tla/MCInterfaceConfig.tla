------------------------- MODULE MCInterfaceConfig -------------------------
(***************************************************************************)
(* Small instance of InterfaceConfig.  No name of an interface is special, *)
(* and no property is about liveness.                                      *)
(***************************************************************************)
EXTENDS InterfaceConfig, TLC

MCChanged == {"nat", "FORWARD"}

Symmetry == Permutations(Nics)

=============================================================================
