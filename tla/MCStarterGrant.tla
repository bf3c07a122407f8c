--------------------------- MODULE MCStarterGrant ---------------------------
(***************************************************************************)
(* Instances of StarterGrant for TLC.                                      *)
(***************************************************************************)
EXTENDS StarterGrant, TLC

Symmetry == Permutations(Wallets) \cup Permutations(Installs)
============================================================================
