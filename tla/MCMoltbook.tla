----------------------------- MODULE MCMoltbook -----------------------------
(***************************************************************************)
(* Instances of MoltbookRuntime for TLC.                                   *)
(***************************************************************************)
EXTENDS MoltbookRuntime, TLC

Symmetry == Permutations(Writes) \cup Permutations(Votes)
============================================================================
