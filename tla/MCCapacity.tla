----------------------------- MODULE MCCapacity -----------------------------
(***************************************************************************)
(* Instance of Capacity for TLC.                                           *)
(***************************************************************************)
EXTENDS Capacity, TLC

Symmetry == Permutations(Jobs) \cup Permutations(Workers) \cup Permutations(Callers)

=============================================================================
