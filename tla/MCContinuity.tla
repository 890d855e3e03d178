---------------------------- MODULE MCContinuity ----------------------------
(***************************************************************************)
(* Instance of Continuity for TLC: one worker at each of two sites.        *)
(***************************************************************************)
EXTENDS Continuity, TLC

CONSTANTS home, standby, w1, w2

TwoSites == w1 :> home @@ w2 :> standby
Symmetry == Permutations(Policies) \cup Permutations(Pollers)
=============================================================================
