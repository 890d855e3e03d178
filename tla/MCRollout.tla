----------------------------- MODULE MCRollout -----------------------------
(***************************************************************************)
(* Instances of Rollout for TLC.                                           *)
(***************************************************************************)
EXTENDS Rollout, TLC

CONSTANTS j1, j2, j3

TwoThenOne == j1 :> 1 @@ j2 :> 1 @@ j3 :> 2
OneEach == j1 :> 1 @@ j2 :> 2 @@ j3 :> 3
=============================================================================
