------------------------------- MODULE MCPilot -------------------------------
(***************************************************************************)
(* Instance of Pilot for TLC: the first three stages, scaled down, and a   *)
(* program with a local and one live stage.                                *)
(***************************************************************************)
EXTENDS Pilot, TLC

MCStageLimits == <<0, 1, 2>>
MCRunEvidence == <<0, 0, 1>>
MCStageSizes == <<1>>

PilotSymmetry == Permutations(Destinations) \cup Permutations(Programs)
=============================================================================
