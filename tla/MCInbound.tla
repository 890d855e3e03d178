----------------------------- MODULE MCInbound -----------------------------
(***************************************************************************)
(* Instance of Inbound for TLC.                                            *)
(***************************************************************************)
EXTENDS Inbound, TLC

\* The message that is edited and the other one may each be two things.
MessageKindsHere ==
    [m \in Messages |-> IF m \in Edited THEN {"talk", "yes"} ELSE {"talk", "stop"}]

Symmetry == Permutations(Workers)

=============================================================================
