---------------------------- MODULE MCOperations ----------------------------
(***************************************************************************)
(* Instance of ChangeControl and Operations for TLC: two attestations of   *)
(* one version, two policies of each kind.  The two share no state here    *)
(* and are explored one at a time.                                         *)
(***************************************************************************)
EXTENDS ChangeControl, Operations, TLC

VARIABLE part

OneVersion == [r \in Releases |-> "2.5.0"]

Default ==
    [enabled |-> TRUE, gate |-> TRUE, create |-> TRUE, resolve |-> TRUE,
     suppress |-> TRUE, reviews |-> 0, critical |-> 0]

\* The default policy, and one that leaves the resolution of incidents to people.
TwoPolicies == {Default, [Default EXCEPT !.resolve = FALSE]}

\* Users and incidents have the same names.
Symmetry == UNION {Permutations(s) : s \in {Users, Releases, Policies}}

Init ==
    /\ ChangeInit /\ OperationsInit
    /\ part \in {"changes", "incidents"}
    /\ part = "changes" => sloPolicy = Default

Next ==
    \/ part = "changes" /\ ChangeNext /\ UNCHANGED <<part, operationsVars>>
    \/ part = "incidents" /\ OperationsNext /\ UNCHANGED <<part, changeVars>>

Spec == Init /\ [][Next]_<<part, changeVars, operationsVars>>
=============================================================================
