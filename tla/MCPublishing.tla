---------------------------- MODULE MCPublishing ----------------------------
(***************************************************************************)
(* Instance of Destinations and Pacing for TLC.  The two share no state    *)
(* and are explored one at a time.                                         *)
(***************************************************************************)
EXTENDS Destinations, Pacing, TLC

VARIABLE part

Nothing == [enabled |-> Nil, permission |-> Nil, grounds |-> Nil, term |-> Nil]

\* Another title, on, off, confirmed with a note and for a time, denied.
MCRequests ==
    {Nothing,
     [Nothing EXCEPT !.enabled = TRUE], [Nothing EXCEPT !.enabled = FALSE],
     [Nothing EXCEPT !.permission = "CONFIRMED", !.grounds = TRUE],
     [Nothing EXCEPT !.permission = "CONFIRMED", !.term = "RUNNING"],
     [Nothing EXCEPT !.permission = "DENIED"]}

MCGroupOf == "m1" :> "g1" @@ "m2" :> "g1"
MCTextOf == "m1" :> "text" @@ "m2" :> "text"

\* Any time, one day from its second hour to its fourth, overnight after one day, and a
\* whole day from an hour to the same, which two changes at once can leave.
MCWindows ==
    {[days |-> {}, from |-> AnyTime, to |-> AnyTime, zone |-> 0],
     [days |-> {1}, from |-> 1, to |-> 3, zone |-> 1],
     [days |-> {1}, from |-> 3, to |-> 1, zone |-> 2],
     [days |-> {}, from |-> 2, to |-> 2, zone |-> 0]}

MCBlackouts ==
    {[kind |-> "ONE_TIME", days |-> {}, from |-> 7, to |-> 10, zone |-> 0, at |-> {"g1"}],
     [kind |-> "WEEKLY", days |-> {0, 1}, from |-> 3, to |-> 2, zone |-> 1, at |-> {"g1"}],
     [kind |-> "WEEKLY", days |-> {1}, from |-> 0, to |-> 2, zone |-> 0, at |-> {"g1"}]}

DestinationSymmetry == Permutations(Rows) \cup Permutations(Editors)

Init ==
    /\ DestinationInit /\ PacingInit
    /\ part \in {"destinations", "pacing"}
    /\ part = "destinations" => \A g \in Groups : window[g].from = AnyTime

Next ==
    \/ part = "destinations" /\ DestinationNext /\ UNCHANGED <<part, pacingVars>>
    \/ part = "pacing" /\ PacingNext /\ UNCHANGED <<part, destinationVars>>

Spec == Init /\ [][Next]_<<part, destinationVars, pacingVars>>
=============================================================================
