----------------------------- MODULE AtLeastOnce -----------------------------
(***************************************************************************)
(* What the integration outbox promises: an event is declared delivered    *)
(* only when every endpoint that is owed it has taken it.  An endpoint may *)
(* take an event again (it is to deduplicate by the event's id), and a     *)
(* declaration may be withdrawn and made again.                            *)
(***************************************************************************)
EXTENDS Naturals

CONSTANTS Events, Endpoints

VARIABLES
    published,  \* events that have been enqueued
    owed,       \* the endpoints that are to get each event
    got,        \* pairs <<event, endpoint>>: the endpoint has taken the event
    declared    \* events reported as delivered

avars == <<published, owed, got, declared>>

Takers(e) == {p \in Endpoints : <<e, p>> \in got}

AInit ==
    /\ published = {}
    /\ owed = [e \in Events |-> {}]
    /\ got = {}
    /\ declared = {}

Publish(e) ==
    /\ e \notin published
    /\ published' = published \cup {e}
    /\ \E P \in SUBSET Endpoints : owed' = [owed EXCEPT ![e] = P]
    /\ UNCHANGED <<got, declared>>

\* Endpoints leave, or are switched off: nothing is owed to them any more.
Waive ==
    /\ owed' \in [Events -> SUBSET Endpoints]
    /\ \A e \in Events : owed'[e] \subseteq owed[e]
    /\ UNCHANGED <<published, got, declared>>

Take(e, p) ==
    /\ e \in published
    /\ got' = got \cup {<<e, p>>}
    /\ UNCHANGED <<published, owed, declared>>

Declare(e) ==
    /\ e \in published
    /\ owed[e] \subseteq Takers(e)
    /\ declared' = declared \cup {e}
    /\ UNCHANGED <<published, owed, got>>

Reopen(E) ==
    /\ declared' = declared \ E
    /\ UNCHANGED <<published, owed, got>>

ANext ==
    \/ \E e \in Events : Publish(e) \/ Declare(e) \/ \E p \in Endpoints : Take(e, p)
    \/ Waive
    \/ \E E \in SUBSET Events : Reopen(E)

ASpec == AInit /\ [][ANext]_avars
=============================================================================
