----------------------------- MODULE Operations -----------------------------
(***************************************************************************)
(* Operational SLO of one organization (app/services/operations.py and     *)
(* app/api/operations.py): assessments, the gate they feed, the incidents  *)
(* they open and resolve, and the jobs the gate withholds.                 *)
(*                                                                         *)
(* An evaluation reads policy and maintenance mode, then waits for the     *)
(* policy's row, and keeps both as read.  It locks the active incidents of *)
(* the failing checks, but reads those it will resolve without a lock,     *)
(* while operators move incidents under a lock of their own.               *)
(*                                                                         *)
(* Maintenance may be on or off at any time, and the checks of the error   *)
(* budget, the queue and the heartbeat may fail at any time; only the two  *)
(* that count what this module changes are computed: reviews and critical  *)
(* incidents.                                                              *)
(***************************************************************************)
EXTENDS Naturals, FiniteSets

CONSTANTS
    Evaluators,  \* the worker and the users that ask for an assessment
    Worker,      \* the one that evaluates by itself
    Jobs,        \* delivery jobs
    Incidents,   \* bound: incidents at a time; a finished one gives its place away
    Reserve,     \* bound: places that operators leave to the evaluations
    Metrics,     \* checks that fail for reasons outside this module
    SloPolicies,    \* contents of the SLO policy
    Absent

Checks == {"reviews", "critical"} \cup Metrics

PolicyContent ==
    [enabled: BOOLEAN, gate: BOOLEAN, create: BOOLEAN, resolve: BOOLEAN,
     suppress: BOOLEAN, reviews: Nat, critical: Nat]

ASSUME OperationsAssumption ==
    /\ Worker \in Evaluators
    /\ SloPolicies # {} /\ SloPolicies \subseteq PolicyContent
    /\ Metrics \cap {"reviews", "critical"} = {} /\ Absent \notin Checks
    /\ IsFiniteSet(Jobs) /\ IsFiniteSet(Incidents) /\ Reserve \in Nat

VARIABLES
    sloPolicy,    \* slo_policies
    assessment,   \* the policy of the latest slo_assessments row, Absent unless that is
                  \* current and blocks nothing
    incident,     \* incidents
    job,          \* delivery_jobs
    eval          \* the evaluation each evaluator is in

operationsVars == <<sloPolicy, assessment, incident, job, eval>>

\* TAKEN_UP is acknowledged or mitigating.
Active == {"OPEN", "TAKEN_UP"}

\* All incidents here are critical: those of a lower severity feed nothing.
\* `check' is the check of an SLO incident, Absent for one opened by hand.  The history
\* field `reopened' says that somebody reopened the SLO incident after its resolution.
IncidentRow ==
    [status: Active \cup {"NONE", "RESOLVED", "CLOSED"}, check: Checks \cup {Absent},
     reopened: BOOLEAN]
\* WITHHELD and REVIEW are both WAITING_REVIEW: withheld by the gate, and a send whose
\* result is not known.  OVER is sent, settled by review, or cancelled.
JobStatus == {"PENDING", "PROCESSING", "REVIEW", "WITHHELD", "OVER"}
Evaluation ==
    [at: {"idle"}]
      \cup [at: {"waiting"}, under: SloPolicies, quiet: BOOLEAN]
      \cup [at: {"measured"}, under: SloPolicies, quiet: BOOLEAN, blocked: SUBSET Checks]
      \cup [at: {"synced"}, under: SloPolicies, quiet: BOOLEAN, blocked: SUBSET Checks,
            held: SUBSET Incidents, new: SUBSET Checks, ending: SUBSET Incidents]

NotEvaluating == [at |-> "idle"]
NoIncident == [status |-> "NONE", check |-> Absent, reopened |-> FALSE]

OperationsInit ==
    /\ sloPolicy \in SloPolicies
    /\ assessment = Absent
    /\ incident = [i \in Incidents |-> NoIncident]
    /\ job = [j \in Jobs |-> "PENDING"]
    /\ eval = [e \in Evaluators |-> NotEvaluating]

-----------------------------------------------------------------------------
(***************************************************************************)
(* Checks, incidents and locks.                                            *)
(***************************************************************************)

Moved(row, to) ==
    [row EXCEPT !.status = to, !.reopened = @ /\ to \in Active]

IsActive(i) == incident[i].status \in Active
ActiveOf(c) == {i \in Incidents : IsActive(i) /\ incident[i].check = c}
Places == {i \in Incidents : ~IsActive(i)}

\* An evaluation that has the policy's row keeps it to its end.
PolicyLocked == \E e \in Evaluators : eval[e].at \in {"measured", "synced"}

\* The incidents an evaluation has locked wait for its end.
Held(i) == \E e \in Evaluators : eval[e].at = "synced" /\ i \in eval[e].held

InReview == {j \in Jobs : job[j] \in {"REVIEW", "WITHHELD"}}

\* The incidents the check of critical incidents counts leave out those of the SLO.
ByHand == {i \in Incidents : IsActive(i) /\ incident[i].check = Absent}

\* The checks that are blocked under policy p, of those that are computed.
Blocked(p) ==
    {c \in {"reviews"} : Cardinality(InReview) > p.reviews}
      \cup {c \in {"critical"} : Cardinality(ByHand) > p.critical}

-----------------------------------------------------------------------------
(***************************************************************************)
(* evaluate_slo                                                            *)
(***************************************************************************)

\* What is read before the lock; the worker passes over a policy that is off.
Look(e) ==
    /\ eval[e] = NotEvaluating
    /\ e = Worker => sloPolicy.enabled
    /\ \E maintenance \in BOOLEAN :
         eval' = [eval EXCEPT ![e] =
           [at |-> "waiting", under |-> sloPolicy, quiet |-> maintenance /\ sloPolicy.suppress]]
    /\ UNCHANGED <<sloPolicy, assessment, incident, job>>

\* Mutant: the policy's row is not locked.
MayMeasureUnlocked(e) == eval[e].at = "waiting"

MayMeasure(e) == eval[e].at = "waiting" /\ ~PolicyLocked

Measure(e) ==
    /\ MayMeasure(e)
    /\ \E failing \in SUBSET Metrics :
         eval' = [eval EXCEPT ![e] =
           [at |-> "measured", under |-> @.under, quiet |-> @.quiet,
            blocked |-> failing \cup Blocked(@.under)]]
    /\ UNCHANGED <<sloPolicy, assessment, incident, job>>

\* Mutant: the active incident of a failing check is read without a lock.
LockedUnlocked(c) == {}

\* The latest active incident of check c, locked.
LockedOf(c) == ActiveOf(c)

\* The active incidents of checks that are not blocked.
Ending(p, blocked) ==
    {i \in Incidents :
       p.resolve /\ IsActive(i) /\ incident[i].check # Absent /\ incident[i].check \notin blocked}

\* _sync_slo_incidents up to its writes.  An operator's transition holds a row for the
\* length of this step only.
Sync(e) ==
    LET p == eval[e].under
        creating == IF p.create /\ ~eval[e].quiet THEN eval[e].blocked ELSE {} IN
    /\ eval[e].at = "measured"
    /\ \E held \in SUBSET UNION {LockedOf(c) : c \in creating} :
         /\ \A c \in creating : LockedOf(c) # {} => Cardinality(held \cap LockedOf(c)) = 1
         /\ eval' = [eval EXCEPT ![e] =
              [at |-> "synced", under |-> p, quiet |-> @.quiet, blocked |-> @.blocked,
               held |-> held, new |-> {c \in creating : ActiveOf(c) = {}},
               ending |-> Ending(p, eval[e].blocked)]]
    /\ UNCHANGED <<sloPolicy, assessment, incident, job>>

\* The writes and the commit: incidents are resolved as they were read, whatever an
\* operator has made of them since.
Commit(e) ==
    LET v == eval[e] IN
    /\ v.at = "synced"
    /\ \E place \in [v.new -> Places \ v.ending] :
         /\ \A c, d \in v.new : place[c] = place[d] => c = d
         /\ incident' = [i \in Incidents |->
              IF \E c \in v.new : place[c] = i
                THEN [status |-> "OPEN", check |-> CHOOSE c \in v.new : place[c] = i,
                      reopened |-> FALSE]
                ELSE IF i \in v.ending THEN Moved(incident[i], "RESOLVED")
                                       ELSE incident[i]]
    /\ assessment' = IF v.blocked = {} THEN v.under ELSE Absent
    /\ eval' = [eval EXCEPT ![e] = NotEvaluating]
    /\ UNCHANGED <<sloPolicy, job>>

\* The request or the worker dies, or the database refuses.
Rollback(e) ==
    /\ eval[e] # NotEvaluating
    /\ eval' = [eval EXCEPT ![e] = NotEvaluating]
    /\ UNCHANGED <<sloPolicy, assessment, incident, job>>

-----------------------------------------------------------------------------
(***************************************************************************)
(* Operators.                                                              *)
(***************************************************************************)

RoomForOne == Cardinality(Places) > Reserve

UpdateSloPolicy(p) ==
    /\ ~PolicyLocked
    /\ sloPolicy' = p
    /\ UNCHANGED <<assessment, incident, job, eval>>

OpenByHand(i) ==
    /\ RoomForOne /\ ~IsActive(i)
    /\ \A e \in Evaluators : eval[e].at = "synced" => i \notin eval[e].ending
    /\ incident' = [incident EXCEPT ![i] = [NoIncident EXCEPT !.status = "OPEN"]]
    /\ UNCHANGED <<sloPolicy, assessment, job, eval>>

Transition(i, from, to) ==
    /\ incident[i].status \in from /\ ~Held(i)
    /\ incident' = [incident EXCEPT ![i] = Moved(@, to)]
    /\ UNCHANGED <<sloPolicy, assessment, job, eval>>

TakeUp(i) == Transition(i, {"OPEN"}, "TAKEN_UP")
Resolve(i) == Transition(i, Active, "RESOLVED")
Close(i) == Transition(i, {"RESOLVED"}, "CLOSED")

Reopen(i) ==
    /\ RoomForOne /\ incident[i].status \in {"RESOLVED", "CLOSED"} /\ ~Held(i)
    /\ incident' = [incident EXCEPT ![i].status = "OPEN",
                                  ![i].reopened = incident[i].check # Absent]
    /\ UNCHANGED <<sloPolicy, assessment, job, eval>>

-----------------------------------------------------------------------------
(***************************************************************************)
(* The gate and the jobs.                                                  *)
(***************************************************************************)

\* slo_gate_decision for publishing.
GateOpen ==
    sloPolicy.gate =>
      /\ sloPolicy.enabled /\ assessment = sloPolicy
      /\ Cardinality({i \in Incidents : IsActive(i)}) <= sloPolicy.critical

Move(j, from, to) ==
    /\ job[j] = from
    /\ job' = [job EXCEPT ![j] = to]
    /\ UNCHANGED <<sloPolicy, assessment, incident, eval>>

\* process_next: the gate is asked before the job is sent.
Take(j) == GateOpen /\ Move(j, "PENDING", "PROCESSING")
Withhold(j) == ~GateOpen /\ Move(j, "PENDING", "WITHHELD")
Send(j) == Move(j, "PROCESSING", "OVER") \/ Move(j, "PROCESSING", "REVIEW")

\* cancel_job, resolve_uncertain_delivery, and resume_connection.
CancelJob(j) == Move(j, "PENDING", "OVER") \/ Move(j, "WITHHELD", "OVER")
Settle(j) == Move(j, "REVIEW", "OVER")
PutBack(j) == Move(j, "WITHHELD", "PENDING")

\* An assessment becomes too old for the gate.
Expire ==
    /\ assessment' = Absent
    /\ UNCHANGED <<sloPolicy, incident, job, eval>>

-----------------------------------------------------------------------------

EvaluationMoves ==
    \E e \in Evaluators : Look(e) \/ Measure(e) \/ Sync(e) \/ Commit(e) \/ Rollback(e)
IncidentMoves ==
    \E i \in Incidents : OpenByHand(i) \/ TakeUp(i) \/ Resolve(i) \/ Close(i) \/ Reopen(i)
JobMoves ==
    \E j \in Jobs : \/ Take(j) \/ Withhold(j) \/ Send(j)
                    \/ CancelJob(j) \/ Settle(j) \/ PutBack(j)

OperationsNext == \/ EvaluationMoves \/ IncidentMoves \/ JobMoves \/ Expire
        \/ \E p \in SloPolicies : UpdateSloPolicy(p)
OperationsSpec == OperationsInit /\ [][OperationsNext]_operationsVars

-----------------------------------------------------------------------------
(***************************************************************************)
(* Properties.                                                             *)
(***************************************************************************)

\* Types; and what an evaluation has locked stays active while it is locked.
OperationsTypeOK ==
    /\ sloPolicy \in SloPolicies
    /\ assessment \in SloPolicies \cup {Absent}
    /\ incident \in [Incidents -> IncidentRow] /\ job \in [Jobs -> JobStatus]
    /\ eval \in [Evaluators -> Evaluation]
    /\ \A e \in Evaluators : eval[e].at = "synced" => \A i \in eval[e].held : IsActive(i)

\* The worker and the users may evaluate at the same time: no check gets a second
\* active incident while it has one, reopened ones aside.
NoCopyOfActiveIncident ==
    \A c \in Checks : \A i, k \in ActiveOf(c) :
      ~incident[i].reopened /\ ~incident[k].reopened => i = k

\* When an assessment is committed, its incidents are those of its blocked checks: each
\* has an active one, unless the policy or maintenance keeps new ones back; and the only
\* active ones of other checks were reopened meanwhile, or the policy leaves them.
IncidentsFollowAssessment ==
    [][\A e \in Evaluators : Commit(e) =>
         LET v == eval[e] IN
         /\ v.under.create /\ ~v.quiet =>
              \A c \in v.blocked :
                \E i \in Incidents : incident'[i].check = c /\ incident'[i].status \in Active
         /\ \A i \in Incidents :
              (v.under.resolve /\ incident'[i].status \in Active
               /\ incident'[i].check \notin v.blocked \cup {Absent}) => incident'[i].reopened]_operationsVars

\* What docs/OPERATIONAL_SLO.md:179 says: the assessment does not keep itself up.  A
\* block for unresolved deliveries needs a delivery whose result was not known.
GateDoesNotFeedItself ==
    [][\A e \in Evaluators :
         Measure(e) /\ "reviews" \in eval'[e].blocked => \E j \in Jobs : job[j] = "REVIEW"]_operationsVars

\* What docs/OPERATIONAL_SLO.md:175 says: a check has one active incident at a time.
OneActiveIncident == \A c \in Checks : Cardinality(ActiveOf(c)) <= 1

-----------------------------------------------------------------------------
(***************************************************************************)
(* The inductive invariant behind them.                                    *)
(***************************************************************************)

OneEvaluation ==
    \A d, e \in Evaluators :
      eval[d].at \in {"measured", "synced"} /\ eval[e].at \in {"measured", "synced"} => d = e

\* What an evaluation is about to write fits the incidents as they have become: a check
\* it opens an incident for has none but reopened ones, one it found is still active, and
\* the others that are active are in its list or reopened.
WritesFit ==
    \A e \in Evaluators : eval[e].at = "synced" =>
      LET v == eval[e] IN
      /\ v.new \subseteq v.blocked
      /\ \A c \in v.new : \A i \in ActiveOf(c) : incident[i].reopened
      /\ v.under.create /\ ~v.quiet =>
           \A c \in v.blocked \ v.new : v.held \cap ActiveOf(c) # {}
      /\ \A i \in v.ending : incident[i].check \notin v.blocked
      /\ \A i \in Incidents :
           v.under.resolve /\ IsActive(i) /\ incident[i].check \notin v.blocked \cup {Absent}
             => i \in v.ending \/ incident[i].reopened

OperationsInv ==
    OperationsTypeOK /\ OneEvaluation /\ WritesFit /\ NoCopyOfActiveIncident
=============================================================================
