----------------------------- MODULE PilotStages -----------------------------
(***************************************************************************)
(* The pilot stage of one organization (app/services/pilot_stages.py,      *)
(* app/services/pilot_canary.py, app/api/pilot.py): how many destinations  *)
(* a run may have, the evidence for raising that number, and what lowering *)
(* it does to jobs that wait.  One campaign, whose runs the workers send.  *)
(*                                                                         *)
(* The row of the organization is locked by whoever assesses, raises or    *)
(* lowers the stage, and a canary holds its destination and connection     *)
(* from the first check to its commit, so each of these is one step.  A    *)
(* canary that dies between Telegram's answer and the commit leaves no     *)
(* trace.  The lowering reads the jobs it withholds without a lock and may *)
(* meet one that a worker is taking, as a cancellation does in module      *)
(* Delivery; that is not repeated here.  Cancelled jobs are left out, and  *)
(* so is the retry of a failed job of a run that has ended: both only take *)
(* from what the run is evidence of.                                       *)
(***************************************************************************)
EXTENDS Naturals, FiniteSets, Sequences

CONSTANTS
    Destinations,       \* all with one connection
    StageLimits,        \* STAGE_LIMITS, in the order of STAGE_ORDER
    RunEvidence,        \* RUN_EVIDENCE_REQUIRED
    MaxFailurePercent,  \* pilot_max_failure_percent
    MaxRuns,            \* bound: runs of the campaign
    MaxCanaries,        \* bound: canaries that succeed
    MaxAssessments      \* bound: assessments that are kept

Stages == 1 .. Len(StageLimits)
Runs == 1 .. MaxRuns
Local == 1

ASSUME PilotAssumption ==
    /\ StageLimits \in Seq(Nat) /\ StageLimits # <<>> /\ StageLimits[Local] = 0
    /\ \A s, t \in Stages : s < t => StageLimits[s] < StageLimits[t]
    /\ RunEvidence \in [Stages -> Nat]
    /\ IsFiniteSet(Destinations) /\ MaxFailurePercent \in Nat
    /\ MaxRuns \in Nat /\ MaxCanaries \in Nat /\ MaxAssessments \in Nat

VARIABLES
    stage,        \* organizations.pilot_stage
    fake,         \* telegram_fake_mode of the API and the workers
    route,        \* the active destinations of the campaign
    fit,          \* whether the organization is active, its connection and destinations
                  \* are in order, and there are enough of them for the next stage
    canary,       \* the successful real canaries, and whether the latest is recent
    runs,         \* the jobs of each run of the campaign, by destination
    latest,       \* the run that ended last of those with a real delivery
    assessments   \* pilot_stage_assessments that passed; the others gate nothing

stageVars == <<stage, fake, route, fit, canary, runs, latest, assessments>>

\* REVIEW and UNCERTAIN are both WAITING_REVIEW: withheld, and a send whose result is
\* not known.  FAKE is sent by the gateway of the fake mode.
Over == {"SENT", "FAKE", "FAILED"}
RunJobStatus == Over \cup {"QUEUED", "BUSY", "REVIEW", "UNCERTAIN"}
NonemptyRoutes == SUBSET Destinations \ {{}}
RunJobs == UNION {[R -> RunJobStatus] : R \in SUBSET Destinations}
NoJobs == [d \in {} |-> "QUEUED"]
Canary == [made: 0 .. MaxCanaries, valid: BOOLEAN]

-----------------------------------------------------------------------------
(***************************************************************************)
(* Evidence.                                                               *)
(***************************************************************************)

In(r, S) == {d \in DOMAIN runs[r] : runs[r][d] \in S}
Created(r) == runs[r] # NoJobs
Ended(r) == Created(r) /\ In(r, RunJobStatus \ Over) = {}

\* Runs are numbered in the order in which they are created; there are n so far.
Made(n) == \A r \in Runs : Created(r) <=> r <= n
Reviews == {x \in Runs \X Destinations : x[2] \in In(x[1], {"REVIEW", "UNCERTAIN"})}

\* Mutant: the number of unresolved deliveries is left out of the fingerprint.
EvidenceWithoutReviews ==
    [fit |-> fit, fake |-> fake, canary |-> IF canary.valid THEN canary.made ELSE 0,
     run |-> latest, jobs |-> IF latest = 0 THEN NoJobs ELSE runs[latest], reviews |-> 0]

\* stage_state_fingerprint, the stages aside.  Times of validations and of health checks,
\* which it also covers, only make an assessment outdated earlier.
Evidence ==
    [fit |-> fit, fake |-> fake, canary |-> IF canary.valid THEN canary.made ELSE 0,
     run |-> latest, jobs |-> IF latest = 0 THEN NoJobs ELSE runs[latest],
     reviews |-> Cardinality(Reviews)]

RunSuffices(s) ==
    \/ RunEvidence[s] = 0
    \/ /\ latest # 0
       /\ LET sent == Cardinality(In(latest, {"SENT"}))
              failed == Cardinality(In(latest, {"FAILED"}))
          IN  sent >= RunEvidence[s] /\ failed * 100 <= MaxFailurePercent * (sent + failed)

\* The checks of create_stage_assessment for a rise to stage s.
ChecksPass(s) ==
    /\ ~fake
    /\ fit
    /\ canary.valid
    /\ Reviews = {}
    /\ RunSuffices(s)

AssessStage ==
    /\ stage + 1 \in Stages /\ ChecksPass(stage + 1)
    /\ Cardinality(assessments) < MaxAssessments
    /\ assessments' = assessments \cup {[from |-> stage, seen |-> Evidence]}
    /\ UNCHANGED <<stage, fake, route, fit, canary, runs, latest>>

\* The time of an assessment runs out.
ExpireAssessment(a) ==
    /\ assessments' = assessments \ {a}
    /\ UNCHANGED <<stage, fake, route, fit, canary, runs, latest>>

\* assessment_is_current.  An assessment is not used up: after a lowering it may raise the
\* stage again.
IsCurrent(a) == a.from = stage /\ stage + 1 \in Stages /\ a.seen = Evidence

AdvanceStage(a) ==
    /\ IsCurrent(a)
    /\ stage' = stage + 1
    /\ UNCHANGED <<fake, route, fit, canary, runs, latest, assessments>>

-----------------------------------------------------------------------------
(***************************************************************************)
(* The gate.                                                               *)
(***************************************************************************)

\* stage_limit and campaign_stage_blocker.
Fits(s) ==
    IF s = Local /\ fake THEN TRUE ELSE Cardinality(route) <= StageLimits[s]
Blocked == (stage = Local /\ ~fake) \/ ~Fits(stage)

\* pause_campaigns_above_stage: the campaign, which the gate keeps from running, is not
\* modelled apart from it.
Withheld(js) == [d \in DOMAIN js |-> IF js[d] = "QUEUED" THEN "REVIEW" ELSE js[d]]

LowerStage(s) ==
    /\ s < stage
    /\ stage' = s
    /\ runs' = IF Fits(s) THEN runs ELSE [r \in Runs |-> Withheld(runs[r])]
    /\ UNCHANGED <<fake, route, fit, canary, latest, assessments>>

-----------------------------------------------------------------------------
(***************************************************************************)
(* Canaries.                                                               *)
(***************************************************************************)

\* create_canary_attempt, when nothing blocks it, as a recent canary does: the message is
\* sent, or the connection is paused because Telegram refuses or says nothing, or only the
\* attempt fails.  A canary of the fake mode is no evidence.
SendCanary ==
    /\ fit /\ ~fake /\ canary.made < MaxCanaries
    /\ canary' = [made |-> canary.made + 1, valid |-> TRUE]
    /\ UNCHANGED <<stage, fake, route, fit, runs, latest, assessments>>

LoseCanary ==
    /\ fit /\ fit' = FALSE
    /\ UNCHANGED <<stage, fake, route, canary, runs, latest, assessments>>

\* The canary gets too old to be evidence.
CanaryAges ==
    /\ canary' = [canary EXCEPT !.valid = FALSE]
    /\ UNCHANGED <<stage, fake, route, fit, runs, latest, assessments>>

-----------------------------------------------------------------------------
(***************************************************************************)
(* The campaign and its surroundings.                                      *)
(***************************************************************************)

\* _create_run, by the scheduler or a manual start; bound: one run at a time.
CreateRun ==
    /\ \A r \in Runs : Created(r) => Ended(r)
    /\ ~Blocked
    /\ \E r \in Runs : /\ Made(r - 1)
                       /\ runs' = [runs EXCEPT ![r] = [d \in route |-> "QUEUED"]]
    /\ UNCHANGED <<stage, fake, route, fit, canary, latest, assessments>>

\* A job changes; the run may end with it, or have ended.
Settle(r, d, to) ==
    /\ runs' = [runs EXCEPT ![r][d] = to]
    /\ latest' = IF Ended(r)' /\ In(r, {"SENT"})' # {} THEN r ELSE latest
    /\ UNCHANGED <<stage, fake, route, fit, canary, assessments>>

Is(r, d, S) == d \in In(r, S)

\* process_next: the safety check, which may refuse for other reasons too, then the call.
Take(r, d) == Is(r, d, {"QUEUED"}) /\ ~Blocked /\ Settle(r, d, "BUSY")
Withhold(r, d) == Is(r, d, {"QUEUED"}) /\ Settle(r, d, "REVIEW")
Deliver(r, d) == Is(r, d, {"BUSY"}) /\ Settle(r, d, IF fake THEN "FAKE" ELSE "SENT")
Fail(r, d) == Is(r, d, {"BUSY"}) /\ \E to \in {"FAILED", "QUEUED"} : Settle(r, d, to)

\* Telegram says nothing, or the worker dies.
LoseSend(r, d) == Is(r, d, {"BUSY"}) /\ Settle(r, d, "UNCERTAIN")

\* resolve_uncertain_delivery.
Resolve(r, d) == Is(r, d, {"UNCERTAIN"}) /\ \E to \in {"SENT", "QUEUED"} : Settle(r, d, to)

\* resume_connection.
Requeued(js) == [d \in DOMAIN js |-> IF js[d] = "REVIEW" THEN "QUEUED" ELSE js[d]]
ResumeConnection ==
    /\ fit' \in BOOLEAN
    /\ runs' = [r \in Runs |-> Requeued(runs[r])]
    /\ UNCHANGED <<stage, fake, route, canary, latest, assessments>>

\* Destinations join and leave the campaign, which runs to one at least; what else the
\* checks look at comes and goes.
EditRoute(R) ==
    /\ route' = R
    /\ UNCHANGED <<stage, fake, fit, canary, runs, latest, assessments>>

Surroundings ==
    /\ fit' = ~fit
    /\ UNCHANGED <<stage, fake, route, canary, runs, latest, assessments>>

\* The services restart with the other transport, no job being sent.
Restart ==
    /\ \A r \in Runs : In(r, {"BUSY"}) = {}
    /\ fake' = ~fake
    /\ UNCHANGED <<stage, route, fit, canary, runs, latest, assessments>>

-----------------------------------------------------------------------------

StageInit ==
    /\ stage = Local /\ fake = TRUE
    /\ route \in NonemptyRoutes /\ fit = FALSE
    /\ canary = [made |-> 0, valid |-> FALSE]
    /\ runs = [r \in Runs |-> NoJobs] /\ latest = 0
    /\ assessments = {}

JobMoves ==
    \E r \in Runs, d \in Destinations :
      \/ Take(r, d) \/ Withhold(r, d) \/ Deliver(r, d) \/ Fail(r, d) \/ LoseSend(r, d)
      \/ Resolve(r, d)

StageNext ==
    \/ AssessStage \/ (\E a \in assessments : AdvanceStage(a) \/ ExpireAssessment(a))
    \/ (\E s \in Stages : LowerStage(s))
    \/ SendCanary \/ LoseCanary \/ CanaryAges
    \/ CreateRun \/ JobMoves \/ ResumeConnection \/ Surroundings \/ Restart
    \/ (\E R \in NonemptyRoutes : EditRoute(R))

-----------------------------------------------------------------------------
(***************************************************************************)
(* Properties.                                                             *)
(***************************************************************************)

StageTypeOK ==
    /\ stage \in Stages /\ fake \in BOOLEAN
    /\ route \in NonemptyRoutes /\ fit \in BOOLEAN
    /\ canary \in Canary
    /\ runs \in [Runs -> RunJobs] /\ latest \in 0 .. MaxRuns
    /\ \A a \in assessments : a.from \in Stages

\* Evidence is checked when a stage is assessed and the stage is raised later, while jobs
\* are sent and lost, canaries age and the stage is lowered: it still rises by one only, and
\* only while every check for the next stage would pass.
StageClimbsOnEvidence ==
    [][stage' > stage => stage' = stage + 1 /\ ChecksPass(stage + 1)]_stageVars

=============================================================================
