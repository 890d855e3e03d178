------------------------------ MODULE Rollout ------------------------------
(***************************************************************************)
(* One run of a campaign, released batch by batch: completion of batches   *)
(* and of the run (_finalize_run in app/services/delivery.py), the release *)
(* of batches (app/services/rollouts.py), the operator's calls on the      *)
(* campaign, the run and single jobs (app/api/campaigns.py, app/api/       *)
(* jobs.py).  How a job is sent is the subject of module Delivery; here it *)
(* is two steps, Begin and the transaction with its result.  The status of *)
(* the connection is left open.                                            *)
(*                                                                         *)
(* A transaction decides on the run and campaign objects in its session,   *)
(* on job statuses it counts in the database, and writes only the columns  *)
(* in which an object differs from what the session loaded.                *)
(***************************************************************************)
EXTENDS Integers, FiniteSets

CONSTANTS
    Jobs,              \* delivery jobs of the run
    TotalBatches,      \* run.total_batches; 1 for a standard run
    BatchOf,           \* job.batch_number
    FailureThreshold,  \* run.failure_threshold_percent
    Users,             \* operators that cancel or requeue a job, one at a time each
    None               \* no job, no request

ASSUME RolloutAssumption ==
    /\ IsFiniteSet(Jobs)
    /\ TotalBatches \in Nat \ {0}
    /\ BatchOf \in [Jobs -> 1 .. TotalBatches]
    /\ \A b \in 1 .. TotalBatches : \E j \in Jobs : BatchOf[j] = b
    /\ FailureThreshold \in 0 .. 100
    /\ None \notin Jobs

VARIABLES
    job,       \* status of the delivery_jobs rows
    reviewed,  \* jobs whose review_resolution is set
    run,       \* the campaign_runs row
    campaign,  \* the campaigns row
    worker,    \* the job the worker process serves, and the rows in its session
    request,   \* what each user's cancel_job has flushed and decided
    requeuing, \* the job that each user's retry or resolution has locked and checked
    revoked,   \* revoke_connection has been called
    closing    \* the status a cancel, edit or abort that locks the campaign will set

vars == <<job, reviewed, run, campaign, worker, request, requeuing, revoked, closing>>

\* PENDING stands for pending and retry, FAILED for failed and skipped;
\* UNCERTAIN is waiting_review with one of the two uncertain error codes.
Open == {"HELD", "PENDING", "PROCESSING", "WAITING_REVIEW", "UNCERTAIN"}
JobStatus == Open \cup {"SENT", "FAILED", "CANCELLED"}

Unfinished == {"QUEUED", "RUNNING", "AWAITING_CHECKPOINT"}
RunRow ==
    [status: Unfinished \cup {"COMPLETED", "PARTIAL", "FAILED", "CANCELLED"},
     active: 1 .. TotalBatches, checkpoint: BOOLEAN, approver: BOOLEAN]

Active == {"SCHEDULED", "RUNNING"}
CampaignRow ==
    [status: Active \cup {"DRAFT", "PAUSED", "COMPLETED", "FAILED", "CANCELLED"},
     approved: BOOLEAN, next: BOOLEAN]

Serving == [job: Jobs, run: RunRow, campaign: CampaignRow]
Cancelling == [job: Jobs, run: RunRow, campaign: CampaignRow,
               newRun: RunRow, newCampaign: CampaignRow]

RolloutTypeOK ==
    /\ job \in [Jobs -> JobStatus]
    /\ reviewed \subseteq Jobs
    /\ run \in RunRow
    /\ campaign \in CampaignRow
    /\ worker \in Serving \cup {None}
    /\ request \in [Users -> Cancelling \cup {None}]
    /\ requeuing \in [Users -> Jobs \cup {None}]
    /\ revoked \in BOOLEAN
    /\ closing \in {None, "CANCELLED", "DRAFT", "PAUSED"}

\* _create_run: the first batch is pending, the others are held.  A campaign that
\* recurs is scheduled again, has a next_run_at, and is completed by the last
\* occurrence.
Init ==
    /\ job = [j \in Jobs |-> IF BatchOf[j] = 1 THEN "PENDING" ELSE "HELD"]
    /\ reviewed = {}
    /\ run \in [status: {"QUEUED"}, active: {1}, checkpoint: BOOLEAN, approver: {FALSE}]
    /\ campaign \in {[status |-> s, approved |-> TRUE, next |-> s = "SCHEDULED"] :
                        s \in {"RUNNING", "SCHEDULED", "COMPLETED"}}
    /\ worker = None
    /\ request = [u \in Users |-> None]
    /\ requeuing = [u \in Users |-> None]
    /\ revoked = FALSE
    /\ closing = None

-----------------------------------------------------------------------------
(***************************************************************************)
(* Batches and the end of the run.                                         *)
(***************************************************************************)
InBatch(b) == {j \in Jobs : BatchOf[j] = b}

With(js, J, status) == {j \in J : js[j] \in status}

BatchDone(js, b) == With(js, InBatch(b), Open) = {}

\* Mutant: cancelled jobs do not count as unsuccessful.
ThresholdOfFailed(js, b) ==
    100 * Cardinality(With(js, InBatch(b), {"FAILED"}))
        > FailureThreshold * Cardinality(InBatch(b) \ With(js, InBatch(b), Open))

\* batch_health: the share of unsuccessful results exceeds the threshold.
ThresholdExceeded(js, b) ==
    100 * Cardinality(With(js, InBatch(b), {"FAILED", "CANCELLED"}))
        > FailureThreshold * Cardinality(InBatch(b) \ With(js, InBatch(b), Open))

\* release_next_batch, on the run and on the jobs.
NextOpened(r, approver) ==
    [r EXCEPT !.active = @ + 1, !.status = "RUNNING", !.approver = approver]

Released(js, b) ==
    [j \in Jobs |-> IF BatchOf[j] = b /\ js[j] = "HELD" THEN "PENDING" ELSE js[j]]

AtCheckpoint(r) == [r EXCEPT !.status = "AWAITING_CHECKPOINT"]

\* Mutant: a run with something sent is complete.
OutcomeIfAnySent(js) ==
    IF With(js, Jobs, {"SENT"}) # {} THEN "COMPLETED" ELSE "FAILED"

Outcome(js) ==
    CASE With(js, Jobs, {"SENT"}) = Jobs -> "COMPLETED"
      [] With(js, Jobs, {"SENT"}) = {} -> "FAILED"
      [] OTHER -> "PARTIAL"

LastBatch(r) == r.active = TotalBatches

\* _finalize_run returns early.
NothingToDo(r, js) ==
    \/ r.status = "CANCELLED"
    \/ ~LastBatch(r) /\ (r.status = "AWAITING_CHECKPOINT" \/ ~BatchDone(js, r.active))
    \/ LastBatch(r) /\ With(js, Jobs, Open) # {}

\* What _finalize_run may make of the run object r, when it counts the jobs js.
\* Capacity may refuse to release a batch that has jobs.
Finalized(r, js) ==
    IF NothingToDo(r, js) THEN {r}
    ELSE IF LastBatch(r) THEN {[r EXCEPT !.status = Outcome(js)]}
    ELSE IF r.checkpoint \/ ThresholdExceeded(js, r.active) THEN {AtCheckpoint(r)}
    ELSE {NextOpened(r, FALSE)} \cup
         {AtCheckpoint(r) : j \in With(js, InBatch(r.active + 1), {"HELD"})}

\* ... and of the campaign object, when it ends the run.
CampaignFinalized(c, r, js) ==
    IF NothingToDo(r, js) \/ ~LastBatch(r) \/ c.next \/ c.status \in {"CANCELLED", "FAILED"}
      THEN c
      ELSE [c EXCEPT !.status = IF With(js, Jobs, {"SENT"}) # {} THEN "COMPLETED" ELSE "FAILED"]

\* Only the columns in which the object differs from what was loaded.
Written(row, loaded, new) ==
    [f \in DOMAIN row |-> IF new[f] = loaded[f] THEN row[f] ELSE new[f]]

\* Rows that a cancel_job has locked by its flush, or to release them, until it
\* commits; retry_job and resolve_uncertain_delivery lock their job first.
LockedBy(q) ==
    {q.job} \cup IF q.newRun.active = q.run.active THEN {}
                 ELSE With(job, InBatch(q.newRun.active), {"HELD"})

Locked ==
    (UNION {LockedBy(request[u]) : u \in {v \in Users : request[v] # None}})
        \cup ({requeuing[u] : u \in Users} \ {None})

\* A transaction writes the run (from loaded to new), the jobs js and the batch
\* it releases, if any, and the campaign.  A cancel, edit or abort under way holds
\* the campaign, an abort the run as well.
Commit(js, loadedRun, newRun, loadedCampaign, newCampaign) ==
    /\ run' = Written(run, loadedRun, newRun)
    /\ campaign' = Written(campaign, loadedCampaign, newCampaign)
    /\ closing # None => newCampaign = loadedCampaign
    /\ closing = "PAUSED" => newRun = loadedRun
    /\ job' = IF newRun.active # loadedRun.active THEN Released(js, newRun.active) ELSE js

-----------------------------------------------------------------------------
(***************************************************************************)
(* The worker.  The lease lets one worker at a time serve the              *)
(* organisation's jobs; its session keeps the run and the campaign it      *)
(* loaded when it took the job.                                            *)
(***************************************************************************)
MayTake(j) ==
    /\ worker = None
    /\ closing = None
    /\ job[j] = "PENDING"
    /\ j \notin Locked
    /\ campaign.status \in Active

Begin(j) ==
    /\ MayTake(j)
    /\ campaign.approved
    /\ job' = [job EXCEPT ![j] = "PROCESSING"]
    /\ run' = [run EXCEPT !.status = IF @ = "QUEUED" THEN "RUNNING" ELSE @]
    /\ worker' = [job |-> j, run |-> run', campaign |-> campaign]
    /\ UNCHANGED <<reviewed, campaign, request, requeuing, revoked, closing>>

\* evaluate_delivery holds the job for review, or skips a duplicate, which
\* finalizes the run in the same transaction.
Withhold(j) ==
    /\ MayTake(j)
    /\ job' = [job EXCEPT ![j] = "WAITING_REVIEW"]
    /\ UNCHANGED <<reviewed, run, campaign, worker, request, requeuing, revoked, closing>>

NoLockAhead(r, new) == new.active # r.active => InBatch(new.active) \cap Locked = {}

SkipDuplicate(j) ==
    LET js == [job EXCEPT ![j] = "FAILED"] IN
    /\ MayTake(j)
    /\ campaign.approved
    /\ \E new \in Finalized(run, js) :
          /\ NoLockAhead(run, new)
          /\ Commit(js, run, new, campaign, CampaignFinalized(campaign, run, js))
    /\ UNCHANGED <<reviewed, worker, request, requeuing, revoked, closing>>

\* The job is sent or has failed for good: the run is finalized on the objects
\* loaded by Begin.
Finish ==
    /\ worker # None
    /\ \E result \in {"SENT", "FAILED"} :
         LET js == [job EXCEPT ![worker.job] = result] IN
         \E new \in Finalized(worker.run, js) :
            /\ NoLockAhead(worker.run, new)
            /\ Commit(js, worker.run, new, worker.campaign,
                      CampaignFinalized(worker.campaign, worker.run, js))
    /\ worker' = None
    /\ UNCHANGED <<reviewed, request, requeuing, revoked, closing>>

\* It is to be tried again, held, or its result is uncertain: the run is not
\* finalized.
PutBack ==
    /\ worker # None
    /\ \E s \in {"PENDING", "WAITING_REVIEW", "UNCERTAIN"} :
          job' = [job EXCEPT ![worker.job] = s]
    /\ worker' = None
    /\ UNCHANGED <<reviewed, run, campaign, request, requeuing, revoked, closing>>

Crash ==
    /\ worker # None
    /\ worker' = None
    /\ UNCHANGED <<job, reviewed, run, campaign, request, requeuing, revoked, closing>>

\* recover_stale_jobs
Recover(j) ==
    /\ job[j] = "PROCESSING"
    /\ worker # None => worker.job # j
    /\ \E s \in {"PENDING", "UNCERTAIN"} : job' = [job EXCEPT ![j] = s]
    /\ UNCHANGED <<reviewed, run, campaign, worker, request, requeuing, revoked, closing>>
-----------------------------------------------------------------------------
(***************************************************************************)
(* The operator's calls on single jobs.  What a cancel_job that read a job *)
(* overwrites is the subject of module Delivery; here the request counts   *)
(* the other jobs, and commits later what it decided then.                 *)
(***************************************************************************)
CancelDecide(u, j) ==
    LET js == [job EXCEPT ![j] = "CANCELLED"] IN
    /\ request[u] = None /\ requeuing[u] = None
    /\ j \notin Locked
    /\ job[j] \in {"HELD", "PENDING", "WAITING_REVIEW"}
    /\ \E new \in Finalized(run, js) :
          /\ NoLockAhead(run, new)
          /\ request' = [request EXCEPT ![u] =
                [job |-> j, run |-> run, campaign |-> campaign, newRun |-> new,
                 newCampaign |-> CampaignFinalized(campaign, run, js)]]
    /\ UNCHANGED <<job, reviewed, run, campaign, worker, requeuing, revoked, closing>>

CancelCommit(u) ==
    LET q == request[u] IN
    /\ q # None
    /\ Commit([job EXCEPT ![q.job] = "CANCELLED"], q.run, q.newRun, q.campaign, q.newCampaign)
    /\ request' = [request EXCEPT ![u] = None]
    /\ UNCHANGED <<reviewed, worker, requeuing, revoked, closing>>

CampaignActive == campaign.status \in Active /\ campaign.approved

\* retry_job, and the resolution of an uncertain result as not sent, look at the
\* campaign ...
MayRequeue(j) ==
    /\ j \notin Locked
    /\ job[j] = "UNCERTAIN" \/ (job[j] = "FAILED" /\ j \notin reviewed)
    /\ CampaignActive

RequeueCheck(u, j) ==
    /\ request[u] = None /\ requeuing[u] = None
    /\ MayRequeue(j)
    /\ requeuing' = [requeuing EXCEPT ![u] = j]
    /\ UNCHANGED <<job, reviewed, run, campaign, worker, request, revoked, closing>>

\* ... and later put the job back, whatever has become of the campaign.
Retry(u) ==
    /\ requeuing[u] # None
    /\ job[requeuing[u]] = "FAILED"
    /\ job' = [job EXCEPT ![requeuing[u]] = "PENDING"]
    /\ requeuing' = [requeuing EXCEPT ![u] = None]
    /\ UNCHANGED <<reviewed, run, campaign, worker, request, revoked, closing>>

\* resolve_uncertain_delivery settles the job and finalizes the run.
Resolved(j, result) ==
    LET js == [job EXCEPT ![j] = result] IN
    /\ reviewed' = reviewed \cup {j}
    /\ \E new \in Finalized(run, js) :
          /\ NoLockAhead(run, new)
          /\ Commit(js, run, new, campaign, CampaignFinalized(campaign, run, js))

ResolveNotSent(u) ==
    /\ requeuing[u] # None
    /\ job[requeuing[u]] = "UNCERTAIN"
    /\ Resolved(requeuing[u], "PENDING")
    /\ requeuing' = [requeuing EXCEPT ![u] = None]
    /\ UNCHANGED <<worker, request, revoked, closing>>

Resolve(j, result) ==
    /\ job[j] = "UNCERTAIN"
    /\ j \notin Locked
    /\ Resolved(j, result)
    /\ UNCHANGED <<worker, request, requeuing, revoked, closing>>

\* A bulk update waits for the rows it changes that others have locked.
Bulk(from, to) ==
    /\ With(job, Locked, from) = {}
    /\ job' = [j \in Jobs |-> IF job[j] \in from THEN to ELSE job[j]]

\* resume_connection requeues the jobs held for review.
ResumeConnection ==
    /\ Bulk({"WAITING_REVIEW"}, "PENDING")
    /\ UNCHANGED <<reviewed, run, campaign, worker, request, requeuing, revoked, closing>>

\* revoke_connection cancels what was released, and does not look at the run.  A
\* late result may pause the connection again, and a resume activate it.
RevokeConnection ==
    /\ revoked' = TRUE
    /\ Bulk({"PENDING", "WAITING_REVIEW"}, "CANCELLED")
    /\ UNCHANGED <<reviewed, run, campaign, worker, request, requeuing, closing>>

-----------------------------------------------------------------------------
(***************************************************************************)
(* The operator's calls on the campaign and on the run lock the campaign   *)
(* row; continue and abort lock the run row as well.                       *)
(***************************************************************************)
PauseCampaign ==
    /\ closing = None
    /\ campaign.status \in Active
    /\ campaign' = [campaign EXCEPT !.status = "PAUSED"]
    /\ UNCHANGED <<job, reviewed, run, worker, request, requeuing, revoked, closing>>

AnyUncertain == With(job, Jobs, {"UNCERTAIN"}) # {}

\* Mutant: resume does not ask for a current approval.
MayResumeUnapproved == campaign.status = "PAUSED" /\ ~AnyUncertain

MayResume == campaign.status = "PAUSED" /\ campaign.approved /\ ~AnyUncertain

ResumeCampaign ==
    /\ closing = None
    /\ MayResume
    /\ campaign' = IF With(job, Jobs, {"HELD", "PENDING", "WAITING_REVIEW"}) # {}
                     THEN [campaign EXCEPT !.status = "RUNNING"]
                     ELSE [campaign EXCEPT !.status = "SCHEDULED", !.next = TRUE]
    /\ UNCHANGED <<job, reviewed, run, worker, request, requeuing, revoked, closing>>

\* cancel_campaign and the edit of a paused campaign look for uncertain results
\* first ...
CloseCampaign(status) ==
    /\ closing = None
    /\ IF status = "DRAFT" THEN campaign.status = "PAUSED"
       ELSE campaign.status \notin {"COMPLETED", "CANCELLED"}
    /\ ~AnyUncertain
    /\ closing' = status
    /\ UNCHANGED <<job, reviewed, run, campaign, worker, request, requeuing, revoked>>

\* ... and then cancel every job that waits, whatever it waits for.
CloseCommit ==
    /\ closing \in {"CANCELLED", "DRAFT"}
    /\ Bulk(Open \ {"PROCESSING"}, "CANCELLED")
    /\ run' = [run EXCEPT !.status = IF @ \in Unfinished THEN "CANCELLED" ELSE @]
    /\ campaign' = [status |-> closing, approved |-> FALSE, next |-> FALSE]
    /\ closing' = None
    /\ UNCHANGED <<reviewed, worker, request, requeuing, revoked>>

\* A batch can be opened by hand: nothing in the active one waits for review.
MayContinue ==
    /\ run.status = "AWAITING_CHECKPOINT"
    /\ ~LastBatch(run)
    /\ campaign.approved
    /\ With(job, InBatch(run.active), {"WAITING_REVIEW", "UNCERTAIN"}) = {}

\* continue_staged_run; a batch without held jobs is refused.
ContinueRun ==
    LET new == NextOpened(run, TRUE) IN
    /\ closing = None
    /\ MayContinue
    /\ With(job, InBatch(new.active), {"HELD"}) # {}
    /\ NoLockAhead(run, new)
    /\ run' = new
    /\ job' = Released(job, new.active)
    /\ campaign' = [campaign EXCEPT !.status = "RUNNING"]
    /\ UNCHANGED <<reviewed, worker, request, requeuing, revoked, closing>>

\* abort_staged_run looks for uncertain results first ...
AbortCheck ==
    /\ closing = None
    /\ run.status \in Unfinished
    /\ ~AnyUncertain
    /\ closing' = "PAUSED"
    /\ UNCHANGED <<job, reviewed, run, campaign, worker, request, requeuing, revoked>>

\* Mutant: a job in processing does not block the abort.
AbortBlockedByReview == AnyUncertain

AbortBlocked == With(job, Jobs, {"PROCESSING"}) # {}

AbortedCampaign == [status |-> "PAUSED", approved |-> FALSE, next |-> FALSE]

\* ... and then for jobs in processing; it spares an uncertain job.
AbortRun ==
    /\ closing = "PAUSED"
    /\ ~AbortBlocked
    /\ Bulk({"HELD", "PENDING", "WAITING_REVIEW"}, "CANCELLED")
    /\ run' = [run EXCEPT !.status = "CANCELLED"]
    /\ campaign' = AbortedCampaign
    /\ closing' = None
    /\ UNCHANGED <<reviewed, worker, request, requeuing, revoked>>

\* A call is refused, fails, or is the one that the database picks when calls wait
\* for each other's locks.
Rollback ==
    /\ \/ closing # None /\ closing' = None /\ UNCHANGED <<request, requeuing>>
       \/ \E u \in Users :
             /\ request[u] # None \/ requeuing[u] # None
             /\ request' = [request EXCEPT ![u] = None]
             /\ requeuing' = [requeuing EXCEPT ![u] = None]
             /\ UNCHANGED closing
    /\ UNCHANGED <<job, reviewed, run, campaign, worker, revoked>>

-----------------------------------------------------------------------------
Next ==
    \/ \E j \in Jobs : Begin(j) \/ Withhold(j) \/ SkipDuplicate(j) \/ Recover(j)
    \/ Finish \/ PutBack \/ Crash
    \/ \E j \in Jobs : \E r \in {"SENT", "FAILED"} : Resolve(j, r)
    \/ \E u \in Users : CancelCommit(u) \/ Retry(u) \/ ResolveNotSent(u)
    \/ \E u \in Users, j \in Jobs : CancelDecide(u, j) \/ RequeueCheck(u, j)
    \/ ResumeConnection \/ RevokeConnection
    \/ PauseCampaign \/ ResumeCampaign
    \/ CloseCommit \/ \E s \in {"CANCELLED", "DRAFT"} : CloseCampaign(s)
    \/ ContinueRun \/ AbortCheck \/ AbortRun \/ Rollback

Spec == Init /\ [][Next]_vars

-----------------------------------------------------------------------------
(***************************************************************************)
(* Properties.                                                             *)
(***************************************************************************)

\* A run is reported as completed exactly when every one of its jobs was sent,
\* unless an operator has cancelled it meanwhile (_finalize_run).
CompletedMeansAllSent ==
    /\ run.status = "COMPLETED" => \A j \in Jobs : job[j] = "SENT"
    /\ (\A j \in Jobs : job[j] = "SENT") => run.status \in {"COMPLETED", "CANCELLED"}

\* abort_staged_run leaves nothing of the run that could still be sent, whatever
\* transactions were under way, and nothing comes back later, except a job whose
\* retry or resolution had looked at the campaign before.
Sendable == {"HELD", "PENDING", "WAITING_REVIEW", "PROCESSING"}

Aborted == run.status = "CANCELLED" /\ campaign.status = "PAUSED"

NothingReturns ==
    \A j \in Jobs : Aborted' /\ job'[j] \in Sendable =>
        \/ Aborted /\ job[j] \in Sendable
        \/ \E u \in Users : requeuing[u] = j

AbortLeavesNothingToSend == [][NothingReturns]_vars

\* A batch opens because an operator approved it, or because no checkpoint is
\* required and its predecessor stayed within the threshold: also when the
\* transaction that opens it decided on rows it had loaded earlier.
BatchSucceeded(js, b) ==
    LET bad == {j \in Jobs : BatchOf[j] = b /\ js[j] \in {"FAILED", "CANCELLED"}}
        ended == bad \cup {j \in Jobs : BatchOf[j] = b /\ js[j] = "SENT"}
    IN  100 * Cardinality(bad) <= FailureThreshold * Cardinality(ended)

BatchOpensOnMerit ==
    [][run'.active > run.active =>
         \/ run'.approver
         \/ ~run.checkpoint /\ BatchSucceeded(job', run'.active - 1)]_vars

\* Once the approval of a campaign is withdrawn (cancel, edit, abort), neither a
\* late result nor a call of the operator makes the campaign active again.
ActiveCampaignIsApproved == campaign.status \in Active => campaign.approved

\* delivery.py:969 `must never resurrect the cancelled run'
CancelledRunStays ==
    [][run.status = "CANCELLED" => run'.status = "CANCELLED"]_vars

\* API.md:263: when the active batch is finished, the run awaits a checkpoint or
\* the next batch is opened.  When no transaction is under way, a run that still
\* runs therefore has something open in its active batch, unless the connection
\* has been revoked.
FinishedBatchMovesOn ==
    ~revoked /\ run.status = "RUNNING" /\ worker = None /\ (\A u \in Users : request[u] = None /\ requeuing[u] = None)
        => ~BatchDone(job, run.active)

-----------------------------------------------------------------------------
(***************************************************************************)
(* Why an aborted run stays quiet, as an inductive invariant.              *)
(***************************************************************************)

\* The job that a worker serves is in processing, so the abort sees it.
ServedIsProcessing == worker # None => job[worker.job] = "PROCESSING"

\* A cancel_job holds the row of a job that waits, and nobody else does.
Cancellable == {"HELD", "PENDING", "WAITING_REVIEW"}

RequestedWaits ==
    \A u \in Users : request[u] # None => job[request[u].job] \in Cancellable

RequestsDiffer ==
    \A u, v \in Users :
        u # v /\ request[u] # None /\ request[v] # None => request[u].job # request[v].job

\* _finalize_run never cancels a run, never makes a campaign active or pauses it,
\* and does not give an approval: also not later, from a request under way.
DecidedRun(loaded, new) == new.status = "CANCELLED" => new = loaded

DecidedCampaign(loaded, new) ==
    new = loaded \/ \E s \in {"COMPLETED", "FAILED"} : new = [loaded EXCEPT !.status = s]

RequestsDecided ==
    \A u \in Users : request[u] # None =>
        /\ DecidedRun(request[u].run, request[u].newRun)
        /\ DecidedCampaign(request[u].campaign, request[u].newCampaign)

\* Only calls that withdraw the approval cancel a run.
CancelledIsUnapproved == run.status = "CANCELLED" => ~campaign.approved

AbortInv ==
    /\ RolloutTypeOK
    /\ ServedIsProcessing
    /\ RequestedWaits
    /\ RequestsDiffer
    /\ RequestsDecided
    /\ ActiveCampaignIsApproved
    /\ CancelledIsUnapproved
-----------------------------------------------------------------------------
(***************************************************************************)
(* Why a completed run has sent everything, as an inductive invariant.     *)
(* Decisions made on rows loaded earlier may open a batch twice, or step   *)
(* back to an earlier one, but only when some job was cancelled meanwhile; *)
(* and then the run cannot be completed any more.                          *)
(***************************************************************************)
NoneCancelled == \A j \in Jobs : job[j] # "CANCELLED"

\* What has not been released by its batch is held.
AheadIsHeld == \A j \in Jobs : BatchOf[j] > run.active => job[j] = "HELD"

\* While the worker serves a job, the run gets at most one batch ahead of the row
\* in its session, and nothing of that batch is under way.
WorkerKeepsUp ==
    worker # None =>
        /\ run.active <= worker.run.active + 1
        /\ run.active > worker.run.active => run.status # "AWAITING_CHECKPOINT"
        /\ \A j \in Jobs : BatchOf[j] > worker.run.active =>
              job[j] \in {"HELD", "PENDING", "WAITING_REVIEW"}

CompletionInv ==
    /\ AbortInv
    /\ CompletedMeansAllSent
    /\ worker # None => worker.run.status \notin {"COMPLETED", "CANCELLED"}
    /\ \A u \in Users : request[u] # None => request[u].newRun.status # "COMPLETED"
    /\ NoneCancelled => AheadIsHeld /\ WorkerKeepsUp
-----------------------------------------------------------------------------
(***************************************************************************)
(* Why a batch opens on merit, as an inductive invariant: what was sent in *)
(* a batch that stayed within the threshold stays sent, so the judgement   *)
(* holds when a cancel_job that made it commits, however late.             *)
(***************************************************************************)
SentEnough(js, b) ==
    100 * Cardinality(InBatch(b) \ With(js, InBatch(b), {"SENT"}))
        <= FailureThreshold * Cardinality(InBatch(b))

OpensNext(r, new, js) ==
    new.active # r.active =>
        new.active = r.active + 1 /\ ~r.checkpoint /\ SentEnough(js, r.active)

MeritInv ==
    /\ AbortInv
    /\ worker # None => worker.run.checkpoint = run.checkpoint
    /\ \A u \in Users : request[u] # None =>
          /\ request[u].run.checkpoint = run.checkpoint
          /\ request[u].newRun.checkpoint = run.checkpoint
          /\ OpensNext(request[u].run, request[u].newRun, job)
=============================================================================
