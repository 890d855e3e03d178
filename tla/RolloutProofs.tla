--------------------------- MODULE RolloutProofs ---------------------------
(***************************************************************************)
(* Proofs about module Rollout: types, approval, and the effect of abort.  *)
(***************************************************************************)
EXTENDS Rollout, FiniteSetTheorems, TLAPS

\* What _finalize_run decides is a run row, and it does not cancel the run.
LEMMA FinalizedDecides ==
    ASSUME NEW r \in RunRow, NEW js, NEW new \in Finalized(r, js)
    PROVE  new \in RunRow /\ DecidedRun(r, new)
<1>1. CASE NothingToDo(r, js)
    <2>1. Finalized(r, js) = {r}
        BY <1>1 DEF Finalized
    <2> QED
        BY <2>1 DEF DecidedRun
<1>2. CASE ~NothingToDo(r, js) /\ LastBatch(r)
    <2>1. new = [r EXCEPT !.status = Outcome(js)]
        BY <1>2 DEF Finalized
    <2>2. Outcome(js) \in {"COMPLETED", "FAILED", "PARTIAL"}
        BY DEF Outcome
    <2> QED
        BY <2>1, <2>2 DEF RunRow, Unfinished, DecidedRun
<1>3. CASE ~NothingToDo(r, js) /\ ~LastBatch(r)
    <2>1. new \in {NextOpened(r, FALSE), AtCheckpoint(r)}
        BY <1>3 DEF Finalized
    <2>2. r.active + 1 \in 1 .. TotalBatches
        BY <1>3, RolloutAssumption DEF LastBatch, RunRow
    <2> QED
        BY <2>1, <2>2 DEF NextOpened, AtCheckpoint, RunRow, Unfinished, DecidedRun
<1> QED
    BY <1>1, <1>2, <1>3

\* What it decides for the campaign ends the campaign or leaves it alone.
LEMMA CampaignDecides ==
    ASSUME NEW c \in CampaignRow, NEW r, NEW js
    PROVE  /\ CampaignFinalized(c, r, js) \in CampaignRow
           /\ DecidedCampaign(c, CampaignFinalized(c, r, js))
BY DEF CampaignFinalized, CampaignRow, Active, DecidedCampaign

\* A write of decided columns keeps the row's type, the approval and the
\* cancellation.
LEMMA WrittenRunRow ==
    ASSUME NEW row \in RunRow, NEW loaded \in RunRow, NEW new \in RunRow,
           DecidedRun(loaded, new)
    PROVE  /\ Written(row, loaded, new) \in RunRow
           /\ Written(row, loaded, new).status = "CANCELLED" => row.status = "CANCELLED"
BY DEF Written, RunRow, Unfinished, DecidedRun

LEMMA WrittenCampaignRow ==
    ASSUME NEW row \in CampaignRow, NEW loaded \in CampaignRow, NEW new \in CampaignRow,
           DecidedCampaign(loaded, new)
    PROVE  /\ Written(row, loaded, new) \in CampaignRow
           /\ Written(row, loaded, new).approved = row.approved
           /\ Written(row, loaded, new).status \in {row.status, "COMPLETED", "FAILED"}
BY DEF Written, CampaignRow, Active, DecidedCampaign

\* From the jobs js to the jobs new none becomes sendable, none is taken out of
\* processing, and what can be cancelled stays so.
Keeps(js, new) ==
    \A j \in Jobs :
        /\ new[j] \in Sendable => js[j] \in Sendable
        /\ js[j] = "PROCESSING" => new[j] = "PROCESSING"
        /\ js[j] \in Cancellable => new[j] \in Cancellable

\* The same for a whole transaction, with its jobs.
LEMMA CommitEffect ==
    ASSUME RolloutTypeOK,
           NEW js \in [Jobs -> JobStatus],
           NEW lr \in RunRow, NEW nr \in RunRow, DecidedRun(lr, nr),
           NEW lc \in CampaignRow, NEW nc \in CampaignRow, DecidedCampaign(lc, nc),
           Commit(js, lr, nr, lc, nc)
    PROVE  /\ job' \in [Jobs -> JobStatus]
           /\ Keeps(js, job')
           /\ run' \in RunRow
           /\ run'.status = "CANCELLED" => run.status = "CANCELLED"
           /\ campaign' \in CampaignRow
           /\ campaign'.approved = campaign.approved
           /\ campaign'.status \in {campaign.status, "COMPLETED", "FAILED"}
<1>1. job' = js \/ job' = Released(js, nr.active)
    BY DEF Commit
<1>2. Released(js, nr.active) \in [Jobs -> JobStatus]
    BY DEF Released, JobStatus, Open
<1>3. Keeps(js, Released(js, nr.active)) /\ Keeps(js, js)
    BY DEF Released, Sendable, Cancellable, Keeps
<1>4. run' = Written(run, lr, nr) /\ campaign' = Written(campaign, lc, nc)
    BY DEF Commit
<1>5. run \in RunRow /\ campaign \in CampaignRow
    BY DEF RolloutTypeOK
<1> QED
    BY <1>1, <1>2, <1>3, <1>4, <1>5, WrittenRunRow, WrittenCampaignRow

\* A cancel_job, and the jobs it and the other calls name, are well typed.
LEMMA RequestFields ==
    ASSUME RolloutTypeOK, RequestsDecided, NEW u \in Users, request[u] # None
    PROVE  /\ request[u].job \in Jobs
           /\ request[u].run \in RunRow /\ request[u].newRun \in RunRow
           /\ request[u].campaign \in CampaignRow /\ request[u].newCampaign \in CampaignRow
           /\ DecidedRun(request[u].run, request[u].newRun)
           /\ DecidedCampaign(request[u].campaign, request[u].newCampaign)
<1>1. request[u] \in Cancelling
    BY DEF RolloutTypeOK
<1> QED
    BY <1>1 DEF Cancelling, RequestsDecided

-----------------------------------------------------------------------------
\* What every step does, in the terms of the theorems: the types stay, the approval is
\* not given back, and from a run that is not aborted only abort_staged_run leads
\* to one that is.
LEMMA InitAbort == Init => AbortInv
<1> SUFFICES ASSUME Init PROVE AbortInv
    OBVIOUS
<1>1. job \in [Jobs -> JobStatus]
    BY DEF Init, JobStatus, Open
<1>2. run \in RunRow /\ run.status = "QUEUED"
    <2>1. 1 \in 1 .. TotalBatches
        BY RolloutAssumption
    <2>2. run \in [status: {"QUEUED"}, active: {1}, checkpoint: BOOLEAN, approver: {FALSE}]
        BY DEF Init
    <2> QED
        BY <2>1, <2>2 DEF RunRow, Unfinished
<1>3. campaign \in CampaignRow /\ campaign.approved
    <2>1. PICK s \in {"RUNNING", "SCHEDULED", "COMPLETED"} :
                campaign = [status |-> s, approved |-> TRUE, next |-> s = "SCHEDULED"]
        BY DEF Init
    <2> QED
        BY <2>1 DEF CampaignRow, Active
<1>4. RolloutTypeOK
    BY <1>1, <1>2, <1>3 DEF Init, RolloutTypeOK
<1> QED
    BY <1>2, <1>3, <1>4
    DEF Init, AbortInv, ServedIsProcessing, RequestedWaits, RequestsDiffer, RequestsDecided,
        ActiveCampaignIsApproved, CancelledIsUnapproved

-----------------------------------------------------------------------------
\* Most steps cancel no run, give or take no approval, and make a job sendable only
\* when a retry or a resolution had asked for it.
Calm ==
    /\ run'.status = "CANCELLED" => run.status = "CANCELLED"
    /\ campaign'.approved = campaign.approved
    /\ campaign'.status \in {campaign.status, "COMPLETED", "FAILED"}
    /\ \A j \in Jobs : job'[j] \in Sendable =>
           job[j] \in Sendable \/ \E u \in Users : requeuing[u] = j

\* A calm step keeps the approval facts and leads to no aborted run.
LEMMA CalmStep ==
    ASSUME AbortInv, Calm
    PROVE  ActiveCampaignIsApproved' /\ CancelledIsUnapproved' /\ NothingReturns
BY DEF AbortInv, Calm, ActiveCampaignIsApproved, CancelledIsUnapproved, Active,
       NothingReturns, Aborted

\* The rows that requests hold are locked.
LEMMA RequestLocks ==
    ASSUME NEW u \in Users
    PROVE  /\ request[u] # None => request[u].job \in Locked
           /\ requeuing[u] # None => requeuing[u] \in Locked
<1>1. ASSUME request[u] # None PROVE request[u].job \in Locked
    <2>1. request[u].job \in LockedBy(request[u])
        BY DEF LockedBy
    <2> QED
        BY <1>1, <2>1 DEF Locked
<1>2. ASSUME requeuing[u] # None PROVE requeuing[u] \in Locked
    <2>1. requeuing[u] \in {requeuing[v] : v \in Users} \ {None}
        BY <1>2
    <2> QED
        BY <2>1 DEF Locked
<1> QED
    BY <1>1, <1>2

Owned == ServedIsProcessing /\ RequestedWaits /\ RequestsDiffer

\* A step that touches no row of the worker or of a request leaves them what they own.
LEMMA OwnedStays ==
    ASSUME AbortInv, request' = request, worker' \in {worker, None},
           worker' # None => job'[worker.job] = "PROCESSING",
           \A u \in Users : request[u] # None => job'[request[u].job] \in Cancellable
    PROVE  Owned'
BY DEF AbortInv, Owned, ServedIsProcessing, RequestedWaits, RequestsDiffer

-----------------------------------------------------------------------------
\* The steps of the worker, one by one.
Good == RolloutTypeOK' /\ Owned' /\ RequestsDecided' /\ Calm

LEMMA BeginStep ==
    ASSUME AbortInv, NEW j \in Jobs, Begin(j)
    PROVE  Good
<1> USE DEF AbortInv
<1>1. run' \in RunRow /\ (run'.status = "CANCELLED" => run.status = "CANCELLED")
    BY DEF Begin, RolloutTypeOK, RunRow, Unfinished
<1>2. job' \in [Jobs -> JobStatus] /\ job[j] = "PENDING"
    BY DEF Begin, MayTake, RolloutTypeOK, JobStatus, Open
<1>3. worker' \in Serving /\ worker'.job = j
    BY <1>1 DEF Begin, RolloutTypeOK, Serving
<1>4. RolloutTypeOK' /\ RequestsDecided'
    BY <1>1, <1>2, <1>3 DEF Begin, RolloutTypeOK, RequestsDecided
<1>5. \A u \in Users : request[u] # None => request[u].job # j
    BY RequestLocks DEF Begin, MayTake
<1>6. Owned'
    BY <1>3, <1>5, RequestFields
    DEF Begin, Owned, RolloutTypeOK, ServedIsProcessing, RequestedWaits, RequestsDiffer
<1>7. Calm
    BY <1>1, <1>2 DEF Begin, Calm, Sendable, RolloutTypeOK
<1> QED
    BY <1>4, <1>6, <1>7 DEF Good

LEMMA WithholdStep ==
    ASSUME AbortInv, NEW j \in Jobs, Withhold(j)
    PROVE  Good
<1> USE DEF AbortInv
<1>1. worker = None /\ job[j] = "PENDING" /\ job' = [job EXCEPT ![j] = "WAITING_REVIEW"]
    BY DEF Withhold, MayTake
<1>2. RolloutTypeOK' /\ RequestsDecided'
    BY <1>1 DEF Withhold, RolloutTypeOK, JobStatus, Open, RequestsDecided
<1>3. \A u \in Users : request[u] # None => job'[request[u].job] \in Cancellable
    BY <1>1, RequestFields DEF RequestedWaits, Cancellable, RolloutTypeOK
<1>4. Owned'
    BY <1>1, <1>3, OwnedStays DEF Withhold
<1>5. Calm
    BY <1>1 DEF Withhold, Calm, Sendable, RolloutTypeOK
<1> QED
    BY <1>2, <1>4, <1>5 DEF Good

\* A transaction that settles a job that nobody else holds and finalizes the run on
\* rows of the right types.
LEMMA FinalizingStep ==
    ASSUME AbortInv, NEW j \in Jobs, NEW result \in JobStatus,
           job[j] \notin Sendable => result \notin Sendable \/ \E u \in Users : requeuing[u] = j,
           NEW r \in RunRow, NEW c \in CampaignRow,
           NEW new \in Finalized(r, [job EXCEPT ![j] = result]),
           Commit([job EXCEPT ![j] = result], r, new, c,
                  CampaignFinalized(c, r, [job EXCEPT ![j] = result])),
           request' = request, worker' \in {worker, None},
           worker' # None => job[worker.job] = "PROCESSING" /\ worker.job # j,
           \A u \in Users : request[u] # None => request[u].job # j,
           reviewed' \subseteq Jobs, requeuing' \in [Users -> Jobs \cup {None}],
           revoked' \in BOOLEAN, closing' = closing
    PROVE  Good
<1> USE DEF AbortInv
<1> DEFINE js == [job EXCEPT ![j] = result]
<1>1. js \in [Jobs -> JobStatus]
    BY DEF RolloutTypeOK
<1>2. js[j] = result /\ \A i \in Jobs \ {j} : js[i] = job[i]
    BY DEF RolloutTypeOK
<1>3. new \in Finalized(r, js) /\ Commit(js, r, new, c, CampaignFinalized(c, r, js))
    OBVIOUS
<1> HIDE DEF js
<1>4. /\ job' \in [Jobs -> JobStatus]
      /\ Keeps(js, job')
      /\ run' \in RunRow
      /\ run'.status = "CANCELLED" => run.status = "CANCELLED"
      /\ campaign' \in CampaignRow
      /\ campaign'.approved = campaign.approved
      /\ campaign'.status \in {campaign.status, "COMPLETED", "FAILED"}
    BY <1>1, <1>3, FinalizedDecides, CampaignDecides, CommitEffect
<1>5. RolloutTypeOK' /\ RequestsDecided'
    BY <1>4 DEF RolloutTypeOK, RequestsDecided
<1>6. \A u \in Users : request[u] # None => job'[request[u].job] \in Cancellable
    BY <1>2, <1>4, RequestFields DEF RequestedWaits, Keeps
<1>7. worker' # None => job'[worker.job] = "PROCESSING"
    BY <1>2, <1>4 DEF RolloutTypeOK, Serving, Keeps
<1>8. Owned'
    BY <1>6, <1>7, OwnedStays
<1>9. Calm
    BY <1>2, <1>4 DEF Calm, Keeps
<1> QED
    BY <1>5, <1>8, <1>9 DEF Good

LEMMA SkipDuplicateStep ==
    ASSUME AbortInv, NEW j \in Jobs, SkipDuplicate(j)
    PROVE  Good
<1>1. PICK new \in Finalized(run, [job EXCEPT ![j] = "FAILED"]) :
            Commit([job EXCEPT ![j] = "FAILED"], run, new, campaign,
                   CampaignFinalized(campaign, run, [job EXCEPT ![j] = "FAILED"]))
    BY DEF SkipDuplicate
<1>2. \A u \in Users : request[u] # None => request[u].job # j
    BY RequestLocks DEF SkipDuplicate, MayTake
<1>3. /\ run \in RunRow /\ campaign \in CampaignRow
      /\ reviewed \subseteq Jobs /\ requeuing \in [Users -> Jobs \cup {None}]
      /\ revoked \in BOOLEAN
    BY DEF AbortInv, RolloutTypeOK
<1> QED
    BY <1>1, <1>2, <1>3, FinalizingStep DEF SkipDuplicate, MayTake, JobStatus, Sendable

LEMMA FinishStep ==
    ASSUME AbortInv, Finish
    PROVE  Good
<1>1. PICK result \in {"SENT", "FAILED"} :
        LET js == [job EXCEPT ![worker.job] = result] IN
        \E new \in Finalized(worker.run, js) :
           Commit(js, worker.run, new, worker.campaign,
                  CampaignFinalized(worker.campaign, worker.run, js))
    BY DEF Finish
<1>2. PICK new \in Finalized(worker.run, [job EXCEPT ![worker.job] = result]) :
            Commit([job EXCEPT ![worker.job] = result], worker.run, new, worker.campaign,
                   CampaignFinalized(worker.campaign, worker.run,
                                     [job EXCEPT ![worker.job] = result]))
    BY <1>1
<1>3. worker.job \in Jobs /\ worker.run \in RunRow /\ worker.campaign \in CampaignRow
    BY DEF Finish, AbortInv, RolloutTypeOK, Serving
<1>4. \A u \in Users : request[u] # None => request[u].job # worker.job
    BY DEF Finish, AbortInv, ServedIsProcessing, RequestedWaits, Cancellable
<1>5. result \in JobStatus /\ result \notin Sendable
    BY DEF JobStatus, Sendable
<1>6. /\ reviewed \subseteq Jobs /\ requeuing \in [Users -> Jobs \cup {None}]
      /\ revoked \in BOOLEAN
    BY DEF AbortInv, RolloutTypeOK
<1> QED
    BY <1>2, <1>3, <1>4, <1>5, <1>6, FinalizingStep DEF Finish

\* A step that changes single rows, or none, and neither the run nor the campaign.
LEMMA PlainStep ==
    ASSUME AbortInv, UNCHANGED <<run, campaign, request>>,
           worker' \in {worker, None},
           job' \in [Jobs -> JobStatus],
           \A j \in Jobs : job'[j] # job[j] =>
               /\ worker' # None => worker.job # j
               /\ \A u \in Users : request[u] # None =>
                      request[u].job # j \/ job'[j] \in Cancellable
               /\ job'[j] \in Sendable =>
                      job[j] \in Sendable \/ \E u \in Users : requeuing[u] = j,
           reviewed' \subseteq Jobs, requeuing' \in [Users -> Jobs \cup {None}],
           revoked' \in BOOLEAN, closing' \in {None, "CANCELLED", "DRAFT", "PAUSED"}
    PROVE  Good
<1> USE DEF AbortInv
<1>1. RolloutTypeOK' /\ RequestsDecided'
    BY DEF RolloutTypeOK, RequestsDecided
<1>2. \A u \in Users : request[u] # None => job'[request[u].job] \in Cancellable
    BY RequestFields DEF RequestedWaits
<1>3. worker' # None => job'[worker.job] = "PROCESSING"
    BY DEF RolloutTypeOK, Serving, ServedIsProcessing
<1>4. Owned'
    BY <1>2, <1>3, OwnedStays
<1>5. Calm
    BY DEF Calm
<1> QED
    BY <1>1, <1>4, <1>5 DEF Good

LEMMA PutBackStep ==
    ASSUME AbortInv, PutBack \/ Crash \/ \E j \in Jobs : Recover(j)
    PROVE  Good
<1> USE DEF AbortInv
<1>1. /\ reviewed \subseteq Jobs /\ requeuing \in [Users -> Jobs \cup {None}]
      /\ revoked \in BOOLEAN /\ closing \in {None, "CANCELLED", "DRAFT", "PAUSED"}
      /\ job \in [Jobs -> JobStatus]
      /\ {"PENDING", "WAITING_REVIEW", "UNCERTAIN"} \subseteq JobStatus
    BY DEF RolloutTypeOK, JobStatus, Open
<1>2. \A j \in Jobs, u \in Users :
          job[j] = "PROCESSING" /\ request[u] # None => request[u].job # j
    BY DEF RequestedWaits, Cancellable
<1>3. CASE PutBack
    <2>1. worker.job \in Jobs /\ job[worker.job] = "PROCESSING" /\ worker' = None
        BY <1>3 DEF PutBack, RolloutTypeOK, Serving, ServedIsProcessing
    <2>2. PICK s \in {"PENDING", "WAITING_REVIEW", "UNCERTAIN"} :
                job' = [job EXCEPT ![worker.job] = s]
        BY <1>3 DEF PutBack
    <2>3. \A j \in Jobs : job'[j] # job[j] => j = worker.job
        BY <1>1, <2>2
    <2>4. job' \in [Jobs -> JobStatus]
        BY <1>1, <2>2
    <2> QED
        BY <1>1, <1>2, <1>3, <2>1, <2>3, <2>4, PlainStep DEF PutBack, Sendable
<1>4. CASE Crash
    BY <1>1, <1>4, PlainStep DEF Crash
<1>5. ASSUME NEW j \in Jobs, Recover(j) PROVE Good
    <2>1. PICK s \in {"PENDING", "UNCERTAIN"} : job' = [job EXCEPT ![j] = s]
        BY <1>5 DEF Recover
    <2>2. \A i \in Jobs : job'[i] # job[i] => i = j
        BY <1>1, <2>1
    <2>3. job' \in [Jobs -> JobStatus]
        BY <1>1, <2>1
    <2> QED
        BY <1>1, <1>2, <1>5, <2>2, <2>3, PlainStep DEF Recover, Sendable
<1> QED
    BY <1>3, <1>4, <1>5

-----------------------------------------------------------------------------
\* The calls on single jobs.

\* Two users never hold the same job: the second one finds the row locked.
LEMMA CancelDecideStep ==
    ASSUME AbortInv, NEW u \in Users, NEW j \in Jobs, CancelDecide(u, j)
    PROVE  Good
<1> USE DEF AbortInv
<1> DEFINE js == [job EXCEPT ![j] = "CANCELLED"]
<1>1. PICK new \in Finalized(run, js) :
          request' = [request EXCEPT ![u] =
              [job |-> j, run |-> run, campaign |-> campaign, newRun |-> new,
               newCampaign |-> CampaignFinalized(campaign, run, js)]]
    BY DEF CancelDecide
<1> HIDE DEF js
<1>2. run \in RunRow /\ campaign \in CampaignRow /\ request \in [Users -> Cancelling \cup {None}]
    BY DEF RolloutTypeOK
<1>3. /\ new \in RunRow /\ DecidedRun(run, new)
      /\ CampaignFinalized(campaign, run, js) \in CampaignRow
      /\ DecidedCampaign(campaign, CampaignFinalized(campaign, run, js))
    BY <1>1, <1>2, FinalizedDecides, CampaignDecides
<1>4. request' \in [Users -> Cancelling \cup {None}]
    BY <1>1, <1>2, <1>3 DEF Cancelling
<1>5. /\ request'[u].job = j /\ request'[u].run = run /\ request'[u].newRun = new
      /\ request'[u].campaign = campaign
      /\ request'[u].newCampaign = CampaignFinalized(campaign, run, js)
      /\ \A v \in Users \ {u} : request'[v] = request[v]
    BY <1>1, <1>2
<1>6. RolloutTypeOK'
    BY <1>4 DEF CancelDecide, RolloutTypeOK
<1>7. RequestsDecided'
    BY <1>3, <1>5 DEF RequestsDecided
<1>8. \A v \in Users : request[v] # None => request[v].job # j
    BY RequestLocks DEF CancelDecide
<1>9. job[j] \in Cancellable
    BY DEF CancelDecide, Cancellable
<1>10. Owned'
    BY <1>5, <1>8, <1>9
    DEF CancelDecide, Owned, ServedIsProcessing, RequestedWaits, RequestsDiffer
<1>11. Calm
    BY DEF CancelDecide, Calm
<1> QED
    BY <1>6, <1>7, <1>10, <1>11 DEF Good

LEMMA CancelCommitStep ==
    ASSUME AbortInv, NEW u \in Users, CancelCommit(u)
    PROVE  Good
<1> USE DEF AbortInv
<1> DEFINE q == request[u]
           js == [job EXCEPT ![q.job] = "CANCELLED"]
<1>1. /\ request[u] # None
      /\ Commit(js, q.run, q.newRun, q.campaign, q.newCampaign)
      /\ request' = [request EXCEPT ![u] = None]
    BY DEF CancelCommit
<1>2. /\ q.job \in Jobs /\ q.run \in RunRow /\ q.newRun \in RunRow
      /\ q.campaign \in CampaignRow /\ q.newCampaign \in CampaignRow
      /\ DecidedRun(q.run, q.newRun) /\ DecidedCampaign(q.campaign, q.newCampaign)
    BY <1>1, RequestFields
<1>3. /\ js \in [Jobs -> JobStatus]
      /\ js[q.job] = "CANCELLED" /\ \A i \in Jobs \ {q.job} : js[i] = job[i]
    BY <1>2 DEF RolloutTypeOK, JobStatus
<1>4. job[q.job] \in Cancellable
    BY <1>1 DEF RequestedWaits
<1>5. \A v \in Users \ {u} : request[v] # None => request[v].job # q.job
    BY <1>1 DEF RequestsDiffer
<1>6. /\ \A v \in Users \ {u} : request'[v] = request[v]
      /\ request'[u] = None /\ request' \in [Users -> Cancelling \cup {None}]
    BY <1>1 DEF RolloutTypeOK
<1> HIDE DEF q, js
<1>7. /\ job' \in [Jobs -> JobStatus]
      /\ Keeps(js, job')
      /\ run' \in RunRow
      /\ run'.status = "CANCELLED" => run.status = "CANCELLED"
      /\ campaign' \in CampaignRow
      /\ campaign'.approved = campaign.approved
      /\ campaign'.status \in {campaign.status, "COMPLETED", "FAILED"}
    BY <1>1, <1>2, <1>3, CommitEffect
<1>8. RolloutTypeOK' /\ RequestsDecided'
    BY <1>6, <1>7 DEF CancelCommit, RolloutTypeOK, RequestsDecided
<1>9. ServedIsProcessing'
    <2>1. worker # None => worker.job \in Jobs \ {q.job}
        BY <1>4 DEF RolloutTypeOK, Serving, ServedIsProcessing, Cancellable
    <2> QED
        BY <2>1, <1>3, <1>7 DEF CancelCommit, ServedIsProcessing, Keeps
<1>10. RequestedWaits'
    <2>1. \A v \in Users \ {u} : request[v] # None => request[v].job \in Jobs \ {q.job}
        BY <1>5, RequestFields
    <2> QED
        BY <2>1, <1>3, <1>6, <1>7 DEF RequestedWaits, Keeps
<1>11. RequestsDiffer'
    BY <1>6 DEF RequestsDiffer
<1>12. Calm
    BY <1>2, <1>3, <1>7 DEF Calm, Keeps, Sendable
<1> QED
    BY <1>8, <1>9, <1>10, <1>11, <1>12 DEF Good, Owned

LEMMA RequeueSteps ==
    ASSUME AbortInv, NEW u \in Users, (\E j \in Jobs : RequeueCheck(u, j)) \/ Retry(u)
    PROVE  Good
<1> USE DEF AbortInv
<1>1. /\ reviewed \subseteq Jobs /\ requeuing \in [Users -> Jobs \cup {None}]
      /\ revoked \in BOOLEAN /\ closing \in {None, "CANCELLED", "DRAFT", "PAUSED"}
      /\ job \in [Jobs -> JobStatus] /\ "PENDING" \in JobStatus
    BY DEF RolloutTypeOK, JobStatus, Open
<1>2. ASSUME NEW j \in Jobs, RequeueCheck(u, j) PROVE Good
    BY <1>1, <1>2, PlainStep DEF RequeueCheck
<1>3. CASE Retry(u)
    <2> DEFINE j == requeuing[u]
    <2>1. j \in Jobs /\ job[j] = "FAILED" /\ job' = [job EXCEPT ![j] = "PENDING"]
        BY <1>1, <1>3 DEF Retry
    <2>2. \A i \in Jobs : job'[i] # job[i] => i = requeuing[u]
        BY <1>1, <2>1
    <2>3. job' \in [Jobs -> JobStatus] /\ requeuing' \in [Users -> Jobs \cup {None}]
        BY <1>1, <1>3, <2>1 DEF Retry
    <2>4. worker # None => worker.job # requeuing[u]
        BY <2>1 DEF ServedIsProcessing
    <2>5. \A v \in Users : request[v] # None => request[v].job # requeuing[u]
        BY <2>1 DEF RequestedWaits, Cancellable
    <2> QED
        BY <1>1, <1>3, <2>2, <2>3, <2>4, <2>5, PlainStep DEF Retry
<1> QED
    BY <1>2, <1>3

LEMMA ResolveSteps ==
    ASSUME AbortInv,
           \/ \E u \in Users : ResolveNotSent(u)
           \/ \E j \in Jobs : \E r \in {"SENT", "FAILED"} : Resolve(j, r)
    PROVE  Good
<1> USE DEF AbortInv
<1>1. /\ reviewed \subseteq Jobs /\ requeuing \in [Users -> Jobs \cup {None}]
      /\ revoked \in BOOLEAN /\ run \in RunRow /\ campaign \in CampaignRow
    BY DEF RolloutTypeOK
<1>2. \A j \in Jobs : job[j] = "UNCERTAIN" =>
          /\ worker # None => worker.job # j /\ job[worker.job] = "PROCESSING"
          /\ \A v \in Users : request[v] # None => request[v].job # j
    BY DEF ServedIsProcessing, RequestedWaits, Cancellable
<1>3. ASSUME NEW u \in Users, ResolveNotSent(u) PROVE Good
    <2>1. requeuing[u] \in Jobs /\ job[requeuing[u]] = "UNCERTAIN"
        BY <1>1, <1>3 DEF ResolveNotSent
    <2>2. PICK new \in Finalized(run, [job EXCEPT ![requeuing[u]] = "PENDING"]) :
                Commit([job EXCEPT ![requeuing[u]] = "PENDING"], run, new, campaign,
                       CampaignFinalized(campaign, run, [job EXCEPT ![requeuing[u]] = "PENDING"]))
        BY <1>3 DEF ResolveNotSent, Resolved
    <2>3. reviewed' \subseteq Jobs /\ requeuing' \in [Users -> Jobs \cup {None}]
        BY <1>1, <1>3, <2>1 DEF ResolveNotSent, Resolved
    <2>4. "PENDING" \in JobStatus
        BY DEF JobStatus, Open
    <2> QED
        BY <1>1, <1>2, <1>3, <2>1, <2>2, <2>3, <2>4, FinalizingStep DEF ResolveNotSent
<1>4. ASSUME NEW j \in Jobs, NEW r \in {"SENT", "FAILED"}, Resolve(j, r) PROVE Good
    <2>1. PICK new \in Finalized(run, [job EXCEPT ![j] = r]) :
                Commit([job EXCEPT ![j] = r], run, new, campaign,
                       CampaignFinalized(campaign, run, [job EXCEPT ![j] = r]))
        BY <1>4 DEF Resolve, Resolved
    <2>2. reviewed' \subseteq Jobs
        BY <1>1, <1>4 DEF Resolve, Resolved
    <2>3. r \in JobStatus /\ r \notin Sendable
        BY DEF JobStatus, Sendable
    <2> QED
        BY <1>1, <1>2, <1>4, <2>1, <2>2, <2>3, FinalizingStep DEF Resolve
<1> QED
    BY <1>3, <1>4

\* A bulk update passes by the worker's job and the jobs of requests.
LEMMA BulkEffect ==
    ASSUME AbortInv, NEW from, NEW to \in JobStatus, Bulk(from, to), "PROCESSING" \notin from
    PROVE  /\ job' \in [Jobs -> JobStatus]
           /\ \A j \in Jobs : job'[j] = IF job[j] \in from THEN to ELSE job[j]
           /\ \A j \in Jobs : job'[j] # job[j] => job[j] \in from
           /\ worker # None => job'[worker.job] = job[worker.job]
           /\ \A u \in Users : request[u] # None =>
                  job[request[u].job] \notin from /\ job'[request[u].job] = job[request[u].job]
<1> USE DEF AbortInv
<1>1. job' = [j \in Jobs |-> IF job[j] \in from THEN to ELSE job[j]]
    BY DEF Bulk
<1>2. job \in [Jobs -> JobStatus]
    BY DEF RolloutTypeOK
<1>3. worker # None => worker.job \in Jobs /\ job[worker.job] = "PROCESSING"
    BY DEF RolloutTypeOK, Serving, ServedIsProcessing
<1>4. \A u \in Users : request[u] # None =>
          request[u].job \in Jobs /\ job[request[u].job] \notin from
    BY RequestLocks, RequestFields DEF Bulk, With
<1> QED
    BY <1>1, <1>2, <1>3, <1>4

LEMMA ConnectionSteps ==
    ASSUME AbortInv, ResumeConnection \/ RevokeConnection
    PROVE  Good
<1> USE DEF AbortInv
<1>1. /\ reviewed \subseteq Jobs /\ requeuing \in [Users -> Jobs \cup {None}]
      /\ revoked \in BOOLEAN /\ closing \in {None, "CANCELLED", "DRAFT", "PAUSED"}
      /\ {"PENDING", "CANCELLED"} \subseteq JobStatus
    BY DEF RolloutTypeOK, JobStatus, Open
<1>2. PICK from \in {{"WAITING_REVIEW"}, {"PENDING", "WAITING_REVIEW"}},
           to \in {"PENDING", "CANCELLED"} : Bulk(from, to)
    BY DEF ResumeConnection, RevokeConnection
<1>3. "PROCESSING" \notin from /\ from \subseteq Sendable
    BY DEF Sendable
<1>4. worker # None => job[worker.job] = "PROCESSING"
    BY DEF ServedIsProcessing
<1>5. \A u \in Users : request[u] # None => request[u].job \in Jobs
    BY RequestFields
<1>6. /\ job' \in [Jobs -> JobStatus]
      /\ \A j \in Jobs : job'[j] # job[j] => job[j] \in Sendable
      /\ worker # None => job'[worker.job] = job[worker.job]
      /\ \A u \in Users : request[u] # None => job'[request[u].job] = job[request[u].job]
    BY <1>1, <1>2, <1>3, BulkEffect
<1> QED
    BY <1>1, <1>5, <1>6, PlainStep DEF ResumeConnection, RevokeConnection

-----------------------------------------------------------------------------
\* The calls on the campaign and the run.

\* A step that changes the campaign's status without reaching an aborted run.
LEMMA CampaignStep ==
    ASSUME AbortInv, RolloutTypeOK', Owned', RequestsDecided',
           campaign'.status \in Active => campaign'.approved,
           run'.status = "CANCELLED" => ~campaign'.approved,
           run'.status = "CANCELLED" => campaign'.status # "PAUSED"
    PROVE  AbortInv' /\ NothingReturns
BY DEF AbortInv, Owned, ActiveCampaignIsApproved, CancelledIsUnapproved, NothingReturns, Aborted

LEMMA StatusSteps ==
    ASSUME AbortInv, PauseCampaign \/ ResumeCampaign
    PROVE  AbortInv' /\ NothingReturns
<1> USE DEF AbortInv
<1>1. /\ campaign' \in CampaignRow /\ campaign.approved /\ campaign'.approved
      /\ UNCHANGED <<job, reviewed, run, worker, request, requeuing, revoked, closing>>
    BY DEF PauseCampaign, ResumeCampaign, MayResume, RolloutTypeOK, CampaignRow, Active,
           ActiveCampaignIsApproved
<1>2. RolloutTypeOK' /\ Owned' /\ RequestsDecided'
    BY <1>1 DEF RolloutTypeOK, Owned, ServedIsProcessing, RequestedWaits, RequestsDiffer,
                RequestsDecided
<1>3. run'.status # "CANCELLED"
    BY <1>1 DEF CancelledIsUnapproved
<1> QED
    BY <1>1, <1>2, <1>3, CampaignStep

LEMMA LockSteps ==
    ASSUME AbortInv,
           (\E s \in {"CANCELLED", "DRAFT"} : CloseCampaign(s)) \/ AbortCheck \/ Rollback
    PROVE  Good
<1> USE DEF AbortInv
<1>1. UNCHANGED <<job, reviewed, run, campaign, worker, revoked>>
    BY DEF CloseCampaign, AbortCheck, Rollback
<1>2. /\ closing' \in {None, "CANCELLED", "DRAFT", "PAUSED"}
      /\ request' \in [Users -> Cancelling \cup {None}]
      /\ requeuing' \in [Users -> Jobs \cup {None}]
      /\ \A u \in Users : request'[u] # None => request'[u] = request[u]
    BY DEF CloseCampaign, AbortCheck, Rollback, RolloutTypeOK
<1>3. RolloutTypeOK' /\ RequestsDecided'
    BY <1>1, <1>2 DEF RolloutTypeOK, RequestsDecided
<1>4. Owned'
    BY <1>1, <1>2 DEF Owned, ServedIsProcessing, RequestedWaits, RequestsDiffer
<1>5. Calm
    BY <1>1 DEF Calm
<1> QED
    BY <1>3, <1>4, <1>5 DEF Good

LEMMA CloseStep ==
    ASSUME AbortInv, CloseCommit
    PROVE  AbortInv' /\ NothingReturns
<1> USE DEF AbortInv
<1> DEFINE from == Open \ {"PROCESSING"}
<1>1. Bulk(from, "CANCELLED") /\ "PROCESSING" \notin from /\ "CANCELLED" \in JobStatus
    BY DEF CloseCommit, JobStatus
<1> HIDE DEF from
<1>2. /\ job' \in [Jobs -> JobStatus]
      /\ worker # None => job'[worker.job] = job[worker.job]
      /\ \A u \in Users : request[u] # None => job'[request[u].job] = job[request[u].job]
    BY <1>1, BulkEffect
<1>3. run' \in RunRow
    BY DEF CloseCommit, RolloutTypeOK, RunRow, Unfinished
<1>4. /\ campaign' \in CampaignRow /\ ~campaign'.approved
      /\ campaign'.status \in {"CANCELLED", "DRAFT"}
    BY DEF CloseCommit, CampaignRow
<1>5. RolloutTypeOK' /\ RequestsDecided'
    BY <1>2, <1>3, <1>4 DEF CloseCommit, RolloutTypeOK, RequestsDecided
<1>6. Owned'
    BY <1>2, OwnedStays DEF CloseCommit, ServedIsProcessing, RequestedWaits
<1> QED
    BY <1>4, <1>5, <1>6, CampaignStep DEF Active

LEMMA ContinueStep ==
    ASSUME AbortInv, ContinueRun
    PROVE  AbortInv' /\ NothingReturns
<1> USE DEF AbortInv
<1>1. run' = NextOpened(run, TRUE) /\ job' = Released(job, run.active + 1)
    BY DEF ContinueRun, NextOpened, RolloutTypeOK, RunRow
<1>2. run.active + 1 \in 1 .. TotalBatches
    BY RolloutAssumption DEF ContinueRun, MayContinue, LastBatch, RolloutTypeOK, RunRow
<1>3. run' \in RunRow /\ run'.status = "RUNNING"
    BY <1>1, <1>2 DEF NextOpened, RolloutTypeOK, RunRow, Unfinished
<1>4. job' \in [Jobs -> JobStatus] /\ Keeps(job, job')
    BY <1>1 DEF Released, RolloutTypeOK, JobStatus, Open, Keeps, Sendable, Cancellable
<1>5. campaign' \in CampaignRow /\ campaign'.approved
    BY DEF ContinueRun, MayContinue, RolloutTypeOK, CampaignRow, Active
<1>6. RolloutTypeOK' /\ RequestsDecided'
    BY <1>3, <1>4, <1>5 DEF ContinueRun, RolloutTypeOK, RequestsDecided
<1>7. worker # None => job'[worker.job] = "PROCESSING"
    BY <1>4 DEF RolloutTypeOK, Serving, ServedIsProcessing, Keeps
<1>8. \A u \in Users : request[u] # None => job'[request[u].job] \in Cancellable
    BY <1>4, RequestFields DEF RequestedWaits, Keeps
<1>9. Owned'
    BY <1>7, <1>8, OwnedStays DEF ContinueRun
<1> QED
    BY <1>3, <1>5, <1>6, <1>9, CampaignStep

\* The abort itself: nothing is in processing, and the bulk update takes all the rest.
LEMMA AbortStep ==
    ASSUME AbortInv, AbortRun
    PROVE  AbortInv' /\ NothingReturns
<1> USE DEF AbortInv
<1>1. /\ Bulk({"HELD", "PENDING", "WAITING_REVIEW"}, "CANCELLED") /\ "CANCELLED" \in JobStatus
      /\ \A j \in Jobs : job[j] # "PROCESSING"
    BY DEF AbortRun, AbortBlocked, With, JobStatus
<1>2. /\ job' \in [Jobs -> JobStatus]
      /\ \A j \in Jobs : job'[j] = IF job[j] \in {"HELD", "PENDING", "WAITING_REVIEW"}
                                      THEN "CANCELLED" ELSE job[j]
      /\ worker # None => job'[worker.job] = job[worker.job]
      /\ \A u \in Users : request[u] # None => job'[request[u].job] = job[request[u].job]
    BY <1>1, BulkEffect
<1>3. /\ run' \in RunRow /\ campaign' \in CampaignRow
      /\ ~campaign'.approved /\ campaign'.status = "PAUSED"
    BY DEF AbortRun, AbortedCampaign, RolloutTypeOK, RunRow, CampaignRow
<1>4. RolloutTypeOK' /\ RequestsDecided'
    BY <1>2, <1>3 DEF AbortRun, RolloutTypeOK, RequestsDecided
<1>5. Owned'
    BY <1>2, OwnedStays DEF AbortRun, ServedIsProcessing, RequestedWaits
<1>6. ActiveCampaignIsApproved' /\ CancelledIsUnapproved'
    BY <1>3 DEF ActiveCampaignIsApproved, CancelledIsUnapproved, Active
<1>7. \A j \in Jobs : job'[j] \notin Sendable
    BY <1>1, <1>2 DEF Sendable
<1> QED
    BY <1>4, <1>5, <1>6, <1>7 DEF Owned, NothingReturns

-----------------------------------------------------------------------------
LEMMA GoodStep ==
    ASSUME AbortInv, Good
    PROVE  AbortInv' /\ NothingReturns
BY CalmStep DEF Good, Owned, AbortInv

LEMMA AbortNext ==
    ASSUME AbortInv, Next
    PROVE  AbortInv' /\ NothingReturns
<1>1. CASE \E j \in Jobs : Begin(j) \/ Withhold(j) \/ SkipDuplicate(j) \/ Recover(j)
    BY <1>1, BeginStep, WithholdStep, SkipDuplicateStep, PutBackStep, GoodStep
<1>2. CASE Finish \/ PutBack \/ Crash
    BY <1>2, FinishStep, PutBackStep, GoodStep
<1>3. CASE \/ \E j \in Jobs : \E r \in {"SENT", "FAILED"} : Resolve(j, r)
           \/ \E u \in Users : ResolveNotSent(u)
    BY <1>3, ResolveSteps, GoodStep
<1>4. CASE \E u \in Users : CancelCommit(u) \/ Retry(u)
    BY <1>4, CancelCommitStep, RequeueSteps, GoodStep
<1>5. CASE \E u \in Users, j \in Jobs : CancelDecide(u, j) \/ RequeueCheck(u, j)
    BY <1>5, CancelDecideStep, RequeueSteps, GoodStep
<1>6. CASE ResumeConnection \/ RevokeConnection
    BY <1>6, ConnectionSteps, GoodStep
<1>7. CASE PauseCampaign \/ ResumeCampaign
    BY <1>7, StatusSteps
<1>8. CASE CloseCommit
    BY <1>8, CloseStep
<1>9. CASE (\E s \in {"CANCELLED", "DRAFT"} : CloseCampaign(s)) \/ AbortCheck \/ Rollback
    BY <1>9, LockSteps, GoodStep
<1>10. CASE ContinueRun
    BY <1>10, ContinueStep
<1>11. CASE AbortRun
    BY <1>11, AbortStep
<1> QED
    BY <1>1, <1>2, <1>3, <1>4, <1>5, <1>6, <1>7, <1>8, <1>9, <1>10, <1>11 DEF Next

LEMMA AbortStutter == AbortInv /\ UNCHANGED vars => AbortInv'
BY DEF vars, AbortInv, RolloutTypeOK, ServedIsProcessing, RequestedWaits, RequestsDiffer,
       RequestsDecided, ActiveCampaignIsApproved, CancelledIsUnapproved

\* The inductive invariant holds for any jobs, batches, threshold and users.
THEOREM AbortInvariant == Spec => []AbortInv
<1>1. AbortInv /\ [Next]_vars => AbortInv'
    BY AbortNext, AbortStutter
<1> QED
    BY InitAbort, <1>1, PTL DEF Spec

\* Rows, sessions and requests keep the types of Rollout.
THEOREM RolloutTypeCorrect == Spec => []RolloutTypeOK
<1>1. AbortInv => RolloutTypeOK
    BY DEF AbortInv
<1> QED
    BY AbortInvariant, <1>1, PTL

\* After cancel, edit or abort no late result and no call makes the campaign active.
THEOREM ApprovalRespected == Spec => []ActiveCampaignIsApproved
<1>1. AbortInv => ActiveCampaignIsApproved
    BY DEF AbortInv
<1> QED
    BY AbortInvariant, <1>1, PTL

\* abort_staged_run leaves nothing that could be sent, and only a retry or resolution
\* under way brings a job back.
THEOREM AbortIsFinal == Spec => AbortLeavesNothingToSend
<1>1. AbortInv /\ [Next]_vars => [NothingReturns]_vars
    BY AbortNext
<1> QED
    BY AbortInvariant, <1>1, PTL DEF Spec, AbortLeavesNothingToSend

-----------------------------------------------------------------------------
(***************************************************************************)
(* A completed run has sent everything.                                    *)
(***************************************************************************)
AllSent(js) == \A j \in Jobs : js[j] = "SENT"

\* What _finalize_run may make of a run.
LEMMA FinalizedShape ==
    ASSUME NEW r \in RunRow, NEW js, NEW new \in Finalized(r, js)
    PROVE  \/ new = r
           \/ ~NothingToDo(r, js) /\ LastBatch(r) /\ new = [r EXCEPT !.status = Outcome(js)]
           \/ ~NothingToDo(r, js) /\ ~LastBatch(r) /\ new = AtCheckpoint(r)
           \/ ~NothingToDo(r, js) /\ ~LastBatch(r) /\ new = NextOpened(r, FALSE)
BY DEF Finalized

LEMMA JobsExist == Jobs # {}
<1>1. 1 \in 1 .. TotalBatches
    BY RolloutAssumption
<1> QED
    BY <1>1, RolloutAssumption

LEMMA FinalizedFields ==
    ASSUME NEW r \in RunRow, NEW js, NEW new \in Finalized(r, js)
    PROVE  /\ new.active \in {r.active, r.active + 1}
           /\ new.active # r.active => BatchDone(js, r.active) /\ new.status = "RUNNING"
           /\ new.status = "AWAITING_CHECKPOINT" => new = r \/ BatchDone(js, r.active)
           /\ new.status = "COMPLETED" =>
                 r.status = "COMPLETED" \/ (AllSent(js) /\ new.active = r.active)
           /\ AllSent(js) /\ LastBatch(r) /\ r.status # "CANCELLED" => new.status = "COMPLETED"
           /\ r.status = "CANCELLED" => new.status = "CANCELLED"
<1>1. CASE new = r
    <2>1. ASSUME AllSent(js), LastBatch(r), r.status # "CANCELLED" PROVE r.status = "COMPLETED"
        <3>1. With(js, Jobs, Open) = {} /\ With(js, Jobs, {"SENT"}) = Jobs
            BY <2>1 DEF AllSent, With, Open
        <3>2. ~NothingToDo(r, js)
            BY <2>1, <3>1 DEF NothingToDo
        <3>3. Outcome(js) = "COMPLETED"
            BY <3>1, JobsExist DEF Outcome
        <3>4. Finalized(r, js) = {[r EXCEPT !.status = "COMPLETED"]}
            BY <2>1, <3>2, <3>3 DEF Finalized
        <3>5. [r EXCEPT !.status = "COMPLETED"].status = "COMPLETED"
            BY DEF RunRow
        <3> QED
            BY <1>1, <3>4, <3>5
    <2> QED
        BY <1>1, <2>1
<1>2. CASE ~NothingToDo(r, js) /\ LastBatch(r) /\ new = [r EXCEPT !.status = Outcome(js)]
    <2>1. new.active = r.active /\ new.status = Outcome(js)
        BY <1>2 DEF RunRow
    <2>2. Outcome(js) \in {"COMPLETED", "FAILED", "PARTIAL"}
        BY DEF Outcome
    <2>3. Outcome(js) = "COMPLETED" => AllSent(js)
        BY DEF Outcome, With, AllSent
    <2>4. AllSent(js) => Outcome(js) = "COMPLETED"
        <3>1. AllSent(js) => With(js, Jobs, {"SENT"}) = Jobs
            BY DEF With, AllSent
        <3> QED
            BY <3>1, JobsExist DEF Outcome
    <2>5. r.status # "CANCELLED"
        BY <1>2 DEF NothingToDo
    <2> QED
        BY <2>1, <2>2, <2>3, <2>4, <2>5
<1>3. CASE ~NothingToDo(r, js) /\ ~LastBatch(r) /\ new = AtCheckpoint(r)
    BY <1>3 DEF AtCheckpoint, NothingToDo, RunRow
<1>4. CASE ~NothingToDo(r, js) /\ ~LastBatch(r) /\ new = NextOpened(r, FALSE)
    BY <1>4 DEF NextOpened, NothingToDo, RunRow
<1> QED
    BY <1>1, <1>2, <1>3, <1>4, FinalizedShape

\* What a commit makes of the run, column by column, and of the jobs.
LEMMA CommitFields ==
    ASSUME run \in RunRow, NEW js \in [Jobs -> JobStatus],
           NEW lr \in RunRow, NEW nr \in RunRow, NEW lc, NEW nc,
           Commit(js, lr, nr, lc, nc)
    PROVE  /\ run'.active = IF nr.active = lr.active THEN run.active ELSE nr.active
           /\ run'.status = IF nr.status = lr.status THEN run.status ELSE nr.status
           /\ nr.active = lr.active => job' = js
           /\ \A j \in Jobs :
                 \/ job'[j] = js[j]
                 \/ js[j] = "HELD" /\ job'[j] = "PENDING" /\ BatchOf[j] = nr.active
BY DEF Commit, Written, RunRow, Released

LEMMA CommitSent ==
    ASSUME run \in RunRow, NEW js \in [Jobs -> JobStatus],
           NEW lr \in RunRow, NEW nr \in RunRow, NEW lc, NEW nc,
           Commit(js, lr, nr, lc, nc)
    PROVE  /\ AllSent(job') => AllSent(js)
           /\ \A j \in Jobs : job'[j] = "CANCELLED" <=> js[j] = "CANCELLED"
BY CommitFields DEF AllSent

\* What is ahead of the active batch has not been sent, as long as nothing was
\* cancelled.
LEMMA BatchHasJob == \A b \in 1 .. TotalBatches : \E j \in Jobs : BatchOf[j] = b
BY RolloutAssumption

\* A step that opens no batch, sends nothing, and ends the run only by a cancel.
LEMMA QuietCompletion ==
    ASSUME CompletionInv, AbortInv',
           run'.active = run.active, run'.status \in {run.status, "CANCELLED"},
           worker' \in {worker, None},
           \A u \in Users : request'[u] # None => request'[u].newRun.status # "COMPLETED",
           \A j \in Jobs :
              /\ job'[j] = "SENT" <=> job[j] = "SENT"
              /\ job[j] = "CANCELLED" => job'[j] = "CANCELLED"
              /\ job[j] = "HELD" => job'[j] \in {"HELD", "CANCELLED"}
              /\ worker' # None /\ job[j] \in {"PENDING", "WAITING_REVIEW"} =>
                    job'[j] \in {"PENDING", "WAITING_REVIEW", "CANCELLED"}
    PROVE  CompletionInv'
<1>1. CompletedMeansAllSent'
    BY DEF CompletionInv, CompletedMeansAllSent
<1>2. worker' # None => worker'.run.status \notin {"COMPLETED", "CANCELLED"}
    BY DEF CompletionInv
<1>3. ASSUME NoneCancelled' PROVE AheadIsHeld' /\ WorkerKeepsUp'
    <2>1. NoneCancelled
        BY <1>3 DEF NoneCancelled
    <2>2. AheadIsHeld'
        BY <1>3, <2>1 DEF CompletionInv, AheadIsHeld, NoneCancelled
    <2>3. WorkerKeepsUp'
        BY <1>3, <2>1 DEF CompletionInv, WorkerKeepsUp, NoneCancelled
    <2> QED
        BY <2>2, <2>3
<1> QED
    BY <1>1, <1>2, <1>3 DEF CompletionInv

\* A transaction that finalizes the run on its current row.
LEMMA FreshCompletion ==
    ASSUME CompletionInv, AbortInv', NEW j \in Jobs, job[j] \in {"PENDING", "UNCERTAIN"},
           worker # None => job[j] = "UNCERTAIN",
           NEW result \in {"SENT", "FAILED", "PENDING"}, NEW c, NEW nc,
           NEW new \in Finalized(run, [job EXCEPT ![j] = result]),
           Commit([job EXCEPT ![j] = result], run, new, c, nc),
           UNCHANGED <<worker, request>>
    PROVE  CompletionInv'
<1> DEFINE js == [job EXCEPT ![j] = result]
<1>1. /\ run \in RunRow /\ job \in [Jobs -> JobStatus] /\ js \in [Jobs -> JobStatus]
      /\ run.active \in 1 .. TotalBatches
    BY DEF CompletionInv, AbortInv, RolloutTypeOK, JobStatus, Open, RunRow
<1>2. js[j] = result /\ \A k \in Jobs \ {j} : js[k] = job[k]
    BY <1>1
<1>3. new \in RunRow
    BY <1>1, FinalizedDecides
<1>4. /\ run'.active = new.active /\ run'.status = new.status
      /\ new.active = run.active => job' = js
      /\ \A k \in Jobs :
            \/ job'[k] = js[k]
            \/ js[k] = "HELD" /\ job'[k] = "PENDING" /\ BatchOf[k] = new.active
    <2>1. Commit(js, run, new, c, nc)
        OBVIOUS
    <2> HIDE DEF js
    <2> QED
        BY <1>1, <1>3, <2>1, CommitFields
<1>5. /\ new.active \in {run.active, run.active + 1}
      /\ new.active # run.active => BatchDone(js, run.active) /\ new.status = "RUNNING"
      /\ new.status = "AWAITING_CHECKPOINT" => new = run \/ BatchDone(js, run.active)
      /\ new.status = "COMPLETED" =>
            run.status = "COMPLETED" \/ (AllSent(js) /\ new.active = run.active)
      /\ AllSent(js) /\ LastBatch(run) /\ run.status # "CANCELLED" => new.status = "COMPLETED"
      /\ run.status = "CANCELLED" => new.status = "CANCELLED"
    BY <1>1, FinalizedFields
<1>6. /\ AllSent(job') => AllSent(js)
      /\ \A k \in Jobs : job'[k] = "CANCELLED" <=> js[k] = "CANCELLED"
    BY <1>1, <1>3, CommitSent
<1> HIDE DEF js
<1>7. AllSent(js) => LastBatch(run)
    <2> SUFFICES ASSUME AllSent(js), ~LastBatch(run) PROVE FALSE
        OBVIOUS
    <2>1. PICK k \in Jobs : BatchOf[k] = run.active + 1
        BY <1>1, BatchHasJob, RolloutAssumption DEF LastBatch
    <2>2. NoneCancelled
        BY <1>2 DEF AllSent, NoneCancelled
    <2>3. job[k] = "HELD"
        BY <1>1, <2>1, <2>2 DEF CompletionInv, AheadIsHeld
    <2> QED
        BY <1>2, <2>3 DEF AllSent
<1>8. CompletedMeansAllSent'
    <2>1. run.status # "COMPLETED"
        BY DEF CompletionInv, CompletedMeansAllSent
    <2>2. run'.status = "COMPLETED" => AllSent(job')
        BY <1>4, <1>5, <2>1
    <2>3. AllSent(job') => run'.status \in {"COMPLETED", "CANCELLED"}
        BY <1>4, <1>5, <1>6, <1>7
    <2> QED
        BY <2>2, <2>3 DEF CompletedMeansAllSent, AllSent
<1>9. ASSUME NoneCancelled' PROVE AheadIsHeld' /\ WorkerKeepsUp'
    <2>1. NoneCancelled
        BY <1>2, <1>6, <1>9 DEF NoneCancelled
    <2>2. AheadIsHeld'
        <3>1. ASSUME NEW k \in Jobs, BatchOf[k] > new.active PROVE job'[k] = "HELD"
            <4>1. BatchOf[k] > run.active /\ BatchOf[k] # new.active
                BY <1>1, <1>5, <3>1, RolloutAssumption
            <4>2. job[k] = "HELD" /\ k # j
                BY <2>1, <4>1 DEF CompletionInv, AheadIsHeld
            <4> QED
                BY <1>2, <1>4, <4>1, <4>2
        <3> QED
            BY <1>4, <3>1 DEF AheadIsHeld
    <2>3. ASSUME worker # None
          PROVE  /\ new.active <= worker.run.active + 1
                 /\ new.active > worker.run.active => new.status # "AWAITING_CHECKPOINT"
                 /\ \A k \in Jobs : BatchOf[k] > worker.run.active =>
                       job'[k] \in {"HELD", "PENDING", "WAITING_REVIEW"}
        <3>1. /\ run.active <= worker.run.active + 1
              /\ run.active > worker.run.active => run.status # "AWAITING_CHECKPOINT"
              /\ \A k \in Jobs : BatchOf[k] > worker.run.active =>
                    job[k] \in {"HELD", "PENDING", "WAITING_REVIEW"}
            BY <2>1, <2>3 DEF CompletionInv, WorkerKeepsUp
        <3>2. worker.run.active \in Int
            <4>1. worker \in Serving
                BY <2>3 DEF CompletionInv, AbortInv, RolloutTypeOK
            <4> QED
                BY <4>1 DEF Serving, RunRow
        <3>3. BatchDone(js, run.active) => run.active <= worker.run.active
            <4> SUFFICES ASSUME BatchDone(js, run.active), run.active > worker.run.active
                         PROVE  FALSE
                BY <1>1, <3>2
            <4>1. PICK k \in Jobs : BatchOf[k] = run.active
                BY <1>1, BatchHasJob
            <4>2. job[k] \in {"HELD", "PENDING", "WAITING_REVIEW"}
                BY <3>1, <4>1
            <4>3. js[k] \in Open
                BY <1>2, <2>3, <4>2 DEF Open
            <4> QED
                BY <4>1, <4>3 DEF BatchDone, InBatch, With
        <3>4. new.active <= worker.run.active + 1
            BY <1>1, <1>5, <3>1, <3>2, <3>3
        <3>5. new.active > worker.run.active => new.status # "AWAITING_CHECKPOINT"
            BY <1>1, <1>5, <3>1, <3>2, <3>3
        <3>6. ASSUME NEW k \in Jobs, BatchOf[k] > worker.run.active
              PROVE  job'[k] \in {"HELD", "PENDING", "WAITING_REVIEW"}
            BY <1>2, <1>4, <2>3, <3>1, <3>6
        <3> QED
            BY <3>4, <3>5, <3>6
    <2>4. WorkerKeepsUp'
        BY <1>4, <2>3 DEF WorkerKeepsUp
    <2> QED
        BY <2>2, <2>4
<1> QED
    BY <1>8, <1>9 DEF CompletionInv

\* The worker decides on the run it loaded when it took the job.
LEMMA FinishCompletion ==
    ASSUME CompletionInv, AbortInv', Finish
    PROVE  CompletionInv'
<1>0. PICK result \in {"SENT", "FAILED"} :
        \E new \in Finalized(worker.run, [job EXCEPT ![worker.job] = result]) :
           Commit([job EXCEPT ![worker.job] = result], worker.run, new, worker.campaign,
                  CampaignFinalized(worker.campaign, worker.run,
                                    [job EXCEPT ![worker.job] = result]))
    BY DEF Finish
<1> DEFINE j == worker.job
           r == worker.run
           js == [job EXCEPT ![j] = result]
           nc == CampaignFinalized(worker.campaign, r, js)
<1>1. PICK new \in Finalized(r, js) : Commit(js, r, new, worker.campaign, nc)
    BY <1>0
<1>2. worker # None /\ worker' = None /\ request' = request
    BY DEF Finish
<1>3. /\ run \in RunRow /\ job \in [Jobs -> JobStatus] /\ js \in [Jobs -> JobStatus]
      /\ j \in Jobs /\ r \in RunRow /\ job[j] = "PROCESSING"
      /\ run.active \in 1 .. TotalBatches /\ r.active \in 1 .. TotalBatches
    <2>1. worker \in Serving
        BY <1>2 DEF CompletionInv, AbortInv, RolloutTypeOK
    <2> QED
        BY <1>2, <2>1 DEF CompletionInv, AbortInv, RolloutTypeOK, JobStatus, Open, RunRow, Serving,
                          ServedIsProcessing
<1>4. js[j] = result /\ \A k \in Jobs \ {j} : js[k] = job[k]
    BY <1>3
<1>5. new \in RunRow
    BY <1>3, FinalizedDecides
<1>6. /\ run'.active = IF new.active = r.active THEN run.active ELSE new.active
      /\ run'.status = IF new.status = r.status THEN run.status ELSE new.status
      /\ new.active = r.active => job' = js
      /\ \A k \in Jobs :
            \/ job'[k] = js[k]
            \/ js[k] = "HELD" /\ job'[k] = "PENDING" /\ BatchOf[k] = new.active
    BY <1>1, <1>3, <1>5, CommitFields
<1>7. /\ new.active \in {r.active, r.active + 1}
      /\ new.status = "COMPLETED" =>
            r.status = "COMPLETED" \/ (AllSent(js) /\ new.active = r.active)
      /\ AllSent(js) /\ LastBatch(r) /\ r.status # "CANCELLED" => new.status = "COMPLETED"
    BY <1>1, <1>3, FinalizedFields
<1>8. /\ AllSent(job') => AllSent(js)
      /\ \A k \in Jobs : job'[k] = "CANCELLED" <=> js[k] = "CANCELLED"
    BY <1>1, <1>3, <1>5, CommitSent
<1>9. r.status \notin {"COMPLETED", "CANCELLED"}
    BY <1>2 DEF CompletionInv
<1> HIDE DEF js, j, r, nc
<1>10. AllSent(js) => LastBatch(r)
    <2> SUFFICES ASSUME AllSent(js), ~LastBatch(r) PROVE FALSE
        OBVIOUS
    <2>1. PICK k \in Jobs : BatchOf[k] = r.active + 1
        BY <1>3, BatchHasJob, RolloutAssumption DEF LastBatch
    <2>2. NoneCancelled
        BY <1>3, <1>4 DEF AllSent, NoneCancelled
    <2>3. job[k] \in {"HELD", "PENDING", "WAITING_REVIEW"}
        BY <1>2, <1>3, <2>1, <2>2 DEF CompletionInv, WorkerKeepsUp, r
    <2> QED
        BY <1>3, <1>4, <2>3 DEF AllSent
<1>11. CompletedMeansAllSent'
    <2>1. run.status # "COMPLETED"
        BY <1>3 DEF CompletionInv, CompletedMeansAllSent
    <2>2. run'.status = "COMPLETED" => AllSent(job')
        BY <1>6, <1>7, <1>9, <2>1
    <2>3. AllSent(job') => run'.status = "COMPLETED"
        BY <1>6, <1>7, <1>8, <1>9, <1>10
    <2> QED
        BY <2>2, <2>3 DEF CompletedMeansAllSent, AllSent
<1>12. ASSUME NoneCancelled' PROVE AheadIsHeld'
    <2>1. NoneCancelled
        BY <1>3, <1>4, <1>8, <1>12 DEF NoneCancelled
    <2>2. run.active <= r.active + 1
        BY <1>2, <2>1 DEF CompletionInv, WorkerKeepsUp, r
    <2>3. ASSUME NEW k \in Jobs, BatchOf[k] > run'.active PROVE job'[k] = "HELD"
        <3>1. BatchOf[k] > run.active /\ (new.active # r.active => BatchOf[k] # new.active)
            BY <1>3, <1>6, <1>7, <2>2, <2>3, RolloutAssumption
        <3>2. job[k] = "HELD" /\ k # j
            BY <1>3, <2>1, <3>1 DEF CompletionInv, AheadIsHeld
        <3> QED
            BY <1>4, <1>6, <3>1, <3>2
    <2> QED
        BY <2>3 DEF AheadIsHeld
<1> QED
    BY <1>2, <1>11, <1>12 DEF CompletionInv, WorkerKeepsUp

LEMMA BeginCompletion ==
    ASSUME CompletionInv, AbortInv', NEW j \in Jobs, Begin(j)
    PROVE  CompletionInv'
<1>1. /\ job[j] = "PENDING" /\ job'[j] = "PROCESSING"
      /\ \A k \in Jobs \ {j} : job'[k] = job[k]
      /\ request' = request
    BY DEF Begin, MayTake, CompletionInv, AbortInv, RolloutTypeOK
<1>2. /\ worker'.run = run' /\ run'.active = run.active
      /\ run'.status \in {run.status, "RUNNING"} /\ run.active \in Int
    BY DEF Begin, CompletionInv, AbortInv, RolloutTypeOK, RunRow
<1>3. run.status \notin {"COMPLETED", "CANCELLED"}
    BY <1>1 DEF Begin, CompletionInv, CompletedMeansAllSent, AbortInv, CancelledIsUnapproved
<1>4. CompletedMeansAllSent'
    BY <1>1, <1>2, <1>3 DEF CompletedMeansAllSent
<1>5. ASSUME NoneCancelled' PROVE AheadIsHeld' /\ WorkerKeepsUp'
    <2>1. NoneCancelled
        BY <1>1, <1>5 DEF NoneCancelled
    <2>2. \A k \in Jobs : BatchOf[k] > run.active => job'[k] = "HELD"
        BY <1>1, <2>1 DEF CompletionInv, AheadIsHeld
    <2> QED
        BY <1>2, <2>2 DEF AheadIsHeld, WorkerKeepsUp
<1> QED
    BY <1>1, <1>2, <1>3, <1>4, <1>5 DEF CompletionInv

LEMMA ContinueCompletion ==
    ASSUME CompletionInv, AbortInv', ContinueRun
    PROVE  CompletionInv'
<1> DEFINE new == NextOpened(run, TRUE)
<1>1. /\ run \in RunRow /\ run.active \in Int
      /\ job \in [Jobs -> JobStatus]
    BY DEF CompletionInv, AbortInv, RolloutTypeOK, RunRow
<1>2. /\ run' = new /\ new.active = run.active + 1 /\ new.status = "RUNNING"
      /\ run.status = "AWAITING_CHECKPOINT" /\ UNCHANGED <<worker, request>>
    BY <1>1 DEF ContinueRun, MayContinue, NextOpened, RunRow
<1>3. \A k \in Jobs : job'[k] = IF BatchOf[k] = new.active /\ job[k] = "HELD"
                                  THEN "PENDING" ELSE job[k]
    BY DEF ContinueRun, Released
<1>4. ~AllSent(job')
    <2>1. PICK k \in Jobs : BatchOf[k] = new.active /\ job[k] = "HELD"
        BY DEF ContinueRun, With, InBatch
    <2> QED
        BY <1>3, <2>1 DEF AllSent
<1> HIDE DEF new
<1>5. CompletedMeansAllSent'
    BY <1>2, <1>4 DEF CompletedMeansAllSent, AllSent
<1>6. ASSUME NoneCancelled' PROVE AheadIsHeld' /\ WorkerKeepsUp'
    <2>1. NoneCancelled
        BY <1>3, <1>6 DEF NoneCancelled
    <2>2. AheadIsHeld'
        <3>1. ASSUME NEW k \in Jobs, BatchOf[k] > run.active + 1 PROVE job'[k] = "HELD"
            <4>1. BatchOf[k] > run.active /\ BatchOf[k] # new.active
                BY <1>1, <1>2, <3>1, RolloutAssumption
            <4> QED
                BY <1>3, <2>1, <4>1 DEF CompletionInv, AheadIsHeld
        <3> QED
            BY <1>2, <3>1 DEF AheadIsHeld
    <2>3. worker # None => worker.run.active \in Int
        <3>1. worker # None => worker \in Serving
            BY DEF CompletionInv, AbortInv, RolloutTypeOK
        <3> QED
            BY <3>1 DEF Serving, RunRow
    <2>4. worker # None => run.active <= worker.run.active
        BY <1>1, <1>2, <2>1, <2>3 DEF CompletionInv, WorkerKeepsUp
    <2>5. WorkerKeepsUp'
        BY <1>1, <1>2, <1>3, <2>1, <2>3, <2>4 DEF CompletionInv, WorkerKeepsUp
    <2> QED
        BY <2>2, <2>5
<1> QED
    BY <1>2, <1>5, <1>6 DEF CompletionInv

\* A cancel that commits leaves a run that cannot be completed any more.
LEMMA CancelCompletion ==
    ASSUME CompletionInv, AbortInv', NEW u \in Users, CancelCommit(u)
    PROVE  CompletionInv'
<1> DEFINE q == request[u]
           js == [job EXCEPT ![q.job] = "CANCELLED"]
<1>1. q # None /\ Commit(js, q.run, q.newRun, q.campaign, q.newCampaign)
    BY DEF CancelCommit
<1>2. /\ run \in RunRow /\ js \in [Jobs -> JobStatus]
      /\ q.job \in Jobs /\ q.run \in RunRow /\ q.newRun \in RunRow
      /\ job[q.job] \in Cancellable
    BY <1>1, RequestFields DEF CompletionInv, AbortInv, RolloutTypeOK, JobStatus, RequestedWaits
<1>3. job'[q.job] = "CANCELLED"
    BY <1>1, <1>2, CommitSent
<1>4. /\ worker' = worker
      /\ \A v \in Users : request'[v] # None => request'[v] = request[v]
    BY DEF CancelCommit, CompletionInv, AbortInv, RolloutTypeOK
<1>5. run.status # "COMPLETED" /\ q.newRun.status # "COMPLETED"
    BY <1>1, <1>2 DEF CompletionInv, CompletedMeansAllSent, Cancellable
<1>6. run'.status # "COMPLETED"
    <2> HIDE DEF q, js
    <2> QED
        BY <1>1, <1>2, <1>5, CommitFields
<1> QED
    BY <1>2, <1>3, <1>4, <1>6
    DEF CompletionInv, CompletedMeansAllSent, NoneCancelled

LEMMA DecideCompletion ==
    ASSUME CompletionInv, AbortInv', NEW u \in Users, NEW j \in Jobs, CancelDecide(u, j)
    PROVE  CompletionInv'
<1>1. PICK new \in Finalized(run, [job EXCEPT ![j] = "CANCELLED"]) :
        request' = [request EXCEPT ![u] =
            [job |-> j, run |-> run, campaign |-> campaign, newRun |-> new,
             newCampaign |-> CampaignFinalized(campaign, run, [job EXCEPT ![j] = "CANCELLED"])]]
    BY DEF CancelDecide
<1>2. run \in RunRow /\ ~AllSent([job EXCEPT ![j] = "CANCELLED"])
    BY DEF CompletionInv, AbortInv, RolloutTypeOK, AllSent
<1>3. run.status # "COMPLETED"
    BY DEF CancelDecide, CompletionInv, CompletedMeansAllSent
<1>4. new.status # "COMPLETED"
    BY <1>2, <1>3, FinalizedFields
<1>5. \A v \in Users : request'[v] # None => request'[v].newRun.status # "COMPLETED"
    BY <1>1, <1>4 DEF CompletionInv, AbortInv, RolloutTypeOK
<1> QED
    BY <1>5, QuietCompletion DEF CancelDecide

LEMMA InitCompletion == Init => CompletionInv
<1> SUFFICES ASSUME Init PROVE CompletionInv
    OBVIOUS
<1>1. PICK j \in Jobs : BatchOf[j] = 1
    BY BatchHasJob, RolloutAssumption
<1>2. job[j] # "SENT"
    BY <1>1 DEF Init
<1>3. run.status = "QUEUED" /\ run.active = 1
    BY DEF Init
<1>4. AheadIsHeld
    BY <1>3, RolloutAssumption DEF Init, AheadIsHeld
<1> QED
    BY <1>2, <1>3, <1>4, InitAbort
    DEF Init, CompletionInv, CompletedMeansAllSent, WorkerKeepsUp

LEMMA CompletionNext ==
    ASSUME CompletionInv, [Next]_vars
    PROVE  CompletionInv'
<1>0. /\ AbortInv /\ RolloutTypeOK /\ job \in [Jobs -> JobStatus]
      /\ \A u \in Users : request[u] # None => request[u].newRun.status # "COMPLETED"
    BY DEF CompletionInv, AbortInv, RolloutTypeOK
<1>1. AbortInv'
    BY <1>0, AbortNext, AbortStutter
<1>2. ASSUME NEW j \in Jobs, Begin(j) \/ Withhold(j) \/ SkipDuplicate(j) \/ Recover(j)
      PROVE  CompletionInv'
    <2>1. CASE Begin(j)
        BY <1>1, <2>1, BeginCompletion
    <2>2. CASE Withhold(j)
        BY <1>0, <1>1, <2>2, QuietCompletion DEF Withhold, MayTake
    <2>3. CASE SkipDuplicate(j)
        <3>1. PICK new \in Finalized(run, [job EXCEPT ![j] = "FAILED"]) :
                  Commit([job EXCEPT ![j] = "FAILED"], run, new, campaign,
                         CampaignFinalized(campaign, run, [job EXCEPT ![j] = "FAILED"]))
            BY <2>3 DEF SkipDuplicate
        <3> QED
            BY <1>1, <2>3, <3>1, FreshCompletion DEF SkipDuplicate, MayTake
    <2>4. CASE Recover(j)
        BY <1>0, <1>1, <2>4, QuietCompletion DEF Recover
    <2> QED
        BY <1>2, <2>1, <2>2, <2>3, <2>4
<1>3. CASE Finish
    BY <1>1, <1>3, FinishCompletion
<1>4. CASE PutBack \/ Crash
    <2>1. worker # None => job[worker.job] = "PROCESSING"
        BY <1>0 DEF AbortInv, ServedIsProcessing
    <2> QED
        BY <1>0, <1>1, <1>4, <2>1, QuietCompletion DEF PutBack, Crash
<1>5. ASSUME NEW j \in Jobs, NEW result \in {"SENT", "FAILED", "PENDING"},
             job[j] = "UNCERTAIN", Resolved(j, result), UNCHANGED <<worker, request>>
      PROVE  CompletionInv'
    <2>1. PICK new \in Finalized(run, [job EXCEPT ![j] = result]) :
              Commit([job EXCEPT ![j] = result], run, new, campaign,
                     CampaignFinalized(campaign, run, [job EXCEPT ![j] = result]))
        BY <1>5 DEF Resolved
    <2> QED
        BY <1>1, <1>5, <2>1, FreshCompletion
<1>6. ASSUME NEW u \in Users, CancelCommit(u) \/ Retry(u) \/ ResolveNotSent(u)
      PROVE  CompletionInv'
    <2>1. CASE CancelCommit(u)
        BY <1>1, <2>1, CancelCompletion
    <2>2. CASE Retry(u)
        BY <1>0, <1>1, <2>2, QuietCompletion DEF Retry
    <2>3. CASE ResolveNotSent(u)
        <3>1. requeuing[u] \in Jobs
            BY <1>0, <2>3 DEF ResolveNotSent, RolloutTypeOK
        <3> QED
            BY <1>5, <2>3, <3>1 DEF ResolveNotSent
    <2> QED
        BY <1>6, <2>1, <2>2, <2>3
<1>7. ASSUME NEW u \in Users, NEW j \in Jobs, CancelDecide(u, j) \/ RequeueCheck(u, j)
      PROVE  CompletionInv'
    BY <1>0, <1>1, <1>7, DecideCompletion, QuietCompletion DEF RequeueCheck
<1>8. CASE ResumeConnection \/ RevokeConnection
    BY <1>0, <1>1, <1>8, QuietCompletion DEF ResumeConnection, RevokeConnection, Bulk
<1>9. CASE \/ PauseCampaign \/ ResumeCampaign \/ AbortCheck
           \/ \E s \in {"CANCELLED", "DRAFT"} : CloseCampaign(s)
    BY <1>0, <1>1, <1>9, QuietCompletion
    DEF PauseCampaign, ResumeCampaign, AbortCheck, CloseCampaign
<1>10. CASE CloseCommit \/ AbortRun
    <2>1. /\ run'.active = run.active /\ run'.status \in {run.status, "CANCELLED"}
          /\ UNCHANGED <<worker, request>>
        BY <1>0, <1>10 DEF CloseCommit, AbortRun, RolloutTypeOK, RunRow
    <2>2. \A j \in Jobs :
              \/ job'[j] = job[j]
              \/ job[j] \in Open /\ job'[j] = "CANCELLED"
        BY <1>0, <1>10 DEF CloseCommit, AbortRun, Bulk, Open
    <2> QED
        BY <1>0, <1>1, <2>1, <2>2, QuietCompletion DEF Open
<1>11. CASE ContinueRun
    BY <1>1, <1>11, ContinueCompletion
<1>12. CASE Rollback
    <2>1. \A u \in Users : request'[u] \in {request[u], None}
        BY <1>0, <1>12 DEF Rollback, RolloutTypeOK
    <2> QED
        BY <1>0, <1>1, <1>12, <2>1, QuietCompletion DEF Rollback
<1>13. CASE UNCHANGED vars
    BY <1>0, <1>1, <1>13, QuietCompletion DEF vars
<1> QED
    BY <1>2, <1>3, <1>4, <1>5, <1>6, <1>7, <1>8, <1>9, <1>10, <1>11, <1>12, <1>13
    DEF Next, Resolve

\* Decisions on stale rows never complete a run that has not sent everything, and
\* never leave one uncompleted that has.
THEOREM CompletionInvariant == Spec => []CompletionInv
BY InitCompletion, CompletionNext, PTL DEF Spec

\* A run is reported as completed exactly when every one of its jobs was sent,
\* unless an operator has cancelled it: for any jobs, batches, threshold and users.
THEOREM CompletedIsSent == Spec => []CompletedMeansAllSent
<1>1. CompletionInv => CompletedMeansAllSent
    BY DEF CompletionInv
<1> QED
    BY CompletionInvariant, <1>1, PTL

-----------------------------------------------------------------------------
(***************************************************************************)
(* A batch opens on merit.                                                 *)
(***************************************************************************)
LEMMA BatchesFinite ==
    ASSUME NEW b, NEW S \in SUBSET InBatch(b)
    PROVE  IsFiniteSet(S) /\ Cardinality(S) \in Nat
<1>1. S \in SUBSET Jobs
    BY DEF InBatch
<1>2. IsFiniteSet(S)
    BY <1>1, FS_Subset, RolloutAssumption
<1> QED
    BY <1>2, FS_CardinalityType

\* A batch that is finished within the threshold has sent enough.
LEMMA FinishedIsEnough ==
    ASSUME NEW js \in [Jobs -> JobStatus], NEW b, BatchDone(js, b), ~ThresholdExceeded(js, b)
    PROVE  SentEnough(js, b)
<1>1. With(js, InBatch(b), Open) = {}
    BY DEF BatchDone
<1>2. InBatch(b) \ With(js, InBatch(b), {"SENT"}) = With(js, InBatch(b), {"FAILED", "CANCELLED"})
    BY <1>1 DEF With, InBatch, JobStatus
<1>3. InBatch(b) \ With(js, InBatch(b), Open) = InBatch(b)
    BY <1>1
<1> DEFINE bad == Cardinality(With(js, InBatch(b), {"FAILED", "CANCELLED"}))
           all == Cardinality(InBatch(b))
<1>4. bad \in Nat /\ all \in Nat
    BY BatchesFinite DEF With
<1>5. ~(100 * bad > FailureThreshold * all)
    BY <1>3 DEF ThresholdExceeded
<1>6. SentEnough(js, b) <=> 100 * bad <= FailureThreshold * all
    BY <1>2 DEF SentEnough
<1> HIDE DEF bad, all
<1>7. FailureThreshold \in Int
    BY RolloutAssumption
<1>8. FailureThreshold * all \in Int
    BY <1>4, <1>7
<1> QED
    BY <1>4, <1>5, <1>6, <1>8

SentStays(js, new) == \A j \in Jobs : js[j] = "SENT" => new[j] = "SENT"

\* It has, as long as nothing sent is taken back ...
LEMMA EnoughStays ==
    ASSUME NEW js, NEW new, SentStays(js, new), NEW b, SentEnough(js, b)
    PROVE  SentEnough(new, b)
<1> DEFINE before == InBatch(b) \ With(js, InBatch(b), {"SENT"})
           after  == InBatch(b) \ With(new, InBatch(b), {"SENT"})
           all    == Cardinality(InBatch(b))
<1>1. after \subseteq before
    BY DEF With, InBatch, SentStays
<1>2. IsFiniteSet(before) /\ Cardinality(before) \in Nat
    BY BatchesFinite
<1>3. Cardinality(after) \in Nat /\ all \in Nat
    BY BatchesFinite
<1>4. 100 * Cardinality(before) <= FailureThreshold * all
    BY DEF SentEnough
<1>5. SentEnough(new, b) <=> 100 * Cardinality(after) <= FailureThreshold * all
    BY DEF SentEnough
<1> HIDE DEF before, after, all
<1>6. Cardinality(after) <= Cardinality(before)
    BY <1>1, <1>2, FS_Subset
<1>7. FailureThreshold * all \in Int
    BY <1>3, RolloutAssumption
<1> QED
    BY <1>2, <1>3, <1>4, <1>5, <1>6, <1>7

LEMMA DisjointAdd ==
    ASSUME NEW S, NEW T, IsFiniteSet(S), IsFiniteSet(T), S \cap T = {}
    PROVE  Cardinality(S \cup T) = Cardinality(S) + Cardinality(T)
<1>1. Cardinality(S \cup T) = Cardinality(S) + Cardinality(T) - Cardinality(S \cap T)
    BY FS_Union
<1>2. Cardinality(S \cap T) = 0
    BY FS_EmptySet
<1>3. Cardinality(S) \in Nat /\ Cardinality(T) \in Nat
    BY FS_CardinalityType
<1> QED
    BY <1>1, <1>2, <1>3

\* ... and then it is within the threshold, whatever becomes of its other jobs.
LEMMA EnoughSucceeds ==
    ASSUME NEW js, NEW b, SentEnough(js, b)
    PROVE  BatchSucceeded(js, b)
<1> DEFINE bad   == {j \in Jobs : BatchOf[j] = b /\ js[j] \in {"FAILED", "CANCELLED"}}
           ended == bad \cup {j \in Jobs : BatchOf[j] = b /\ js[j] = "SENT"}
           rest  == InBatch(b) \ ended
           short == InBatch(b) \ With(js, InBatch(b), {"SENT"})
<1>1. BatchSucceeded(js, b) <=> 100 * Cardinality(bad) <= FailureThreshold * Cardinality(ended)
    BY DEF BatchSucceeded
<1>2. 100 * Cardinality(short) <= FailureThreshold * Cardinality(InBatch(b))
    BY DEF SentEnough
<1>3. short = bad \cup rest /\ bad \cap rest = {}
    BY DEF InBatch, With
<1>4. InBatch(b) = ended \cup rest /\ ended \cap rest = {}
    BY DEF InBatch
<1>5. bad \subseteq InBatch(b) /\ ended \subseteq InBatch(b) /\ rest \subseteq InBatch(b)
    BY DEF InBatch
<1> HIDE DEF bad, ended, rest, short
<1>6. /\ IsFiniteSet(bad) /\ IsFiniteSet(ended) /\ IsFiniteSet(rest)
      /\ Cardinality(bad) \in Nat /\ Cardinality(ended) \in Nat /\ Cardinality(rest) \in Nat
    BY <1>5, BatchesFinite
<1>7. Cardinality(short) = Cardinality(bad) + Cardinality(rest)
    BY <1>3, <1>6, DisjointAdd
<1>8. Cardinality(InBatch(b)) = Cardinality(ended) + Cardinality(rest)
    BY <1>4, <1>6, DisjointAdd
<1> DEFINE B == Cardinality(bad)
           E == Cardinality(ended)
           R == Cardinality(rest)
           T == FailureThreshold
<1>9. 100 * (B + R) <= T * (E + R)
    BY <1>2, <1>7, <1>8
<1>10. B \in Nat /\ E \in Nat /\ R \in Nat /\ T \in 0 .. 100
    BY <1>6, RolloutAssumption
<1>11. BatchSucceeded(js, b) <=> 100 * B <= T * E
    BY <1>1
<1> HIDE DEF B, E, R, T
<1>12. T * (E + R) = T * E + T * R
    BY <1>10
<1>13. T * R <= 100 * R
    BY <1>10
<1>14. T * E \in Int /\ T * R \in Int
    BY <1>10
<1>15. 100 * B <= T * E
    BY <1>9, <1>10, <1>12, <1>13, <1>14
<1> QED
    BY <1>11, <1>15

\* _finalize_run opens the batch after the one it found finished within the threshold.
LEMMA FinalizedOpens ==
    ASSUME NEW r \in RunRow, NEW js \in [Jobs -> JobStatus], NEW new \in Finalized(r, js)
    PROVE  OpensNext(r, new, js) /\ new.checkpoint = r.checkpoint
<1>1. new.checkpoint = r.checkpoint
    <2>1. /\ [r EXCEPT !.status = Outcome(js)].checkpoint = r.checkpoint
          /\ AtCheckpoint(r).checkpoint = r.checkpoint
          /\ NextOpened(r, FALSE).checkpoint = r.checkpoint
        BY DEF AtCheckpoint, NextOpened, RunRow
    <2> QED
        BY <2>1, FinalizedShape
<1>2. ASSUME new.active # r.active
      PROVE  new.active = r.active + 1 /\ ~r.checkpoint /\ SentEnough(js, r.active)
    <2>1. BatchDone(js, r.active) /\ new.active = r.active + 1
        BY <1>2, FinalizedFields
    <2>2. ~NothingToDo(r, js) /\ ~LastBatch(r)
        BY <1>2, FinalizedShape DEF RunRow
    <2>3. AtCheckpoint(r).active = r.active
        BY DEF AtCheckpoint, RunRow
    <2>4. ~(r.checkpoint \/ ThresholdExceeded(js, r.active))
        BY <1>2, <2>2, <2>3 DEF Finalized
    <2> QED
        BY <2>1, <2>4, FinishedIsEnough
<1> QED
    BY <1>1, <1>2 DEF OpensNext

OnMerit ==
    run'.active > run.active =>
        \/ run'.approver
        \/ ~run.checkpoint /\ BatchSucceeded(job', run'.active - 1)

\* A transaction that opens a batch on a judgement that still holds for its jobs.
LEMMA CommitOpens ==
    ASSUME run \in RunRow, job \in [Jobs -> JobStatus], NEW js \in [Jobs -> JobStatus],
           SentStays(job, js),
           NEW lr \in RunRow, NEW nr \in RunRow, NEW lc, NEW nc,
           lr.checkpoint = run.checkpoint, nr.checkpoint = run.checkpoint,
           OpensNext(lr, nr, js),
           Commit(js, lr, nr, lc, nc)
    PROVE  /\ run'.checkpoint = run.checkpoint
           /\ SentStays(job, job')
           /\ OnMerit
<1>1. run'.checkpoint = run.checkpoint
    BY DEF Commit, Written, RunRow
<1>2. /\ run'.active = IF nr.active = lr.active THEN run.active ELSE nr.active
      /\ \A j \in Jobs : js[j] = "SENT" => job'[j] = "SENT"
    BY CommitFields
<1>3. SentStays(job, job') /\ SentStays(js, job')
    BY <1>2 DEF SentStays
<1>4. run.active \in Int /\ lr.active \in Int
    BY DEF RunRow
<1>5. ASSUME run'.active > run.active
      PROVE  ~run.checkpoint /\ BatchSucceeded(job', run'.active - 1)
    <2>1. nr.active # lr.active /\ run'.active = nr.active
        BY <1>2, <1>4, <1>5
    <2>2. nr.active = lr.active + 1 /\ ~lr.checkpoint /\ SentEnough(js, lr.active)
        BY <2>1 DEF OpensNext
    <2>3. run'.active - 1 = lr.active
        BY <1>4, <2>1, <2>2
    <2>4. SentEnough(job', lr.active)
        BY <1>3, <2>2, EnoughStays
    <2>5. BatchSucceeded(job', lr.active)
        BY <2>4, EnoughSucceeds
    <2> QED
        BY <2>2, <2>3, <2>5
<1> QED
    BY <1>1, <1>3, <1>5 DEF OnMerit

\* A step that takes back nothing sent leaves the judgements under way as they are.
LEMMA MeritStays ==
    ASSUME MeritInv, AbortInv', SentStays(job, job'), run'.checkpoint = run.checkpoint,
           worker' # None => worker'.run.checkpoint = run.checkpoint,
           \A u \in Users : request'[u] \in {request[u], None}
    PROVE  MeritInv'
<1>1. ASSUME NEW u \in Users, request'[u] # None
      PROVE  /\ request'[u].run.checkpoint = run'.checkpoint
             /\ request'[u].newRun.checkpoint = run'.checkpoint
             /\ OpensNext(request'[u].run, request'[u].newRun, job')
    <2>1. request'[u] = request[u] /\ request[u] # None
        BY <1>1
    <2>2. /\ request[u].run.checkpoint = run.checkpoint
          /\ request[u].newRun.checkpoint = run.checkpoint
          /\ OpensNext(request[u].run, request[u].newRun, job)
        BY <2>1 DEF MeritInv
    <2>3. OpensNext(request[u].run, request[u].newRun, job')
        BY <2>2, EnoughStays DEF OpensNext
    <2> QED
        BY <2>1, <2>2, <2>3
<1> QED
    BY <1>1 DEF MeritInv

LEMMA QuietMerit ==
    ASSUME MeritInv, AbortInv', run'.checkpoint = run.checkpoint, run'.active = run.active,
           worker' \in {worker, None},
           \A j \in Jobs : job'[j] = job[j] \/ job[j] # "SENT",
           \A u \in Users : request'[u] \in {request[u], None}
    PROVE  MeritInv' /\ OnMerit
<1>1. SentStays(job, job')
    BY DEF SentStays
<1>2. worker' # None => worker'.run.checkpoint = run.checkpoint
    BY DEF MeritInv
<1>3. MeritInv'
    BY <1>1, <1>2, MeritStays
<1>4. run.active \in Int
    BY DEF MeritInv, AbortInv, RolloutTypeOK, RunRow
<1> QED
    BY <1>3, <1>4 DEF OnMerit

\* A transaction that settles a job and finalizes the run, on fresh rows or on those
\* in the worker's session.
LEMMA FinalizingMerit ==
    ASSUME MeritInv, AbortInv', NEW j \in Jobs, job[j] # "SENT", NEW result \in JobStatus,
           NEW r \in RunRow, r.checkpoint = run.checkpoint, NEW lc, NEW nc,
           NEW new \in Finalized(r, [job EXCEPT ![j] = result]),
           Commit([job EXCEPT ![j] = result], r, new, lc, nc),
           worker' \in {worker, None}, request' = request
    PROVE  MeritInv' /\ OnMerit
<1> DEFINE js == [job EXCEPT ![j] = result]
<1>1. run \in RunRow /\ job \in [Jobs -> JobStatus]
    BY DEF MeritInv, AbortInv, RolloutTypeOK
<1>2. js \in [Jobs -> JobStatus] /\ SentStays(job, js)
    BY <1>1 DEF SentStays
<1>3. new \in Finalized(r, js) /\ Commit(js, r, new, lc, nc)
    OBVIOUS
<1> HIDE DEF js
<1>4. new \in RunRow
    BY <1>3, FinalizedDecides
<1>5. OpensNext(r, new, js) /\ new.checkpoint = r.checkpoint
    BY <1>2, <1>3, FinalizedOpens
<1>6. run'.checkpoint = run.checkpoint /\ SentStays(job, job') /\ OnMerit
    BY <1>1, <1>2, <1>3, <1>4, <1>5, CommitOpens
<1>7. worker' # None => worker'.run.checkpoint = run.checkpoint
    BY DEF MeritInv
<1> QED
    BY <1>6, <1>7, MeritStays

LEMMA FinishMerit ==
    ASSUME MeritInv, AbortInv', Finish
    PROVE  MeritInv' /\ OnMerit
<1>1. PICK result \in {"SENT", "FAILED"} :
        LET js == [job EXCEPT ![worker.job] = result] IN
        \E new \in Finalized(worker.run, js) :
           Commit(js, worker.run, new, worker.campaign,
                  CampaignFinalized(worker.campaign, worker.run, js))
    BY DEF Finish
<1>2. PICK new \in Finalized(worker.run, [job EXCEPT ![worker.job] = result]) :
            Commit([job EXCEPT ![worker.job] = result], worker.run, new, worker.campaign,
                   CampaignFinalized(worker.campaign, worker.run,
                                     [job EXCEPT ![worker.job] = result]))
    BY <1>1
<1>3. /\ worker.job \in Jobs /\ worker.run \in RunRow
      /\ job[worker.job] # "SENT" /\ worker.run.checkpoint = run.checkpoint
    BY DEF Finish, MeritInv, AbortInv, RolloutTypeOK, Serving, ServedIsProcessing
<1>4. result \in JobStatus
    BY DEF JobStatus
<1>5. worker' \in {worker, None} /\ request' = request
    BY DEF Finish
<1> QED
    BY <1>2, <1>3, <1>4, <1>5, FinalizingMerit

LEMMA DecideMerit ==
    ASSUME MeritInv, AbortInv', NEW u \in Users, NEW j \in Jobs, CancelDecide(u, j)
    PROVE  MeritInv' /\ OnMerit
<1> DEFINE js == [job EXCEPT ![j] = "CANCELLED"]
<1>1. PICK new \in Finalized(run, js) :
          request' = [request EXCEPT ![u] =
              [job |-> j, run |-> run, campaign |-> campaign, newRun |-> new,
               newCampaign |-> CampaignFinalized(campaign, run, js)]]
    BY DEF CancelDecide
<1>2. /\ run \in RunRow /\ run.active \in Int /\ job \in [Jobs -> JobStatus]
      /\ request \in [Users -> Cancelling \cup {None}]
    BY DEF MeritInv, AbortInv, RolloutTypeOK, RunRow
<1>3. js \in [Jobs -> JobStatus] /\ SentStays(js, job)
    BY <1>2 DEF SentStays, JobStatus
<1> HIDE DEF js
<1>4. OpensNext(run, new, js) /\ new.checkpoint = run.checkpoint
    BY <1>2, <1>3, FinalizedOpens
<1>5. OpensNext(run, new, job)
    BY <1>3, <1>4, EnoughStays DEF OpensNext
<1>6. UNCHANGED <<job, run, worker>>
    BY DEF CancelDecide
<1>7. /\ request'[u].run = run /\ request'[u].newRun = new
      /\ \A v \in Users \ {u} : request'[v] = request[v]
    BY <1>1, <1>2
<1>8. \A v \in Users : request'[v] # None =>
          /\ request'[v].run.checkpoint = run.checkpoint
          /\ request'[v].newRun.checkpoint = run.checkpoint
          /\ OpensNext(request'[v].run, request'[v].newRun, job)
    BY <1>4, <1>5, <1>7 DEF MeritInv
<1>9. MeritInv'
    BY <1>6, <1>8 DEF MeritInv
<1> QED
    BY <1>2, <1>6, <1>9 DEF OnMerit

LEMMA CancelMerit ==
    ASSUME MeritInv, AbortInv', NEW u \in Users, CancelCommit(u)
    PROVE  MeritInv' /\ OnMerit
<1> DEFINE q == request[u]
           js == [job EXCEPT ![q.job] = "CANCELLED"]
<1>1. /\ run \in RunRow /\ job \in [Jobs -> JobStatus]
      /\ request \in [Users -> Cancelling \cup {None}] /\ RolloutTypeOK /\ RequestsDecided
    BY DEF MeritInv, AbortInv, RolloutTypeOK
<1>2. q # None /\ Commit(js, q.run, q.newRun, q.campaign, q.newCampaign)
    BY DEF CancelCommit
<1>3. /\ q.job \in Jobs /\ q.run \in RunRow /\ q.newRun \in RunRow
      /\ job[q.job] \in Cancellable
      /\ q.run.checkpoint = run.checkpoint /\ q.newRun.checkpoint = run.checkpoint
      /\ OpensNext(q.run, q.newRun, job)
    BY <1>1, <1>2, RequestFields DEF MeritInv, AbortInv, RequestedWaits
<1>4. js \in [Jobs -> JobStatus] /\ SentStays(job, js)
    BY <1>1, <1>3 DEF SentStays, JobStatus, Cancellable
<1>5. /\ worker' = worker
      /\ \A v \in Users : request'[v] \in {request[v], None}
    BY <1>1 DEF CancelCommit
<1> HIDE DEF q, js
<1>6. OpensNext(q.run, q.newRun, js)
    BY <1>3, <1>4, EnoughStays DEF OpensNext
<1>7. run'.checkpoint = run.checkpoint /\ SentStays(job, job') /\ OnMerit
    BY <1>1, <1>2, <1>3, <1>4, <1>6, CommitOpens
<1>8. worker' # None => worker'.run.checkpoint = run.checkpoint
    BY <1>5 DEF MeritInv
<1> QED
    BY <1>5, <1>7, <1>8, MeritStays

LEMMA BeginMerit ==
    ASSUME MeritInv, AbortInv', NEW j \in Jobs, Begin(j)
    PROVE  MeritInv' /\ OnMerit
<1>1. run \in RunRow /\ run.active \in Int /\ job \in [Jobs -> JobStatus] /\ job[j] = "PENDING"
    BY DEF Begin, MayTake, MeritInv, AbortInv, RolloutTypeOK, RunRow
<1>2. run'.checkpoint = run.checkpoint /\ run'.active = run.active
    BY <1>1 DEF Begin, RunRow
<1>3. SentStays(job, job')
    BY <1>1 DEF Begin, SentStays
<1>4. worker'.run.checkpoint = run.checkpoint /\ request' = request
    BY <1>2 DEF Begin
<1>5. MeritInv'
    BY <1>2, <1>3, <1>4, MeritStays
<1> QED
    BY <1>1, <1>2, <1>5 DEF OnMerit

LEMMA ContinueMerit ==
    ASSUME MeritInv, AbortInv', ContinueRun
    PROVE  MeritInv' /\ OnMerit
<1>1. run \in RunRow
    BY DEF MeritInv, AbortInv, RolloutTypeOK
<1>2. run'.checkpoint = run.checkpoint /\ run'.approver
    BY <1>1 DEF ContinueRun, NextOpened, RunRow
<1>3. SentStays(job, job') /\ worker' = worker /\ request' = request
    BY DEF ContinueRun, Released, SentStays
<1>4. worker' # None => worker'.run.checkpoint = run.checkpoint
    BY <1>3 DEF MeritInv
<1> QED
    BY <1>2, <1>3, <1>4, MeritStays DEF OnMerit

LEMMA InitMerit == Init => MeritInv
BY InitAbort DEF Init, MeritInv

LEMMA MeritNext ==
    ASSUME MeritInv, [Next]_vars
    PROVE  MeritInv' /\ OnMerit
<1>0. AbortInv /\ RolloutTypeOK /\ job \in [Jobs -> JobStatus] /\ run \in RunRow
    BY DEF MeritInv, AbortInv, RolloutTypeOK
<1>1. AbortInv'
    BY <1>0, AbortNext, AbortStutter
<1>2. ASSUME NEW j \in Jobs, Begin(j) \/ Withhold(j) \/ SkipDuplicate(j) \/ Recover(j)
      PROVE  MeritInv' /\ OnMerit
    <2>1. CASE Begin(j)
        BY <1>1, <2>1, BeginMerit
    <2>2. CASE Withhold(j)
        BY <1>0, <1>1, <2>2, QuietMerit DEF Withhold, MayTake
    <2>3. CASE SkipDuplicate(j)
        <3>1. PICK new \in Finalized(run, [job EXCEPT ![j] = "FAILED"]) :
                  Commit([job EXCEPT ![j] = "FAILED"], run, new, campaign,
                         CampaignFinalized(campaign, run, [job EXCEPT ![j] = "FAILED"]))
            BY <2>3 DEF SkipDuplicate
        <3>2. "FAILED" \in JobStatus
            BY DEF JobStatus
        <3> QED
            BY <1>0, <1>1, <2>3, <3>1, <3>2, FinalizingMerit DEF SkipDuplicate, MayTake
    <2>4. CASE Recover(j)
        BY <1>0, <1>1, <2>4, QuietMerit DEF Recover
    <2> QED
        BY <1>2, <2>1, <2>2, <2>3, <2>4
<1>3. CASE Finish
    BY <1>1, <1>3, FinishMerit
<1>4. CASE PutBack \/ Crash
    <2>1. worker # None => job[worker.job] = "PROCESSING"
        BY <1>0 DEF AbortInv, ServedIsProcessing
    <2> QED
        BY <1>0, <1>1, <1>4, <2>1, QuietMerit DEF PutBack, Crash
<1>5. ASSUME NEW j \in Jobs, NEW result \in {"SENT", "FAILED", "PENDING"},
             job[j] = "UNCERTAIN", Resolved(j, result), UNCHANGED <<worker, request>>
      PROVE  MeritInv' /\ OnMerit
    <2>1. PICK new \in Finalized(run, [job EXCEPT ![j] = result]) :
              Commit([job EXCEPT ![j] = result], run, new, campaign,
                     CampaignFinalized(campaign, run, [job EXCEPT ![j] = result]))
        BY <1>5 DEF Resolved
    <2>2. result \in JobStatus
        BY DEF JobStatus, Open
    <2> QED
        BY <1>0, <1>1, <1>5, <2>1, <2>2, FinalizingMerit
<1>6. ASSUME NEW u \in Users, CancelCommit(u) \/ Retry(u) \/ ResolveNotSent(u)
      PROVE  MeritInv' /\ OnMerit
    <2>1. CASE CancelCommit(u)
        BY <1>1, <2>1, CancelMerit
    <2>2. CASE Retry(u)
        BY <1>0, <1>1, <2>2, QuietMerit DEF Retry
    <2>3. CASE ResolveNotSent(u)
        <3>1. requeuing[u] \in Jobs
            BY <1>0, <2>3 DEF ResolveNotSent, RolloutTypeOK
        <3> QED
            BY <1>5, <2>3, <3>1 DEF ResolveNotSent
    <2> QED
        BY <1>6, <2>1, <2>2, <2>3
<1>7. ASSUME NEW u \in Users, NEW j \in Jobs, CancelDecide(u, j) \/ RequeueCheck(u, j)
      PROVE  MeritInv' /\ OnMerit
    BY <1>0, <1>1, <1>7, DecideMerit, QuietMerit DEF RequeueCheck
<1>8. CASE ResumeConnection \/ RevokeConnection
    BY <1>0, <1>1, <1>8, QuietMerit DEF ResumeConnection, RevokeConnection, Bulk
<1>9. CASE \/ PauseCampaign \/ ResumeCampaign \/ AbortCheck
           \/ \E s \in {"CANCELLED", "DRAFT"} : CloseCampaign(s)
    BY <1>0, <1>1, <1>9, QuietMerit
    DEF PauseCampaign, ResumeCampaign, AbortCheck, CloseCampaign
<1>10. CASE CloseCommit \/ AbortRun
    <2>1. /\ run'.active = run.active /\ run'.checkpoint = run.checkpoint
          /\ UNCHANGED <<worker, request>>
        BY <1>0, <1>10 DEF CloseCommit, AbortRun, RunRow
    <2>2. \A j \in Jobs : job'[j] = job[j] \/ job[j] \in Open
        BY <1>0, <1>10 DEF CloseCommit, AbortRun, Bulk, Open
    <2> QED
        BY <1>0, <1>1, <2>1, <2>2, QuietMerit DEF Open
<1>11. CASE ContinueRun
    BY <1>1, <1>11, ContinueMerit
<1>12. CASE Rollback
    <2>1. \A u \in Users : request'[u] \in {request[u], None}
        BY <1>0, <1>12 DEF Rollback, RolloutTypeOK
    <2> QED
        BY <1>0, <1>1, <1>12, <2>1, QuietMerit DEF Rollback
<1>13. CASE UNCHANGED vars
    BY <1>0, <1>1, <1>13, QuietMerit DEF vars
<1> QED
    BY <1>2, <1>3, <1>4, <1>5, <1>6, <1>7, <1>8, <1>9, <1>10, <1>11, <1>12, <1>13
    DEF Next, Resolve

\* A batch opens because an operator approved it, or because the batch before it
\* stayed within the threshold and no checkpoint is asked for: also when the
\* transaction that opens it decided on rows that have moved on.
THEOREM BatchesOpenOnMerit == Spec => BatchOpensOnMerit
<1>1. MeritInv /\ [Next]_vars => MeritInv' /\ [OnMerit]_vars
    BY MeritNext
<1> QED
    BY InitMerit, <1>1, PTL DEF Spec, BatchOpensOnMerit, OnMerit
=============================================================================
