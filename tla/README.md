# Verification of TeleFlow: fenced delivery and what surrounds it

TeleFlow schedules Telegram campaigns and delivers their messages from worker
processes on one or more execution sites. A message sent twice cannot be taken
back and a send that nobody remembers cannot be found, so the core of the program
is a protocol: jobs, attempts, an execution lease with a fencing epoch, a durable
network mark, stale recovery, controlled failover and the operator's review. Around
it stand the life of campaigns and their approval, staged rollout, limits, answers to
incoming messages, an outbox, drills, pilot stages, change control, and the files and
archives of an organization. This directory holds TLA+ models of these parts, TLC runs
that check them on small instances, and TLAPS proofs that hold for all instances.

## 1. The system

| Component | Code (`app/`) | What it does | What makes it correct |
|---|---|---|---|
| Delivery worker | `services/delivery.py`, `worker.py` | takes a job, marks the network start, sends, records the result; stale recovery at start | one accepted send per job; what is sent again was never sent; a lost send is found |
| Execution lease, failover | `services/execution.py` | claim, renewal, fence; request, approval, cancellation of a failover | an epoch names one worker; a switch leaves no send behind |
| Operator calls on jobs | `api/jobs.py` | retry, cancel, resolve | only review settles an uncertain result |
| Connections, gateways | `api/connections.py`, `services/telegram/` | pause, resume, revoke; classification of errors | a request that may have arrived is reported as uncertain |
| Rollout, run completion | `services/rollouts.py`, `_finalize_run` | batches, checkpoints, completion, abort | batches open on merit; a completed run was sent; an abort is final |
| Campaigns, approvals, scheduler | `api/campaigns.py`, `services/approvals.py`, `services/scheduler.py` | submission, decisions, occurrences become runs | an occurrence is run once, and only with a current quorum |
| Safety rules, destinations | `services/safety.py`, `destination_*.py`, `blackouts.py`, `content_guard.py`, `api/destinations.py` | who may be written to, and when | closed means closed; messages are spread; a deferral skips no opening |
| Capacity | `services/capacity.py` | admission to the queue, budget of calls | queue and window keep their limits |
| Outbox | `services/outbox.py`, `api/integrations.py` | events to endpoints | at least once to every endpoint that is owed it |
| Inbound, conversations, privacy | `services/inbound.py`, `flows.py`, `privacy.py`, `api/conversations.py` | updates, answers, consent, deletion | answered once; consent first; erased stays erased |
| Continuity drills | `services/continuity.py` | failover there and back, sign-off | a drill's row tells the story of its requests |
| Change control, release trust | `services/change_management.py`, `supply_chain.py`, `release_trust.py` | changes, maintenance, release log | an upgrade proceeds on evidence; the log is one history |
| SLO and incidents | `services/operations.py` | assessment, gate, incidents | incidents follow the assessment, without copies |
| Pilot | `services/pilot_stages.py`, `pilot_canary.py`, `pilot_programs.py` | limits on a new installation, staged proof | stages in order, each on its own delivered run |
| Stored files, recovery, bundles | `services/storage.py`, `recovery.py`, `config_bundles.py`, `support_bundle.py` | uploads, backups, drills, export and import | rows keep their files; what passed is proven; a copy is faithful |

`PROJECT.json` lists every part with its status, also those that are not modelled.

Everything goes through one database. A worker takes a due job and the lease in one
transaction, commits the attempt in a second, locks the lease row, commits
`NETWORK_STARTED` through another session while it keeps that lock, calls Telegram, and
commits the result, which releases the lock. Operators' requests and other processes run
between any two of these. Sessions are created with `expire_on_commit=False`: a worker goes
on with the rows it has loaded, and a write goes to the row by primary key whatever has
happened to it since. Most of what is hard in this code follows from that: decisions on rows
read earlier, locks taken after a row was read, crashes between two commits, answers that are
lost.

## 2. Modules

| Module | What it is | Proofs | Run |
|---|---|---|---|
| `ExecutionLease` | the lease record and what each database operation of `execution.py` does to it; no state | in `DeliveryProofs` and `ContinuityProofs` | |
| `Delivery`, `DeliveryProperties`, `DeliveryInvariants` | worker loop, lease, heartbeat, failover, operator calls, clock; the properties; the inductive invariants | `DeliveryProofs` | `delivery_takeover`, `delivery_failover` |
| `Rollout` | one run of a campaign: batches, completion, operator calls | `RolloutProofs` | `rollout_batches` |
| `AtLeastOnce`, `Outbox` | what the outbox promises, and the outbox | `OutboxProofs` | `outbox_promise` |
| `CampaignSchedule` | one campaign from draft to its last run | `PublishingProofs` | `schedule_runs` |
| `Inbound` | one conversation, with its erasure | `DataProofs` | `inbound_answers` |
| `Capacity` | one policy, its queue and its window | `LimitsProofs` | `capacity_limits` |
| `Continuity` | drills on the lease of `ExecutionLease` | `ContinuityProofs` | `continuity_drills` |
| `ChangeControl`, `Operations` | upgrades beside workers; assessments and incidents | `OperationsProofs` | `operations_changes` |
| `PilotStages`, `Pilot` | the organization's stage; programs on top of it | `LimitsProofs` | `pilot_stages` |
| `Destinations`, `Pacing` | the register of chats; when a message may go | `PublishingProofs` | `publishing_gate` |
| `StoredFiles`, `Recovery`, `Portability` | files and rows; backups and their evidence on top of them; import and export | `DataProofs` (all but `Portability`) | `archives` |

Each `MC…` module gives the constants of one run. Where a run holds two or three parts that
share no state (`MCOperations`, `MCPublishing`, `MCArchives`), its initial state picks one
of them and the others stand still, so that the run is their union and not their product.

### How `Delivery` corresponds to the code

State. `job` and `attempt` are the rows of `delivery_jobs` and `delivery_attempts` (an
attempt's `accepted` is Telegram's own knowledge, which no action of the program reads
except through Telegram's answer or the operator's look into the chat). `lease` is the
organization's `execution_leases` row, `failover` its open request. `worker[w]` is a
process: where it is in `process_next`, its job and attempt number, and `seen`, the lease
object its session loaded at the claim. `cancelling` holds the cancel requests that have read
their job and not yet written it.

Actions. One action per transaction, or per step between two transactions that another
process can observe:

| `process_next` | action | worker is then |
|---|---|---|
| `_select_due_job`, `claim_delivery_lease`, `evaluate_delivery`, commit | `Begin`, `Withhold` | `claimed` / `idle` |
| insert the attempt, commit | `Prepare` | `prepared` |
| `capacity_dispatch_decision` refuses | `CapacityRefused` | `idle` |
| `lock_delivery_fence` | `EnterFence`, `FenceLost` | `fenced` / `idle` |
| gateway or media fails | `FailBeforeCall` | `idle` |
| `_mark_attempt_network_started_durable` | `MarkStarted`, `MarkRefused` | `started` / `idle` |
| `gateway.send_message` | `CallTelegram` | `called` |
| the result handlers, commit | `Succeed`, `Refused`, `Ambiguous`, `Transient` | `idle` |

`Start` is the process start with stale recovery, `Crash` any death of the process.
`HeartbeatRead`/`HeartbeatCommit` are the two halves of `renew_owned_leases`; a new process
beats before it claims (`rejoining`). `RequestFailover`, `ApproveFailover`, `CancelFailover`,
`CancelRead`/`CancelCommit`, `RetryJob`, `Resolve`, `PauseConnection`, `ResumeConnection` are
the API calls. The row lock of the lease is `LeaseUnlocked`: no worker is between the fence
and its result. `_handle_*` and the success branch all write the attempt and the job by
primary key, which is the helper `Settle`.

The fence. `lock_delivery_fence` selects the lease row `FOR UPDATE`, but without
`populate_existing`; the session still holds the object the claim loaded, and SQLAlchemy keeps
the attributes of an object it knows. The comparisons are therefore made on the claim's
values, and `FenceHolds` uses `seen`.

Abstractions.
- Time is one bit per comparison the code makes: `lease.live` (`lease_expires_at > now`),
  `lease.renewed` (`last_renewed_at` set) and `job.aged` (`locked_at` older than
  `job_lease_minutes`). `LeaseExpires`, `SeenLeaseExpires` and `JobLockAges` move it. The lease
  TTL (45 s) is shorter than `job_lease_minutes` (10 min), so an aged lock implies that the
  holder's cached lease has expired.
- `job.code` tells apart the error codes that mean an uncertain result from the others, and has
  a meaning only in `WAITING_REVIEW`.
- The safety policy, capacity, the freshness of sites, runtime evidence and the status of
  campaign and destination are open: where the code consults them, the model allows both
  answers. `HELD` jobs belong to the rollout and do not occur.
- The operator reports truly in `Resolve` (`ReportsTruly`); a wrong report sends twice by design.
- A transaction that the database aborts is a `Crash` of the process followed by a restart:
  what it held is gone, what it committed stays.
- `_select_due_job` asks `FOR UPDATE SKIP LOCKED` over an outer join. PostgreSQL refuses to lock
  the nullable side of an outer join; the model takes the locking the statement asks for: the
  job, the connection, the campaign and the lease.
- The setting `execution_fencing_required` is on and a failover needs a second person
  (`execution_require_distinct_failover_approver`), as in production. The status `FROZEN` is
  never set by any code and does not occur.

Stalling. With `StallPossible = FALSE` a live worker finishes its job within
`job_lease_minutes`; with `TRUE` it may sleep as long as it likes. This is an assumption about
the environment, not about the code, and some properties need it: see section 4.

### How `Rollout` corresponds to the code

State. `job`, `run` and `campaign` are rows: a job's status, the run's `status`, `active_batch`,
`checkpoint_required` and whether `checkpoint_approved_by_id` is set, the campaign's `status`,
whether its approval is current and whether `next_run_at` is set. `reviewed` are the jobs with
a `review_resolution`. `worker` is the job the worker serves with the run and campaign objects
of its session; `request` is a `cancel_job` between its decision and its commit, with the
objects as loaded and as changed; `requeuing` is a `retry_job` or a resolution as not sent
between its checks and its commit; `closing` is a cancel, edit or abort that holds the
campaign row.

Transactions. `_finalize_run`, `batch_health` and `release_next_batch` are the operators
`NothingToDo`, `BatchDone`, `ThresholdExceeded`, `NextOpened`, `Released` and `Finalized`. They
take the run object of the session and the job statuses of the database apart, as the code does:
the statuses are counted by a query, the run is the object the session holds. `Written` is the
unit of work: only columns in which the object differs from what was loaded are written.

| Code | Action |
|---|---|
| `process_next` up to the first commit | `Begin`; `Withhold`, `SkipDuplicate` |
| the result handlers | `Finish` (sent or failed: finalizes), `PutBack` (retry, held, uncertain) |
| `recover_stale_jobs`, death of the process | `Recover`, `Crash` |
| `cancel_job` | `CancelDecide`, `CancelCommit` |
| `retry_job` | `RequeueCheck`, `Retry` |
| `resolve_uncertain_delivery` | `Resolve`; not sent: `RequeueCheck`, `ResolveNotSent` |
| `resume_connection`, `revoke_connection` | `ResumeConnection`, `RevokeConnection` |
| `pause_campaign`, `resume_campaign` | `PauseCampaign`, `ResumeCampaign` |
| `cancel_campaign`, `patch_campaign` of a paused campaign | `CloseCampaign`, `CloseCommit` |
| `continue_staged_run` | `ContinueRun` |
| `abort_staged_run` | `AbortCheck`, `AbortRun` |
| an exception, a refusal late in a call, a deadlock victim | `Rollback` |

Calls are split where another transaction can come between a check and what is done on its
strength; row locks (`Locked`, `NoLockAhead`, `Bulk`, `closing`) decide which ones can. Resume
and continue are one step: a job that comes up for review right after their check might as well
come up right after their commit.

Abstractions. One run; a recurring campaign shows as `next`. One worker at a time, which
`Delivery` justifies: the lease admits one. `PENDING` stands for `pending` and `retry`, `FAILED`
for `failed` and `skipped`, `UNCERTAIN` for `waiting_review` with one of the two uncertain codes;
whatever is pending may be taken. Readiness, SLO, stage and maintenance gates and capacity
may refuse at any time; refusing is not acting, except where a refusal changes the run (capacity
at a release, which makes a checkpoint). An approval is only withdrawn: a campaign approved
anew is a new story with a new run. `failure_percent` is compared exactly, the code rounds it to
two digits.

### `AtLeastOnce` and `Outbox`

`AtLeastOnce` says what an integration may rely on: an event is declared delivered only when
every endpoint that is owed it has taken it. `Outbox` is `services/outbox.py`: a worker claims an
event and keeps the row object, visits the endpoints it has not marked yet one after the other
with a commit after each, and settles the event; recovery at process start puts events in
`PROCESSING` back even under a live worker; operators retry, switch off and delete endpoints.
Every commit writes whole columns, so one worker's `marks` may replace another's. `Promise` is the
refinement mapping: `got` is what the endpoints took, `owed` is the endpoints that want the event
and were active throughout, `declared` the events in status `DELIVERED`.

### `CampaignSchedule`

One campaign: submission with or without quorum, decisions, edits that change the content
behind the approval's back, `run now`, pause, resume, cancel, abort, the lowering of the pilot
stage, and `tick` with its savepoint. The calls lock the campaign and read it afresh, so each is
one step; the worker keeps the campaign it loaded when it took the job, and writes from it
when a run ends. The gates consulted may refuse at any time.

### `Inbound`

One conversation with two rows it may be given: `Accept` stores an update, a worker takes it,
reads the conversation (`Look`), locks it with its first write, decides by what it has read, calls
Telegram within the transaction, and commits; an exception rolls back and the update is marked in
a second transaction. Operators change consent and automation with the view they have
loaded; a privacy request erases; retention scrubs. Texts, limits and candidates are reduced to
their outcomes, the kinds of a message are what the code's checks tell apart.

### `Capacity`

Admission and release by callers, precheck and reservation by workers, all under the lock of the
policy's row, with waiting for it as part of time. The reservation uses the policy object that
the claim left in the session. Time moves in ticks, and what is older than anything counted has
one age. `LeaseTTL <= Window` (45 s and 60 s in the code) is assumed: it bounds how long a
prepared attempt can go unseen.

### `Continuity`

Drills move the lease of `ExecutionLease` by two failover requests. A poller synchronizes a row
that it loaded before it locked it and writes the columns it changed; the other operations load
the row with its lock; a cancellation waits for the lease. Claims, expiry, reconciliation
and requests by hand move the lease meanwhile.

### `ChangeControl` and `Operations`

`ChangeControl` reads the evidence of a start or completion check by check (`CountSends`,
`VerifyRelease`, `VerifyDependencies`, `Proceed`) while keys are revoked, releases withdrawn, the
policy replaced and maintenance switched. The release log is appended to in two steps under the
locks of release and organization. `steady`, `ahead` and `moved` are history: whether maintenance
lasted, which workers had passed their look at the flag when sends were counted, and during
which requests evidence changed. `Operations` has evaluators that read policy and maintenance
before they wait for the policy's row, lock the active incident of a failing check, read the
incidents they will resolve without a lock, and write all at commit; operators acknowledge,
resolve, close and reopen in between.

### `PilotStages` and `Pilot`

`PilotStages` is the organization's stage with the assessments that raise it and the canaries and
runs they rest on. `Pilot` has programs that climb through stages of growing size: creation
looks for an unfinished program without a lock, evidence is gathered in one step and written
in another.

### `Destinations` and `Pacing`

`Destinations` has calls that read a row, wait for Telegram, and write the columns that
differ from what they read, while the worker and the scheduler act on the row. `Pacing` is the
order of rules with which `evaluate_delivery` puts a message off, with the arithmetic of windows,
weekly and one-time blackouts, cooldown, interval, cap and duplicate guard; time is counted in hours.

### `StoredFiles`, `Recovery` and `Portability`

`StoredFiles` separates the store from the database: every call touches one, then the other, and
may end between the two. `Recovery` extends it with the three scripts (backup, verification,
restore drill), which write files first and commit rows at their end and may be killed
anywhere, and with the receipts people import. `Portability` computes what an export
carries and what an import makes of it, table by table; it uses folds of the community modules
and is checked against `CopyIsFaithful`, a reference definition that does not use the import's
own maps.

## 3. Runs

| Run | Instance | What is checked |
|---|---|---|
| `delivery_takeover` | 2 workers of 1 site that may stall, 1 job, 2 attempts, 2 epochs, 1 crash; fair | `RequeuedWasNotSent`, `EpochNamesOneWorker`, `TakenJobIsLetGo` |
| `delivery_failover` | 2 sites with a worker each, 2 admins, 1 job, 3 epochs, 1 crash | `SentAtMostOnce`, `LostSendIsFound`, `FailoverLeavesNoOpenSend`, `OnlyReviewSettlesUncertain` |
| `rollout_batches` | 3 jobs in batches of 2 and 1, threshold 50 %, 1 user | `CompletedMeansAllSent`, `ActiveCampaignIsApproved`, `BatchOpensOnMerit`, `AbortLeavesNothingToSend` |
| `outbox_promise` | 1 event, 2 endpoints, 2 workers, 2 attempts, 2 disturbances; fair | `KeepsPromise`, `SuccessIsNotRepeated`, `EventSettles` |
| `schedule_runs` | 3 contents, 2 admins, times 0 and 1 | `OccurrenceIsNew`, `RunsAreApproved`, `OverStaysOver` |
| `inbound_answers` | 2 messages, one edited, 2 workers, 2 disturbances | `AnsweredOnce`, `ConsentFirst`, `ErasedStaysErased` |
| `capacity_limits` | 3 jobs, 2 workers, 2 callers, window 1, limits 1 and 2 | `QueueKeepsItsLimits`, `LimitKept` |
| `continuity_drills` | 2 drills, 3 requests, 1 poller, 2 policies, 3 epochs | `DrillIsOneCycle`, `CancelledLeavesNothing` |
| `operations_changes` | 2 users, 1 worker, 1 upgrade, 2 releases, 1 key, 3 log entries; 2 evaluators, 2 incidents | `LogIsOneHistory`, `OnlyOverlookedSendRuns`, `ProceedsOnEvidence`, `NoCopyOfActiveIncident`, `IncidentsFollowAssessment` |
| `pilot_stages` | 1 program, 2 destinations, 2 runs, 1 canary | `StagesInOrder`, `PassedStageDelivered`, `StageClimbsOnEvidence` |
| `publishing_gate` | 2 rows, 2 calls, 1 worker; 10 hours, 2 messages | `ClosedMeansNoMore`, `ReturnsOnRequest`, `DeferralSkipsNoOpening`, `AcknowledgedAreSpread` |
| `archives` | 2 callers, 2 media, 1 script, 2 backups, 1 drill; 2 organizations | `RowsKeepTheirFiles`, `PassedIsProven`, `BackupHoldsLiveMedia`, `CopyIsFaithful` |

Delivery. `SentAtMostOnce` is the purpose of the protocol: of one job's attempts Telegram
accepted at most one, apart from attempts that ended in an exception the worker does not classify.
`RequeuedWasNotSent` is why: an attempt whose record allows another send was not sent.
`EpochNamesOneWorker` is what the fencing epoch is for. `LostSendIsFound` says that stale
recovery, which looks at the latest attempt of jobs in `PROCESSING`, misses none; a cancel that
read the job before is the one way out, and the properties name it.

Rollout. `CompletedMeansAllSent`: the run's status is the truth about its jobs, although every
settlement decides on rows loaded earlier. `BatchOpensOnMerit`: when a batch opens, the one
before it has stayed within the threshold, or an operator approved. `AbortLeavesNothingToSend`
has one exception, a retry or a resolution that passed its check before the abort and
commits after it. `ActiveCampaignIsApproved` is about late writes to the campaign.

Outbox. `KeepsPromise` is the abstract module as a property. `SuccessIsNotRepeated`: an endpoint
whose success was recorded is not called again unless the event was put back under its worker.
`EventSettles`: an event ends delivered or dead.

Schedule. A new run has a time no run had (`OccurrenceIsNew`) and a quorum behind exactly its
content (`RunsAreApproved`); a finished campaign stays finished (`OverStaysOver`).

Inbound. `AnsweredOnce` excepts answers whose transaction was lost, or that a failing call
delivered. `ConsentFirst`: flow and AI speak only to who has agreed, unless an operator overruled
a refusal. `ErasedStaysErased`: neither an update nor the text a deletion covers comes back.

Capacity. `LimitKept`: no call starts above the limit its worker has read. `QueueKeepsItsLimits`:
what gates let in stays within the policy.

Continuity. `DrillIsOneCycle`: the columns of a drill, whoever wrote them and from which copy,
tell the story of its own requests, and an accepted live drill moved the lease away and back at
rising epochs. `CancelledLeavesNothing`: a cancellation leaves no request
of its drill open, nor the lease at the standby.

Changes and incidents. `LogIsOneHistory`: numbers without gaps, publication and withdrawal in
turn, one published release per version. `OnlyOverlookedSendRuns`: beside an upgrade that saw
maintenance and kept it, only a worker past its look at the flag is sending, and only one that was
invisible to the count of sends. `ProceedsOnEvidence`, `NoCopyOfActiveIncident` and
`IncidentsFollowAssessment` are about checks and lists that are out of date when used.

Pilot. `StagesInOrder`, `PassedStageDelivered` (a passed stage rests on a run of its own that
delivered everywhere), `StageClimbsOnEvidence` (a rise rests on an assessment that still holds).

Publishing. `ClosedMeansNoMore` (a destination that is closed gets at most what workers had
taken up before), `ReturnsOnRequest` (permission comes back only when asked
for), `AcknowledgedAreSpread` (intervals, cooldown, cap, guard), `DeferralSkipsNoOpening` (the
time a message is put off to is not later than the first moment it could go).

Files. `RowsKeepTheirFiles`, `BackupHoldsLiveMedia`, `PassedIsProven` (what counts as verified or
restored was), `CopyIsFaithful` (an import leads to the same connections, chats and texts).

Bounds. `TryBound`, `EpochBound`, `CrashBound`, `SpendBound`, `MaxLog`, `MaxRows` and so on cut
counters off in the guards. They are chosen so that the case a property is about happens at least
once more than it must: two attempts relate a send to its repetition, three epochs cover a
takeover followed by a failover, two workers are a holder and a successor, two disturbances a crash
and what follows it. Each property has been seen to fail when the definition it is about is changed
the way a plausible bug would change it (`mutants` in `PROJECT.json`). Where section 4 has a
theorem, no bound matters. `CHECK_DEADLOCK FALSE` stands where a run ends, a clock stops or names
are used up. Symmetry is used for sets whose members no constant tells apart; the runs with
liveness have none.

Fairness. `delivery_takeover` and `outbox_promise` assume `WF` of a worker's step: a process runs
its loop, and is restarted when it stops (`restart: unless-stopped` in the compose file); it may
still die as often as the bound allows. `delivery_takeover` assumes that a job's lock ages. No
fairness is assumed of operators, of Telegram's or an endpoint's answers being of any kind, or of crashes.

### Where code and documentation differ

These are stated in the modules and have counterexamples on the instances above; no run checks
them, since they do not hold of the code.

| Statement | Module | What the code does |
|---|---|---|
| `CancelledRunStays`: a late result must never resurrect the cancelled run (`delivery.py:969`) | `Rollout` | `_finalize_run` looks at the run object loaded before the call |
| `FinishedBatchMovesOn` (`API.md:263`) | `Rollout` | a batch whose jobs were all cancelled is opened empty (`rollouts.py:127`), and nothing moves the run again |
| `NoCallWhileDraining` (`EXECUTION_FENCING.md:49`) | `DeliveryProperties` | the fence compares the cached lease, so a request between claim and fence is not seen |
| `RestartRaisesEpoch` (`EXECUTION_FENCING.md:60`) | `DeliveryProperties` | the first heartbeat renews the expired lease in the old epoch |
| `CancelledFailoverReactivates` (`execution.py:885`) | `DeliveryProperties` | a reconciliation during the drain moves the epoch; then neither approval nor cancellation ends the drain |
| `AcceptedIsNeverRetried` (`THREAT_MODEL.md:114`) | `DeliveryProperties` | an unclassified exception after the request is retried as transient |
| `CrashedJobIsRecovered` (`ARCHITECTURE.md:173`) | `DeliveryProperties` | recovery runs at process start only (`worker.py:68`); after a quick restart the lock is too young and nobody looks again |
| `NotForgotten` (`RUNBOOK.md:272`) | `CampaignSchedule` | a gate clears `next_run_at` (`campaigns.py:1421`) while the worker's session holds the old value |
| `SendsWhatIsApproved` (`RELEASE_NOTES_1.2.md:57`) | `CampaignSchedule` | a run left open by a pause sends its old text under the next approval |
| `StopSurvivesFailure` (`AI_AUTOMATION.md:38`) | `Inbound` | a stop whose transaction fails is lost with it |
| `KeptTextHasATerm` (`DATA_PRIVACY.md:77`) | `Inbound` | text stored without an enabled policy gets no term |
| `LockIsFreeDuringCall` | `Capacity` | the reservation's transaction, which holds the policy's lock, contains the Telegram call |
| `CancelledOnlyAtHome` (`CONTINUITY_ASSURANCE.md:219`), `OneDrillAtATime` (`:216`) | `Continuity` | a failback request cancelled by hand ends a drill with the standby active; a stale poller revives a finished drill |
| `MaintainedWhileInProgress` (`CHANGE_MANAGEMENT.md:48`) | `ChangeControl` | ending maintenance checks first and writes later |
| `GateDoesNotFeedItself` (`OPERATIONAL_SLO.md:179`), `OneActiveIncident` (`:175`) | `Operations` | jobs the gate withholds are reviews for the next assessment; reopening looks for no other incident |
| `LiveStageWentOut`, `OneProgram`, `RunProvesOneStage` (`COMMISSIONING_AND_PORTABILITY.md`) | `Pilot` | the transport is looked at when a stage starts only; creation and reuse are checked without a lock |

Also seen.
- With stalling workers `SentIsNotRequeued`, `FailoverLeavesNoOpenSend`,
  `OnlyReviewSettlesUncertain`, `LostSendIsFound` fail, and with three attempts `SentAtMostOnce`: a
  worker sleeps before the fence for longer than the job lease, recovery puts its job back, another
  sends it, the sleeper loses the fence and writes `RETRY` over `SENT`.
- `_failover_blockers` does not count attempts in `network_started` as `EXECUTION_FENCING.md:174`
  says; a racing cancel can hide one.
- Rollout: two transactions that settle the last two jobs of a batch count each other's job as
  open, and the run stays in `RUNNING`; `cancel_campaign` and `abort_staged_run` look for uncertain
  results before they cancel, so one that comes up in between is cancelled with the rest, or
  stays in the cancelled run (`API.md:299`); a continue sets a paused campaign to `RUNNING` without the
  gates of resume; revoking a connection does not finalize runs; a stale worker may put a run whose
  next batch is open back to awaiting its checkpoint. With five batches and two operators a request
  to cancel a job, decided in batch 1 and committed in batch 3, puts the run back to batch 2, and the
  other operator's, decided in batch 3, then opens 4: the run goes from 2 to 4 although 2 exceeded
  its threshold. `BatchOpensOnMerit` therefore speaks of the batch before the one that opens.
- Schedule: the last occurrence of a recurring campaign completes it when its run is created
  (`scheduler.py:592`), and workers take jobs of active campaigns only.
- Inbound: of two first messages handled at once one fails on the unique key and is lost; a deleted
  text comes back when an edit is processed after it; an operator's patch from an old view can turn
  the automation on over a refusal (the `overruled` of `ConsentFirst`).
- Privacy: a request stays in `PROCESSING` when its process dies (`privacy.py:73`).
- Capacity: claims lock lease before policy, reservations policy before lease; a resumed connection
  puts jobs back without the gate; the precheck does not count what others have prepared.
- Continuity: a claim that raises the epoch on the standby leaves a drill that nobody can return,
  cancel or replace. With a third site, a drill can be cancelled while the lease is there, moved by
  hand.
- Change control: revoking a key that signed any entry of the log makes the chain invalid for good.
- Operations: the list of incidents to resolve is read without a lock, so an operator's `CLOSED` is
  overwritten with `RESOLVED`.
- Pilot: the commit of a canary can be lost after Telegram took it.
- Destinations: without a topic one chat can be listed twice; an edit that read a row as denied can
  take the term from a permission confirmed since; a deletion can remove a link a campaign
  added in between. Pacing: uncertain sends, and those an operator confirms, count for neither
  cap, gap nor guard.
- Files and recovery: an upload's refresh that fails after the commit deletes the file of a committed
  row (`media.py:227`); snapshot rows deleted before a copy lose their file; a killed encryption
  leaves the plaintext that a comment rules out (`recovery.py:1093`); a failed check leaves a verified
  backup verified (`RECOVERY_ASSURANCE.md`); stored signature results ignore a later revocation.
- Bundles: two templates of one name collapse when existing names are skipped; knowledge, blackouts
  and destinations without a chat are duplicated by every import; names that fill their column
  collide when they are renamed.

## 4. What is proved

For all sets of workers, jobs, sites, users, events, messages and so on, and all bounds, from the
named assumptions on the constants alone:

| Module | Theorems | Properties of runs they state |
|---|---|---|
| `DeliveryProofs` | `TypeCorrect`, `SendInvariant`, `RequeuedNeverSent`, `EpochInvariant`, `EpochHasOneWorker`, `OutcomeInvariant`, `MessageSentOnce`, `LostSendFound`, `FailoverIsClean`, `ReviewSettlesUncertain` | all six safety properties of delivery |
| `RolloutProofs` | `RolloutTypeCorrect`, `AbortInvariant`, `ApprovalRespected`, `AbortIsFinal`, `CompletionInvariant`, `CompletedIsSent`, `BatchesOpenOnMerit` | all four |
| `OutboxProofs` | `OutboxTypeCorrect`, `OutboxInvariant`, `PromiseKept`, `RecordedIsNotRepeated` | `KeepsPromise`, `SuccessIsNotRepeated` |
| `DataProofs` | `InboundInvariant`, `AnsweredAtMostOnce`, `ConsentComesFirst`, `ErasureLasts`; `ArchivesInvariant`, `RowsAndFilesTogether`, `BackupsHoldMedia`, `StatusIsProven` | all three of `Inbound`; all of `StoredFiles` and `Recovery` |
| `ContinuityProofs` | `ContinuityTypeCorrect`, `CycleInvariant`, `DrillTellsOneCycle`, `CancellationIsClean` | both |
| `OperationsProofs` | `ChangeInvariant`, `LogOfOneHistory`, `CountedSendsOnly`, `UpgradesRestOnEvidence`, `OperationsInvariant`, `OneIncidentPerCheck`, `IncidentsMatch` | all five |
| `LimitsProofs` | `ProgramTypeCorrect`, `ProgramsClimbInOrder`, `PassedStagesDelivered`, `StageTypeCorrect`, `StageRisesOnEvidence`; `CapacityInvariant`, `QueueIsKept`, `CallsStayInBudget` | all three of `PilotStages` and `Pilot`; both of `Capacity` |
| `PublishingProofs` | `ScheduleInvariant`, `ScheduleTypeCorrect`, `OccurrencesAreNew`, `RunsHaveApproval`, `OverRemainsOver`; `RegisterInvariant`, `ClosedGetsNoMore`, `WithdrawalsHold`; `PaceIsKept` | all three of `CampaignSchedule`; both of `Destinations`; `AcknowledgedAreSpread` of `Pacing` |

None of the properties is inductive as it stands. The strengthenings, each checked by TLC on an
instance before it was proved:

`SendInv` (for `RequeuedWasNotSent`). Nothing in the property keeps a worker that is about to call
Telegram from having its attempt abandoned under it. Attempt numbers are handed out in order
(`TriesCounted`), no two workers work on the same attempt (`TriesDiffer`), from the network
mark to the result the attempt is `NETWORK_STARTED` or `UNCERTAIN` (`CalledIsUnresolved`: recovery
may turn one into the other, and the row lock of the lease keeps the operator from reconciling), and
nothing was sent before the mark (`UnmarkedIsUnsent`). There is no bound on stalling: the safety of
the retry rests on the order of mark, lock and call, not on timing.

`EpochInv` (for `EpochNamesOneWorker`). An epoch a worker has used is not above the lease's, and if
it is the lease's, the worker still holds the lease; no two workers share one. Every way the
lease leaves its holder has to raise the epoch, and the heartbeat may renew without raising it
because the holder stays. With or without stalls.

`OutcomeInv` (for the other four) is `SendInv` with `HandIsFirm` (a job in hand is in processing, or
was cancelled over its worker), `OneHand` (by one worker), and `SealedIsLast` (a job that left its worker
has its last attempt sealed, and its earlier ones unsent). These theorems assume `~StallPossible`.
The assumption is about the environment, is stated in the theorem, and cannot be dropped: with
stalls TLC has counterexamples to each, see above. What they say is that the job lease is the only
timing the protocol leans on.

`AbortInv` says who owns what and what a cached decision may contain. The served job is in
processing, so the abort sees it (`ServedIsProcessing`); the job of a cancel request waits and is
no other request's (`RequestedWaits`, `RequestsDiffer`), so the bulk update of the abort waits for it;
a decision under way never cancels a run, pauses a campaign, makes it active or changes its approval
(`RequestsDecided`). Hence no step but the abort leads to an aborted run, and the abort finds every open
job in its own hands.

`CompletionInvariant` (for `CompletedMeansAllSent`). A stale decision can open a batch twice, or put
`active_batch` back, only when a job was cancelled in the meantime, and `CANCELLED` is absorbing; while
none is cancelled, jobs ahead of the active batch are held (`AheadIsHeld`) and the run is at most one
batch ahead of the worker's session (`WorkerKeepsUp`).

`MeritInv` (for `BatchOpensOnMerit`). A request under way may open the next batch long after it
judged this one. What it judged is `SentEnough`, the share that was sent: that can only grow, and a
batch that has sent enough stays within the threshold whatever becomes of its other jobs.

`OutboxInvariant` says that rows, and the copies of them in workers, are honest: a mark means the
endpoint took the event, and no list of targets leaves out an endpoint that is owed it. `PromiseKept`
maps every step of the outbox to a step of `AtLeastOnce` or to a stutter. For `SuccessIsNotRepeated`
there is `OneServes`: an event that was never put back under a live worker has one worker, and that
one knows the marks of the row.

`InboundInv` has `UpdatesHeld` (an update is held by one worker, one worker writes the conversation),
`AnswersCounted` (every answer but one was lost with its transaction), `ErasureHolds` (what a deletion
covers was stored once and is settled), `Identities`, `ConsentKnown` and `Decided` (a view read
earlier is still right about identity, refusal and consent, and the decision made from it
follows).

`CycleInv`: a row fits its requests although stale pollers and a waiting cancellation write what
they made of an earlier row, because what they write was true of requests that only move forward; no two
drills share a request. `UndoneInv` (for `CancelledLeavesNothing`): an open request has no epoch at
its target yet, a request that is approved although its drill was cancelled over it ended that
drill, and pollers know no more of the failover than the row.

`ChangeInv`: one append and one verification at a time (`OneAppends`, `OneVerifies`), the log's latest
entries decide (`HasLatest`), which sends the count overlooked (`Overlooked`), and what a verification
has seen still holds unless it was disturbed (`SeenHolds`). `OperationsInv`: one evaluation holds the
policy (`OneEvaluation`), and what it will write stays right between its locks and its commit (`WritesFit`).

`PilotInv`: each program `Climbs`, each stage row `Rests` on a run newer than the stage, and gathered
evidence stays right about jobs that are over, which no call takes back. `StageInv`: every
assessment that is kept saw what supports its rise, and the fingerprint it is compared by tells
everything the checks look at (`EvidenceTells`).

`CapacityInv` (for `QueueKeepsItsLimits` and `LimitKept`). What a gate let in under the policy's lock is
not in the queue before its commit, so the room it was promised counts as taken (`RoomIsKept`), and meanwhile no one
else is let in. Workers hold different jobs, each in the status its position implies (`WorkersApart`). The final count includes the attempt that is about to
become a call, as long as its claim is valid; from then on the policy is locked, so no other call starts, and
waiting only makes the count smaller: it still bounds the window when the worker calls (`CallIsReserved`, with
`CountsGrow`: a longer horizon counts no less).

`ScheduleInv` (for the properties of `CampaignSchedule`): the approval rests on the request that gave
it, with its quorum (`Backed`); runs are created in the order of their times, none ahead of the clock,
and the next occurrence lies after all of them (`RunsInOrder`), which is why resuming, approving again
or running by hand cannot meet a run that exists; what is not created has no jobs (`Uncreated`).

`RegisterInv` (for `Destinations`). What a call is about to write turns a destination on, or confirms it, only
if its request asked for that (`OnRequest`): the columns that differ from what it read are all it writes,
so an old view cannot bring back what was withdrawn meanwhile. The messages sent since a destination was
closed and the workers that hold one for it are together no more than the workers (`LateFits`): every send
ends a holding, and the gate admits none while the row is closed.

`PacingInv` (for `AcknowledgedAreSpread`). One message is in flight at a time, and the rests of connection and
destination cover every message that the policy has seen sent (`RestsCover`). What let the message in flight go
was true when it was decided and stays so although hours pass and other messages are confirmed before it
is sent (`Clear`). That the daily cap counts everything rests on days being intervals of hours
(`DayOfHour`, `DaysInOrder`).

`FilesInv` (for `RowsKeepTheirFiles`). The name a call has made is in the store, has no row, and no other call
touches it (`MadeIsPrivate`), so deletions and failed imports remove only what is theirs; what the
retention has read is behind the store, never ahead of it (`RetentionIsBehind`), so its late columns
strand nothing; a support bundle is collected once (`CollectedOnce`), and what an erasure has removed stays
removed until its row says so (`ErasedIsErased`). `BackupHoldsLiveMedia` follows from it and the order of dump and copy.

`EvidenceInv` (for `PassedIsProven`). Until its archive is closed a backup is known to its builder alone, and no
receipt, script or row speaks of it (`BuiltOnce`, `ReceiptHasArchive`), so nothing that was registered can be
built again under its evidence (`EvidenceIsTrue`); the report of a drill is written once, by the script that has
restored the backup it names (`ReportIsOnes`, `SoundIsProved`).

The proofs have one step per action. Left to TLC, and why:
- `TakenJobIsLetGo`, `EventSettles`: liveness under fairness, out of the prover's reach.
- `CopyIsFaithful`: `Portability` computes by folds; what a fold returns for every input is induction
  over data, which is out of reach too.
- `DeferralSkipsNoOpening` (the calendar of one hour after the other): possible, not done.

## 5. Plan

Next: `DeferralSkipsNoOpening` of `Pacing`.

## 6. Not modelled

- The user interface, deployment, migrations, and scripts that check a release's files: they change no
  row of a running system.
- Schemas and the read-only API: validation refuses, reading changes nothing.
- Authentication, users and API keys, the audit chain, distributed locks, notifications: no protocol
  of several steps that the parts above depend on.
- Cryptography, hashes and signatures as data, texts and formats: reduced to whether they hold.
- Readiness, commissioning, preflight, artifact verification: reports and checks of one step; the
  parts that consult them let them refuse at any time.
- Within modelled parts: what each module's header and the notes in `PROJECT.json` name.
