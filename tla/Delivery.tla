------------------------------ MODULE Delivery ------------------------------
(***************************************************************************)
(* Fenced Telegram delivery for one organisation: the worker's delivery    *)
(* loop (app/services/delivery.py), the execution lease, its heartbeat and *)
(* the controlled failover (app/services/execution.py), and the operator's *)
(* calls on single jobs (app/api/jobs.py).                                 *)
(*                                                                         *)
(* Every action is one committed database transaction, or one step between *)
(* two of them that another process can observe.  Workers crash between    *)
(* any two steps; what they had in memory is lost, what they committed     *)
(* stays.  A worker's session keeps the ORM objects it loaded: `seen' is   *)
(* the lease object cached by the claim, and a later write of the job goes *)
(* to the row by primary key, whatever has happened to the row since.      *)
(***************************************************************************)
EXTENDS ExecutionLease, FiniteSets

CONSTANTS
    Jobs,           \* delivery jobs of the organisation
    Admins,         \* owners and admins who may manage a failover
    MaxAttempts,    \* job.max_attempts
    StallPossible,  \* may a live worker sit on a job past job_lease_minutes?
    TryBound,       \* bound: attempts per job
    EpochBound,     \* bound: fencing epochs
    CrashBound      \* bound: crashes of worker processes

ASSUME DeliveryAssumption ==
    /\ MaxAttempts \in Nat \ {0}
    /\ TryBound \in Nat \ {0}
    /\ EpochBound \in Nat \ {0}
    /\ CrashBound \in Nat
    /\ StallPossible \in BOOLEAN
    /\ None \notin Jobs \cup Sites \cup Admins

VARIABLES
    job,        \* delivery_jobs rows
    attempt,    \* delivery_attempts rows, by job and attempt_number
    lease,      \* the execution_leases row
    failover,   \* the open failover_requests row, if any
    connected,  \* the Telegram connection's status is ACTIVE
    worker,     \* each worker process: where it is and what it has loaded
    cancelling, \* jobs a cancel_job request has read and will overwrite
    crashes     \* how many crashes there have been (only to bound them)

vars == <<job, attempt, lease, failover, connected, worker, cancelling, crashes>>

JobStatus == {"PENDING", "PROCESSING", "RETRY", "WAITING_REVIEW",
              "SENT", "FAILED", "CANCELLED", "SKIPPED"}

AttemptStatus == {"PREPARED", "NETWORK_STARTED", "SENT", "FAILED", "UNCERTAIN",
                  "ABANDONED", "RECONCILED_NOT_SENT", "RECONCILED_SKIPPED"}

\* Steps of one process_next: after the claim commits, after the attempt row
\* commits, with the lease row locked, with the durable network mark, and
\* with Telegram's answer due.
Serving == {"claimed", "prepared", "fenced", "started", "called"}
PC == {"down", "booted", "rejoining", "idle", "beating"} \cup Serving

\* The workers that hold the lease row lock: from lock_delivery_fence until the
\* transaction with the result commits.
InFlight == {"fenced", "started", "called"}

Tries == 1 .. TryBound

JobRow ==
    [status: JobStatus, code: {"none", "uncertain", "other"},
     tries: 0 .. TryBound, aged: BOOLEAN, resolved: BOOLEAN]

AttemptRow ==
    [status: AttemptStatus \cup {"absent"}, worker: Workers \cup {None},
     epoch: Nat, accepted: BOOLEAN]

FailoverRow ==
    [open: BOOLEAN, source: Sites, target: Sites, epoch: Nat, by: Admins \cup {None}]

Process ==
    [pc: PC, job: Jobs \cup {None}, try: 0 .. TryBound, seen: LeaseType]

TypeOK ==
    /\ job \in [Jobs -> JobRow]
    /\ attempt \in [Jobs -> [Tries -> AttemptRow]]
    /\ lease \in LeaseType
    /\ failover \in FailoverRow
    /\ connected \in BOOLEAN
    /\ worker \in [Workers -> Process]
    /\ cancelling \subseteq Jobs
    /\ crashes \in 0 .. CrashBound

NoAttempt == [status |-> "absent", worker |-> None, epoch |-> 0,
              accepted |-> FALSE]

NoFailover == [open |-> FALSE, source |-> PrimarySite, target |-> PrimarySite,
               epoch |-> 0, by |-> None]

\* A process with nothing loaded: each process_next opens a new session.
At(pc) == [pc |-> pc, job |-> None, try |-> 0, seen |-> NewLease]

Init ==
    /\ job = [j \in Jobs |-> [status |-> "PENDING", code |-> "none", tries |-> 0,
                              aged |-> FALSE, resolved |-> FALSE]]
    /\ attempt = [j \in Jobs |-> [n \in Tries |-> NoAttempt]]
    /\ lease = NewLease
    /\ failover = NoFailover
    /\ connected = TRUE
    /\ worker = [w \in Workers |-> At("down")]
    /\ cancelling = {}
    /\ crashes = 0

LeaseUnlocked == \A w \in Workers : worker[w].pc \notin InFlight

Uncertain(j) == job[j].status = "WAITING_REVIEW" /\ job[j].code = "uncertain"

Write(r, status, code) ==
    [r EXCEPT !.status = status, !.code = code, !.aged = FALSE]

-----------------------------------------------------------------------------
(***************************************************************************)
(* Start of a process and stale recovery.                                  *)
(***************************************************************************)

\* The attempt recovery looks at: the one with the greatest attempt_number.
IsLatest(j, n) ==
    /\ attempt[j][n].status # "absent"
    /\ \A m \in Tries : m > n => attempt[j][m].status = "absent"

Stale(j) == job[j].status = "PROCESSING" /\ job[j].aged

\* Mutant: recovery ignores the network mark.
NeverLostMidSend(j) == FALSE

LostMidSend(j) == \E n \in Tries : IsLatest(j, n) /\ attempt[j][n].status = "NETWORK_STARTED"

RecoveredJob(j) ==
    IF ~Stale(j) THEN job[j]
    ELSE IF LostMidSend(j) THEN Write(job[j], "WAITING_REVIEW", "uncertain")
    ELSE Write(job[j], "RETRY", "none")

\* Mutant: recovery leaves the attempt row alone.
RecoveredAttemptUntouched(j, n) == attempt[j][n]

\* Mutant: recovery abandons the attempt, network mark or not.
RecoveredAttemptAbandoned(j, n) ==
    IF Stale(j) /\ IsLatest(j, n)
      THEN [attempt[j][n] EXCEPT !.status = "ABANDONED"] ELSE attempt[j][n]

RecoveredAttempt(j, n) ==
    IF Stale(j) /\ IsLatest(j, n)
      THEN [attempt[j][n] EXCEPT !.status =
              CASE @ = "NETWORK_STARTED" -> "UNCERTAIN"
                [] @ = "PREPARED" -> "ABANDONED"
                [] OTHER -> @]
      ELSE attempt[j][n]

\* run(): a new process recovers stale jobs once, before its loop.
Start(w) ==
    /\ worker[w].pc = "down"
    /\ worker' = [worker EXCEPT ![w] = At("booted")]
    /\ job' = [j \in Jobs |-> RecoveredJob(j)]
    /\ attempt' = [j \in Jobs |-> [n \in Tries |-> RecoveredAttempt(j, n)]]
    /\ UNCHANGED <<lease, failover, connected, cancelling, crashes>>

\* The process dies or is killed; its open transactions roll back.
Crash(w) ==
    /\ worker[w].pc # "down"
    /\ crashes < CrashBound
    /\ crashes' = crashes + 1
    /\ worker' = [worker EXCEPT ![w] = At("down")]
    /\ UNCHANGED <<job, attempt, lease, failover, connected, cancelling>>

(***************************************************************************)
(* Heartbeat: the leases this worker id owns are read without a lock and   *)
(* renewed by primary key.  A new process beats before it claims.          *)
(***************************************************************************)
HeartbeatRead(w) ==
    /\ worker[w].pc \in {"booted", "idle"}
    /\ worker' = [worker EXCEPT ![w].pc =
                     IF ~OwnedBy(lease, w) THEN "idle"
                     ELSE IF @ = "booted" THEN "rejoining" ELSE "beating"]
    /\ UNCHANGED <<job, attempt, lease, failover, connected, cancelling, crashes>>

HeartbeatCommit(w) ==
    /\ worker[w].pc \in {"beating", "rejoining"}
    /\ LeaseUnlocked
    /\ lease' = Renewed(lease)
    /\ worker' = [worker EXCEPT ![w].pc = "idle"]
    /\ UNCHANGED <<job, attempt, failover, connected, cancelling, crashes>>

-----------------------------------------------------------------------------
(***************************************************************************)
(* process_next, one transaction after the other.                          *)
(***************************************************************************)

\* _select_due_job locks a due job and the rows joined to it, skipping locked
\* ones; claim_delivery_lease then takes or renews the lease.
MayServe(w, j) ==
    /\ worker[w].pc = "idle"
    /\ job[j].status \in {"PENDING", "RETRY"}
    /\ connected
    /\ LeaseUnlocked
    /\ MayClaim(lease, w)
    /\ ClaimRaisesEpoch(lease, w) => lease.epoch < EpochBound

Claim(w) ==
    /\ lease' = Claimed(lease, w)
    /\ UNCHANGED <<attempt, failover, connected, cancelling, crashes>>

Begun(r) == [Write(r, "PROCESSING", "none") EXCEPT !.tries = r.tries + 1]

\* evaluate_delivery allows the job: it is PROCESSING from this commit on.
Begin(w, j) ==
    /\ MayServe(w, j)
    /\ job[j].tries < TryBound
    /\ Claim(w)
    /\ job' = [job EXCEPT ![j] = Begun(@)]
    /\ worker' = [worker EXCEPT ![w] = [@ EXCEPT !.pc = "claimed", !.job = j,
                                        !.try = job[j].tries + 1, !.seen = lease']]

\* evaluate_delivery skips a duplicate, defers the job, or holds it for review;
\* the claim of the lease is committed with that.
Withhold(w, j) ==
    /\ MayServe(w, j)
    /\ Claim(w)
    /\ \E verdict \in {<<"SKIPPED", "none">>, <<"PENDING", "none">>,
                       <<"WAITING_REVIEW", "other">>} :
          job' = [job EXCEPT ![j] = Write(@, verdict[1], verdict[2])]
    /\ UNCHANGED worker

\* The immutable attempt row, in a transaction of its own.
Prepare(w) ==
    LET j == worker[w].job
        row == [status |-> "PREPARED", worker |-> w, epoch |-> worker[w].seen.epoch,
                accepted |-> FALSE]
    IN  /\ worker[w].pc = "claimed"
        /\ attempt' = [attempt EXCEPT ![j][worker[w].try] = row]
        /\ worker' = [worker EXCEPT ![w].pc = "prepared"]
        /\ UNCHANGED <<job, lease, failover, connected, cancelling, crashes>>

\* The worker writes attempt and job by primary key, commits, and is done.
Settle(w, attemptStatus, jobStatus, code) ==
    LET j == worker[w].job
    IN  /\ attempt' = [attempt EXCEPT ![j][worker[w].try].status = attemptStatus]
        /\ job' = [job EXCEPT ![j] = Write(@, jobStatus, code)]
        /\ worker' = [worker EXCEPT ![w] = At("idle")]

\* capacity_dispatch_decision refuses the reservation.
CapacityRefused(w) ==
    /\ worker[w].pc = "prepared"
    /\ Settle(w, "ABANDONED", "PENDING", "none")
    /\ UNCHANGED <<lease, failover, connected, cancelling, crashes>>

\* lock_delivery_fence locks the lease row, but compares the lease object that
\* the claim left in the session.
FenceHolds(w) == FencePasses(worker[w].seen, w, worker[w].seen.epoch)

EnterFence(w) ==
    /\ worker[w].pc = "prepared"
    /\ LeaseUnlocked
    /\ FenceHolds(w)
    /\ worker' = [worker EXCEPT ![w].pc = "fenced"]
    /\ UNCHANGED <<job, attempt, lease, failover, connected, cancelling, crashes>>

\* Mutant: a lost fence is tried again in place.
FenceLostInPlace(w) ==
    /\ worker[w].pc = "prepared"
    /\ worker' = [worker EXCEPT ![w].pc = "claimed"]
    /\ UNCHANGED <<job, attempt, lease, failover, connected, cancelling, crashes>>

\* The comparison fails, or the site's heartbeat or runtime evidence, which the
\* model leaves open, no longer matches.
FenceLost(w) ==
    /\ worker[w].pc = "prepared"
    /\ Settle(w, "ABANDONED", "RETRY", "none")
    /\ UNCHANGED <<lease, failover, connected, cancelling, crashes>>

\* _handle_transient and _fail_job; the attempt number was read at the claim.
AfterTransient(w) == IF worker[w].try < MaxAttempts THEN "RETRY" ELSE "FAILED"

\* Building the gateway or opening the media fails before the network mark.
FailBeforeCall(w) ==
    /\ worker[w].pc = "fenced"
    /\ \E s \in {"FAILED", AfterTransient(w)} : Settle(w, "FAILED", s, "none")
    /\ UNCHANGED <<lease, failover, connected, cancelling, crashes>>

\* _mark_attempt_network_started_durable commits NETWORK_STARTED through another
\* session, and raises when the row is no longer PREPARED.
MarkStarted(w) ==
    LET j == worker[w].job
        n == worker[w].try
    IN  /\ worker[w].pc = "fenced"
        /\ attempt[j][n].status = "PREPARED"
        /\ attempt' = [attempt EXCEPT ![j][n].status = "NETWORK_STARTED"]
        /\ worker' = [worker EXCEPT ![w].pc = "started"]
        /\ UNCHANGED <<job, lease, failover, connected, cancelling, crashes>>

MarkRefused(w) ==
    /\ worker[w].pc = "fenced"
    /\ attempt[worker[w].job][worker[w].try].status # "PREPARED"
    /\ Settle(w, "FAILED", AfterTransient(w), "none")
    /\ UNCHANGED <<lease, failover, connected, cancelling, crashes>>

\* gateway.send_message: Telegram takes the message or it does not.
CallTelegram(w) ==
    /\ worker[w].pc = "started"
    /\ \E taken \in BOOLEAN :
          attempt' = [attempt EXCEPT ![worker[w].job][worker[w].try].accepted = taken]
    /\ worker' = [worker EXCEPT ![w].pc = "called"]
    /\ UNCHANGED <<job, lease, failover, connected, cancelling, crashes>>

Accepted(w) == attempt[worker[w].job][worker[w].try].accepted

\* SENT
Succeed(w) ==
    /\ worker[w].pc = "called"
    /\ Accepted(w)
    /\ Settle(w, "SENT", "SENT", "none")
    /\ UNCHANGED <<lease, failover, connected, cancelling, crashes>>

\* Telegram refused: slow mode retries, a forbidden or invalid request fails,
\* FloodWait, anti-spam and auth errors also stop the connection.
Refused(w) ==
    /\ worker[w].pc = "called"
    /\ ~Accepted(w)
    /\ \/ /\ \E s \in {"RETRY", "FAILED"} : Settle(w, "FAILED", s, "none")
          /\ UNCHANGED connected
       \/ /\ Settle(w, "FAILED", "WAITING_REVIEW", "other")
          /\ connected' = FALSE
    /\ UNCHANGED <<lease, failover, cancelling, crashes>>

\* A timeout or a broken response: nobody knows whether Telegram took it.
Ambiguous(w) ==
    /\ worker[w].pc = "called"
    /\ Settle(w, "UNCERTAIN", "WAITING_REVIEW", "uncertain")
    /\ connected' = FALSE
    /\ UNCHANGED <<lease, failover, cancelling, crashes>>

\* A connect error, which Telegram never saw, or any exception the worker does
\* not classify: an unreadable result, a failed clean-up after the call.
Transient(w) ==
    /\ worker[w].pc = "called"
    /\ Settle(w, "FAILED", AfterTransient(w), "none")
    /\ UNCHANGED <<lease, failover, connected, cancelling, crashes>>

ProcessNext(w) ==
    \/ Prepare(w) \/ CapacityRefused(w) \/ EnterFence(w) \/ FenceLost(w)
    \/ FailBeforeCall(w) \/ MarkStarted(w) \/ MarkRefused(w) \/ CallTelegram(w)
    \/ Succeed(w) \/ Refused(w) \/ Ambiguous(w) \/ Transient(w)
    \/ \E j \in Jobs : Begin(w, j) \/ Withhold(w, j)

-----------------------------------------------------------------------------
(***************************************************************************)
(* Failover of the active site.                                            *)
(***************************************************************************)

\* A request drains the lease.
RequestFailover(a, target) ==
    /\ LeaseUnlocked
    /\ ~failover.open
    /\ lease.status = "ACTIVE"
    /\ lease.site # target
    /\ lease' = Draining(lease)
    /\ failover' = [open |-> TRUE, source |-> lease.site, target |-> target,
                    epoch |-> lease.epoch, by |-> a]
    /\ UNCHANGED <<job, attempt, connected, worker, cancelling, crashes>>

\* Mutant: jobs in processing do not block the failover.
FailoverBlockedByReview == \E j \in Jobs : Uncertain(j)

\* _failover_blockers
FailoverBlocked == \E j \in Jobs : job[j].status = "PROCESSING" \/ Uncertain(j)

\* The lease is still the one the request was made for.
LeaseMatchesRequest ==
    /\ lease.status = "DRAINING"
    /\ lease.site = failover.source
    /\ lease.epoch = failover.epoch

ApproveFailover(a) ==
    /\ LeaseUnlocked
    /\ failover.open
    /\ failover.by # a
    /\ LeaseMatchesRequest
    /\ ~FailoverBlocked
    /\ lease.epoch < EpochBound
    /\ lease' = HandedTo(lease, failover.target)
    /\ failover' = NoFailover
    /\ UNCHANGED <<job, attempt, connected, worker, cancelling, crashes>>

CancelFailover ==
    /\ LeaseUnlocked
    /\ failover.open
    /\ lease' = IF LeaseMatchesRequest THEN Undrained(lease) ELSE lease
    /\ failover' = NoFailover
    /\ UNCHANGED <<job, attempt, connected, worker, cancelling, crashes>>

-----------------------------------------------------------------------------
(***************************************************************************)
(* Operator calls on jobs and on the connection.                           *)
(***************************************************************************)

\* cancel_job reads the job without a lock ...
CancelRead(j) ==
    /\ \/ job[j].status \in {"PENDING", "RETRY"}
       \/ job[j].status = "WAITING_REVIEW" /\ ~Uncertain(j)
    /\ j \notin cancelling
    /\ cancelling' = cancelling \cup {j}
    /\ UNCHANGED <<job, attempt, lease, failover, connected, worker, crashes>>

\* ... and overwrites its status by primary key.
CancelCommit(j) ==
    /\ j \in cancelling
    /\ job' = [job EXCEPT ![j] = Write(@, "CANCELLED", "none")]
    /\ cancelling' = cancelling \ {j}
    /\ UNCHANGED <<attempt, lease, failover, connected, worker, crashes>>

RetryJob(j) ==
    /\ job[j].status \in {"FAILED", "SKIPPED"}
    /\ ~job[j].resolved
    /\ connected
    /\ job' = [job EXCEPT ![j] = Write(@, "RETRY", "none")]
    /\ UNCHANGED <<attempt, lease, failover, connected, worker, cancelling, crashes>>

\* The attempt resolve_uncertain_delivery reconciles: the latest unresolved one.
Unresolved(j, n) == attempt[j][n].status \in {"NETWORK_STARTED", "UNCERTAIN"}

ToReconcile(j, n) ==
    Unresolved(j, n) /\ \A m \in Tries : m > n => ~Unresolved(j, m)

\* What each resolution makes of the job and of the attempt.
Resolutions == [CONFIRMED_SENT     |-> [job |-> "SENT", attempt |-> "SENT"],
                CONFIRMED_NOT_SENT |-> [job |-> "RETRY", attempt |-> "RECONCILED_NOT_SENT"],
                SKIPPED            |-> [job |-> "SKIPPED", attempt |-> "RECONCILED_SKIPPED"]]

\* The operator looks into the chat and reports what is there.
ReportsTruly(j, n, r) ==
    /\ r = "CONFIRMED_SENT" => attempt[j][n].accepted
    /\ r = "CONFIRMED_NOT_SENT" => ~attempt[j][n].accepted

Reviewed(j, r) ==
    [Write(job[j], Resolutions[r].job, "none") EXCEPT !.resolved = TRUE]

\* Reconciling retires the epoch the attempt ran under, so it waits for the
\* lease row lock.
Resolve(j, r) ==
    /\ Uncertain(j)
    /\ r = "CONFIRMED_NOT_SENT" => connected
    /\ job' = [job EXCEPT ![j] = Reviewed(j, r)]
    /\ \/ \E n \in Tries :
            LET a == attempt[j][n] IN
            /\ ToReconcile(j, n)
            /\ ReportsTruly(j, n, r)
            /\ LeaseUnlocked
            /\ lease.epoch < EpochBound
            /\ lease' = Retired(lease, a.worker, a.epoch)
            /\ attempt' = [attempt EXCEPT ![j][n].status = Resolutions[r].attempt]
       \/ /\ \A n \in Tries : ~Unresolved(j, n)
          /\ UNCHANGED <<lease, attempt>>
    /\ UNCHANGED <<failover, connected, worker, cancelling, crashes>>

PauseConnection ==
    /\ connected
    /\ connected' = FALSE
    /\ UNCHANGED <<job, attempt, lease, failover, worker, cancelling, crashes>>

\* Mutant: resuming the connection requeues uncertain jobs too.
ResumeConnectionAll ==
    /\ connected' = TRUE
    /\ job' = [j \in Jobs |->
                 IF job[j].status = "WAITING_REVIEW"
                   THEN Write(job[j], "RETRY", "none") ELSE job[j]]
    /\ UNCHANGED <<attempt, lease, failover, worker, cancelling, crashes>>

\* Resuming the connection requeues every job held for review, except those
\* whose result is uncertain.
ResumeConnection ==
    /\ connected' = TRUE
    /\ job' = [j \in Jobs |->
                 IF job[j].status = "WAITING_REVIEW" /\ ~Uncertain(j)
                   THEN Write(job[j], "RETRY", "none") ELSE job[j]]
    /\ UNCHANGED <<attempt, lease, failover, worker, cancelling, crashes>>

-----------------------------------------------------------------------------
(***************************************************************************)
(* The clock.  job_lease_minutes (10 min) is longer than the lease TTL     *)
(* (45 s), so when a job's lock is stale its worker's cached lease has     *)
(* expired too.                                                            *)
(***************************************************************************)
ServedBy(w, j) == worker[w].pc \in Serving /\ worker[w].job = j

SeenExpired(W) ==
    [w \in Workers |-> IF w \in W THEN [worker[w] EXCEPT !.seen.live = FALSE]
                       ELSE worker[w]]

\* Everything cached before the last renewal expires no later than the row.
LeaseExpires ==
    /\ lease.live
    /\ lease' = Expired(lease)
    /\ worker' = SeenExpired(Workers)
    /\ UNCHANGED <<job, attempt, failover, connected, cancelling, crashes>>

\* A lease cached under an older epoch expires before the current one.
SeenLeaseExpires(w) ==
    /\ worker[w].seen.live
    /\ worker[w].seen.epoch # lease.epoch
    /\ worker' = SeenExpired({w})
    /\ UNCHANGED <<job, attempt, lease, failover, connected, cancelling, crashes>>

JobLockAges(j) ==
    /\ job[j].status = "PROCESSING"
    /\ ~job[j].aged
    /\ StallPossible \/ \A w \in Workers : ~ServedBy(w, j)
    /\ job' = [job EXCEPT ![j].aged = TRUE]
    /\ worker' = SeenExpired({w \in Workers : ServedBy(w, j)})
    /\ UNCHANGED <<attempt, lease, failover, connected, cancelling, crashes>>

-----------------------------------------------------------------------------
WorkerNext(w) == Start(w) \/ HeartbeatRead(w) \/ HeartbeatCommit(w) \/ ProcessNext(w)

OperatorNext ==
    \/ \E a \in Admins : ApproveFailover(a) \/ \E s \in Sites : RequestFailover(a, s)
    \/ CancelFailover
    \/ \E j \in Jobs : CancelRead(j) \/ CancelCommit(j) \/ RetryJob(j)
    \/ \E j \in Jobs : \E r \in DOMAIN Resolutions : Resolve(j, r)
    \/ PauseConnection \/ ResumeConnection

ClockNext ==
    \/ LeaseExpires
    \/ \E w \in Workers : SeenLeaseExpires(w)
    \/ \E j \in Jobs : JobLockAges(j)

Next ==
    \/ \E w \in Workers : WorkerNext(w) \/ Crash(w)
    \/ OperatorNext
    \/ ClockNext

Spec == Init /\ [][Next]_vars
=============================================================================
