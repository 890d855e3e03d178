------------------------------ MODULE Capacity ------------------------------
(***************************************************************************)
(* Capacity assurance of one organization (app/services/capacity.py): how  *)
(* many jobs its queue may hold and how many Telegram calls it may start   *)
(* within a window, with the callers that ask: the scheduler and the API   *)
(* calls that add jobs or release them, and the delivery workers.          *)
(*                                                                         *)
(* Who asks locks the capacity_policies row, counts, and keeps the lock to *)
(* the end of its transaction.  A worker asks twice: when it takes a job,  *)
(* and after its PREPARED attempt is committed.  The second transaction    *)
(* contains the Telegram call.  Time passes in ticks; what is older than   *)
(* anything that is counted has one age, Old.  The gates are enforced, as  *)
(* capacity_assurance_required does.  Minute and hour limits differ in     *)
(* their numbers only: one window stands for them.                         *)
(***************************************************************************)
EXTENDS Integers, FiniteSets

CONSTANTS
    Jobs,           \* delivery jobs
    Workers,        \* worker processes
    Callers,        \* whoever adds or releases jobs: API calls, the scheduler
    Nobody,         \* nobody, nothing
    Window,         \* the length of the window
    LeaseTTL,       \* execution_lease_ttl_seconds
    MaxWait,        \* bound: how long a transaction waits for the policy's lock
    StartLimits,    \* values the operator gives to max_network_starts_per_minute
    MaxActive, MaxReady, MaxProcessing, BlockPercent,    \* the rest of the policy
    SpendBound      \* bound: crashes, retries, reviews and changes of the policy together

ASSUME CapacityAssumption ==
    /\ IsFiniteSet(Jobs)
    /\ Callers \cap Workers = {} /\ Nobody \notin Workers \cup Jobs \cup Callers
    /\ {Window, LeaseTTL, MaxActive, MaxReady, MaxProcessing} \subseteq Nat \ {0}
    /\ MaxWait \in Nat /\ SpendBound \in Nat
    /\ LeaseTTL <= Window
    /\ StartLimits \subseteq Nat \ {0} /\ StartLimits # {}
    /\ BlockPercent \in 1 .. 100

VARIABLES
    limit,    \* max_network_starts_per_minute
    job,      \* status of the delivery_jobs rows
    attempt,  \* the latest attempt of each job
    starts,   \* _network_start_count: how many calls have been started, back to each age
    worker,   \* each process: its job and what it has read
    request,  \* the transaction of each caller, from the count to the commit
    lock,     \* who has locked the policy
    lease,    \* the execution lease: its holder, its age, who has locked it
    ungated,  \* history: ready jobs that no gate has let in
    spent     \* (only to bound the behaviours)

capacityVars == <<limit, job, attempt, starts, worker, request, lock, lease, ungated, spent>>

Old == Window + MaxWait + 1

Ages == 0 .. Old

Older(a) == IF a = Old THEN Old ELSE a + 1

\* "ready" is pending and retry, "settled" the four final statuses.
JobStatus == {"absent", "held", "ready", "processing", "review", "settled"}

NoAttempt == [state |-> "none", age |-> Old]

\* `limit', `age': of the policy and the lease as the session has read them.
IdleWorker == [pc |-> "idle", job |-> Nobody, limit |-> 0, age |-> Old]

NoRequest == [op |-> "none", jobs |-> {}, held |-> {}]

AttemptRow == [state: {"none", "prepared", "started"}, age: Ages]
WorkerRow ==
    [pc: {"idle", "claiming", "claimed", "prepared", "reserved", "fenced", "calling"},
     job: Jobs \cup {Nobody}, limit: StartLimits \cup {0}, age: Ages]
RequestRow ==
    [op: {"none", "create", "retry", "release", "notsent"},
     jobs: SUBSET Jobs, held: SUBSET Jobs]
LeaseRow == [holder: Workers \cup {Nobody}, age: Ages, lock: Workers \cup {Nobody}]

CapacityTypeOK ==
    /\ limit \in StartLimits
    /\ job \in [Jobs -> JobStatus] /\ attempt \in [Jobs -> AttemptRow]
    /\ starts \in [0 .. Window + MaxWait -> Nat]
    /\ worker \in [Workers -> WorkerRow] /\ request \in [Callers -> RequestRow]
    /\ lock \in Workers \cup Callers \cup {Nobody} /\ lease \in LeaseRow
    /\ ungated \subseteq Jobs /\ spent \in 0 .. SpendBound
    /\ \A c \in Callers : (lock = c) = (request[c].op # "none")
    /\ \A w \in Workers : (lock = w) = (worker[w].pc \in {"reserved", "fenced", "calling"})

CapacityInit ==
    /\ limit \in StartLimits
    /\ job = [j \in Jobs |-> "absent"]
    /\ attempt = [j \in Jobs |-> NoAttempt]
    /\ starts = [a \in 0 .. Window + MaxWait |-> 0]
    /\ worker = [w \in Workers |-> IdleWorker]
    /\ request = [c \in Callers |-> NoRequest]
    /\ lock = Nobody
    /\ lease = [holder |-> Nobody, age |-> Old, lock |-> Nobody]
    /\ ungated = {}
    /\ spent = 0

Spend == spent < SpendBound /\ spent' = spent + 1

-----------------------------------------------------------------------------
(***************************************************************************)
(* What is counted.                                                        *)
(***************************************************************************)
Having(status) == {j \in Jobs : job[j] \in status}

\* ACTIVE_JOB_STATUSES and READY_JOB_STATUSES
Active == Having({"held", "ready", "processing", "review"})
Ready == Having({"ready", "processing"})
Processing == Having({"processing"})

\* _prepared_reservation_count, back to age h.
Prepared(h) == Cardinality({j \in Jobs : attempt[j].state = "prepared" /\ attempt[j].age <= h})

\* A rate limit looks back from the moment the transaction began; it may then
\* have waited for the lock.
Horizons == {Window + wait : wait \in 0 .. MaxWait}

Percent(n, max) == (100 * n + max - 1) \div max

\* evaluate_snapshot: the limits that refuse admission.
Overload(new, newReady) ==
    \/ Cardinality(Active) + new > MaxActive
    \/ Cardinality(Ready) + newReady > MaxReady
    \/ Cardinality(Processing) > MaxProcessing
    \/ Percent(Cardinality(Active) + new, MaxActive) >= BlockPercent
    \/ Percent(Cardinality(Ready) + newReady, MaxReady) >= BlockPercent

\* Mutant: what is to be released does not count.
ReadyFullNow(newReady) == Cardinality(Ready) > MaxReady

\* capacity_ready_release_decision
ReadyFull(newReady) == Cardinality(Ready) + newReady > MaxReady

-----------------------------------------------------------------------------
(***************************************************************************)
(* The scheduler and the API add jobs to the queue.                        *)
(***************************************************************************)

\* The job's row is locked by a claim or by a request.
RowLocked(j) ==
    \/ \E c \in Callers : j \in request[c].jobs
    \/ \E w \in Workers : worker[w].pc = "claiming" /\ worker[w].job = j

PolicyFree == lock = Nobody

Ask(c, op, jobs, held) ==
    /\ PolicyFree /\ request[c].op = "none"
    /\ lock' = c
    /\ request' = [request EXCEPT ![c] = [op |-> op, jobs |-> jobs, held |-> held]]
    /\ UNCHANGED <<limit, job, attempt, starts, worker, lease, ungated>>

\* _create_run: the first batch is released, the others are held.  Other limits,
\* and the estimate of the drain time, may refuse as well: then nothing happens.
AdmitRun(c, first, rest) ==
    /\ first # {}
    /\ ~Overload(Cardinality(first \cup rest), Cardinality(first))
    /\ Ask(c, "create", first, rest)
    /\ UNCHANGED spent

\* retry_job: a failed job once more.
RetryJob(c, j) ==
    /\ job[j] = "settled" /\ ~RowLocked(j)
    /\ ~Overload(1, 1)
    /\ Ask(c, "retry", {j}, {})
    /\ Spend

\* continue_staged_run and release_next_batch.
ReleaseBatch(c, batch) ==
    /\ batch # {}
    /\ \A j \in batch : ~RowLocked(j)
    /\ ~ReadyFull(Cardinality(batch))
    /\ Ask(c, "release", batch, {})
    /\ UNCHANGED spent

Uncertain(j) == job[j] = "review" /\ attempt[j].state = "started"

\* resolve_uncertain_delivery with CONFIRMED_NOT_SENT; it goes on to the lease.
ConfirmNotSent(c, j) ==
    /\ Uncertain(j) /\ ~RowLocked(j)
    /\ ~ReadyFull(1)
    /\ Ask(c, "notsent", {j}, {})
    /\ UNCHANGED spent

\* The commit.  A reconciled attempt may take the lease from its worker.
CommitRequest(c) ==
    LET r == request[c] IN
    /\ r.op # "none"
    /\ r.op = "notsent" => lease.lock = Nobody
    /\ job' = [j \in Jobs |->
                  IF j \in r.jobs THEN "ready" ELSE IF j \in r.held THEN "held" ELSE job[j]]
    /\ attempt' = [j \in Jobs |-> IF j \in r.jobs THEN NoAttempt ELSE attempt[j]]
    /\ \/ UNCHANGED lease
       \/ r.op = "notsent" /\ lease' = [lease EXCEPT !.holder = Nobody]
    /\ request' = [request EXCEPT ![c] = NoRequest]
    /\ lock' = Nobody
    /\ UNCHANGED <<limit, starts, worker, ungated, spent>>

\* A check that comes after the gate refuses, or the database breaks a deadlock.
RollbackRequest(c) ==
    /\ request[c].op # "none"
    /\ request' = [request EXCEPT ![c] = NoRequest]
    /\ lock' = Nobody
    /\ UNCHANGED <<limit, job, attempt, starts, worker, lease, ungated, spent>>

\* resume_connection: what was held back for review is ready at once, no gate asked.
ReturnWithheld ==
    LET back == {j \in Having({"review"}) : ~Uncertain(j)} IN
    /\ back # {} /\ \A j \in back : ~RowLocked(j)
    /\ job' = [j \in Jobs |-> IF j \in back THEN "ready" ELSE job[j]]
    /\ ungated' = ungated \cup back
    /\ UNCHANGED <<limit, attempt, starts, worker, request, lock, lease, spent>>

\* cancel_job; or an uncertain job is confirmed as sent or skipped.
SettleJob(j) ==
    /\ job[j] \in {"held", "ready", "review"} /\ ~RowLocked(j)
    /\ job' = [job EXCEPT ![j] = "settled"]
    /\ attempt' = [attempt EXCEPT ![j] = NoAttempt]
    /\ ungated' = ungated \ {j}
    /\ UNCHANGED <<limit, starts, worker, request, lock, lease, spent>>

PatchPolicy(n) ==
    /\ lock = Nobody /\ n # limit
    /\ limit' = n
    /\ Spend
    /\ UNCHANGED <<job, attempt, starts, worker, request, lock, lease, ungated>>

-----------------------------------------------------------------------------
(***************************************************************************)
(* A worker: process_next.                                                 *)
(***************************************************************************)

\* A due job and the row of the lease are locked.
TakeLease(w, j) ==
    /\ worker[w].pc = "idle" /\ lease.lock = Nobody
    /\ job[j] = "ready" /\ ~RowLocked(j)
    /\ lease.holder \in {Nobody, w} \/ lease.age >= LeaseTTL
    /\ worker' = [worker EXCEPT ![w] = [pc |-> "claiming", job |-> j, limit |-> 0, age |-> 0]]
    /\ lease' = [lease EXCEPT !.lock = w]
    /\ UNCHANGED <<limit, job, attempt, starts, request, lock, ungated, spent>>

Claimed(w) == [holder |-> w, age |-> worker[w].age, lock |-> Nobody]

RoomToProcess == Cardinality(Processing) < MaxProcessing

\* evaluate_delivery, the capacity gate as one of its checks, and the commit.
Precheck(w) ==
    LET j == worker[w].job IN
    /\ worker[w].pc = "claiming" /\ lock = Nobody
    /\ lease' = Claimed(w)
    /\ \E h \in Horizons :
        \/ /\ RoomToProcess /\ starts[h] < limit
           /\ job' = [job EXCEPT ![j] = "processing"]
           /\ worker' = [worker EXCEPT ![w].pc = "claimed", ![w].limit = limit]
           /\ UNCHANGED ungated
        \/ /\ ~(RoomToProcess /\ starts[h] < limit)
           /\ worker' = [worker EXCEPT ![w] = IdleWorker]
           /\ UNCHANGED <<job, ungated>>
        \* another check holds the job back for review, or skips it
        \/ /\ \E s \in {"review", "settled"} : job' = [job EXCEPT ![j] = s]
           /\ ungated' = ungated \ {j}
           /\ worker' = [worker EXCEPT ![w] = IdleWorker]
    /\ UNCHANGED <<limit, attempt, starts, request, lock, spent>>

Prepare(w) ==
    /\ worker[w].pc = "claimed"
    /\ attempt' = [attempt EXCEPT ![worker[w].job] = [state |-> "prepared", age |-> 0]]
    /\ worker' = [worker EXCEPT ![w].pc = "prepared"]
    /\ UNCHANGED <<limit, job, starts, request, lock, lease, ungated, spent>>

\* Mutant: the attempt reserves nothing.
BudgetOfStarts(w, h) == starts[h] <= worker[w].limit

\* The final check counts the calls started and all PREPARED attempts, its own
\* among them, against the limit of the policy object in the session.
Budget(w, h) == starts[h] + Prepared(h) <= worker[w].limit

\* What ends the worker's transaction with job j in status s.
End(w, s) ==
    /\ job' = [job EXCEPT ![worker[w].job] = s]
    /\ worker' = [worker EXCEPT ![w] = IdleWorker]
    /\ ungated' = IF s = "ready" THEN ungated ELSE ungated \ {worker[w].job}

Reserve(w) ==
    /\ worker[w].pc = "prepared" /\ lock = Nobody
    /\ \E h \in Horizons :
        \/ /\ Cardinality(Processing) <= MaxProcessing /\ Budget(w, h)
           /\ lock' = w
           /\ worker' = [worker EXCEPT ![w].pc = "reserved"]
           /\ UNCHANGED <<job, attempt, ungated>>
        \/ /\ ~(Cardinality(Processing) <= MaxProcessing /\ Budget(w, h))
           /\ attempt' = [attempt EXCEPT ![worker[w].job] = NoAttempt]
           /\ End(w, "ready")
           /\ UNCHANGED lock
    /\ UNCHANGED <<limit, starts, request, lease, spent>>

StillValid(w) == worker[w].age < LeaseTTL

\* lock_delivery_fence, on the lease object of the claim.
Fence(w) ==
    /\ worker[w].pc = "reserved" /\ lease.lock = Nobody
    /\ IF StillValid(w)
       THEN /\ worker' = [worker EXCEPT ![w].pc = "fenced"]
            /\ lease' = [lease EXCEPT !.lock = w]
            /\ UNCHANGED <<job, attempt, lock, ungated>>
       ELSE /\ attempt' = [attempt EXCEPT ![worker[w].job] = NoAttempt]
            /\ lock' = Nobody
            /\ End(w, "ready")
            /\ UNCHANGED lease
    /\ UNCHANGED <<limit, starts, request, spent>>

Start(w) ==
    /\ worker[w].pc = "fenced"
    /\ worker' = [worker EXCEPT ![w].pc = "calling"]
    /\ attempt' = [attempt EXCEPT ![worker[w].job] = [state |-> "started", age |-> Old]]
    /\ starts' = [a \in DOMAIN starts |-> starts[a] + 1]
    /\ UNCHANGED <<limit, job, request, lock, lease, ungated, spent>>

\* The result is committed, and both locks go with it.  The last job of a batch
\* releases the next one if there is room, in the same transaction.
Finish(w, s, batch) ==
    LET j == worker[w].job
        ended == [job EXCEPT ![j] = s] IN
    /\ worker[w].pc = "calling" \/ (worker[w].pc = "fenced" /\ s # "review")
    /\ batch # {} => /\ s = "settled" /\ \A i \in batch : ~RowLocked(i)
                     /\ ~ReadyFull(Cardinality(batch) - 1)
    /\ job' = [i \in Jobs |-> IF i \in batch THEN "ready" ELSE ended[i]]
    /\ attempt' = IF s = "review" THEN attempt ELSE [attempt EXCEPT ![j] = NoAttempt]
    /\ worker' = [worker EXCEPT ![w] = IdleWorker]
    /\ ungated' = IF s = "ready" THEN ungated ELSE ungated \ {j}
    /\ lock' = Nobody
    /\ lease' = [lease EXCEPT !.lock = Nobody]
    /\ IF s = "ready" THEN Spend ELSE UNCHANGED spent
    /\ UNCHANGED <<limit, starts, request>>

\* Both a claim and a reservation (or a reconciliation) wait for the other's lock.
Deadlocked ==
    /\ \E w \in Workers : worker[w].pc = "claiming"
    /\ \/ \E c \in Callers : request[c].op = "notsent"
       \/ \E w \in Workers : worker[w].pc = "reserved"

\* The process dies, or the database breaks a deadlock by an error in this
\* transaction, which process_next does not handle: locks go, commits stay.
Crash(w) ==
    /\ worker[w].pc # "idle"
    /\ IF Deadlocked /\ worker[w].pc \in {"claiming", "reserved"}
       THEN UNCHANGED spent ELSE Spend
    /\ worker' = [worker EXCEPT ![w] = IdleWorker]
    /\ lock' = IF lock = w THEN Nobody ELSE lock
    /\ lease' = IF lease.lock = w THEN [lease EXCEPT !.lock = Nobody] ELSE lease
    /\ UNCHANGED <<limit, job, attempt, starts, request, ungated>>

\* recover_stale_jobs, at the start of a process, long after the window.
RecoverStale(j) ==
    /\ job[j] = "processing" /\ \A w \in Workers : worker[w].job # j
    /\ attempt[j].age = Old
    /\ IF attempt[j].state = "started"
       THEN /\ job' = [job EXCEPT ![j] = "review"]
            /\ ungated' = ungated \ {j}
            /\ UNCHANGED attempt
       ELSE /\ job' = [job EXCEPT ![j] = "ready"]
            /\ attempt' = [attempt EXCEPT ![j] = NoAttempt]
            /\ UNCHANGED ungated
    /\ UNCHANGED <<limit, starts, worker, request, lock, lease, spent>>

Tick ==
    /\ attempt' = [j \in Jobs |-> [attempt[j] EXCEPT !.age = Older(@)]]
    /\ starts' = [a \in DOMAIN starts |-> IF a = 0 THEN 0 ELSE starts[a - 1]]
    /\ worker' = [w \in Workers |-> [worker[w] EXCEPT !.age = Older(@)]]
    /\ lease' = [lease EXCEPT !.age = Older(@)]
    /\ UNCHANGED <<limit, job, request, lock, ungated, spent>>

CapacityNext ==
    \/ \E c \in Callers :
        \/ \E first \in SUBSET Having({"absent"}) :
              \E rest \in SUBSET (Having({"absent"}) \ first) : AdmitRun(c, first, rest)
        \/ \E batch \in SUBSET Having({"held"}) : ReleaseBatch(c, batch)
        \/ \E j \in Jobs : RetryJob(c, j) \/ ConfirmNotSent(c, j)
        \/ CommitRequest(c) \/ RollbackRequest(c)
    \/ \E j \in Jobs : SettleJob(j) \/ RecoverStale(j)
    \/ ReturnWithheld
    \/ \E n \in StartLimits : PatchPolicy(n)
    \/ \E w \in Workers :
        \/ \E j \in Jobs : TakeLease(w, j)
        \/ Precheck(w) \/ Prepare(w) \/ Reserve(w) \/ Fence(w) \/ Start(w) \/ Crash(w)
        \/ \E s \in {"ready", "review", "settled"}, batch \in SUBSET Having({"held"}) :
              Finish(w, s, batch)
    \/ Tick

CapacitySpec == CapacityInit /\ [][CapacityNext]_capacityVars

-----------------------------------------------------------------------------
(***************************************************************************)
(* Properties                                                              *)
(***************************************************************************)

\* No call is started that takes the calls of the window above the limit its
\* worker has read, whatever stalls, crashes or waits in between.
LimitKept ==
    [][\A w \in Workers :
          worker[w].pc = "fenced" /\ worker'[w].pc = "calling"
              => starts'[Window] <= worker[w].limit]_capacityVars

\* The queue keeps its limits, except for what resume_connection puts back:
\* admissions, releases and workers that run side by side do not overbook it.
QueueKeepsItsLimits ==
    /\ Cardinality(Active) <= MaxActive
    /\ Cardinality(Ready \ ungated) <= MaxReady
    /\ Cardinality(Processing) <= MaxProcessing

\* What the docstring of capacity_dispatch_decision and the documentation say.
LockIsFreeDuringCall == \A w \in Workers : worker[w].pc = "calling" => lock # w

=============================================================================
