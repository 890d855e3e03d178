--------------------------- MODULE DeliveryProofs ---------------------------
(***************************************************************************)
(* Safety of fenced delivery for any number of jobs, workers, sites and    *)
(* attempts: the types of its state; what is not sent is recorded as not   *)
(* sent; a fencing epoch names one worker; and, as long as no worker sits  *)
(* on a job past job_lease_minutes, every send has one outcome that is     *)
(* found again.                                                            *)
(***************************************************************************)
EXTENDS DeliveryInvariants, TLAPS

\* Whatever the database does to a lease, it stays one.
LEMMA LeaseOperations ==
    ASSUME NEW l \in LeaseType
    PROVE  /\ \A w \in Workers : Claimed(l, w) \in LeaseType
           /\ \A s \in Sites : HandedTo(l, s) \in LeaseType
           /\ \A h, e : Retired(l, h, e) \in LeaseType
           /\ Renewed(l) \in LeaseType
           /\ Expired(l) \in LeaseType
           /\ Draining(l) \in LeaseType
           /\ Undrained(l) \in LeaseType
  <1> DEFINE raised == l.epoch + 1
  <1>0. l.epoch \in Nat \ {0} /\ raised \in Nat \ {0}
    BY DEF LeaseType
  <1> HIDE DEF raised
  <1>1. ASSUME NEW w \in Workers PROVE Claimed(l, w) \in LeaseType
    <2>1. CASE ClaimRaisesEpoch(l, w)
      <3>1. Claimed(l, w) = [l EXCEPT !.holder = w, !.live = TRUE, !.renewed = TRUE,
                                      !.epoch = raised]
        BY <2>1 DEF Claimed, raised
      <3>2. QED
        BY <1>0, <3>1 DEF LeaseType
    <2>2. CASE ~ClaimRaisesEpoch(l, w)
      BY <1>0, <2>2 DEF LeaseType, Claimed
    <2>3. QED
      BY <2>1, <2>2
  <1>2. Renewed(l) \in LeaseType /\ Expired(l) \in LeaseType
    BY DEF LeaseType, Renewed, Expired
  <1>3. Draining(l) \in LeaseType /\ Undrained(l) \in LeaseType
    BY DEF LeaseType, Draining, Undrained
  <1>4. ASSUME NEW s \in Sites PROVE HandedTo(l, s) \in LeaseType
    <2>1. HandedTo(l, s) = [l EXCEPT !.site = s, !.holder = None, !.epoch = raised,
                                     !.status = "ACTIVE", !.live = FALSE, !.renewed = FALSE]
      BY DEF HandedTo, raised
    <2>2. QED
      BY <1>0, <2>1 DEF LeaseType
  <1>5. ASSUME NEW h, NEW e PROVE Retired(l, h, e) \in LeaseType
    <2>1. \/ Retired(l, h, e) = l
          \/ Retired(l, h, e) = [l EXCEPT !.holder = None, !.epoch = raised,
                                          !.live = FALSE, !.renewed = FALSE]
      BY DEF Retired, raised
    <2>2. QED
      BY <1>0, <2>1 DEF LeaseType
  <1>6. QED
    BY <1>1, <1>2, <1>3, <1>4, <1>5

\* The first row of an organization.
LEMMA NewLeaseType == NewLease \in LeaseType
  BY LeaseAssumption DEF LeaseType, NewLease

LEMMA WriteKeepsRow ==
    ASSUME NEW r \in JobRow, NEW s \in JobStatus, NEW c \in {"none", "uncertain", "other"}
    PROVE  Write(r, s, c) \in JobRow /\ Write(r, s, c).tries = r.tries
  BY DEF Write, JobRow

LEMMA AtType ==
    ASSUME NEW pc \in PC
    PROVE  At(pc) \in Process /\ At(pc).pc = pc
  BY NewLeaseType, DeliveryAssumption DEF At, Process

LEMMA SettleKeepsTypes ==
    ASSUME TypeInv, NEW w \in Workers, worker[w].pc \in Serving,
           NEW a \in AttemptStatus, NEW s \in JobStatus,
           NEW c \in {"none", "uncertain", "other"}, Settle(w, a, s, c)
    PROVE  /\ job' \in [Jobs -> JobRow]
           /\ attempt' \in [Jobs -> [Tries -> AttemptRow]]
           /\ worker' \in [Workers -> Process]
           /\ WorkersServe'
  <1> DEFINE j == worker[w].job
             n == worker[w].try
  <1>1. j \in Jobs /\ n \in Tries
    BY DEF TypeInv, WorkersServe
  <1>2. job' \in [Jobs -> JobRow]
    BY <1>1, WriteKeepsRow DEF TypeInv, TypeOK, Settle
  <1>3. [attempt[j][n] EXCEPT !.status = a] \in AttemptRow
    <2>1. attempt[j][n] \in AttemptRow
      BY <1>1 DEF TypeInv, TypeOK
    <2>2. QED
      BY <2>1 DEF AttemptRow
  <1>4. attempt' \in [Jobs -> [Tries -> AttemptRow]]
    BY <1>1, <1>3 DEF TypeInv, TypeOK, Settle
  <1>5. worker' \in [Workers -> Process] /\ worker'[w].pc = "idle"
    BY AtType DEF TypeInv, TypeOK, Settle, PC
  <1>6. \A v \in Workers : v # w => worker'[v] = worker[v]
    BY DEF TypeInv, TypeOK, Settle
  <1>7. WorkersServe'
    BY <1>5, <1>6 DEF TypeInv, WorkersServe, Serving
  <1>8. QED
    BY <1>2, <1>4, <1>5, <1>7

LEMMA InitTypes == Init => TypeInv
  <1> SUFFICES ASSUME Init PROVE TypeInv
    OBVIOUS
  <1>1. job \in [Jobs -> JobRow]
    BY DeliveryAssumption DEF Init, JobRow, JobStatus
  <1>2. attempt \in [Jobs -> [Tries -> AttemptRow]]
    BY DEF Init, AttemptRow, NoAttempt
  <1>3. lease \in LeaseType
    BY NewLeaseType DEF Init
  <1>4. failover \in FailoverRow
    BY LeaseAssumption DEF Init, FailoverRow, NoFailover
  <1>5. worker \in [Workers -> Process] /\ \A w \in Workers : worker[w].pc = "down"
    BY AtType DEF Init, PC
  <1>6. connected \in BOOLEAN /\ cancelling \subseteq Jobs /\ crashes \in 0 .. CrashBound
    BY DeliveryAssumption DEF Init
  <1>7. QED
    BY <1>1, <1>2, <1>3, <1>4, <1>5, <1>6 DEF TypeInv, TypeOK, WorkersServe, Serving

\* Steps that move one worker, or touch none.
LEMMA WorkerMoves ==
    ASSUME TypeInv, NEW w \in Workers, NEW p \in Process,
           p.pc \in Serving => p.job \in Jobs /\ p.try \in Tries,
           worker' = [worker EXCEPT ![w] = p]
    PROVE  worker' \in [Workers -> Process] /\ WorkersServe'
  BY DEF TypeInv, TypeOK, WorkersServe

LEMMA RecoveryTypes ==
    ASSUME TypeInv
    PROVE  /\ \A j \in Jobs : /\ RecoveredJob(j) \in JobRow
                            /\ RecoveredJob(j).tries = job[j].tries
           /\ \A j \in Jobs : \A n \in Tries : RecoveredAttempt(j, n) \in AttemptRow
  <1>1. ASSUME NEW j \in Jobs
        PROVE  RecoveredJob(j) \in JobRow /\ RecoveredJob(j).tries = job[j].tries
    <2>1. job[j] \in JobRow
      BY DEF TypeInv, TypeOK
    <2>2. QED
      BY <2>1, WriteKeepsRow DEF RecoveredJob, JobStatus
  <1>2. ASSUME NEW j \in Jobs, NEW n \in Tries
        PROVE  RecoveredAttempt(j, n) \in AttemptRow
    <2>1. attempt[j][n] \in AttemptRow
      BY DEF TypeInv, TypeOK
    <2>2. QED
      BY <2>1 DEF RecoveredAttempt, AttemptRow, AttemptStatus
  <1>3. QED
    BY <1>1, <1>2

LEMMA BeginTypes ==
    ASSUME TypeInv, NEW w \in Workers, NEW j \in Jobs, Begin(w, j)
    PROVE  TypeInv'
  <1> DEFINE p == [worker[w] EXCEPT !.pc = "claimed", !.job = j,
                                    !.try = job[j].tries + 1, !.seen = lease']
  <1>1. lease' \in LeaseType
    BY LeaseOperations DEF Begin, Claim, TypeInv, TypeOK
  <1>2. /\ job[j] \in JobRow
        /\ job[j].tries + 1 \in Tries
        /\ job[j].tries + 1 \in 0 .. TryBound
    BY DeliveryAssumption DEF Begin, TypeInv, TypeOK, JobRow, Tries
  <1>3. worker[w] \in Process
    BY DEF TypeInv, TypeOK
  <1>4. p \in Process /\ p.job \in Jobs /\ p.try \in Tries
    BY <1>1, <1>2, <1>3 DEF Process, PC, Serving, Tries
  <1>5. worker' \in [Workers -> Process] /\ WorkersServe'
    BY <1>4, WorkerMoves DEF Begin
  <1>6. Begun(job[j]) \in JobRow
    <2>1. /\ Write(job[j], "PROCESSING", "none") \in JobRow
          /\ Write(job[j], "PROCESSING", "none").tries = job[j].tries
      BY <1>2, WriteKeepsRow DEF JobStatus
    <2>2. QED
      BY <1>2, <2>1 DEF Begun, JobRow, Tries
  <1>7. job' \in [Jobs -> JobRow]
    BY <1>6 DEF Begin, TypeInv, TypeOK
  <1>8. QED
    BY <1>1, <1>5, <1>7 DEF Begin, Claim, TypeInv, TypeOK

LEMMA ProcessTypes ==
    ASSUME TypeInv, NEW w \in Workers, ProcessNext(w)
    PROVE  TypeInv'
  <1> DEFINE j == worker[w].job
             n == worker[w].try
  <1> USE DEF TypeInv, TypeOK
  <1>0. worker[w].pc \in Serving => j \in Jobs /\ n \in Tries /\ attempt[j][n] \in AttemptRow
    BY DEF WorkersServe
  \* What a worker settles is in the types of the rows.
  <1>1. /\ {"SENT", "FAILED", "UNCERTAIN", "ABANDONED"} \subseteq AttemptStatus
        /\ {"PENDING", "RETRY", "WAITING_REVIEW", "SENT", "FAILED"} \subseteq JobStatus
        /\ AfterTransient(w) \in {"RETRY", "FAILED"}
        /\ {"prepared", "fenced", "started", "called"} \subseteq Serving
    BY DEF AttemptStatus, JobStatus, AfterTransient, Serving
  \* A step within process_next keeps the job and the attempt number.
  <1>2. ASSUME NEW pc \in {"prepared", "fenced", "started", "called"},
               worker[w].pc \in Serving, worker' = [worker EXCEPT ![w].pc = pc]
        PROVE  worker' \in [Workers -> Process] /\ WorkersServe'
    <2>1. [worker[w] EXCEPT !.pc = pc] \in Process
      BY DEF Process, PC, Serving
    <2>2. worker' = [worker EXCEPT ![w] = [worker[w] EXCEPT !.pc = pc]]
      BY <1>2
    <2>3. [worker[w] EXCEPT !.pc = pc].job = j /\ [worker[w] EXCEPT !.pc = pc].try = n
      BY DEF Process
    <2>4. QED
      BY <1>0, <1>2, <2>1, <2>2, <2>3, WorkerMoves
  <1>3. CASE Prepare(w)
    <2>1. /\ worker[w].pc \in Serving
          /\ attempt' \in [Jobs -> [Tries -> AttemptRow]]
      BY <1>0, <1>3 DEF Prepare, Serving, AttemptRow, AttemptStatus, Process, LeaseType
    <2>2. QED
      BY <1>2, <1>3, <2>1 DEF Prepare
  <1>4. CASE EnterFence(w)
    BY <1>1, <1>2, <1>4 DEF EnterFence
  <1>5. CASE MarkStarted(w)
    <2>1. [attempt[j][n] EXCEPT !.status = "NETWORK_STARTED"] \in AttemptRow
      BY <1>0, <1>1, <1>5 DEF MarkStarted, AttemptRow, AttemptStatus
    <2>2. attempt' \in [Jobs -> [Tries -> AttemptRow]]
      BY <1>0, <1>1, <1>5, <2>1 DEF MarkStarted
    <2>3. QED
      BY <1>1, <1>2, <1>5, <2>2 DEF MarkStarted
  <1>6. CASE CallTelegram(w)
    <2>1. PICK taken \in BOOLEAN : attempt' = [attempt EXCEPT ![j][n].accepted = taken]
      BY <1>6 DEF CallTelegram
    <2>2. [attempt[j][n] EXCEPT !.accepted = taken] \in AttemptRow
      BY <1>0, <1>1, <1>6 DEF CallTelegram, AttemptRow
    <2>3. attempt' \in [Jobs -> [Tries -> AttemptRow]]
      BY <1>0, <1>1, <1>6, <2>1, <2>2 DEF CallTelegram
    <2>4. QED
      BY <1>1, <1>2, <1>6, <2>3 DEF CallTelegram
  <1>7. CASE \/ CapacityRefused(w) \/ FenceLost(w) \/ FailBeforeCall(w) \/ MarkRefused(w)
             \/ Succeed(w) \/ Refused(w) \/ Ambiguous(w) \/ Transient(w)
    <2>1. /\ worker[w].pc \in Serving
          /\ \E a \in {"SENT", "FAILED", "UNCERTAIN", "ABANDONED"} :
             \E s \in {"PENDING", "RETRY", "WAITING_REVIEW", "SENT", "FAILED"} :
             \E c \in {"none", "uncertain", "other"} : Settle(w, a, s, c)
          /\ connected' \in BOOLEAN
          /\ UNCHANGED <<lease, failover, cancelling, crashes>>
      BY <1>1, <1>7 DEF CapacityRefused, FenceLost, FailBeforeCall, MarkRefused,
                        Succeed, Refused, Ambiguous, Transient
    <2>2. QED
      BY <1>1, <2>1, SettleKeepsTypes
  <1>8. ASSUME NEW k \in Jobs, Withhold(w, k) PROVE TypeInv'
    <2>1. job' \in [Jobs -> JobRow]
      BY <1>8, WriteKeepsRow DEF Withhold, JobStatus
    <2>2. QED
      BY <1>8, <2>1, LeaseOperations DEF Withhold, Claim, WorkersServe
  <1>9. QED
    BY <1>3, <1>4, <1>5, <1>6, <1>7, <1>8, BeginTypes DEF ProcessNext

LEMMA OperatorTypes ==
    ASSUME TypeInv, OperatorNext
    PROVE  TypeInv'
  <1> USE DEF TypeInv, TypeOK
  <1>0. UNCHANGED worker => WorkersServe'
    BY DEF WorkersServe
  <1>1. ASSUME NEW a \in Admins, NEW s \in Sites, RequestFailover(a, s) PROVE TypeInv'
    BY <1>0, <1>1, LeaseOperations DEF RequestFailover, FailoverRow, LeaseType
  <1>2. ASSUME NEW a \in Admins, ApproveFailover(a) PROVE TypeInv'
    <2>1. failover.target \in Sites /\ NoFailover \in FailoverRow
      BY LeaseAssumption DEF FailoverRow, NoFailover
    <2>2. lease' \in LeaseType /\ failover' \in FailoverRow
      BY <1>2, <2>1, LeaseOperations DEF ApproveFailover
    <2>3. QED
      BY <1>0, <1>2, <2>2 DEF ApproveFailover
  <1>3. CASE CancelFailover
    <2>1. NoFailover \in FailoverRow
      BY LeaseAssumption DEF FailoverRow, NoFailover
    <2>2. QED
      BY <1>0, <1>3, <2>1, LeaseOperations DEF CancelFailover
  <1>4. ASSUME NEW j \in Jobs, CancelRead(j) \/ CancelCommit(j) \/ RetryJob(j) PROVE TypeInv'
    <2>1. job' \in [Jobs -> JobRow] /\ cancelling' \subseteq Jobs
      BY <1>4, WriteKeepsRow DEF CancelRead, CancelCommit, RetryJob, JobStatus
    <2>2. QED
      BY <1>0, <1>4, <2>1 DEF CancelRead, CancelCommit, RetryJob
  <1>5. ASSUME NEW j \in Jobs, NEW r \in DOMAIN Resolutions, Resolve(j, r) PROVE TypeInv'
    <2>1. /\ Resolutions[r].job \in JobStatus
          /\ Resolutions[r].attempt \in AttemptStatus
      BY DEF Resolutions, JobStatus, AttemptStatus
    <2>2. Reviewed(j, r) \in JobRow
      <3>1. Write(job[j], Resolutions[r].job, "none") \in JobRow
        BY <2>1, WriteKeepsRow
      <3>2. QED
        BY <3>1 DEF Reviewed, JobRow
    <2>3. job' \in [Jobs -> JobRow]
      BY <1>5, <2>2 DEF Resolve
    <2>4. lease' \in LeaseType /\ attempt' \in [Jobs -> [Tries -> AttemptRow]]
      <3>1. ASSUME NEW n \in Tries,
                   attempt' = [attempt EXCEPT ![j][n].status = Resolutions[r].attempt]
            PROVE  attempt' \in [Jobs -> [Tries -> AttemptRow]]
        <4>1. [attempt[j][n] EXCEPT !.status = Resolutions[r].attempt] \in AttemptRow
          <5>1. attempt[j][n] \in AttemptRow
            OBVIOUS
          <5>2. QED
            BY <2>1, <5>1 DEF AttemptRow
        <4>2. QED
          BY <3>1, <4>1
      <3>2. CASE UNCHANGED <<lease, attempt>>
        BY <3>2
      <3>3. ASSUME NEW n \in Tries,
                   lease' = Retired(lease, attempt[j][n].worker, attempt[j][n].epoch)
            PROVE  lease' \in LeaseType
        BY <3>3, LeaseOperations
      <3>4. QED
        BY <1>5, <3>1, <3>2, <3>3 DEF Resolve
    <2>5. QED
      BY <1>0, <1>5, <2>3, <2>4 DEF Resolve
  <1>6. CASE PauseConnection \/ ResumeConnection
    <2>1. job' \in [Jobs -> JobRow]
      BY <1>6, WriteKeepsRow DEF PauseConnection, ResumeConnection, JobStatus
    <2>2. QED
      BY <1>0, <1>6, <2>1 DEF PauseConnection, ResumeConnection
  <1>7. QED
    BY <1>1, <1>2, <1>3, <1>4, <1>5, <1>6 DEF OperatorNext

LEMMA ClockTypes ==
    ASSUME TypeInv, ClockNext
    PROVE  TypeInv'
  <1>1. ASSUME NEW W \in SUBSET Workers, worker' = SeenExpired(W)
        PROVE  worker' \in [Workers -> Process] /\ WorkersServe'
    <2>1. ASSUME NEW w \in Workers
          PROVE  [worker[w] EXCEPT !.seen.live = FALSE] \in Process
      <3>1. worker[w] \in Process
        BY DEF TypeInv, TypeOK
      <3>2. [worker[w].seen EXCEPT !.live = FALSE] \in LeaseType
        BY <3>1 DEF Process, LeaseType
      <3>3. QED
        BY <3>1, <3>2 DEF Process
    <2>2. ASSUME NEW w \in Workers
          PROVE  /\ worker'[w] \in Process
                 /\ worker'[w].pc = worker[w].pc
                 /\ worker'[w].job = worker[w].job
                 /\ worker'[w].try = worker[w].try
      BY <1>1, <2>1 DEF SeenExpired, TypeInv, TypeOK, Process
    <2>3. QED
      BY <1>1, <2>2 DEF SeenExpired, TypeInv, WorkersServe
  <1>2. CASE LeaseExpires
    BY <1>1, <1>2, LeaseOperations DEF LeaseExpires, TypeInv, TypeOK
  <1>3. ASSUME NEW w \in Workers, SeenLeaseExpires(w) PROVE TypeInv'
    BY <1>1, <1>3 DEF SeenLeaseExpires, TypeInv, TypeOK
  <1>4. ASSUME NEW j \in Jobs, JobLockAges(j) PROVE TypeInv'
    <2>1. job' \in [Jobs -> JobRow]
      BY <1>4 DEF JobLockAges, TypeInv, TypeOK, JobRow
    <2>2. QED
      BY <1>1, <1>4, <2>1 DEF JobLockAges, TypeInv, TypeOK
  <1>5. QED
    BY <1>2, <1>3, <1>4 DEF ClockNext

LEMMA StepTypes == TypeInv /\ [Next]_vars => TypeInv'
  <1> SUFFICES ASSUME TypeInv, [Next]_vars PROVE TypeInv'
    OBVIOUS
  <1> USE DEF TypeInv, TypeOK
  <1>0. CASE UNCHANGED vars
    BY <1>0 DEF vars, WorkersServe
  <1>1. ASSUME NEW w \in Workers, WorkerNext(w) \/ Crash(w) PROVE TypeInv'
    <2>1. CASE Start(w)
      <3>1. worker' \in [Workers -> Process] /\ WorkersServe'
        BY <2>1, AtType, WorkerMoves DEF Start, PC, Serving
      <3>2. job' \in [Jobs -> JobRow] /\ attempt' \in [Jobs -> [Tries -> AttemptRow]]
        BY <2>1, RecoveryTypes DEF Start
      <3>3. QED
        BY <2>1, <3>1, <3>2 DEF Start
    <2>2. CASE Crash(w)
      <3>1. worker' \in [Workers -> Process] /\ WorkersServe'
        BY <2>2, AtType, WorkerMoves DEF Crash, PC, Serving
      <3>2. crashes' \in 0 .. CrashBound
        BY <2>2, DeliveryAssumption DEF Crash
      <3>3. QED
        BY <2>2, <3>1, <3>2 DEF Crash
    <2>3. CASE HeartbeatRead(w)
      <3>1. PICK pc \in {"idle", "rejoining", "beating"} :
              worker' = [worker EXCEPT ![w] = [worker[w] EXCEPT !.pc = pc]]
        BY <2>3 DEF HeartbeatRead
      <3>2. [worker[w] EXCEPT !.pc = pc] \in Process
        BY DEF Process, PC
      <3>3. worker' \in [Workers -> Process] /\ WorkersServe'
        BY <3>1, <3>2, WorkerMoves DEF Serving, Process
      <3>4. QED
        BY <2>3, <3>3 DEF HeartbeatRead
    <2>4. CASE HeartbeatCommit(w)
      <3>1. [worker[w] EXCEPT !.pc = "idle"] \in Process
        BY DEF Process, PC
      <3>2. worker' \in [Workers -> Process] /\ WorkersServe'
        BY <2>4, <3>1, WorkerMoves DEF HeartbeatCommit, Serving, Process
      <3>3. lease' \in LeaseType
        BY <2>4, LeaseOperations DEF HeartbeatCommit, Renewed, LeaseType
      <3>4. QED
        BY <2>4, <3>2, <3>3 DEF HeartbeatCommit
    <2>5. CASE ProcessNext(w)
      BY <2>5, ProcessTypes
    <2>6. QED
      BY <1>1, <2>1, <2>2, <2>3, <2>4, <2>5 DEF WorkerNext
  <1>2. CASE OperatorNext
    BY <1>2, OperatorTypes
  <1>3. CASE ClockNext
    BY <1>3, ClockTypes
  <1>4. QED
    BY <1>0, <1>1, <1>2, <1>3 DEF Next

\* Every reachable state is well typed, and a serving worker always knows its
\* job and its attempt number.
THEOREM TypeCorrect == Spec => []TypeOK
  <1>1. TypeInv => TypeOK
    BY DEF TypeInv
  <1>2. QED
    BY <1>1, InitTypes, StepTypes, PTL DEF Spec

-----------------------------------------------------------------------------
(***************************************************************************)
(* An attempt that the system treats as not sent was not sent.  The proof  *)
(* needs no bound on how long a worker may stall.  It rests on two facts:  *)
(* no two workers ever share an attempt (TriesDiffer), and from the        *)
(* network mark to the result the row lock of the lease keeps the operator *)
(* from reconciling the attempt (CalledIsUnresolved).                      *)
(***************************************************************************)
Unmarked == {"claimed", "prepared", "fenced"}
Marked == {"started", "called"}

\* Worker w is, after the step, where it was: the same attempt, on the same side
\* of the network mark; or it has let go of its job.
Keeps(w) ==
    worker'[w].pc \in Serving =>
        /\ worker[w].pc \in Serving
        /\ worker'[w].job = worker[w].job
        /\ worker'[w].try = worker[w].try
        /\ worker'[w].pc \in Marked <=> worker[w].pc \in Marked

LEMMA ServingSplits ==
    /\ Serving = Unmarked \cup Marked
    /\ Unmarked \cap Marked = {}
    /\ Marked \subseteq InFlight
  BY DEF Serving, Unmarked, Marked, InFlight

\* A step that leaves the attempts alone.
LEMMA QuietStep ==
    ASSUME SendInv, TypeInv', UNCHANGED attempt,
           \A j \in Jobs : job'[j].tries = job[j].tries,
           \A w \in Workers : Keeps(w)
    PROVE  SendInv'
  <1>1. TriesCounted'
    BY DEF SendInv, TriesCounted, Keeps, TypeInv, WorkersServe
  <1>2. TriesDiffer'
    BY DEF SendInv, TriesDiffer, Keeps
  <1>3. CalledIsUnresolved'
    BY ServingSplits DEF SendInv, CalledIsUnresolved, Keeps, Marked
  <1>4. UnmarkedIsUnsent'
    BY ServingSplits DEF SendInv, UnmarkedIsUnsent, Keeps, Unmarked
  <1>5. RequeuedWasNotSent'
    BY DEF SendInv, RequeuedWasNotSent
  <1>6. QED
    BY <1>1, <1>2, <1>3, <1>4, <1>5 DEF SendInv

\* A step of worker w that writes the row of its own attempt.
LEMMA OwnAttemptStep ==
    ASSUME SendInv, TypeInv',
           NEW w \in Workers, NEW j \in Jobs, NEW n \in Tries,
           worker[w].pc \in Serving, worker[w].job = j, worker[w].try = n,
           \A k \in Jobs : job'[k].tries = job[k].tries,
           \A v \in Workers \ {w} : worker'[v] = worker[v],
           worker'[w].pc \in Serving => worker'[w].job = j /\ worker'[w].try = n,
           \A k \in Jobs : \A m \in Tries :
               k # j \/ m # n => attempt'[k][m] = attempt[k][m],
           worker'[w].pc \in Marked =>
               attempt'[j][n].status \in {"NETWORK_STARTED", "UNCERTAIN"},
           worker'[w].pc \in Unmarked => ~attempt'[j][n].accepted,
           attempt'[j][n].status \in {"absent", "PREPARED", "ABANDONED", "RECONCILED_NOT_SENT"}
               => ~attempt'[j][n].accepted
    PROVE  SendInv'
  <1>0. n <= job[j].tries
    BY DEF SendInv, TriesCounted
  <1>1. TriesCounted'
    <2>1. ASSUME NEW v \in Workers, worker'[v].pc \in Serving
          PROVE  worker'[v].try <= job'[worker'[v].job].tries
      BY <1>0, <2>1 DEF SendInv, TriesCounted, TypeInv, WorkersServe
    <2>2. ASSUME NEW k \in Jobs, NEW m \in Tries, m > job'[k].tries
          PROVE  attempt'[k][m].status = "absent"
      <3>1. k # j \/ m # n
        <4>1. m > job[k].tries /\ job[k].tries \in 0 .. TryBound
          BY <2>2 DEF SendInv, TypeInv, TypeOK, JobRow
        <4>2. QED
          BY <1>0, <4>1 DEF Tries
      <3>2. QED
        BY <2>2, <3>1 DEF SendInv, TriesCounted
    <2>3. QED
      BY <2>1, <2>2 DEF TriesCounted
  <1>2. TriesDiffer'
    BY DEF SendInv, TriesDiffer
  <1>3. ASSUME NEW v \in Workers, v # w, worker[v].pc \in Serving
        PROVE  /\ worker[v].job \in Jobs /\ worker[v].try \in Tries
               /\ attempt'[worker[v].job][worker[v].try] = attempt[worker[v].job][worker[v].try]
    BY <1>3 DEF SendInv, TriesDiffer, TypeInv, WorkersServe
  <1>4. CalledIsUnresolved'
    BY <1>3, ServingSplits DEF SendInv, CalledIsUnresolved, Marked
  <1>5. UnmarkedIsUnsent'
    BY <1>3, ServingSplits DEF SendInv, UnmarkedIsUnsent, Unmarked
  <1>6. RequeuedWasNotSent'
    BY DEF SendInv, RequeuedWasNotSent
  <1>7. QED
    BY <1>1, <1>2, <1>4, <1>5, <1>6 DEF SendInv

LEMMA InitSend == Init => SendInv
  <1> SUFFICES ASSUME Init PROVE SendInv
    OBVIOUS
  <1>1. \A w \in Workers : worker[w].pc \notin Serving
    BY DEF Init, At, Serving
  <1>2. \A j \in Jobs : \A n \in Tries : attempt[j][n] = NoAttempt
    BY DEF Init
  <1>3. TriesCounted /\ TriesDiffer
    BY <1>1, <1>2 DEF TriesCounted, TriesDiffer, NoAttempt
  <1>4. CalledIsUnresolved /\ UnmarkedIsUnsent
    BY <1>1 DEF CalledIsUnresolved, UnmarkedIsUnsent, Serving
  <1>5. RequeuedWasNotSent
    BY <1>2 DEF RequeuedWasNotSent, NoAttempt
  <1>6. QED
    BY <1>3, <1>4, <1>5, InitTypes DEF SendInv

-----------------------------------------------------------------------------
\* Settle writes the worker's own attempt; only an unmarked one is abandoned.
LEMMA SettleSend ==
    ASSUME SendInv, TypeInv', NEW w \in Workers, worker[w].pc \in Serving,
           NEW a \in {"SENT", "FAILED", "UNCERTAIN", "ABANDONED"},
           a = "ABANDONED" => worker[w].pc \in Unmarked,
           NEW s \in JobStatus, NEW c \in {"none", "uncertain", "other"}, Settle(w, a, s, c)
    PROVE  SendInv'
  <1> DEFINE j == worker[w].job
             n == worker[w].try
  <1>1. j \in Jobs /\ n \in Tries /\ TypeOK
    BY DEF SendInv, TypeInv, WorkersServe
  <1>2. /\ worker' = [worker EXCEPT ![w] = At("idle")]
        /\ job' = [job EXCEPT ![j] = Write(@, s, c)]
        /\ attempt' = [attempt EXCEPT ![j][n].status = a]
    BY DEF Settle
  <1>3. worker'[w].pc \notin Serving
    BY <1>1, <1>2, AtType DEF TypeOK, PC, Serving
  <1>4. \A k \in Jobs : job'[k].tries = job[k].tries
    BY SMTT(40), <1>1, <1>2, WriteKeepsRow DEF TypeOK
  <1>5. /\ attempt'[j][n].status = a
        /\ attempt'[j][n].accepted = attempt[j][n].accepted
        /\ \A k \in Jobs : \A m \in Tries :
               k # j \/ m # n => attempt'[k][m] = attempt[k][m]
    BY <1>1, <1>2 DEF TypeOK, AttemptRow
  <1>6. a = "ABANDONED" => ~attempt[j][n].accepted
    BY DEF SendInv, UnmarkedIsUnsent, Unmarked
  <1>7. \A v \in Workers \ {w} : worker'[v] = worker[v]
    BY <1>1, <1>2 DEF TypeOK
  <1>8. QED
    BY <1>1, <1>3, <1>4, <1>5, <1>6, <1>7, ServingSplits, OwnAttemptStep

\* A new attempt takes the next number, which nobody has and no row carries.
LEMMA BeginSend ==
    ASSUME SendInv, TypeInv', NEW w \in Workers, NEW j \in Jobs, Begin(w, j)
    PROVE  SendInv'
  <1> DEFINE n == job[j].tries + 1
  <1>0. TypeInv /\ TypeOK /\ job[j] \in JobRow /\ n \in Tries
    <2>1. TypeInv /\ TypeOK /\ job[j] \in JobRow
      BY DEF SendInv, TypeInv, TypeOK
    <2>2. QED
      BY <2>1, DeliveryAssumption DEF Begin, JobRow, Tries
  <1>1. /\ worker'[w].pc = "claimed" /\ worker'[w].job = j /\ worker'[w].try = n
        /\ \A v \in Workers \ {w} : worker'[v] = worker[v]
        /\ UNCHANGED attempt
    BY <1>0 DEF Begin, Claim, TypeOK, Process
  <1>2. job'[j].tries = n /\ \A k \in Jobs \ {j} : job'[k] = job[k]
    <2>1. /\ Write(job[j], "PROCESSING", "none") \in JobRow
          /\ Write(job[j], "PROCESSING", "none").tries = job[j].tries
      BY <1>0, WriteKeepsRow DEF JobStatus
    <2>2. Begun(job[j]).tries = n
      BY <2>1 DEF Begun, JobRow
    <2>3. QED
      BY <1>0, <2>2 DEF Begin, TypeOK
  <1>3. attempt[j][n].status = "absent" /\ ~attempt[j][n].accepted
    BY <1>0 DEF SendInv, TriesCounted, RequeuedWasNotSent, JobRow
  <1>4. \A k \in Jobs : job[k].tries \in Nat /\ job[k].tries <= job'[k].tries
    BY <1>0, <1>2 DEF TypeOK, JobRow
  <1>5. ASSUME NEW v \in Workers \ {w}, worker[v].pc \in Serving
        PROVE  /\ worker[v].job \in Jobs /\ worker[v].try \in Tries
               /\ worker[v].try <= job[worker[v].job].tries
    BY <1>0, <1>5 DEF SendInv, TriesCounted, TypeInv, WorkersServe
  <1>6. TriesCounted'
    <2>1. ASSUME NEW v \in Workers, worker'[v].pc \in Serving
          PROVE  worker'[v].try <= job'[worker'[v].job].tries
      <3>1. CASE v = w
        BY <1>0, <1>1, <1>2, <3>1 DEF Tries
      <3>2. CASE v # w
        BY <1>1, <1>4, <1>5, <2>1, <3>2 DEF TypeInv, TypeOK, JobRow, Tries
      <3>3. QED
        BY <3>1, <3>2
    <2>2. ASSUME NEW k \in Jobs, NEW m \in Tries, m > job'[k].tries
          PROVE  attempt'[k][m].status = "absent"
      <3>1. m > job[k].tries
        BY <1>0, <1>2, <1>4, <2>2 DEF Tries
      <3>2. QED
        BY <1>1, <3>1 DEF SendInv, TriesCounted
    <2>3. QED
      BY <2>1, <2>2 DEF TriesCounted
  <1>7. TriesDiffer'
    <2>1. ASSUME NEW v \in Workers \ {w}, worker[v].pc \in Serving, worker[v].job = j
          PROVE  worker[v].try # n
      BY <1>0, <1>5, <2>1 DEF JobRow, Tries
    <2>2. QED
      BY <1>1, <2>1 DEF SendInv, TriesDiffer
  <1>8. CalledIsUnresolved'
    BY <1>1 DEF SendInv, CalledIsUnresolved
  <1>9. UnmarkedIsUnsent'
    BY <1>1, <1>3 DEF SendInv, UnmarkedIsUnsent
  <1>10. RequeuedWasNotSent'
    BY <1>1 DEF SendInv, RequeuedWasNotSent
  <1>11. QED
    BY <1>6, <1>7, <1>8, <1>9, <1>10 DEF SendInv

LEMMA ProcessSend ==
    ASSUME SendInv, TypeInv', NEW w \in Workers, ProcessNext(w)
    PROVE  SendInv'
  <1> DEFINE j == worker[w].job
             n == worker[w].try
  <1>0. TypeInv /\ TypeOK
    BY DEF SendInv, TypeInv
  <1>1. /\ worker[w].pc \in Serving => j \in Jobs /\ n \in Tries /\ attempt[j][n] \in AttemptRow
        /\ {"claimed", "prepared", "fenced", "started", "called"} = Serving
        /\ worker[w] \in Process
    BY <1>0 DEF TypeInv, TypeOK, WorkersServe, Serving
  <1>2. ASSUME NEW pc \in PC, worker' = [worker EXCEPT ![w].pc = pc]
        PROVE  /\ worker'[w].pc = pc /\ worker'[w].job = j /\ worker'[w].try = n
               /\ \A v \in Workers \ {w} : worker'[v] = worker[v]
    BY <1>0, <1>1, <1>2 DEF TypeOK, Process
  <1>3. CASE Prepare(w)
    <2>1. /\ attempt'[j][n].status = "PREPARED" /\ ~attempt'[j][n].accepted
          /\ \A k \in Jobs : \A m \in Tries :
                 k # j \/ m # n => attempt'[k][m] = attempt[k][m]
      BY <1>0, <1>1, <1>3 DEF Prepare, TypeOK
    <2>2. /\ worker[w].pc \in Serving /\ worker'[w].pc = "prepared" /\ UNCHANGED job
          /\ worker'[w].job = j /\ worker'[w].try = n
          /\ \A v \in Workers \ {w} : worker'[v] = worker[v]
      BY <1>2, <1>3 DEF Prepare, PC, Serving
    <2>3. worker'[w].pc \notin Marked
      BY <2>2 DEF Marked
    <2>4. QED
      BY <1>1, <2>1, <2>2, <2>3, OwnAttemptStep
  <1>4. CASE EnterFence(w)
    BY <1>2, <1>4, QuietStep DEF EnterFence, Keeps, PC, Serving, Marked
  <1>5. CASE MarkStarted(w)
    <2>1. /\ attempt'[j][n].status = "NETWORK_STARTED"
          /\ \A k \in Jobs : \A m \in Tries :
                 k # j \/ m # n => attempt'[k][m] = attempt[k][m]
      BY <1>0, <1>1, <1>5 DEF MarkStarted, TypeOK, AttemptRow
    <2>2. /\ worker[w].pc \in Serving /\ worker'[w].pc = "started" /\ UNCHANGED job
          /\ worker'[w].job = j /\ worker'[w].try = n
          /\ \A v \in Workers \ {w} : worker'[v] = worker[v]
      BY <1>2, <1>5 DEF MarkStarted, PC, Serving
    <2>3. worker'[w].pc \notin Unmarked
      BY <2>2 DEF Unmarked
    <2>4. QED
      BY <1>1, <2>1, <2>2, <2>3, OwnAttemptStep
  <1>6. CASE CallTelegram(w)
    <2>1. PICK taken \in BOOLEAN : attempt' = [attempt EXCEPT ![j][n].accepted = taken]
      BY <1>6 DEF CallTelegram
    <2>2. /\ attempt'[j][n].status = attempt[j][n].status
          /\ \A k \in Jobs : \A m \in Tries :
                 k # j \/ m # n => attempt'[k][m] = attempt[k][m]
      BY <1>0, <1>1, <1>6, <2>1 DEF CallTelegram, TypeOK, AttemptRow
    <2>3. attempt[j][n].status \in {"NETWORK_STARTED", "UNCERTAIN"}
      BY <1>6 DEF CallTelegram, SendInv, CalledIsUnresolved
    <2>4. /\ worker[w].pc \in Serving /\ worker'[w].pc = "called" /\ UNCHANGED job
          /\ worker'[w].job = j /\ worker'[w].try = n
          /\ \A v \in Workers \ {w} : worker'[v] = worker[v]
      BY <1>2, <1>6 DEF CallTelegram, PC, Serving
    <2>5. worker'[w].pc \notin Unmarked
      BY <2>4 DEF Unmarked
    <2>6. QED
      BY SMTT(40), <1>1, <2>2, <2>3, <2>4, <2>5, OwnAttemptStep
  <1>7. CASE \/ CapacityRefused(w) \/ FenceLost(w) \/ FailBeforeCall(w) \/ MarkRefused(w)
             \/ Succeed(w) \/ Refused(w) \/ Ambiguous(w) \/ Transient(w)
    <2>1. /\ worker[w].pc \in Serving
          /\ \E a \in {"SENT", "FAILED", "UNCERTAIN", "ABANDONED"} :
             \E s \in {"PENDING", "RETRY", "WAITING_REVIEW", "SENT", "FAILED"} :
             \E c \in {"none", "uncertain", "other"} :
                /\ Settle(w, a, s, c)
                /\ a = "ABANDONED" => worker[w].pc = "prepared"
      BY <1>1, <1>7 DEF CapacityRefused, FenceLost, FailBeforeCall, MarkRefused,
                        Succeed, Refused, Ambiguous, Transient, AfterTransient
    <2>2. {"PENDING", "RETRY", "WAITING_REVIEW", "SENT", "FAILED"} \subseteq JobStatus
      BY DEF JobStatus
    <2>3. QED
      BY <2>1, <2>2, SettleSend DEF Unmarked
  <1>8. ASSUME NEW k \in Jobs, Withhold(w, k) PROVE SendInv'
    <2>1. \A i \in Jobs : job'[i].tries = job[i].tries
      BY <1>0, <1>8, WriteKeepsRow DEF Withhold, TypeOK, JobStatus
    <2>2. QED
      BY <1>8, <2>1, QuietStep DEF Withhold, Claim, Keeps
  <1>9. QED
    BY <1>3, <1>4, <1>5, <1>6, <1>7, <1>8, BeginSend DEF ProcessNext

\* Recovery abandons only what carries no network mark, and requeues nothing
\* that does.
LEMMA StartSend ==
    ASSUME SendInv, TypeInv', NEW w \in Workers, Start(w)
    PROVE  SendInv'
  <1>0. TypeInv /\ TypeOK
    BY DEF SendInv, TypeInv
  <1>1. \A j \in Jobs : job'[j].tries = job[j].tries
    BY <1>0, RecoveryTypes DEF Start
  <1>2. \A v \in Workers : worker'[v].pc \in Serving => worker'[v] = worker[v]
    BY <1>0, AtType DEF Start, TypeOK, PC, Serving
  <1>3. ASSUME NEW j \in Jobs, NEW n \in Tries
        PROVE  /\ attempt'[j][n].accepted = attempt[j][n].accepted
               /\ \/ attempt'[j][n].status = attempt[j][n].status
                  \/ /\ attempt[j][n].status = "NETWORK_STARTED"
                     /\ attempt'[j][n].status = "UNCERTAIN"
                  \/ /\ attempt[j][n].status = "PREPARED"
                     /\ attempt'[j][n].status = "ABANDONED"
    <2>1. attempt[j][n] \in AttemptRow /\ attempt'[j][n] = RecoveredAttempt(j, n)
      BY <1>0 DEF Start, TypeOK
    <2>2. QED
      BY <2>1 DEF RecoveredAttempt, AttemptRow
  <1>4. TriesCounted'
    BY <1>0, <1>1, <1>2, <1>3 DEF SendInv, TriesCounted, TypeInv, WorkersServe
  <1>5. TriesDiffer'
    BY <1>2 DEF SendInv, TriesDiffer
  <1>6. CalledIsUnresolved'
    <2>1. ASSUME NEW v \in Workers, worker'[v].pc \in Marked
          PROVE  attempt'[worker'[v].job][worker'[v].try].status \in {"NETWORK_STARTED", "UNCERTAIN"}
      <3>1. worker'[v] = worker[v] /\ worker[v].job \in Jobs /\ worker[v].try \in Tries
        BY <1>0, <1>2, <2>1, ServingSplits DEF TypeInv, WorkersServe
      <3>2. attempt[worker[v].job][worker[v].try].status \in {"NETWORK_STARTED", "UNCERTAIN"}
        BY <2>1, <3>1 DEF SendInv, CalledIsUnresolved, Marked
      <3>3. QED
        BY <1>3, <3>1, <3>2
    <2>2. QED
      BY <2>1 DEF CalledIsUnresolved, Marked
  <1>7. UnmarkedIsUnsent'
    <2>1. ASSUME NEW v \in Workers, worker'[v].pc \in Unmarked
          PROVE  ~attempt'[worker'[v].job][worker'[v].try].accepted
      <3>1. worker'[v] = worker[v] /\ worker[v].job \in Jobs /\ worker[v].try \in Tries
        BY <1>0, <1>2, <2>1, ServingSplits DEF TypeInv, WorkersServe
      <3>2. ~attempt[worker[v].job][worker[v].try].accepted
        BY <2>1, <3>1 DEF SendInv, UnmarkedIsUnsent, Unmarked
      <3>3. QED
        BY <1>3, <3>1, <3>2
    <2>2. QED
      BY <2>1 DEF UnmarkedIsUnsent, Unmarked
  <1>8. RequeuedWasNotSent'
    BY <1>3 DEF SendInv, RequeuedWasNotSent
  <1>9. QED
    BY <1>4, <1>5, <1>6, <1>7, <1>8 DEF SendInv

\* The operator reconciles an attempt only while nobody holds the lease row, so
\* no worker is between its network mark and its result.
LEMMA ResolveSend ==
    ASSUME SendInv, TypeInv', NEW j \in Jobs, NEW r \in DOMAIN Resolutions, Resolve(j, r)
    PROVE  SendInv'
  <1>0. TypeInv /\ TypeOK /\ UNCHANGED worker
    BY DEF SendInv, TypeInv, Resolve
  <1>1. \A k \in Jobs : job'[k].tries = job[k].tries
    <2>1. Resolutions[r].job \in JobStatus
      BY DEF Resolutions, JobStatus
    <2>2. /\ Write(job[j], Resolutions[r].job, "none") \in JobRow
          /\ Write(job[j], Resolutions[r].job, "none").tries = job[j].tries
      BY <1>0, <2>1, WriteKeepsRow DEF TypeOK
    <2>3. Reviewed(j, r).tries = job[j].tries
      BY <2>2 DEF Reviewed, JobRow
    <2>4. QED
      BY <1>0, <2>3 DEF Resolve, TypeOK
  <1>2. CASE UNCHANGED attempt
    BY <1>0, <1>1, <1>2, QuietStep DEF Keeps
  <1>3. ASSUME NEW n \in Tries, ToReconcile(j, n), ReportsTruly(j, n, r), LeaseUnlocked,
               attempt' = [attempt EXCEPT ![j][n].status = Resolutions[r].attempt]
        PROVE  SendInv'
    <2>1. \A w \in Workers : worker[w].pc \notin Marked
      BY <1>3, ServingSplits DEF LeaseUnlocked
    <2>2. /\ attempt'[j][n].accepted = attempt[j][n].accepted
          /\ attempt'[j][n].status = Resolutions[r].attempt
          /\ \A k \in Jobs : \A m \in Tries :
                 k # j \/ m # n => attempt'[k][m] = attempt[k][m]
      BY <1>0, <1>3 DEF TypeOK, AttemptRow
    <2>3. attempt[j][n].status # "absent" /\ Resolutions[r].attempt # "absent"
      BY <1>3 DEF ToReconcile, Unresolved, Resolutions
    <2>4. Resolutions[r].attempt \in {"absent", "PREPARED", "ABANDONED", "RECONCILED_NOT_SENT"}
            => ~attempt[j][n].accepted
      BY <1>3 DEF Resolutions, ReportsTruly
    <2>5. TriesCounted'
      BY <1>0, <1>1, <2>2, <2>3 DEF SendInv, TriesCounted, TypeInv, WorkersServe
    <2>6. TriesDiffer'
      BY <1>0 DEF SendInv, TriesDiffer
    <2>7. CalledIsUnresolved'
      BY <1>0, <2>1 DEF CalledIsUnresolved, Marked
    <2>8. UnmarkedIsUnsent'
      <3>1. \A k \in Jobs : \A m \in Tries : attempt'[k][m].accepted = attempt[k][m].accepted
        BY <2>2
      <3>2. QED
        BY <1>0, <3>1, ServingSplits
           DEF SendInv, UnmarkedIsUnsent, TypeInv, WorkersServe, Unmarked
    <2>9. RequeuedWasNotSent'
      BY <2>2, <2>4 DEF SendInv, RequeuedWasNotSent
    <2>10. QED
      BY <2>5, <2>6, <2>7, <2>8, <2>9 DEF SendInv
  <1>4. QED
    BY <1>2, <1>3 DEF Resolve

LEMMA StepSend == SendInv /\ [Next]_vars => SendInv'
  <1> SUFFICES ASSUME SendInv, [Next]_vars PROVE SendInv'
    OBVIOUS
  <1>0. TypeInv /\ TypeOK /\ TypeInv'
    BY StepTypes DEF SendInv, TypeInv
  <1>1. UNCHANGED worker => \A w \in Workers : Keeps(w)
    BY DEF Keeps
  <1>2. CASE UNCHANGED vars
    BY <1>0, <1>1, <1>2, QuietStep DEF vars
  <1>3. ASSUME NEW w \in Workers, WorkerNext(w) \/ Crash(w) PROVE SendInv'
    <2>1. CASE Start(w)
      BY <1>0, <2>1, StartSend
    <2>2. CASE ProcessNext(w)
      BY <1>0, <2>2, ProcessSend
    <2>3. CASE HeartbeatRead(w) \/ HeartbeatCommit(w) \/ Crash(w)
      <3>1. UNCHANGED <<job, attempt>>
        BY <2>3 DEF HeartbeatRead, HeartbeatCommit, Crash
      <3>2. worker'[w].pc \notin Serving /\ \A v \in Workers \ {w} : worker'[v] = worker[v]
        BY <1>0, <2>3, AtType DEF HeartbeatRead, HeartbeatCommit, Crash, TypeOK, Process,
                                  Serving, PC
      <3>3. QED
        BY <1>0, <3>1, <3>2, QuietStep DEF Keeps
    <2>4. QED
      BY <1>3, <2>1, <2>2, <2>3 DEF WorkerNext
  <1>4. CASE OperatorNext
    <2>1. ASSUME NEW j \in Jobs, NEW r \in DOMAIN Resolutions, Resolve(j, r) PROVE SendInv'
      BY <1>0, <2>1, ResolveSend
    <2>2. ASSUME UNCHANGED <<attempt, worker>>, \A j \in Jobs : job'[j].tries = job[j].tries
          PROVE  SendInv'
      BY <1>0, <1>1, <2>2, QuietStep
    <2>3. ASSUME NEW a \in Admins,
                 ApproveFailover(a) \/ \E s \in Sites : RequestFailover(a, s)
          PROVE  SendInv'
      BY <2>2, <2>3 DEF ApproveFailover, RequestFailover
    <2>4. CASE CancelFailover
      BY <2>2, <2>4 DEF CancelFailover
    <2>5. ASSUME NEW j \in Jobs, CancelRead(j) \/ CancelCommit(j) \/ RetryJob(j)
          PROVE  SendInv'
      <3>1. \A k \in Jobs : job'[k].tries = job[k].tries
        <4>1. \A t \in {"RETRY", "CANCELLED"} : Write(job[j], t, "none").tries = job[j].tries
          BY <1>0, WriteKeepsRow DEF TypeOK, JobStatus
        <4>2. CASE UNCHANGED job
          BY <4>2
        <4>3. ASSUME NEW t \in {"RETRY", "CANCELLED"},
                     job' = [job EXCEPT ![j] = Write(@, t, "none")]
              PROVE  \A k \in Jobs : job'[k].tries = job[k].tries
          BY <1>0, <4>1, <4>3 DEF TypeOK
        <4>4. QED
          BY <2>5, <4>2, <4>3 DEF CancelRead, CancelCommit, RetryJob
      <3>2. QED
        BY <2>2, <2>5, <3>1 DEF CancelRead, CancelCommit, RetryJob
    <2>6. CASE PauseConnection \/ ResumeConnection
      <3>1. \A k \in Jobs : job'[k].tries = job[k].tries
        <4>1. \A k \in Jobs : Write(job[k], "RETRY", "none").tries = job[k].tries
          BY <1>0, WriteKeepsRow DEF TypeOK, JobStatus
        <4>2. CASE PauseConnection
          BY <4>2 DEF PauseConnection
        <4>3. CASE ResumeConnection
          BY <4>1, <4>3 DEF ResumeConnection
        <4>4. QED
          BY <2>6, <4>2, <4>3
      <3>2. QED
        BY <2>2, <2>6, <3>1 DEF PauseConnection, ResumeConnection
    <2>7. QED
      BY <1>4, <2>1, <2>3, <2>4, <2>5, <2>6 DEF OperatorNext
  <1>5. CASE ClockNext
    <2>1. ASSUME NEW W \in SUBSET Workers, worker' = SeenExpired(W)
          PROVE  \A w \in Workers : Keeps(w)
      <3>1. ASSUME NEW w \in Workers
            PROVE  /\ worker'[w].pc = worker[w].pc
                   /\ worker'[w].job = worker[w].job
                   /\ worker'[w].try = worker[w].try
        BY <1>0, <2>1 DEF SeenExpired, TypeOK, Process
      <3>2. QED
        BY <3>1 DEF Keeps
    <2>2. CASE LeaseExpires
      BY <1>0, <2>1, <2>2, QuietStep DEF LeaseExpires
    <2>3. ASSUME NEW w \in Workers, SeenLeaseExpires(w) PROVE SendInv'
      BY <1>0, <2>1, <2>3, QuietStep DEF SeenLeaseExpires
    <2>4. ASSUME NEW j \in Jobs, JobLockAges(j) PROVE SendInv'
      <3>1. \A k \in Jobs : job'[k].tries = job[k].tries
        BY <1>0, <2>4 DEF JobLockAges, TypeOK, JobRow
      <3>2. QED
        BY <1>0, <2>1, <2>4, <3>1, QuietStep DEF JobLockAges
    <2>5. QED
      BY <1>5, <2>2, <2>3, <2>4 DEF ClockNext
  <1>6. QED
    BY <1>2, <1>3, <1>4, <1>5 DEF Next

\* The invariant of delivery_stall, for any number of workers and jobs: what keeps a
\* message from being sent again holds through crashes, takeovers, stale recovery of a
\* live worker's job and every operator call.
THEOREM SendInvariant == Spec => []SendInv
  BY InitSend, StepSend, PTL DEF Spec

\* An attempt that is absent, prepared, abandoned or reconciled as not sent, so
\* that its job may be sent again, was never accepted by Telegram: for any
\* number of workers and jobs, with crashes, takeovers and stalled workers.
THEOREM RequeuedNeverSent == Spec => []RequeuedWasNotSent
  <1>1. SendInv => RequeuedWasNotSent
    BY DEF SendInv
  <1>2. QED
    BY <1>1, InitSend, StepSend, PTL DEF Spec

-----------------------------------------------------------------------------
(***************************************************************************)
(* A fencing epoch names one worker.  Epochs only grow; a worker gets the  *)
(* current epoch only by taking the lease; and the lease changes its       *)
(* holder without a new epoch only if nobody held it, when nobody can have *)
(* used the epoch.                                                         *)
(***************************************************************************)
\* The attempt row was there before, with the same worker and epoch, or it is
\* the row a serving worker has just prepared.
RowKeeps(j, n) ==
    attempt'[j][n].status # "absent" =>
        \/ /\ attempt[j][n].status # "absent"
           /\ attempt'[j][n].worker = attempt[j][n].worker
           /\ attempt'[j][n].epoch = attempt[j][n].epoch
        \/ \E v \in Workers :
              /\ worker[v].pc \in Serving
              /\ attempt'[j][n].worker = v
              /\ attempt'[j][n].epoch = worker[v].seen.epoch

\* The worker serves under the epoch it served under before.
EpochKeeps(v) ==
    worker'[v].pc \in Serving =>
        worker[v].pc \in Serving /\ worker'[v].seen.epoch = worker[v].seen.epoch

\* The lease moves on, or keeps its holder if it has one.
LeaseKeeps ==
    /\ lease'.epoch >= lease.epoch
    /\ lease'.epoch = lease.epoch /\ lease.holder # None => lease'.holder = lease.holder

IsEpochOf(w, e) ==
    \/ \E j \in Jobs : \E n \in Tries :
          /\ attempt[j][n].status # "absent"
          /\ attempt[j][n].worker = w
          /\ attempt[j][n].epoch = e
    \/ worker[w].pc \in Serving /\ worker[w].seen.epoch = e

LEMMA EpochsOfElements == \A w \in Workers : \A e : e \in EpochsOf(w) <=> IsEpochOf(w, e)
  <1> SUFFICES ASSUME NEW w \in Workers, NEW e
               PROVE  e \in EpochsOf(w) <=> IsEpochOf(w, e)
    OBVIOUS
  <1>1. e \in {attempt[p[1]][p[2]].epoch : p \in AttemptsOf(w)} <=>
          \E j \in Jobs : \E n \in Tries :
             /\ attempt[j][n].status # "absent"
             /\ attempt[j][n].worker = w
             /\ attempt[j][n].epoch = e
    <2>1. ASSUME NEW j \in Jobs, NEW n \in Tries, attempt[j][n].status # "absent",
                 attempt[j][n].worker = w, attempt[j][n].epoch = e
          PROVE  e \in {attempt[p[1]][p[2]].epoch : p \in AttemptsOf(w)}
      <3>1. <<j, n>> \in AttemptsOf(w)
        BY <2>1 DEF AttemptsOf
      <3>2. QED
        BY <2>1, <3>1
    <2>2. QED
      BY <2>1 DEF AttemptsOf
  <1>2. QED
    BY <1>1 DEF EpochsOf, IsEpochOf

LEMMA EpochsOfElementsNext ==
    (\A w \in Workers : \A e : e \in EpochsOf(w) <=> IsEpochOf(w, e))'
  BY EpochsOfElements, PTL

\* Worker b, if any, is the one that has just taken or renewed the lease.
LEMMA EpochStep ==
    ASSUME EpochInv, TypeInv', NEW b,
           \A j \in Jobs : \A n \in Tries : RowKeeps(j, n),
           \A v \in Workers \ {b} : EpochKeeps(v), RowsWritten',
           b \in Workers => worker'[b].seen.epoch = lease'.epoch /\ lease'.holder = b,
           LeaseKeeps
    PROVE  EpochInv'
  <1>1. \A j \in Jobs : \A n \in Tries :
            attempt'[j][n].status # "absent" => attempt'[j][n].worker \in Workers
    BY DEF EpochInv, RowKeeps
  <1>2. ASSUME NEW v \in Workers, NEW e \in EpochsOf(v)'
        PROVE  e \in EpochsOf(v) \/ (v = b /\ e = lease'.epoch)
    <2>1. IsEpochOf(v, e)'
      BY EpochsOfElementsNext
    <2>2. CASE \E j \in Jobs : \E n \in Tries :
                  /\ attempt'[j][n].status # "absent"
                  /\ attempt'[j][n].worker = v
                  /\ attempt'[j][n].epoch = e
      BY <2>2, EpochsOfElements DEF RowKeeps, IsEpochOf
    <2>3. CASE worker'[v].pc \in Serving /\ worker'[v].seen.epoch = e
      BY <2>3, EpochsOfElements DEF EpochKeeps, IsEpochOf
    <2>4. QED
      BY <2>1, <2>2, <2>3 DEF IsEpochOf
  <1>3. /\ lease.epoch \in Nat /\ lease'.epoch \in Nat
        /\ \A v \in Workers : EpochsOf(v) \subseteq Nat
    <2>1. \A j \in Jobs : \A n \in Tries : attempt[j][n].epoch \in Nat
      BY DEF EpochInv, TypeInv, TypeOK, AttemptRow
    <2>2. \A v \in Workers : worker[v].seen.epoch \in Nat
      BY DEF EpochInv, TypeInv, TypeOK, Process, LeaseType
    <2>3. \A v \in Workers : EpochsOf(v) \subseteq Nat
      BY <2>1, <2>2, EpochsOfElements DEF IsEpochOf
    <2>4. lease.epoch \in Nat /\ lease'.epoch \in Nat
      BY DEF EpochInv, TypeInv, TypeOK, LeaseType
    <2>5. QED
      BY <2>3, <2>4
  <1>4. ASSUME NEW v \in Workers, NEW e \in EpochsOf(v)'
        PROVE  e <= lease'.epoch /\ (e = lease'.epoch => lease'.holder = v)
    <2>1. CASE e \in EpochsOf(v)
      <3>1. e \in Nat /\ e <= lease.epoch /\ (e = lease.epoch => lease.holder = v)
        BY <1>3, <2>1 DEF EpochInv
      <3>2. v # None
        BY LeaseAssumption
      <3>3. QED
        BY <1>3, <3>1, <3>2 DEF LeaseKeeps
    <2>2. CASE v = b /\ e = lease'.epoch
      BY <1>3, <2>2
    <2>3. QED
      BY <1>2, <2>1, <2>2
  <1>5. ASSUME NEW v \in Workers, NEW w \in Workers, NEW e \in EpochsOf(v)', e \in EpochsOf(w)'
        PROVE  v = w
    <2>1. CASE e = lease'.epoch
      BY <1>4, <1>5, <2>1
    <2>2. CASE e # lease'.epoch
      <3>1. e \in EpochsOf(v) /\ e \in EpochsOf(w)
        BY <1>2, <1>5, <2>2
      <3>2. QED
        BY <3>1 DEF EpochInv
    <2>3. QED
      BY <2>1, <2>2
  <1>6. QED
    BY <1>1, <1>4, <1>5 DEF EpochInv

LEMMA InitEpoch == Init => EpochInv
  <1> SUFFICES ASSUME Init PROVE EpochInv
    OBVIOUS
  <1>1. \A j \in Jobs : \A n \in Tries : attempt[j][n].status = "absent"
    BY DEF Init, NoAttempt
  <1>2. \A w \in Workers : worker[w].pc \notin Serving
    BY DEF Init, At, Serving
  <1>3. \A w \in Workers : \A e : e \notin EpochsOf(w)
    BY <1>1, <1>2, EpochsOfElements DEF IsEpochOf
  <1>4. QED
    BY <1>1, <1>2, <1>3, InitTypes DEF EpochInv, RowsWritten

-----------------------------------------------------------------------------
LEMMA UnchangedAttempts ==
    ASSUME UNCHANGED attempt
    PROVE  \A j \in Jobs : \A n \in Tries : RowKeeps(j, n)
  BY DEF RowKeeps

LEMMA UnchangedWorkers ==
    ASSUME UNCHANGED worker
    PROVE  \A v \in Workers : EpochKeeps(v)
  BY DEF EpochKeeps

\* What the operations on the lease do to its epoch and its holder.
LEMMA LeaseMoves ==
    ASSUME NEW l \in LeaseType
    PROVE  /\ \A w \in Workers : /\ Claimed(l, w).holder = w
                                 /\ Claimed(l, w).epoch >= l.epoch
                                 /\ Claimed(l, w).epoch = l.epoch /\ l.holder # None => l.holder = w
           /\ \A s \in Sites : HandedTo(l, s).epoch > l.epoch
           /\ \A h, e : Retired(l, h, e) = l \/ Retired(l, h, e).epoch > l.epoch
           /\ Renewed(l).epoch = l.epoch /\ Renewed(l).holder = l.holder
           /\ Expired(l).epoch = l.epoch /\ Expired(l).holder = l.holder
           /\ Draining(l).epoch = l.epoch /\ Draining(l).holder = l.holder
           /\ Undrained(l).epoch = l.epoch /\ Undrained(l).holder = l.holder
  <1> DEFINE raised == l.epoch + 1
  <1>0. l.epoch \in Nat /\ raised > l.epoch /\ raised >= l.epoch /\ l.epoch >= l.epoch
    BY DEF LeaseType
  <1>1. ASSUME NEW w \in Workers
        PROVE  /\ Claimed(l, w).holder = w
               /\ Claimed(l, w).epoch = IF ClaimRaisesEpoch(l, w) THEN raised ELSE l.epoch
    BY DEF Claimed, LeaseType
  <1>2. ASSUME NEW w \in Workers
        PROVE  /\ Claimed(l, w).epoch >= l.epoch
               /\ Claimed(l, w).epoch = l.epoch /\ l.holder # None => l.holder = w
    BY <1>0, <1>1 DEF ClaimRaisesEpoch
  <1>3. ASSUME NEW s \in Sites PROVE HandedTo(l, s).epoch = raised
    BY DEF HandedTo, LeaseType
  <1>4. ASSUME NEW h, NEW e PROVE Retired(l, h, e) = l \/ Retired(l, h, e).epoch = raised
    BY DEF Retired, LeaseType
  <1>5. /\ Renewed(l).epoch = l.epoch /\ Renewed(l).holder = l.holder
        /\ Expired(l).epoch = l.epoch /\ Expired(l).holder = l.holder
        /\ Draining(l).epoch = l.epoch /\ Draining(l).holder = l.holder
        /\ Undrained(l).epoch = l.epoch /\ Undrained(l).holder = l.holder
    BY DEF Renewed, Expired, Draining, Undrained, LeaseType
  <1>6. QED
    BY <1>0, <1>1, <1>2, <1>3, <1>4, <1>5

\* A step in which no worker takes the lease.
LEMMA QuietEpoch ==
    ASSUME EpochInv, TypeInv',
           \A j \in Jobs : \A n \in Tries : RowKeeps(j, n),
           \A v \in Workers : EpochKeeps(v), RowsWritten',
           \/ lease' = lease
           \/ lease'.epoch = lease.epoch /\ lease'.holder = lease.holder
           \/ lease'.epoch > lease.epoch
    PROVE  EpochInv'
  <1>1. lease.epoch \in Nat /\ lease'.epoch \in Nat
    BY DEF EpochInv, TypeInv, TypeOK, LeaseType
  <1>2. LeaseKeeps
    BY <1>1 DEF LeaseKeeps
  <1>3. None \notin Workers
    BY LeaseAssumption
  <1>4. QED
    BY <1>2, <1>3, EpochStep

\* A serving worker that writes its own row, already there or just prepared.
LEMMA OwnRow ==
    ASSUME TypeInv, NEW w \in Workers, worker[w].pc \in Serving,
           \A k \in Jobs : \A m \in Tries :
               k # worker[w].job \/ m # worker[w].try => attempt'[k][m] = attempt[k][m],
           LET a == attempt[worker[w].job][worker[w].try]
               b == attempt'[worker[w].job][worker[w].try]
           IN  \/ a.status # "absent" /\ b.worker = a.worker /\ b.epoch = a.epoch
               \/ b.worker = w /\ b.epoch = worker[w].seen.epoch
    PROVE  \A j \in Jobs : \A n \in Tries : RowKeeps(j, n)
  BY DEF RowKeeps

\* Attempt rows are never deleted.
RowStays(j, n) == attempt[j][n].status # "absent" => attempt'[j][n].status # "absent"

\* Past Prepare, a worker stays with its attempt or lets go of it.
RowServed(v) ==
    worker'[v].pc \in Serving \ {"claimed"} =>
        /\ worker[v].pc \in Serving \ {"claimed"}
        /\ worker'[v].job = worker[v].job
        /\ worker'[v].try = worker[v].try

LEMMA StepWritten ==
    ASSUME EpochInv, TypeInv',
           \A j \in Jobs : \A n \in Tries : RowStays(j, n),
           \A v \in Workers : RowServed(v)
    PROVE  RowsWritten'
  BY DEF EpochInv, TypeInv, WorkersServe, RowsWritten, RowStays, RowServed

\* Between Prepare and the result the worker's attempt row is there.
LEMMA SettleEpoch ==
    ASSUME EpochInv, TypeInv', NEW w \in Workers, worker[w].pc \in Serving \ {"claimed"},
           NEW a, a # "absent", NEW s, NEW c, Settle(w, a, s, c), UNCHANGED lease
    PROVE  EpochInv'
  <1> DEFINE j == worker[w].job
             n == worker[w].try
  <1>0. TypeInv /\ TypeOK /\ j \in Jobs /\ n \in Tries
    BY DEF EpochInv, TypeInv, WorkersServe
  <1>1. /\ attempt'[j][n].status = a
        /\ attempt'[j][n].worker = attempt[j][n].worker
        /\ attempt'[j][n].epoch = attempt[j][n].epoch
        /\ \A k \in Jobs : \A m \in Tries :
               k # j \/ m # n => attempt'[k][m] = attempt[k][m]
    BY <1>0 DEF Settle, TypeOK, AttemptRow
  <1>2. attempt[j][n].status # "absent"
    BY SMTT(40) DEF EpochInv, RowsWritten
  <1>3. \A k \in Jobs : \A m \in Tries : RowKeeps(k, m) /\ RowStays(k, m)
    BY <1>1, <1>2, OwnRow DEF RowKeeps, RowStays
  <1>4. \A v \in Workers : EpochKeeps(v) /\ RowServed(v)
    BY <1>0, AtType DEF Settle, EpochKeeps, RowServed, TypeOK, Serving, PC
  <1>5. QED
    BY <1>3, <1>4, QuietEpoch, StepWritten

LEMMA BeginEpoch ==
    ASSUME EpochInv, TypeInv', NEW w \in Workers, NEW j \in Jobs, Begin(w, j)
    PROVE  EpochInv'
  <1>0. TypeInv /\ TypeOK
    BY DEF EpochInv, TypeInv
  <1>1. /\ worker'[w].pc = "claimed" /\ worker'[w].seen = lease'
        /\ \A v \in Workers \ {w} : worker'[v] = worker[v]
        /\ UNCHANGED attempt
        /\ lease' = Claimed(lease, w)
    BY <1>0 DEF Begin, Claim, TypeOK, Process
  <1>2. lease'.holder = w /\ LeaseKeeps
    BY <1>0, <1>1, LeaseMoves DEF LeaseKeeps, TypeOK
  <1>3. /\ \A k \in Jobs : \A m \in Tries : RowKeeps(k, m) /\ RowStays(k, m)
        /\ \A v \in Workers \ {w} : EpochKeeps(v)
        /\ \A v \in Workers : RowServed(v)
    BY <1>1 DEF RowKeeps, RowStays, EpochKeeps, RowServed
  <1>4. RowsWritten'
    BY <1>3, StepWritten
  <1>5. QED
    BY <1>1, <1>2, <1>3, <1>4, EpochStep

\* Withhold takes the lease without serving under it.
LEMMA WithholdEpoch ==
    ASSUME EpochInv, TypeInv', NEW w \in Workers, NEW j \in Jobs, Withhold(w, j)
    PROVE  EpochInv'
  <1>0. TypeInv /\ TypeOK
    BY DEF EpochInv, TypeInv
  <1>1. UNCHANGED <<attempt, worker>> /\ lease' = Claimed(lease, w)
    BY DEF Withhold, Claim
  <1>2. LeaseKeeps
    BY <1>0, <1>1, LeaseMoves DEF LeaseKeeps, TypeOK
  <1>3. /\ \A k \in Jobs : \A m \in Tries : RowKeeps(k, m) /\ RowStays(k, m)
        /\ \A v \in Workers : EpochKeeps(v) /\ RowServed(v)
    BY <1>1 DEF RowKeeps, RowStays, EpochKeeps, RowServed
  <1>4. RowsWritten'
    BY <1>3, StepWritten
  <1>5. None \notin Workers
    BY LeaseAssumption
  <1>6. QED
    BY <1>2, <1>3, <1>4, <1>5, EpochStep

LEMMA ProcessEpoch ==
    ASSUME EpochInv, TypeInv', NEW w \in Workers, ProcessNext(w)
    PROVE  EpochInv'
  <1> DEFINE j == worker[w].job
             n == worker[w].try
  <1>0. TypeInv /\ TypeOK
    BY DEF EpochInv, TypeInv
  <1>1. /\ worker[w].pc \in Serving => j \in Jobs /\ n \in Tries /\ attempt[j][n] \in AttemptRow
        /\ {"claimed", "prepared", "fenced", "started", "called"} = Serving
        /\ worker[w] \in Process
    BY <1>0 DEF TypeInv, TypeOK, WorkersServe, Serving
  <1>2. ASSUME NEW pc \in PC, worker' = [worker EXCEPT ![w].pc = pc],
               worker[w].pc \in Serving
        PROVE  /\ worker'[w].pc = pc /\ worker'[w].job = j /\ worker'[w].try = n
               /\ \A v \in Workers \ {w} : worker'[v] = worker[v]
               /\ \A v \in Workers : EpochKeeps(v)
    BY <1>0, <1>1, <1>2 DEF TypeOK, Process, EpochKeeps
  <1>3. CASE Prepare(w)
    <2>1. /\ attempt'[j][n].status = "PREPARED"
          /\ attempt'[j][n].worker = w
          /\ attempt'[j][n].epoch = worker[w].seen.epoch
          /\ \A k \in Jobs : \A m \in Tries :
                 k # j \/ m # n => attempt'[k][m] = attempt[k][m]
          /\ worker[w].pc \in Serving
      BY <1>0, <1>1, <1>3 DEF Prepare, TypeOK
    <2>2. /\ worker'[w].pc = "prepared" /\ worker'[w].job = j /\ worker'[w].try = n
          /\ \A v \in Workers \ {w} : worker'[v] = worker[v]
          /\ \A v \in Workers : EpochKeeps(v)
          /\ UNCHANGED lease
      BY SMTT(40), <1>2, <1>3, <2>1 DEF Prepare, PC, Serving
    <2>3. \A k \in Jobs : \A m \in Tries : RowKeeps(k, m) /\ RowStays(k, m)
      BY <1>0, <1>1, <2>1, OwnRow DEF RowStays
    <2>4. RowsWritten'
      <3>1. ASSUME NEW v \in Workers, v # w, worker[v].pc \in Serving \ {"claimed"}
            PROVE  attempt'[worker[v].job][worker[v].try].status # "absent"
        BY <1>0, <2>3, <3>1 DEF EpochInv, RowsWritten, RowStays, TypeInv, WorkersServe
      <3>2. QED
        BY <2>1, <2>2, <3>1 DEF RowsWritten
    <2>5. QED
      BY <2>2, <2>3, <2>4, QuietEpoch
  <1>4. ASSUME NEW pc \in {"fenced", "started", "called"},
               worker' = [worker EXCEPT ![w].pc = pc], worker[w].pc \in Serving \ {"claimed"},
               \A k \in Jobs : \A m \in Tries : RowKeeps(k, m) /\ RowStays(k, m),
               UNCHANGED lease
        PROVE  EpochInv'
    <2>1. \A v \in Workers : EpochKeeps(v) /\ RowServed(v)
      BY <1>2, <1>4 DEF PC, Serving, RowServed
    <2>2. QED
      BY <1>4, <2>1, QuietEpoch, StepWritten
  <1>5. CASE EnterFence(w)
    <2>1. \A k \in Jobs : \A m \in Tries : RowKeeps(k, m) /\ RowStays(k, m)
      BY <1>5 DEF EnterFence, RowKeeps, RowStays
    <2>2. QED
      BY <1>4, <1>5, <2>1 DEF EnterFence, Serving
  <1>6. CASE MarkStarted(w)
    <2>1. \A k \in Jobs : \A m \in Tries : RowKeeps(k, m) /\ RowStays(k, m)
      BY <1>0, <1>1, <1>6 DEF MarkStarted, RowKeeps, RowStays, TypeOK, AttemptRow
    <2>2. QED
      BY SMTT(40), <1>4, <1>6, <2>1 DEF MarkStarted, Serving
  <1>7. CASE CallTelegram(w)
    <2>1. PICK taken \in BOOLEAN : attempt' = [attempt EXCEPT ![j][n].accepted = taken]
      BY <1>7 DEF CallTelegram
    <2>2. \A k \in Jobs : \A m \in Tries : RowKeeps(k, m) /\ RowStays(k, m)
      BY <1>0, <1>1, <1>7, <2>1 DEF CallTelegram, RowKeeps, RowStays, TypeOK, AttemptRow
    <2>3. QED
      BY SMTT(40), <1>4, <1>7, <2>2 DEF CallTelegram, Serving
  <1>8. CASE \/ CapacityRefused(w) \/ FenceLost(w) \/ FailBeforeCall(w) \/ MarkRefused(w)
             \/ Succeed(w) \/ Refused(w) \/ Ambiguous(w) \/ Transient(w)
    <2>1. /\ worker[w].pc \in Serving \ {"claimed"}
          /\ \E a \in {"SENT", "FAILED", "UNCERTAIN", "ABANDONED"} : \E s, c : Settle(w, a, s, c)
          /\ UNCHANGED lease
      BY <1>1, <1>8 DEF CapacityRefused, FenceLost, FailBeforeCall, MarkRefused,
                        Succeed, Refused, Ambiguous, Transient
    <2>2. QED
      BY <2>1, SettleEpoch
  <1>9. QED
    BY <1>3, <1>5, <1>6, <1>7, <1>8, BeginEpoch, WithholdEpoch DEF ProcessNext

LEMMA StepEpoch == EpochInv /\ [Next]_vars => EpochInv'
  <1> SUFFICES ASSUME EpochInv, [Next]_vars PROVE EpochInv'
    OBVIOUS
  <1>0. TypeInv /\ TypeOK /\ TypeInv'
    BY StepTypes DEF EpochInv, TypeInv
  \* Steps that leave the attempts alone and start no work.
  <1>1. ASSUME UNCHANGED attempt, \A v \in Workers : EpochKeeps(v) /\ RowServed(v),
               \/ lease' = lease
               \/ lease'.epoch = lease.epoch /\ lease'.holder = lease.holder
               \/ lease'.epoch > lease.epoch
        PROVE  EpochInv'
    <2>1. \A k \in Jobs : \A m \in Tries : RowKeeps(k, m) /\ RowStays(k, m)
      BY <1>1 DEF RowKeeps, RowStays
    <2>2. QED
      BY <1>0, <1>1, <2>1, QuietEpoch, StepWritten
  <1>2. UNCHANGED worker => \A v \in Workers : EpochKeeps(v) /\ RowServed(v)
    BY DEF EpochKeeps, RowServed
  <1>3. CASE UNCHANGED vars
    BY <1>1, <1>2, <1>3 DEF vars
  <1>4. ASSUME NEW w \in Workers, WorkerNext(w) \/ Crash(w) PROVE EpochInv'
    <2>1. CASE Start(w)
      <3>1. \A v \in Workers : EpochKeeps(v) /\ RowServed(v)
        BY <1>0, <2>1, AtType DEF Start, EpochKeeps, RowServed, TypeOK, Serving, PC
      <3>2. ASSUME NEW k \in Jobs, NEW m \in Tries PROVE RowKeeps(k, m) /\ RowStays(k, m)
        <4>1. attempt[k][m] \in AttemptRow /\ attempt'[k][m] = RecoveredAttempt(k, m)
          BY <1>0, <2>1 DEF Start, TypeOK
        <4>2. /\ attempt'[k][m].worker = attempt[k][m].worker
              /\ attempt'[k][m].epoch = attempt[k][m].epoch
              /\ attempt'[k][m].status = "absent" <=> attempt[k][m].status = "absent"
          BY <4>1 DEF RecoveredAttempt, AttemptRow
        <4>3. QED
          BY <4>2 DEF RowKeeps, RowStays
      <3>3. UNCHANGED lease
        BY <2>1 DEF Start
      <3>4. QED
        BY <1>0, <3>1, <3>2, <3>3, QuietEpoch, StepWritten
    <2>2. CASE ProcessNext(w)
      BY <1>0, <2>2, ProcessEpoch
    <2>3. CASE HeartbeatRead(w) \/ HeartbeatCommit(w) \/ Crash(w)
      <3>1. /\ UNCHANGED attempt
            /\ lease' = lease \/ lease' = Renewed(lease)
        BY <2>3 DEF HeartbeatRead, HeartbeatCommit, Crash
      <3>2. worker'[w].pc \notin Serving /\ \A v \in Workers \ {w} : worker'[v] = worker[v]
        BY <1>0, <2>3, AtType DEF HeartbeatRead, HeartbeatCommit, Crash, TypeOK, Process,
                                  Serving, PC
      <3>3. \A v \in Workers : EpochKeeps(v) /\ RowServed(v)
        BY <3>2 DEF EpochKeeps, RowServed
      <3>4. QED
        BY <1>0, <1>1, <3>1, <3>3, LeaseMoves DEF TypeOK
    <2>4. QED
      BY <1>4, <2>1, <2>2, <2>3 DEF WorkerNext
  <1>5. CASE OperatorNext
    <2>1. ASSUME NEW j \in Jobs, NEW r \in DOMAIN Resolutions, Resolve(j, r) PROVE EpochInv'
      <3>1. UNCHANGED worker
        BY <2>1 DEF Resolve
      <3>2. CASE UNCHANGED <<lease, attempt>>
        BY <1>1, <1>2, <3>1, <3>2
      <3>3. ASSUME NEW n \in Tries, ToReconcile(j, n),
                   lease' = Retired(lease, attempt[j][n].worker, attempt[j][n].epoch),
                   attempt' = [attempt EXCEPT ![j][n].status = Resolutions[r].attempt]
            PROVE  EpochInv'
        <4>1. Resolutions[r].attempt # "absent" /\ attempt[j][n].status # "absent"
          BY <3>3 DEF Resolutions, ToReconcile, Unresolved
        <4>2. \A k \in Jobs : \A m \in Tries : RowKeeps(k, m) /\ RowStays(k, m)
          BY <1>0, <3>3, <4>1 DEF RowKeeps, RowStays, TypeOK, AttemptRow
        <4>3. lease' = lease \/ lease'.epoch > lease.epoch
          BY <1>0, <3>3, LeaseMoves DEF TypeOK
        <4>4. \A v \in Workers : EpochKeeps(v) /\ RowServed(v)
          BY <1>2, <3>1
        <4>5. RowsWritten'
          BY <1>0, <4>2, <4>4, StepWritten
        <4>6. QED
          BY <1>0, <4>2, <4>3, <4>4, <4>5, QuietEpoch
      <3>4. QED
        BY <2>1, <3>2, <3>3 DEF Resolve
    <2>2. ASSUME NEW a \in Admins, ApproveFailover(a) PROVE EpochInv'
      <3>1. failover.target \in Sites /\ lease \in LeaseType
        BY <1>0 DEF TypeOK, FailoverRow
      <3>2. QED
        BY <1>1, <1>2, <2>2, <3>1, LeaseMoves DEF ApproveFailover
    <2>3. ASSUME NEW a \in Admins, NEW s \in Sites, RequestFailover(a, s) PROVE EpochInv'
      BY <1>0, <1>1, <1>2, <2>3, LeaseMoves DEF RequestFailover, TypeOK
    <2>4. CASE CancelFailover
      <3>1. lease' = lease \/ lease' = Undrained(lease)
        BY <2>4 DEF CancelFailover
      <3>2. QED
        BY <1>0, <1>1, <1>2, <2>4, <3>1, LeaseMoves DEF CancelFailover, TypeOK
    <2>5. ASSUME NEW j \in Jobs, CancelRead(j) \/ CancelCommit(j) \/ RetryJob(j)
          PROVE  EpochInv'
      BY <1>1, <1>2, <2>5 DEF CancelRead, CancelCommit, RetryJob
    <2>6. CASE PauseConnection \/ ResumeConnection
      BY <1>1, <1>2, <2>6 DEF PauseConnection, ResumeConnection
    <2>7. QED
      BY <1>5, <2>1, <2>2, <2>3, <2>4, <2>5, <2>6 DEF OperatorNext
  <1>6. CASE ClockNext
    <2>1. ASSUME NEW W \in SUBSET Workers, worker' = SeenExpired(W)
          PROVE  \A v \in Workers : EpochKeeps(v) /\ RowServed(v)
      <3>1. ASSUME NEW v \in Workers
            PROVE  /\ worker'[v].pc = worker[v].pc
                   /\ worker'[v].job = worker[v].job
                   /\ worker'[v].try = worker[v].try
                   /\ worker'[v].seen.epoch = worker[v].seen.epoch
        BY <1>0, <2>1 DEF SeenExpired, TypeOK, Process, LeaseType
      <3>2. QED
        BY <3>1 DEF EpochKeeps, RowServed
    <2>2. CASE LeaseExpires
      <3>1. UNCHANGED attempt /\ lease' = Expired(lease) /\ worker' = SeenExpired(Workers)
        BY <2>2 DEF LeaseExpires
      <3>2. QED
        BY <1>0, <1>1, <2>1, <3>1, LeaseMoves DEF TypeOK
    <2>3. ASSUME NEW w \in Workers, SeenLeaseExpires(w) PROVE EpochInv'
      BY <1>1, <2>1, <2>3 DEF SeenLeaseExpires
    <2>4. ASSUME NEW j \in Jobs, JobLockAges(j) PROVE EpochInv'
      BY <1>1, <2>1, <2>4 DEF JobLockAges
    <2>5. QED
      BY <1>6, <2>2, <2>3, <2>4 DEF ClockNext
  <1>7. QED
    BY <1>3, <1>4, <1>5, <1>6 DEF Next

\* What ties the epochs of attempts and fences to the lease that gave them, for any
\* number of workers, sites and jobs.
THEOREM EpochInvariant == Spec => []EpochInv
  BY InitEpoch, StepEpoch, PTL DEF Spec

\* No two worker ids ever run attempts under the same fencing epoch, whatever
\* leases expired, were handed over or were retired by a reconciliation.
THEOREM EpochHasOneWorker == Spec => []EpochNamesOneWorker
  <1>1. EpochInv => EpochNamesOneWorker
    <2>1. ASSUME EpochInv, NEW j \in Jobs, NEW k \in Jobs, NEW m \in Tries, NEW n \in Tries,
                 attempt[j][m].status # "absent", attempt[k][n].status # "absent",
                 attempt[j][m].epoch = attempt[k][n].epoch
          PROVE  attempt[j][m].worker = attempt[k][n].worker
      <3> DEFINE v == attempt[j][m].worker
                 w == attempt[k][n].worker
      <3>1. v \in Workers /\ w \in Workers
        BY <2>1 DEF EpochInv
      <3>2. attempt[j][m].epoch \in EpochsOf(v) /\ attempt[j][m].epoch \in EpochsOf(w)
        BY <2>1, <3>1, EpochsOfElements DEF IsEpochOf
      <3>3. QED
        BY <2>1, <3>1, <3>2 DEF EpochInv
    <2>2. QED
      BY <2>1 DEF EpochNamesOneWorker
  <1>2. QED
    BY <1>1, InitEpoch, StepEpoch, PTL DEF Spec

-----------------------------------------------------------------------------
(***************************************************************************)
(* While no worker stalls, a job in hand is its worker's alone (HandIsFirm, *)
(* OneHand), and an attempt that may have reached Telegram is the job's    *)
(* last, with a job status that keeps the job from being sent again        *)
(* (SealedIsLast).                                                         *)
(***************************************************************************)

\* Nobody serves the job, and no attempt of it may have reached Telegram.
Unserved(j) == \A w \in Workers : worker[w].pc \in Serving => worker[w].job # j
Unsealed(j) == \A n \in Tries : attempt[j][n].status \notin Sealed

\* What a step that serves no job may make of a job's row.
JobStays(j) ==
    /\ job'[j].tries = job[j].tries
    /\ \/ job'[j] = job[j]
       \/ job'[j].status = "CANCELLED" /\ ~job'[j].aged
       \/ Unserved(j) /\ Unsealed(j)
       \/ /\ Unserved(j)
          /\ job'[j].status = job[j].status
          /\ job'[j].code = job[j].code
          /\ job'[j].resolved = job[j].resolved

\* Worker w is, after the step, at the attempt it was at, or has let go of it.
HandStays(w) ==
    worker'[w].pc \in Serving =>
        /\ worker[w].pc \in Serving
        /\ worker'[w].job = worker[w].job
        /\ worker'[w].try = worker[w].try

LEMMA WriteFields ==
    ASSUME NEW r \in JobRow, NEW s \in JobStatus, NEW c \in {"none", "uncertain", "other"}
    PROVE  /\ Write(r, s, c).status = s
           /\ Write(r, s, c).code = c
           /\ Write(r, s, c).tries = r.tries
           /\ ~Write(r, s, c).aged
           /\ Write(r, s, c).resolved = r.resolved
  BY DEF Write, JobRow

\* A job that is due, failed, held for another reason than an uncertain result,
\* or skipped without a resolution, is nobody's and has nothing to hide.
LEMMA ReleasedJob ==
    ASSUME OutcomeInv, NEW j \in Jobs,
           \/ job[j].status \in {"PENDING", "RETRY", "FAILED"}
           \/ job[j].status = "WAITING_REVIEW" /\ job[j].code # "uncertain"
           \/ job[j].status = "SKIPPED" /\ ~job[j].resolved
    PROVE  Unserved(j) /\ Unsealed(j)
  <1>1. Unserved(j)
    BY DEF OutcomeInv, HandIsFirm, Unserved
  <1>2. Unsealed(j)
    BY DEF OutcomeInv, SealedIsLast, Seals, Unsealed
  <1>3. QED
    BY <1>1, <1>2

LEMMA QuietOutcome ==
    ASSUME OutcomeInv, SendInv', UNCHANGED attempt,
           \A j \in Jobs : JobStays(j), \A w \in Workers : HandStays(w)
    PROVE  OutcomeInv'
  <1>1. TypeInv /\ TypeInv'
    BY DEF OutcomeInv, SendInv
  <1>2. HandIsFirm'
    <2>1. ASSUME NEW w \in Workers, worker'[w].pc \in Serving
          PROVE  /\ job'[worker'[w].job].status \in {"PROCESSING", "CANCELLED"}
                 /\ ~job'[worker'[w].job].aged
                 /\ job'[worker'[w].job].tries = worker'[w].try
      <3> DEFINE j == worker[w].job
      <3>1. /\ worker[w].pc \in Serving /\ worker'[w].job = j /\ worker'[w].try = worker[w].try
            /\ j \in Jobs
        BY <1>1, <2>1 DEF HandStays, TypeInv, WorkersServe
      <3>2. /\ job[j].status \in {"PROCESSING", "CANCELLED"} /\ ~job[j].aged
            /\ job[j].tries = worker[w].try
        BY <3>1 DEF OutcomeInv, HandIsFirm
      <3>3. ~Unserved(j)
        BY <3>1 DEF Unserved
      <3>4. QED
        BY <3>1, <3>2, <3>3 DEF JobStays
    <2>2. QED
      BY <2>1 DEF HandIsFirm
  <1>3. OneHand'
    BY DEF OutcomeInv, OneHand, HandStays
  <1>4. SealedIsLast'
    <2>1. ASSUME NEW j \in Jobs, NEW n \in Tries, attempt[j][n].status \in Sealed
          PROVE  n = job'[j].tries /\ Seals(attempt[j][n].status, job'[j])
      <3>1. n = job[j].tries /\ Seals(attempt[j][n].status, job[j])
        BY <2>1 DEF OutcomeInv, SealedIsLast
      <3>2. ~Unsealed(j)
        BY <2>1 DEF Unsealed
      <3>3. QED
        BY <3>1, <3>2 DEF JobStays, Seals
    <2>2. QED
      BY <2>1 DEF SealedIsLast
  <1>5. QED
    BY <1>2, <1>3, <1>4 DEF OutcomeInv

\* A step of a serving worker that writes its own attempt and its own job.
LEMMA OwnOutcome ==
    ASSUME OutcomeInv, SendInv',
           NEW w \in Workers, NEW j \in Jobs, NEW n \in Tries,
           worker[w].pc \in Serving, worker[w].job = j, worker[w].try = n,
           \A v \in Workers \ {w} : worker'[v] = worker[v],
           worker'[w].pc \in Serving =>
               worker'[w].job = j /\ worker'[w].try = n /\ job'[j] = job[j],
           \A k \in Jobs \ {j} : job'[k] = job[k],
           job'[j].tries = job[j].tries,
           \A k \in Jobs : \A m \in Tries :
               k # j \/ m # n => attempt'[k][m] = attempt[k][m],
           attempt'[j][n].status \in Sealed => Seals(attempt'[j][n].status, job'[j])
    PROVE  OutcomeInv'
  <1>0. TypeInv /\ TypeInv'
    BY DEF OutcomeInv, SendInv
  <1>1. n = job[j].tries
    BY DEF OutcomeInv, HandIsFirm
  <1>2. ASSUME NEW v \in Workers, v # w, worker[v].pc \in Serving
        PROVE  worker[v].job \in Jobs \ {j}
    BY <1>0, <1>2 DEF OutcomeInv, OneHand, TypeInv, WorkersServe
  <1>3. HandIsFirm'
    <2>1. ASSUME NEW v \in Workers, worker'[v].pc \in Serving
          PROVE  /\ worker[v].pc \in Serving
                 /\ worker'[v].job = worker[v].job /\ worker'[v].try = worker[v].try
                 /\ job'[worker[v].job] = job[worker[v].job]
      BY <1>2, <2>1
    <2>2. QED
      BY <2>1 DEF OutcomeInv, HandIsFirm
  <1>4. OneHand'
    BY <1>2 DEF OutcomeInv, OneHand
  <1>5. SealedIsLast'
    <2>1. ASSUME NEW k \in Jobs, NEW m \in Tries, attempt'[k][m].status \in Sealed
          PROVE  m = job'[k].tries /\ Seals(attempt'[k][m].status, job'[k])
      <3>1. CASE k # j
        BY <2>1, <3>1 DEF OutcomeInv, SealedIsLast
      <3>2. CASE k = j /\ m = n
        BY <1>1, <2>1, <3>2
      <3>3. CASE k = j /\ m # n
        BY <1>1, <2>1, <3>3 DEF OutcomeInv, SealedIsLast
      <3>4. QED
        BY <3>1, <3>2, <3>3
    <2>2. QED
      BY <2>1 DEF SealedIsLast
  <1>6. QED
    BY <1>3, <1>4, <1>5 DEF OutcomeInv

LEMMA InitOutcome == Init => OutcomeInv
  <1> SUFFICES ASSUME Init PROVE OutcomeInv
    OBVIOUS
  <1>1. \A w \in Workers : worker[w].pc \notin Serving
    BY DEF Init, At, Serving
  <1>2. \A j \in Jobs : \A n \in Tries : attempt[j][n].status \notin Sealed
    BY DEF Init, NoAttempt, Sealed
  <1>3. QED
    BY <1>1, <1>2, InitSend DEF OutcomeInv, HandIsFirm, OneHand, SealedIsLast

-----------------------------------------------------------------------------
LEMMA SettleOutcome ==
    ASSUME OutcomeInv, SendInv', NEW w \in Workers, worker[w].pc \in Serving,
           NEW a \in {"SENT", "FAILED", "UNCERTAIN", "ABANDONED"},
           NEW s \in JobStatus, NEW c \in {"none", "uncertain", "other"},
           a = "SENT" => s = "SENT",
           a = "UNCERTAIN" => s = "WAITING_REVIEW" /\ c = "uncertain",
           Settle(w, a, s, c)
    PROVE  OutcomeInv'
  <1> DEFINE j == worker[w].job
             n == worker[w].try
  <1>1. j \in Jobs /\ n \in Tries /\ TypeOK
    BY DEF OutcomeInv, SendInv, TypeInv, WorkersServe
  <1>2. /\ worker' = [worker EXCEPT ![w] = At("idle")]
        /\ job' = [job EXCEPT ![j] = Write(@, s, c)]
        /\ attempt' = [attempt EXCEPT ![j][n].status = a]
    BY DEF Settle
  <1>3. worker'[w].pc \notin Serving /\ \A v \in Workers \ {w} : worker'[v] = worker[v]
    BY <1>1, <1>2, AtType DEF TypeOK, PC, Serving
  <1>4. /\ job'[j].status = s /\ job'[j].code = c /\ job'[j].tries = job[j].tries
        /\ \A k \in Jobs \ {j} : job'[k] = job[k]
    BY <1>1, <1>2, WriteFields DEF TypeOK
  <1>5. /\ attempt'[j][n].status = a
        /\ \A k \in Jobs : \A m \in Tries :
               k # j \/ m # n => attempt'[k][m] = attempt[k][m]
    BY <1>1, <1>2 DEF TypeOK, AttemptRow
  <1>6. attempt'[j][n].status \in Sealed => Seals(attempt'[j][n].status, job'[j])
    BY <1>4, <1>5 DEF Sealed, Seals
  <1>7. QED
    BY <1>1, <1>3, <1>4, <1>5, <1>6, OwnOutcome

LEMMA BeginOutcome ==
    ASSUME OutcomeInv, SendInv', NEW w \in Workers, NEW j \in Jobs, Begin(w, j)
    PROVE  OutcomeInv'
  <1> DEFINE n == job[j].tries + 1
  <1>0. TypeInv /\ TypeOK /\ TypeInv' /\ job[j] \in JobRow
    BY DEF OutcomeInv, SendInv, TypeInv, TypeOK
  <1>1. /\ worker'[w].pc = "claimed" /\ worker'[w].job = j /\ worker'[w].try = n
        /\ \A v \in Workers \ {w} : worker'[v] = worker[v]
        /\ UNCHANGED attempt
    BY <1>0 DEF Begin, Claim, TypeOK, Process
  <1>2. /\ job'[j].tries = n /\ job'[j].status = "PROCESSING" /\ ~job'[j].aged
        /\ \A k \in Jobs \ {j} : job'[k] = job[k]
    <2>1. Write(job[j], "PROCESSING", "none") \in JobRow
      BY <1>0, WriteKeepsRow DEF JobStatus
    <2>2. /\ Write(job[j], "PROCESSING", "none").status = "PROCESSING"
          /\ ~Write(job[j], "PROCESSING", "none").aged
      BY <1>0, WriteFields DEF JobStatus
    <2>3. Begun(job[j]).tries = n /\ Begun(job[j]).status = "PROCESSING" /\ ~Begun(job[j]).aged
      BY <2>1, <2>2 DEF Begun, JobRow
    <2>4. QED
      BY <1>0, <2>3 DEF Begin, TypeOK
  <1>3. Unserved(j) /\ Unsealed(j)
    BY ReleasedJob DEF Begin, MayServe
  <1>4. ASSUME NEW v \in Workers \ {w}, worker[v].pc \in Serving
        PROVE  worker[v].job \in Jobs \ {j}
    BY <1>0, <1>3, <1>4 DEF Unserved, TypeInv, WorkersServe
  <1>5. HandIsFirm'
    <2>1. ASSUME NEW v \in Workers \ {w}, worker'[v].pc \in Serving
          PROVE  /\ worker[v].pc \in Serving /\ worker'[v] = worker[v]
                 /\ job'[worker[v].job] = job[worker[v].job]
      BY <1>1, <1>2, <1>4, <2>1
    <2>2. QED
      BY <1>1, <1>2, <2>1 DEF OutcomeInv, HandIsFirm
  <1>6. OneHand'
    BY <1>1, <1>4 DEF OutcomeInv, OneHand
  <1>7. SealedIsLast'
    BY <1>1, <1>2, <1>3 DEF OutcomeInv, SealedIsLast, Unsealed
  <1>8. QED
    BY <1>5, <1>6, <1>7 DEF OutcomeInv

LEMMA ProcessOutcome ==
    ASSUME OutcomeInv, SendInv', NEW w \in Workers, ProcessNext(w)
    PROVE  OutcomeInv'
  <1> DEFINE j == worker[w].job
             n == worker[w].try
  <1>0. TypeInv /\ TypeOK
    BY DEF OutcomeInv, SendInv, TypeInv
  <1>1. /\ worker[w].pc \in Serving => j \in Jobs /\ n \in Tries /\ attempt[j][n] \in AttemptRow
        /\ {"claimed", "prepared", "fenced", "started", "called"} = Serving
        /\ worker[w] \in Process
    BY <1>0 DEF TypeInv, TypeOK, WorkersServe, Serving
  <1>2. ASSUME NEW pc \in Serving, worker' = [worker EXCEPT ![w].pc = pc]
        PROVE  /\ worker'[w].job = j /\ worker'[w].try = n
               /\ \A v \in Workers \ {w} : worker'[v] = worker[v]
    BY <1>0, <1>1, <1>2 DEF TypeOK, Process
  <1>3. CASE Prepare(w)
    <2>1. /\ worker[w].pc \in Serving /\ attempt'[j][n].status = "PREPARED" /\ UNCHANGED job
          /\ \A k \in Jobs : \A m \in Tries :
                 k # j \/ m # n => attempt'[k][m] = attempt[k][m]
      BY <1>0, <1>1, <1>3 DEF Prepare, TypeOK
    <2>2. /\ worker'[w].job = j /\ worker'[w].try = n
          /\ \A v \in Workers \ {w} : worker'[v] = worker[v]
      BY <1>1, <1>2, <1>3 DEF Prepare
    <2>3. attempt'[j][n].status \notin Sealed
      BY <2>1 DEF Sealed
    <2>4. QED
      BY <1>1, <2>1, <2>2, <2>3, OwnOutcome
  <1>4. CASE EnterFence(w)
    <2>1. \A v \in Workers : HandStays(v)
      BY <1>1, <1>2, <1>4 DEF EnterFence, HandStays
    <2>2. QED
      BY <1>4, <2>1, QuietOutcome DEF EnterFence, JobStays
  <1>5. CASE MarkStarted(w)
    <2>1. /\ worker[w].pc \in Serving /\ attempt'[j][n].status = "NETWORK_STARTED"
          /\ UNCHANGED job
          /\ \A k \in Jobs : \A m \in Tries :
                 k # j \/ m # n => attempt'[k][m] = attempt[k][m]
      BY <1>0, <1>1, <1>5 DEF MarkStarted, TypeOK, AttemptRow
    <2>2. /\ worker'[w].job = j /\ worker'[w].try = n
          /\ \A v \in Workers \ {w} : worker'[v] = worker[v]
      BY <1>1, <1>2, <1>5 DEF MarkStarted
    <2>3. Seals(attempt'[j][n].status, job'[j])
      BY <2>1 DEF OutcomeInv, HandIsFirm, Seals
    <2>4. QED
      BY <1>1, <2>1, <2>2, <2>3, OwnOutcome
  <1>6. CASE CallTelegram(w)
    <2>1. PICK taken \in BOOLEAN : attempt' = [attempt EXCEPT ![j][n].accepted = taken]
      BY <1>6 DEF CallTelegram
    <2>2. /\ worker[w].pc \in Serving /\ attempt'[j][n].status = attempt[j][n].status
          /\ UNCHANGED job
          /\ \A k \in Jobs : \A m \in Tries :
                 k # j \/ m # n => attempt'[k][m] = attempt[k][m]
      BY <1>0, <1>1, <1>6, <2>1 DEF CallTelegram, TypeOK, AttemptRow
    <2>3. /\ worker'[w].job = j /\ worker'[w].try = n
          /\ \A v \in Workers \ {w} : worker'[v] = worker[v]
      BY <1>1, <1>2, <1>6 DEF CallTelegram
    <2>4. attempt[j][n].status \in Sealed => Seals(attempt'[j][n].status, job'[j])
      BY <1>1, <2>2 DEF OutcomeInv, SealedIsLast
    <2>5. QED
      BY SMTT(40), <1>1, <2>2, <2>3, <2>4, OwnOutcome
  <1>7. CASE \/ CapacityRefused(w) \/ FenceLost(w) \/ FailBeforeCall(w) \/ MarkRefused(w)
             \/ Succeed(w) \/ Refused(w) \/ Ambiguous(w) \/ Transient(w)
    <2>1. /\ worker[w].pc \in Serving
          /\ \E a \in {"SENT", "FAILED", "UNCERTAIN", "ABANDONED"} :
             \E s \in {"PENDING", "RETRY", "WAITING_REVIEW", "SENT", "FAILED"} :
             \E c \in {"none", "uncertain", "other"} :
                /\ Settle(w, a, s, c)
                /\ a = "SENT" => s = "SENT"
                /\ a = "UNCERTAIN" => s = "WAITING_REVIEW" /\ c = "uncertain"
      BY <1>1, <1>7 DEF CapacityRefused, FenceLost, FailBeforeCall, MarkRefused,
                        Succeed, Refused, Ambiguous, Transient, AfterTransient
    <2>2. {"PENDING", "RETRY", "WAITING_REVIEW", "SENT", "FAILED"} \subseteq JobStatus
      BY DEF JobStatus
    <2>3. QED
      BY <2>1, <2>2, SettleOutcome
  <1>8. ASSUME NEW k \in Jobs, Withhold(w, k) PROVE OutcomeInv'
    <2>1. \A i \in Jobs : JobStays(i)
      <3>1. Unserved(k) /\ Unsealed(k)
        BY <1>8, ReleasedJob DEF Withhold, MayServe
      <3>2. job'[k].tries = job[k].tries /\ \A i \in Jobs \ {k} : job'[i] = job[i]
        BY <1>0, <1>8, WriteFields DEF Withhold, TypeOK, JobStatus
      <3>3. QED
        BY <3>1, <3>2 DEF JobStays
    <2>2. QED
      BY <1>8, <2>1, QuietOutcome DEF Withhold, Claim, HandStays
  <1>9. QED
    BY <1>3, <1>4, <1>5, <1>6, <1>7, <1>8, BeginOutcome DEF ProcessNext

\* Recovery finds only jobs nobody serves, and puts a job with a marked attempt
\* in front of the operator.
LEMMA StartOutcome ==
    ASSUME OutcomeInv, SendInv', NEW w \in Workers, Start(w)
    PROVE  OutcomeInv'
  <1>0. TypeInv /\ TypeOK
    BY DEF OutcomeInv, SendInv, TypeInv
  <1>1. \A v \in Workers : worker'[v].pc \in Serving => worker'[v] = worker[v]
    BY <1>0, AtType DEF Start, TypeOK, PC, Serving
  <1>2. \A j \in Jobs : job'[j] = RecoveredJob(j)
    BY DEF Start
  <1>3. \A j \in Jobs : \A n \in Tries : attempt'[j][n] = RecoveredAttempt(j, n)
    BY DEF Start
  <1>4. \A j \in Jobs : ~Stale(j) =>
          job'[j] = job[j] /\ \A n \in Tries : attempt'[j][n] = attempt[j][n]
    BY <1>2, <1>3 DEF RecoveredJob, RecoveredAttempt
  <1>5. ASSUME NEW v \in Workers, worker[v].pc \in Serving
        PROVE  worker[v].job \in Jobs /\ ~Stale(worker[v].job)
    BY <1>0, <1>5 DEF OutcomeInv, HandIsFirm, Stale, TypeInv, WorkersServe
  <1>6. HandIsFirm'
    <2>1. ASSUME NEW v \in Workers, worker'[v].pc \in Serving
          PROVE  /\ worker[v].pc \in Serving /\ worker'[v] = worker[v]
                 /\ job'[worker[v].job] = job[worker[v].job]
      BY <1>1, <1>4, <1>5, <2>1
    <2>2. QED
      BY <2>1 DEF OutcomeInv, HandIsFirm
  <1>7. OneHand'
    BY <1>1 DEF OutcomeInv, OneHand
  <1>8. SealedIsLast'
    <2>1. ASSUME NEW j \in Jobs, NEW n \in Tries, attempt'[j][n].status \in Sealed
          PROVE  n = job'[j].tries /\ Seals(attempt'[j][n].status, job'[j])
      <3>1. CASE ~Stale(j)
        BY <1>4, <2>1, <3>1 DEF OutcomeInv, SealedIsLast
      <3>2. CASE Stale(j)
        <4>1. job[j] \in JobRow /\ attempt[j][n] \in AttemptRow
          BY <1>0 DEF TypeOK
        <4>2. attempt[j][n].status \in Sealed
          BY <1>3, <2>1, <4>1 DEF RecoveredAttempt, AttemptRow, Sealed
        <4>3. n = job[j].tries /\ attempt[j][n].status = "NETWORK_STARTED"
          BY <3>2, <4>2 DEF OutcomeInv, SealedIsLast, Seals, Stale
        <4>4. IsLatest(j, n)
          BY <4>3 DEF OutcomeInv, SendInv, TriesCounted, IsLatest
        <4>5. attempt'[j][n].status = "UNCERTAIN"
          BY <1>3, <3>2, <4>1, <4>3, <4>4 DEF RecoveredAttempt, AttemptRow
        <4>6. LostMidSend(j)
          BY <4>3, <4>4 DEF LostMidSend
        <4>7. job'[j] = Write(job[j], "WAITING_REVIEW", "uncertain")
          BY <1>2, <3>2, <4>6 DEF RecoveredJob
        <4>8. /\ job'[j].status = "WAITING_REVIEW" /\ job'[j].code = "uncertain"
              /\ job'[j].tries = job[j].tries
          BY <4>1, <4>7, WriteFields DEF JobStatus
        <4>9. QED
          BY <4>3, <4>5, <4>8 DEF Seals
      <3>3. QED
        BY <3>1, <3>2
    <2>2. QED
      BY <2>1 DEF SealedIsLast
  <1>9. QED
    BY <1>6, <1>7, <1>8 DEF OutcomeInv

\* What the operator reconciles is the job's last attempt, and nobody serves it.
LEMMA ResolveOutcome ==
    ASSUME OutcomeInv, SendInv', NEW j \in Jobs, NEW r \in DOMAIN Resolutions, Resolve(j, r)
    PROVE  OutcomeInv'
  <1>0. TypeInv /\ TypeOK /\ UNCHANGED worker /\ job[j] \in JobRow
    BY DEF OutcomeInv, SendInv, TypeInv, TypeOK, Resolve
  <1>1. /\ job'[j].status = Resolutions[r].job /\ job'[j].resolved
        /\ job'[j].tries = job[j].tries
        /\ \A k \in Jobs \ {j} : job'[k] = job[k]
    <2>1. Resolutions[r].job \in JobStatus
      BY DEF Resolutions, JobStatus
    <2>2. /\ Write(job[j], Resolutions[r].job, "none") \in JobRow
          /\ Write(job[j], Resolutions[r].job, "none").tries = job[j].tries
          /\ Write(job[j], Resolutions[r].job, "none").status = Resolutions[r].job
      BY <1>0, <2>1, WriteKeepsRow, WriteFields
    <2>3. /\ Reviewed(j, r).tries = job[j].tries /\ Reviewed(j, r).resolved
          /\ Reviewed(j, r).status = Resolutions[r].job
      BY <2>2 DEF Reviewed, JobRow
    <2>4. QED
      BY <1>0, <2>3 DEF Resolve, TypeOK
  <1>2. Unserved(j)
    BY DEF OutcomeInv, HandIsFirm, Unserved, Resolve, Uncertain
  <1>3. \A n \in Tries : attempt[j][n].status \in Sealed =>
           n = job[j].tries /\ attempt[j][n].status = "UNCERTAIN"
    BY DEF OutcomeInv, SealedIsLast, Seals, Resolve, Uncertain
  <1>4. ASSUME \A n \in Tries : attempt'[j][n].status \in Sealed =>
                   n = job[j].tries /\ Seals(attempt'[j][n].status, job'[j]),
               \A k \in Jobs \ {j} : attempt'[k] = attempt[k]
        PROVE  OutcomeInv'
    <2>1. HandIsFirm'
      BY <1>0, <1>1, <1>2 DEF OutcomeInv, HandIsFirm, Unserved, TypeInv, WorkersServe
    <2>2. OneHand'
      BY <1>0 DEF OutcomeInv, OneHand
    <2>3. SealedIsLast'
      BY <1>1, <1>4 DEF OutcomeInv, SealedIsLast
    <2>4. QED
      BY <2>1, <2>2, <2>3 DEF OutcomeInv
  <1>5. CASE (\A n \in Tries : ~Unresolved(j, n)) /\ UNCHANGED attempt
    <2>1. \A n \in Tries : attempt'[j][n].status \notin Sealed
      BY <1>3, <1>5 DEF Unresolved
    <2>2. QED
      BY <1>4, <1>5, <2>1
  <1>6. ASSUME NEW n \in Tries, ToReconcile(j, n),
               attempt' = [attempt EXCEPT ![j][n].status = Resolutions[r].attempt]
        PROVE  OutcomeInv'
    <2>1. /\ attempt'[j][n].status = Resolutions[r].attempt
          /\ \A m \in Tries \ {n} : attempt'[j][m] = attempt[j][m]
          /\ \A k \in Jobs \ {j} : attempt'[k] = attempt[k]
      BY <1>0, <1>6 DEF TypeOK, AttemptRow
    <2>2. n = job[j].tries /\ \A m \in Tries \ {n} : attempt[j][m].status \notin Sealed
      BY <1>3, <1>6 DEF ToReconcile, Unresolved, Sealed
    <2>3. attempt'[j][n].status \in Sealed => Seals(attempt'[j][n].status, job'[j])
      BY <1>1, <2>1 DEF Resolutions, Sealed, Seals
    <2>4. QED
      BY <1>4, <2>1, <2>2, <2>3
  <1>7. QED
    BY <1>5, <1>6 DEF Resolve

LEMMA StepOutcome ==
    ASSUME OutcomeInv, ~StallPossible, [Next]_vars
    PROVE  OutcomeInv'
  <1>0. TypeInv /\ TypeOK /\ SendInv'
    BY StepSend DEF OutcomeInv, SendInv, TypeInv
  <1>1. UNCHANGED worker => \A w \in Workers : HandStays(w)
    BY DEF HandStays
  <1>2. UNCHANGED job => \A j \in Jobs : JobStays(j)
    BY DEF JobStays
  <1>3. CASE UNCHANGED vars
    BY <1>0, <1>1, <1>2, <1>3, QuietOutcome DEF vars
  <1>4. ASSUME NEW w \in Workers, WorkerNext(w) \/ Crash(w) PROVE OutcomeInv'
    <2>1. CASE Start(w)
      BY <1>0, <2>1, StartOutcome
    <2>2. CASE ProcessNext(w)
      BY <1>0, <2>2, ProcessOutcome
    <2>3. CASE HeartbeatRead(w) \/ HeartbeatCommit(w) \/ Crash(w)
      <3>1. UNCHANGED <<job, attempt>>
        BY <2>3 DEF HeartbeatRead, HeartbeatCommit, Crash
      <3>2. worker'[w].pc \notin Serving /\ \A v \in Workers \ {w} : worker'[v] = worker[v]
        BY <1>0, <2>3, AtType DEF HeartbeatRead, HeartbeatCommit, Crash, TypeOK, Process,
                                  Serving, PC
      <3>3. QED
        BY <1>0, <1>2, <3>1, <3>2, QuietOutcome DEF HandStays
    <2>4. QED
      BY <1>4, <2>1, <2>2, <2>3 DEF WorkerNext
  <1>5. CASE OperatorNext
    <2>1. ASSUME NEW j \in Jobs, NEW r \in DOMAIN Resolutions, Resolve(j, r) PROVE OutcomeInv'
      BY <1>0, <2>1, ResolveOutcome
    <2>2. CASE \/ \E a \in Admins : ApproveFailover(a) \/ \E s \in Sites : RequestFailover(a, s)
               \/ CancelFailover \/ PauseConnection
      <3>1. UNCHANGED <<job, attempt, worker>>
        BY <2>2 DEF ApproveFailover, RequestFailover, CancelFailover, PauseConnection
      <3>2. QED
        BY <1>0, <1>1, <1>2, <3>1, QuietOutcome
    <2>3. ASSUME NEW j \in Jobs, CancelRead(j) \/ CancelCommit(j) \/ RetryJob(j)
          PROVE  OutcomeInv'
      <3>1. UNCHANGED <<attempt, worker>>
        BY <2>3 DEF CancelRead, CancelCommit, RetryJob
      <3>2. \A k \in Jobs : JobStays(k)
        <4>1. CASE CancelRead(j)
          BY <1>2, <4>1 DEF CancelRead
        <4>2. CASE CancelCommit(j)
          <5>1. /\ job'[j].status = "CANCELLED" /\ ~job'[j].aged
                /\ job'[j].tries = job[j].tries
                /\ \A k \in Jobs \ {j} : job'[k] = job[k]
            BY <1>0, <4>2, WriteFields DEF CancelCommit, TypeOK, JobStatus
          <5>2. QED
            BY <5>1 DEF JobStays
        <4>3. CASE RetryJob(j)
          <5>1. job'[j].tries = job[j].tries /\ \A k \in Jobs \ {j} : job'[k] = job[k]
            BY <1>0, <4>3, WriteFields DEF RetryJob, TypeOK, JobStatus
          <5>2. Unserved(j) /\ Unsealed(j)
            BY <4>3, ReleasedJob DEF RetryJob
          <5>3. QED
            BY <5>1, <5>2 DEF JobStays
        <4>4. QED
          BY <2>3, <4>1, <4>2, <4>3
      <3>3. QED
        BY <1>0, <1>1, <3>1, <3>2, QuietOutcome
    <2>4. CASE ResumeConnection
      <3>1. ASSUME NEW k \in Jobs PROVE JobStays(k)
        <4>1. CASE job[k].status = "WAITING_REVIEW" /\ ~Uncertain(k)
          <5>1. job'[k].tries = job[k].tries
            BY <1>0, <2>4, <4>1, WriteFields DEF ResumeConnection, TypeOK, JobStatus
          <5>2. Unserved(k) /\ Unsealed(k)
            BY <4>1, ReleasedJob DEF Uncertain
          <5>3. QED
            BY <5>1, <5>2 DEF JobStays
        <4>2. CASE ~(job[k].status = "WAITING_REVIEW" /\ ~Uncertain(k))
          BY <2>4, <4>2 DEF ResumeConnection, JobStays
        <4>3. QED
          BY <4>1, <4>2
      <3>2. UNCHANGED <<attempt, worker>>
        BY <2>4 DEF ResumeConnection
      <3>3. QED
        BY <1>0, <1>1, <3>1, <3>2, QuietOutcome
    <2>5. QED
      BY <1>5, <2>1, <2>2, <2>3, <2>4 DEF OperatorNext
  <1>6. CASE ClockNext
    <2>1. ASSUME NEW W \in SUBSET Workers, worker' = SeenExpired(W)
          PROVE  \A w \in Workers : HandStays(w)
      <3>1. ASSUME NEW w \in Workers
            PROVE  /\ worker'[w].pc = worker[w].pc
                   /\ worker'[w].job = worker[w].job
                   /\ worker'[w].try = worker[w].try
        BY <1>0, <2>1 DEF SeenExpired, TypeOK, Process
      <3>2. QED
        BY <3>1 DEF HandStays
    <2>2. CASE LeaseExpires
      BY <1>0, <1>2, <2>1, <2>2, QuietOutcome DEF LeaseExpires
    <2>3. ASSUME NEW w \in Workers, SeenLeaseExpires(w) PROVE OutcomeInv'
      BY <1>0, <1>2, <2>1, <2>3, QuietOutcome DEF SeenLeaseExpires
    <2>4. ASSUME NEW j \in Jobs, JobLockAges(j) PROVE OutcomeInv'
      <3>1. Unserved(j)
        BY <2>4 DEF JobLockAges, ServedBy, Unserved
      <3>2. /\ job'[j].tries = job[j].tries /\ job'[j].status = job[j].status
            /\ job'[j].code = job[j].code /\ job'[j].resolved = job[j].resolved
            /\ \A k \in Jobs \ {j} : job'[k] = job[k]
        BY <1>0, <2>4 DEF JobLockAges, TypeOK, JobRow
      <3>3. \A k \in Jobs : JobStays(k)
        BY <3>1, <3>2 DEF JobStays
      <3>4. QED
        BY <1>0, <2>1, <2>4, <3>3, QuietOutcome DEF JobLockAges
    <2>5. QED
      BY <1>6, <2>2, <2>3, <2>4 DEF ClockNext
  <1>7. QED
    BY <1>3, <1>4, <1>5, <1>6 DEF Next

\* What OutcomeInv says of sends and of the jobs they belong to.
LEMMA OutcomeMeans ==
    ASSUME OutcomeInv
    PROVE  SentAtMostOnce /\ LostSendIsFound
  <1>1. TypeOK
    BY DEF OutcomeInv, SendInv, TypeInv
  <1>2. ASSUME NEW j \in Jobs, NEW n \in Tries, attempt[j][n].accepted,
               attempt[j][n].status # "FAILED"
        PROVE  n = job[j].tries
    <2>1. attempt[j][n].status \in AttemptStatus \cup {"absent"}
      BY <1>1 DEF TypeOK, AttemptRow
    <2>2. attempt[j][n].status \in Sealed
      BY <1>2, <2>1 DEF OutcomeInv, SendInv, RequeuedWasNotSent, AttemptStatus, Sealed
    <2>3. QED
      BY <2>2 DEF OutcomeInv, SealedIsLast
  <1>3. SentAtMostOnce
    BY <1>2 DEF SentAtMostOnce
  <1>4. LostSendIsFound
    BY DEF OutcomeInv, SealedIsLast, Sealed, Seals, LostSendIsFound
  <1>5. QED
    BY <1>3, <1>4

LEMMA SettledByReview ==
    ASSUME OutcomeInv, Next, NEW j \in Jobs, Uncertain(j)
    PROVE  \/ job'[j] = job[j]
           \/ job'[j].resolved
           \/ j \in cancelling /\ job'[j].status = "CANCELLED"
  <1>0. TypeInv /\ TypeOK
    BY DEF OutcomeInv, SendInv, TypeInv
  <1>1. job[j].status = "WAITING_REVIEW" /\ job[j].code = "uncertain"
    BY DEF Uncertain
  <1>2. ASSUME NEW w \in Workers, worker[w].pc \in Serving
        PROVE  worker[w].job \in Jobs \ {j}
    BY <1>0, <1>1, <1>2 DEF OutcomeInv, HandIsFirm, TypeInv, WorkersServe
  <1>3. ASSUME NEW w \in Workers, WorkerNext(w) \/ Crash(w) PROVE job'[j] = job[j]
    <2>1. CASE Start(w)
      BY <1>1, <2>1 DEF Start, RecoveredJob, Stale
    <2>2. CASE HeartbeatRead(w) \/ HeartbeatCommit(w) \/ Crash(w)
      BY <2>2 DEF HeartbeatRead, HeartbeatCommit, Crash
    <2>3. ASSUME NEW k \in Jobs, Begin(w, k) \/ Withhold(w, k) PROVE job'[j] = job[j]
      BY SMTT(40), <1>0, <1>1, <2>3 DEF Begin, Withhold, MayServe, TypeOK
    <2>4. CASE Prepare(w) \/ EnterFence(w) \/ MarkStarted(w) \/ CallTelegram(w)
      BY <2>4 DEF Prepare, EnterFence, MarkStarted, CallTelegram
    <2>5. CASE \/ CapacityRefused(w) \/ FenceLost(w) \/ FailBeforeCall(w) \/ MarkRefused(w)
               \/ Succeed(w) \/ Refused(w) \/ Ambiguous(w) \/ Transient(w)
      <3>1. worker[w].pc \in Serving /\ \E a, s, c : Settle(w, a, s, c)
        BY <2>5 DEF CapacityRefused, FenceLost, FailBeforeCall, MarkRefused,
                    Succeed, Refused, Ambiguous, Transient, Serving
      <3>2. QED
        BY <1>0, <1>2, <3>1 DEF Settle, TypeOK
    <2>6. QED
      BY <1>3, <2>1, <2>2, <2>3, <2>4, <2>5 DEF WorkerNext, ProcessNext
  <1>4. CASE OperatorNext
    <2>1. CASE \/ \E a \in Admins : ApproveFailover(a) \/ \E s \in Sites : RequestFailover(a, s)
               \/ CancelFailover \/ PauseConnection
      BY <2>1 DEF ApproveFailover, RequestFailover, CancelFailover, PauseConnection
    <2>2. ASSUME NEW k \in Jobs, CancelRead(k) \/ RetryJob(k) PROVE job'[j] = job[j]
      BY <1>0, <1>1, <2>2 DEF CancelRead, RetryJob, TypeOK
    <2>3. ASSUME NEW k \in Jobs, CancelCommit(k)
          PROVE  job'[j] = job[j] \/ (j \in cancelling /\ job'[j].status = "CANCELLED")
      <3>1. CASE k # j
        BY <1>0, <2>3, <3>1 DEF CancelCommit, TypeOK
      <3>2. CASE k = j
        BY <1>0, <2>3, <3>2, WriteFields DEF CancelCommit, TypeOK, JobStatus
      <3>3. QED
        BY <3>1, <3>2
    <2>4. ASSUME NEW k \in Jobs, NEW r \in DOMAIN Resolutions, Resolve(k, r)
          PROVE  job'[j] = job[j] \/ job'[j].resolved
      <3>1. CASE k # j
        BY <1>0, <2>4, <3>1 DEF Resolve, TypeOK
      <3>2. CASE k = j
        <4>1. Resolutions[r].job \in JobStatus
          BY DEF Resolutions, JobStatus
        <4>2. Write(job[j], Resolutions[r].job, "none") \in JobRow
          BY <1>0, <4>1, WriteKeepsRow DEF TypeOK
        <4>3. Reviewed(j, r).resolved
          BY <4>2 DEF Reviewed, JobRow
        <4>4. QED
          BY <1>0, <2>4, <3>2, <4>3 DEF Resolve, TypeOK
      <3>3. QED
        BY <3>1, <3>2
    <2>5. CASE ResumeConnection
      BY <2>5 DEF ResumeConnection
    <2>6. QED
      BY <1>4, <2>1, <2>2, <2>3, <2>4, <2>5 DEF OperatorNext
  <1>5. CASE ClockNext
    BY <1>0, <1>1, <1>5 DEF ClockNext, LeaseExpires, SeenLeaseExpires, JobLockAges, TypeOK
  <1>6. QED
    BY <1>3, <1>4, <1>5 DEF Next

\* Only an approved failover moves the lease to another site.
LEMMA SiteMoves ==
    ASSUME TypeOK, Next, lease'.site # lease.site
    PROVE  \E a \in Admins : ApproveFailover(a)
  <1>1. lease \in LeaseType
    BY DEF TypeOK
  <1>2. /\ \A w \in Workers : Claimed(lease, w).site = lease.site
        /\ Renewed(lease).site = lease.site
        /\ Expired(lease).site = lease.site
        /\ Draining(lease).site = lease.site
        /\ Undrained(lease).site = lease.site
    BY <1>1 DEF Claimed, Renewed, Expired, Draining, Undrained, LeaseType
  <1>3. \A h, e : Retired(lease, h, e).site = lease.site
    BY <1>1 DEF Retired, LeaseType
  <1>4. \A w \in Workers : ~(WorkerNext(w) \/ Crash(w))
    <2>1. ASSUME NEW w \in Workers, WorkerNext(w) \/ Crash(w) PROVE lease'.site = lease.site
      <3>1. CASE Start(w) \/ HeartbeatRead(w) \/ HeartbeatCommit(w) \/ Crash(w)
        BY <1>2, <3>1 DEF Start, HeartbeatRead, HeartbeatCommit, Crash
      <3>2. ASSUME NEW k \in Jobs, Begin(w, k) \/ Withhold(w, k) PROVE lease'.site = lease.site
        BY SMTT(40), <1>2, <3>2 DEF Begin, Withhold, Claim
      <3>3. CASE \/ Prepare(w) \/ EnterFence(w) \/ MarkStarted(w) \/ CallTelegram(w)
                 \/ CapacityRefused(w) \/ FenceLost(w) \/ FailBeforeCall(w) \/ MarkRefused(w)
                 \/ Succeed(w) \/ Refused(w) \/ Ambiguous(w) \/ Transient(w)
        BY <3>3 DEF Prepare, EnterFence, MarkStarted, CallTelegram, CapacityRefused, FenceLost,
                    FailBeforeCall, MarkRefused, Succeed, Refused, Ambiguous, Transient
      <3>4. QED
        BY <2>1, <3>1, <3>2, <3>3 DEF WorkerNext, ProcessNext
    <2>2. QED
      BY <2>1
  <1>5. ~ClockNext
    BY <1>2 DEF ClockNext, LeaseExpires, SeenLeaseExpires, JobLockAges
  <1>6. OperatorNext
    BY <1>4, <1>5 DEF Next
  <1>7. ~CancelFailover /\ ~PauseConnection /\ ~ResumeConnection
    BY <1>2 DEF CancelFailover, PauseConnection, ResumeConnection
  <1>8. \A a \in Admins : \A s \in Sites : ~RequestFailover(a, s)
    BY <1>2 DEF RequestFailover
  <1>9. \A j \in Jobs : ~(CancelRead(j) \/ CancelCommit(j) \/ RetryJob(j))
    BY DEF CancelRead, CancelCommit, RetryJob
  <1>10. \A j \in Jobs : \A r \in DOMAIN Resolutions : ~Resolve(j, r)
    BY <1>3 DEF Resolve
  <1>11. QED
    BY <1>6, <1>7, <1>8, <1>9, <1>10 DEF OperatorNext

LEMMA FailoverIsClear ==
    ASSUME OutcomeInv, NEW a \in Admins, ApproveFailover(a),
           NEW j \in Jobs, NEW n \in Tries, attempt[j][n].status = "NETWORK_STARTED"
    PROVE  job[j].status = "CANCELLED"
  <1>1. Seals("NETWORK_STARTED", job[j])
    BY DEF OutcomeInv, SealedIsLast, Sealed
  <1>2. job[j].status # "PROCESSING"
    BY DEF ApproveFailover, FailoverBlocked
  <1>3. QED
    BY <1>1, <1>2 DEF Seals

\* OutcomeInv holds in every reachable state as long as no worker sits on a job
\* past job_lease_minutes.
THEOREM OutcomeInvariant ==
    ASSUME ~StallPossible
    PROVE  Spec => []OutcomeInv
  <1>1. OutcomeInv /\ [Next]_vars => OutcomeInv'
    BY StepOutcome
  <1>2. QED
    BY <1>1, InitOutcome, PTL DEF Spec

\* Without stalls a message that Telegram took is not sent to it again.
THEOREM MessageSentOnce ==
    ASSUME ~StallPossible
    PROVE  Spec => []SentAtMostOnce
  <1>1. OutcomeInv => SentAtMostOnce
    BY OutcomeMeans
  <1>2. QED
    BY <1>1, OutcomeInvariant, PTL

\* Without stalls a send whose worker is gone is PROCESSING, where recovery finds
\* it, or was overwritten by a cancel.
THEOREM LostSendFound ==
    ASSUME ~StallPossible
    PROVE  Spec => []LostSendIsFound
  <1>1. OutcomeInv => LostSendIsFound
    BY OutcomeMeans
  <1>2. QED
    BY <1>1, OutcomeInvariant, PTL

\* Without stalls the active site changes only when no send is open, whatever
\* the operators, the clock and the crashes did before.
THEOREM FailoverIsClean ==
    ASSUME ~StallPossible
    PROVE  Spec => FailoverLeavesNoOpenSend
  <1>1. ASSUME OutcomeInv, [Next]_vars
        PROVE  [lease'.site # lease.site =>
                  \A j \in Jobs : \A n \in Tries :
                     attempt[j][n].status = "NETWORK_STARTED" => job[j].status = "CANCELLED"]_vars
    <2>1. TypeOK
      BY <1>1 DEF OutcomeInv, SendInv, TypeInv
    <2>2. QED
      BY <1>1, <2>1, SiteMoves, FailoverIsClear
  <1>2. QED
    BY <1>1, OutcomeInvariant, PTL DEF Spec, FailoverLeavesNoOpenSend

\* Without stalls a job leaves the operator's review of an uncertain result only
\* by the operator's resolution, or by a cancel that had read it before.
THEOREM ReviewSettlesUncertain ==
    ASSUME ~StallPossible
    PROVE  Spec => OnlyReviewSettlesUncertain
  <1>1. ASSUME OutcomeInv, [Next]_vars
        PROVE  [\A j \in Jobs : Uncertain(j) =>
                  \/ job'[j] = job[j]
                  \/ job'[j].resolved
                  \/ j \in cancelling /\ job'[j].status = "CANCELLED"]_vars
    BY <1>1, SettledByReview
  <1>2. QED
    BY <1>1, OutcomeInvariant, PTL DEF Spec, OnlyReviewSettlesUncertain
=============================================================================
