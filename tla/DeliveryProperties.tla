------------------------- MODULE DeliveryProperties -------------------------
(***************************************************************************)
(* What fenced delivery promises, and the fairness its liveness rests on.  *)
(***************************************************************************)
EXTENDS Delivery

\* An attempt that may have reached Telegram and has no recorded outcome.
Open(a) == a.status \in {"PREPARED", "NETWORK_STARTED"}

\* Attempt n of job j is being carried out by a live worker.
InHand(j, n) == \E w \in Workers : ServedBy(w, j) /\ worker[w].try = n

\* A message Telegram took is not sent to it again: of one job's attempts at
\* most one was accepted.  Attempts that ended in an unclassified exception
\* (FAILED although accepted) are the exception the worker does not exclude;
\* AcceptedIsNeverRetried is about those.
SentAtMostOnce ==
    \A j \in Jobs : \A m, n \in Tries :
        /\ attempt[j][m].accepted /\ attempt[j][m].status # "FAILED"
        /\ attempt[j][n].accepted /\ attempt[j][n].status # "FAILED"
        => m = n

\* An attempt that is recorded as abandoned or as reconciled "not sent", the
\* states after which the job is sent again, never reached Telegram: the
\* network mark is durable before the call, and the fence comes before both.
RequeuedWasNotSent ==
    \A j \in Jobs : \A n \in Tries :
        attempt[j][n].status \in {"absent", "PREPARED", "ABANDONED", "RECONCILED_NOT_SENT"}
            => ~attempt[j][n].accepted

\* A send whose worker is gone is where somebody will find it: its job is still
\* PROCESSING for stale recovery, or was overwritten by a racing cancel.
LostSendIsFound ==
    \A j \in Jobs : \A n \in Tries :
        attempt[j][n].status = "NETWORK_STARTED" /\ ~InHand(j, n)
            => job[j].status \in {"PROCESSING", "CANCELLED"}

\* A fencing epoch belongs to one worker id: no two worker ids ever ran attempts
\* under the same epoch, whatever expired, was handed over or reconciled.
EpochNamesOneWorker ==
    \A j, k \in Jobs : \A m, n \in Tries :
        LET a == attempt[j][m]
            b == attempt[k][n]
        IN  a.status # "absent" /\ b.status # "absent" /\ a.epoch = b.epoch
                => a.worker = b.worker

\* A job leaves the operator's review of an uncertain result only by Resolve,
\* or by a cancel that had read it before.
OnlyReviewSettlesUncertain ==
    [][\A j \in Jobs : Uncertain(j) =>
          \/ job'[j] = job[j]
          \/ job'[j].resolved
          \/ j \in cancelling /\ job'[j].status = "CANCELLED"]_vars

\* The active site changes only when no send is left open, neither in hand nor
\* lost, except of a job that a racing cancel overwrote.
FailoverLeavesNoOpenSend ==
    [][lease'.site # lease.site =>
          \A j \in Jobs : \A n \in Tries :
             attempt[j][n].status = "NETWORK_STARTED" => job[j].status = "CANCELLED"]_vars

-----------------------------------------------------------------------------
(* What the documentation says and the code does not do. *)

\* delivery.py, _handle_fence_lost ("safely return the job to the queue"): a job
\* recorded as SENT is never queued again, not by a worker that stalled either.
SentIsNotRequeued ==
    [][\A j \in Jobs : job[j].status = "SENT" => job'[j].status \in {"SENT", "CANCELLED"}]_vars

\* docs/EXECUTION_FENCING.md: no new Telegram call while the lease is draining.
NoCallWhileDraining ==
    [][\A w \in Workers : worker[w].pc = "prepared" /\ worker'[w].pc = "fenced"
          => lease.status = "ACTIVE"]_vars

\* docs/EXECUTION_FENCING.md: when a process restarts with the worker id of an
\* expired lease, the epoch grows.
RestartRaisesEpoch ==
    [][\A w \in Workers :
          worker[w].pc = "rejoining" /\ worker'[w].pc = "idle"
          /\ lease.holder = w /\ ~lease.live => lease'.epoch > lease.epoch]_vars

\* execution.py, cancel_failover: the site goes back to active.
CancelledFailoverReactivates ==
    [][failover.open /\ ~failover'.open => lease'.status = "ACTIVE"]_vars

\* An accepted message is not put back in the queue by the worker itself.
AcceptedIsNeverRetried ==
    [][\A w \in Workers : worker[w].pc = "called" /\ Accepted(w)
          => job'[worker[w].job].status # "RETRY"]_vars

-----------------------------------------------------------------------------
(***************************************************************************)
(* Fairness: a running process keeps running its loop, a stopped one is    *)
(* restarted (restart: unless-stopped), and the clock moves.               *)
(***************************************************************************)
WorkerStep(w) == Start(w) \/ HeartbeatRead(w) \/ HeartbeatCommit(w) \/ ProcessNext(w)

FairSpec ==
    /\ Spec
    /\ \A w \in Workers : WF_vars(WorkerStep(w))
    /\ \A j \in Jobs : WF_vars(JobLockAges(j))

\* A worker that has taken a job lets go of it again: it settles the job or dies.
TakenJobIsLetGo ==
    \A w \in Workers : worker[w].pc \in Serving ~> worker[w].pc \notin Serving

\* docs/ARCHITECTURE.md: the expired lease of a crashed process is recovered.
CrashedJobIsRecovered ==
    \A j \in Jobs : job[j].status = "PROCESSING" ~> job[j].status # "PROCESSING"
=============================================================================
