------------------------- MODULE DeliveryInvariants -------------------------
(***************************************************************************)
(* The inductive invariants behind the safety of fenced delivery.          *)
(***************************************************************************)
EXTENDS DeliveryProperties

\* A worker in the middle of process_next knows its job and attempt number.
WorkersServe ==
    \A w \in Workers : worker[w].pc \in Serving =>
        worker[w].job \in Jobs /\ worker[w].try \in Tries

TypeInv == TypeOK /\ WorkersServe

-----------------------------------------------------------------------------
\* Attempt numbers are handed out in order: nobody works beyond job.tries ...
TriesCounted ==
    /\ \A w \in Workers : worker[w].pc \in Serving =>
           worker[w].try <= job[worker[w].job].tries
    /\ \A j \in Jobs : \A n \in Tries :
           n > job[j].tries => attempt[j][n].status = "absent"

\* ... and no two workers ever work on the same attempt, not even when one of
\* them has been given up as stalled.
TriesDiffer ==
    \A v, w \in Workers :
        /\ worker[v].pc \in Serving /\ worker[w].pc \in Serving
        /\ worker[v].job = worker[w].job /\ worker[v].try = worker[w].try
        => v = w

\* From the network mark to the result the row lock keeps the operator from
\* reconciling the attempt: whatever recovery does, it stays unresolved.
CalledIsUnresolved ==
    \A w \in Workers : worker[w].pc \in {"started", "called"} =>
        attempt[worker[w].job][worker[w].try].status \in {"NETWORK_STARTED", "UNCERTAIN"}

\* Before the network mark nothing has been sent.
UnmarkedIsUnsent ==
    \A w \in Workers : worker[w].pc \in {"claimed", "prepared", "fenced"} =>
        ~attempt[worker[w].job][worker[w].try].accepted

SendInv ==
    /\ TypeInv
    /\ TriesCounted
    /\ TriesDiffer
    /\ CalledIsUnresolved
    /\ UnmarkedIsUnsent
    /\ RequeuedWasNotSent

-----------------------------------------------------------------------------
\* The attempts of worker w, and the epochs w has worked or is working under.
AttemptsOf(w) ==
    {p \in Jobs \X Tries : /\ attempt[p[1]][p[2]].status # "absent"
                           /\ attempt[p[1]][p[2]].worker = w}

EpochsOf(w) ==
    {attempt[p[1]][p[2]].epoch : p \in AttemptsOf(w)}
        \cup (IF worker[w].pc \in Serving THEN {worker[w].seen.epoch} ELSE {})

\* Past Prepare, the worker's attempt row has been written.
RowsWritten ==
    \A w \in Workers : worker[w].pc \in Serving \ {"claimed"} =>
        attempt[worker[w].job][worker[w].try].status # "absent"

\* An epoch that has been used lies in the past, or its user still holds the
\* lease; and it has one user.
EpochInv ==
    /\ TypeInv
    /\ RowsWritten
    /\ \A j \in Jobs : \A n \in Tries :
          attempt[j][n].status # "absent" => attempt[j][n].worker \in Workers
    /\ \A w \in Workers : \A e \in EpochsOf(w) :
          /\ e <= lease.epoch
          /\ e = lease.epoch => lease.holder = w
    /\ \A v, w \in Workers : EpochsOf(v) \cap EpochsOf(w) # {} => v = w
-----------------------------------------------------------------------------
\* The outcomes after which a job must not go out again by itself: the message
\* may be with Telegram.
Sealed == {"NETWORK_STARTED", "UNCERTAIN", "SENT", "RECONCILED_SKIPPED"}

\* What a sealed attempt makes of its job, unless a cancel has overwritten it.
Seals(status, r) ==
    \/ r.status = "CANCELLED"
    \/ status = "NETWORK_STARTED" /\ r.status = "PROCESSING"
    \/ status = "UNCERTAIN" /\ r.status = "WAITING_REVIEW" /\ r.code = "uncertain"
    \/ status = "SENT" /\ r.status = "SENT"
    \/ status = "RECONCILED_SKIPPED" /\ r.status = "SKIPPED" /\ r.resolved

\* A sealed attempt is the job's last, and the job's status says so.
SealedIsLast ==
    \A j \in Jobs : \A n \in Tries : attempt[j][n].status \in Sealed =>
        n = job[j].tries /\ Seals(attempt[j][n].status, job[j])

\* While no worker stalls, a job in hand is the worker's own: the job is still
\* PROCESSING under a fresh lock (or cancelled), at the worker's attempt.
HandIsFirm ==
    \A w \in Workers : worker[w].pc \in Serving =>
        LET r == job[worker[w].job] IN
        /\ r.status \in {"PROCESSING", "CANCELLED"}
        /\ ~r.aged
        /\ r.tries = worker[w].try

OneHand ==
    \A v, w \in Workers :
        /\ worker[v].pc \in Serving /\ worker[w].pc \in Serving
        /\ worker[v].job = worker[w].job
        => v = w

\* Inductive for workers that do not stall.
OutcomeInv ==
    /\ SendInv
    /\ HandIsFirm
    /\ OneHand
    /\ SealedIsLast
=============================================================================
