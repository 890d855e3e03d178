------------------------------- MODULE Outbox -------------------------------
(***************************************************************************)
(* The integration outbox (app/services/outbox.py): workers take events    *)
(* and deliver each to its endpoints, one after the other, with a commit   *)
(* after every endpoint; stale recovery at process start; the manual retry *)
(* and the changes of endpoints (app/api/integrations.py).                 *)
(*                                                                         *)
(* A worker works on the row object it loaded with the claim.  Its commits *)
(* write whole columns by primary key, whatever became of the row in       *)
(* between: `marks' (the finished endpoints in delivery_state) and the     *)
(* status of one worker may replace those of another.                      *)
(***************************************************************************)
EXTENDS Integers, FiniteSets

CONSTANTS
    Events,       \* events of one organisation
    Endpoints,    \* integration endpoints
    Workers,      \* worker processes
    MaxAttempts,  \* event.max_attempts
    None,         \* no event, no endpoint
    SpendBound    \* bound: crashes, changes of endpoints and manual retries, together

ASSUME OutboxAssumption ==
    /\ MaxAttempts \in Nat \ {0}
    /\ SpendBound \in Nat
    /\ None \notin Events \cup Endpoints

VARIABLES
    event,      \* outbox_events rows
    endpoint,   \* integration_endpoints rows
    worker,     \* each process: where it is, the event it has loaded
    retrying,   \* events that a manual retry has read and will write
    got,        \* pairs <<event, endpoint>>: what the endpoints have taken
    owed,       \* history: the endpoints that want the event and were active throughout
    contested,  \* history: events put back although a live worker served them
    spent       \* crashes, changes and retries so far (only to bound them)

vars == <<event, endpoint, worker, retrying, got, owed, contested, spent>>

\* `tries' is attempt_count, counted up to MaxAttempts: beyond it nothing depends on it.
\* `fixed': target_endpoint_ids is not null, and is `targets'.
EventRow ==
    [status: {"absent", "PENDING", "PROCESSING", "RETRY", "DELIVERED", "DEAD"},
     tries: 0 .. MaxAttempts, fixed: BOOLEAN, targets: SUBSET Endpoints,
     marks: SUBSET Endpoints]

EndpointRow == [exists: BOOLEAN, active: BOOLEAN, wants: BOOLEAN]

Serving == {"claimed", "visiting", "called", "failing"}

Process ==
    [pc: {"down", "booted", "idle"} \cup Serving,
     event: Events \cup {None}, try: 0 .. MaxAttempts, fixed: BOOLEAN, targets: SUBSET Endpoints,
     marks: SUBSET Endpoints, active: SUBSET Endpoints,
     endpoint: Endpoints \cup {None}, ok: BOOLEAN, stale: SUBSET Events]

OutboxTypeOK ==
    /\ event \in [Events -> EventRow]
    /\ endpoint \in [Endpoints -> EndpointRow]
    /\ worker \in [Workers -> Process]
    /\ retrying \subseteq Events
    /\ got \subseteq Events \X Endpoints
    /\ owed \in [Events -> SUBSET Endpoints]
    /\ contested \subseteq Events
    /\ spent \in 0 .. SpendBound

\* A process between two calls of process_next has no event loaded.
At(pc) == [pc |-> pc, event |-> None, try |-> 0, fixed |-> FALSE, targets |-> {},
           marks |-> {}, active |-> {}, endpoint |-> None, ok |-> FALSE, stale |-> {}]

Init ==
    /\ event = [e \in Events |-> [status |-> "absent", tries |-> 0, fixed |-> FALSE,
                                  targets |-> {}, marks |-> {}]]
    /\ endpoint = [p \in Endpoints |-> [exists |-> TRUE, active |-> TRUE, wants |-> TRUE]]
    /\ worker = [w \in Workers |-> At("down")]
    /\ retrying = {}
    /\ got = {}
    /\ owed = [e \in Events |-> {}]
    /\ contested = {}
    /\ spent = 0

Spend == spent < SpendBound /\ spent' = spent + 1

Active == {p \in Endpoints : endpoint[p].exists /\ endpoint[p].active}
Subscribed == {p \in Active : endpoint[p].wants}

Served(e) == \E w \in Workers : worker[w].pc \in Serving /\ worker[w].event = e

\* Sets the status of events E; whoever serves one of them does not learn of it.
PutBack(E) ==
    /\ event' = [e \in Events |-> IF e \in E THEN [event[e] EXCEPT !.status = "RETRY"]
                                             ELSE event[e]]
    /\ contested' = contested \cup {e \in E : Served(e)}

-----------------------------------------------------------------------------
(***************************************************************************)
(* The application.                                                        *)
(***************************************************************************)

Enqueue(e) ==
    /\ event[e].status = "absent"
    /\ event' = [event EXCEPT ![e].status = "PENDING"]
    /\ owed' = [owed EXCEPT ![e] = Subscribed]
    /\ UNCHANGED <<endpoint, worker, retrying, got, contested, spent>>

\* test_integration: an event for one endpoint, active or not.
EnqueueTest(e, p) ==
    /\ event[e].status = "absent"
    /\ endpoint[p].exists
    /\ event' = [event EXCEPT ![e].status = "PENDING", ![e].fixed = TRUE,
                              ![e].targets = {p}]
    /\ owed' = [owed EXCEPT ![e] = {p} \cap Active]
    /\ UNCHANGED <<endpoint, worker, retrying, got, contested, spent>>

\* An endpoint that is switched off, deleted or no longer wants the event type
\* has no claim to events that are not delivered yet.
Change(p, r) ==
    /\ Spend
    /\ endpoint[p].exists
    /\ endpoint' = [endpoint EXCEPT ![p] = r]
    /\ owed' = [e \in Events |-> IF r.exists /\ r.active /\ r.wants THEN owed[e] ELSE owed[e] \ {p}]
    /\ UNCHANGED <<event, worker, retrying, got, contested>>

PatchIntegration(p) ==
    \E r \in EndpointRow : r.exists /\ r # endpoint[p] /\ Change(p, r)

DeleteIntegration(p) == Change(p, [endpoint[p] EXCEPT !.exists = FALSE])

\* retry_outbox_event reads the row without a lock.  A retry of an event in
\* RETRY changes its due time only, which is not modelled.
RetryRead(e) ==
    /\ Spend
    /\ event[e].status = "DEAD"
    /\ e \notin retrying
    /\ retrying' = retrying \cup {e}
    /\ UNCHANGED <<event, endpoint, worker, got, owed, contested>>

RetryCommit(e) ==
    /\ e \in retrying
    /\ retrying' = retrying \ {e}
    /\ PutBack({e})
    /\ UNCHANGED <<endpoint, worker, got, owed, spent>>

-----------------------------------------------------------------------------
(***************************************************************************)
(* The worker.                                                             *)
(***************************************************************************)

\* recover_stale reads the stale rows, and writes them by primary key.  Which
\* events have been in processing for longer than outbox_lease_minutes is left
\* open: a live worker may be slow, a dead one may have died just now.
Start(w) ==
    /\ worker[w].pc = "down"
    /\ \E stale \in SUBSET {e \in Events : event[e].status = "PROCESSING"} :
         worker' = [worker EXCEPT ![w] = [At("booted") EXCEPT !.stale = stale]]
    /\ UNCHANGED <<event, endpoint, retrying, got, owed, contested, spent>>

RecoverStale(w) ==
    /\ worker[w].pc = "booted"
    /\ PutBack(worker[w].stale)
    /\ worker' = [worker EXCEPT ![w] = At("idle")]
    /\ UNCHANGED <<endpoint, retrying, got, owed, spent>>

\* Mutant: the claim starts from an empty delivery_state.
ForgottenMarks(e) == {}

KnownMarks(e) == event[e].marks

NextTry(e) == IF event[e].tries < MaxAttempts THEN event[e].tries + 1 ELSE MaxAttempts

\* The due times and the lock of the selected row are left out.
Claim(w, e) ==
    LET try == NextTry(e)
    IN /\ worker[w].pc = "idle"
       /\ event[e].status \in {"PENDING", "RETRY"}
       /\ event' = [event EXCEPT ![e].status = "PROCESSING", ![e].tries = try]
       /\ worker' = [worker EXCEPT ![w] =
                       [At("claimed") EXCEPT !.event = e, !.try = try, !.fixed = event[e].fixed,
                                             !.targets = event[e].targets,
                                             !.marks = KnownMarks(e)]]
       /\ UNCHANGED <<endpoint, retrying, got, owed, contested, spent>>

\* The endpoints are read once; without a snapshot of targets one is taken.
ChooseTargets(w) ==
    LET e == worker[w].event
        chosen == IF worker[w].fixed THEN worker[w].targets ELSE Subscribed
    IN /\ worker[w].pc = "claimed"
       /\ worker' = [worker EXCEPT ![w].pc = "visiting", ![w].fixed = TRUE,
                                   ![w].targets = chosen, ![w].active = Active]
       /\ event' = IF worker[w].fixed THEN event
                   ELSE [event EXCEPT ![e].fixed = TRUE, ![e].targets = chosen]
       /\ UNCHANGED <<endpoint, retrying, got, owed, contested, spent>>

Left(w) == worker[w].targets \ worker[w].marks

\* The commit after an endpoint: delivery_state becomes what this worker knows.
Marked(w, p) ==
    LET known == worker[w].marks \cup {p}
    IN /\ worker' = [worker EXCEPT ![w].pc = "visiting", ![w].marks = known,
                                   ![w].endpoint = None, ![w].ok = FALSE]
       /\ event' = [event EXCEPT ![worker[w].event].marks = known]

Skip(w, p) ==
    /\ worker[w].pc = "visiting"
    /\ p \in Left(w) \ worker[w].active
    /\ Marked(w, p)
    /\ UNCHANGED <<endpoint, retrying, got, owed, contested, spent>>

\* _deliver: the endpoint may take the event although the worker sees an error.
Call(w, p) ==
    /\ worker[w].pc = "visiting"
    /\ p \in Left(w) \cap worker[w].active
    /\ \E taken, ok \in BOOLEAN :
         /\ ok => taken
         /\ got' = IF taken THEN got \cup {<<worker[w].event, p>>} ELSE got
         /\ worker' = [worker EXCEPT ![w].pc = "called", ![w].endpoint = p, ![w].ok = ok]
    /\ UNCHANGED <<event, endpoint, retrying, owed, contested, spent>>

Deliver(w) ==
    /\ worker[w].pc = "called"
    /\ worker[w].ok
    /\ endpoint[worker[w].endpoint].exists
    /\ Marked(w, worker[w].endpoint)
    /\ UNCHANGED <<endpoint, retrying, got, owed, contested, spent>>

\* From here on the worker needs its event and the number of the attempt.
Failing(w, try) ==
    worker' = [worker EXCEPT ![w] = [At("failing") EXCEPT !.event = worker[w].event, !.try = try]]

\* The commit with the endpoint's error writes delivery_state too.
Refuse(w) ==
    /\ worker[w].pc = "called"
    /\ ~worker[w].ok
    /\ endpoint[worker[w].endpoint].exists
    /\ event' = [event EXCEPT ![worker[w].event].marks = worker[w].marks]
    /\ Failing(w, worker[w].try)
    /\ UNCHANGED <<endpoint, retrying, got, owed, contested, spent>>

\* The endpoint's row is gone: the commit fails and is rolled back, and the
\* handler of the error reads the event anew.
RecordLost(w) ==
    /\ worker[w].pc = "called"
    /\ ~endpoint[worker[w].endpoint].exists
    /\ Failing(w, event[worker[w].event].tries)
    /\ UNCHANGED <<event, endpoint, retrying, got, owed, contested, spent>>

\* Mutant: an event that keeps failing is retried for ever.
NeverExhausted(try) == FALSE

Exhausted(try) == try >= MaxAttempts

Fail(w) ==
    LET e == worker[w].event
    IN /\ worker[w].pc = "failing"
       /\ event' = [event EXCEPT ![e].status = IF Exhausted(worker[w].try) THEN "DEAD" ELSE "RETRY"]
       /\ worker' = [worker EXCEPT ![w] = At("idle")]
       /\ UNCHANGED <<endpoint, retrying, got, owed, contested, spent>>

\* Mutant: an endpoint that failed does not hold the event back.
SomeDone(w) == worker[w].targets = {} \/ worker[w].marks # {}

AllDone(w) == Left(w) = {}

Finish(w) ==
    /\ worker[w].pc = "visiting"
    /\ AllDone(w)
    /\ event' = [event EXCEPT ![worker[w].event].status = "DELIVERED"]
    /\ worker' = [worker EXCEPT ![w] = At("idle")]
    /\ UNCHANGED <<endpoint, retrying, got, owed, contested, spent>>

Crash(w) ==
    /\ Spend
    /\ worker[w].pc # "down"
    /\ worker' = [worker EXCEPT ![w] = At("down")]
    /\ UNCHANGED <<event, endpoint, retrying, got, owed, contested>>

WorkerStep(w) ==
    \/ Start(w) \/ RecoverStale(w) \/ ChooseTargets(w)
    \/ Deliver(w) \/ Refuse(w) \/ RecordLost(w) \/ Fail(w) \/ Finish(w)
    \/ \E e \in Events : Claim(w, e)
    \/ \E p \in Endpoints : Skip(w, p) \/ Call(w, p)

Next ==
    \/ \E w \in Workers : WorkerStep(w) \/ Crash(w)
    \/ \E e \in Events : Enqueue(e) \/ RetryRead(e) \/ RetryCommit(e)
    \/ \E e \in Events, p \in Endpoints : EnqueueTest(e, p)
    \/ \E p \in Endpoints : PatchIntegration(p) \/ DeleteIntegration(p)

Spec == Init /\ [][Next]_vars

FairSpec == Spec /\ \A w \in Workers : WF_vars(WorkerStep(w))

-----------------------------------------------------------------------------
(***************************************************************************)
(* Properties.                                                             *)
(***************************************************************************)

Takers(e) == {p \in Endpoints : <<e, p>> \in got}

\* Whoever counts as finished has taken the event, or is not owed it any more.
Honest(e, marks) == marks \cap owed[e] \subseteq Takers(e)

RowsHonest ==
    \A e \in Events :
      /\ Honest(e, event[e].marks)
      /\ owed[e] \subseteq IF event[e].fixed THEN event[e].targets \cap Active ELSE Subscribed
      /\ event[e].status = "absent" => ~event[e].fixed /\ event[e].marks = {} /\ e \notin retrying

WorkersHonest ==
    \A w \in Workers :
      /\ \A e \in worker[w].stale : event[e].status # "absent"
      /\ worker[w].pc \in Serving =>
           LET e == worker[w].event
           IN /\ e \in Events
              /\ event[e].status # "absent"
              /\ Honest(e, worker[w].marks)
              /\ worker[w].pc = "claimed" =>
                   owed[e] \subseteq IF worker[w].fixed THEN worker[w].targets ELSE Subscribed
              /\ worker[w].pc \in {"visiting", "called"} =>
                   owed[e] \subseteq worker[w].targets \cap worker[w].active
              /\ worker[w].pc = "called" =>
                   /\ worker[w].endpoint \in Endpoints
                   /\ worker[w].ok => <<e, worker[w].endpoint>> \in got

\* The inductive invariant behind the outbox's promise: the rows and what the
\* workers have loaded of them may differ, and each is honest about who took
\* the event, and none leaves out an endpoint that is owed it.
OutboxInv ==
    /\ OutboxTypeOK
    /\ RowsHonest
    /\ WorkersHonest
    /\ \A e \in Events : event[e].status = "DELIVERED" => owed[e] \subseteq Takers(e)

Serves(w, e) == worker[w].pc \in Serving /\ worker[w].event = e

\* An event that was never put back under a worker has one worker at most, which knows
\* what the row says: without it a retry could repeat what is recorded.
OneServes ==
    \A e \in Events \ contested : \A w \in Workers : Serves(w, e) =>
      /\ event[e].status = "PROCESSING"
      /\ \A v \in Workers : Serves(v, e) => v = w
      /\ worker[w].pc # "failing" => worker[w].marks = event[e].marks

Promise == INSTANCE AtLeastOnce
    WITH published <- {e \in Events : event[e].status # "absent"},
         declared <- {e \in Events : event[e].status = "DELIVERED"}

\* The outbox keeps its promise: when an event's status becomes DELIVERED, every
\* endpoint that wanted it and has been active since it was enqueued has taken
\* it, although workers overwrite each other's delivery_state and snapshots,
\* crash between call and commit, and recovery hands events to a second worker.
KeepsPromise == Promise!ASpec

\* "A successful endpoint is not called again after another one failed"
\* (ARCHITECTURE.md:398), unless the event was put back under a live worker:
\* crashes, failures and retries alone never repeat a call that is recorded.
SuccessIsNotRepeated ==
    [][\A w \in Workers :
         (worker[w].pc = "visiting" /\ worker'[w].pc = "called")
           => \/ worker'[w].endpoint \notin event[worker[w].event].marks
              \/ worker[w].event \in contested]_vars

Settled(e) == event[e].status \in {"DELIVERED", "DEAD"}
Orphaned(e) == event[e].status = "PROCESSING" /\ ~Served(e)

\* An enqueued event ends delivered or dead, whatever its endpoints answer,
\* unless its worker dies: then it waits for the recovery of a later start.
EventSettles ==
    \A e \in Events : event[e].status # "absent" ~> Settled(e) \/ Orphaned(e)
=============================================================================
