---------------------------- MODULE OutboxProofs ----------------------------
(***************************************************************************)
(* The outbox keeps its promise, for any number of events, endpoints and   *)
(* workers: module Outbox implements module AtLeastOnce.                   *)
(***************************************************************************)
EXTENDS Outbox, TLAPS

LEMMA InitInv == OutboxAssumption /\ Init => OutboxInv
<1> SUFFICES ASSUME OutboxAssumption, Init PROVE OutboxInv
  OBVIOUS
<1> USE DEF Init, At
<1>1. OutboxTypeOK
  BY DEF OutboxAssumption, OutboxTypeOK, EventRow, EndpointRow, Process, Serving
<1>2. RowsHonest
  BY DEF RowsHonest, Honest, Subscribed
<1>3. WorkersHonest
  BY DEF WorkersHonest, Serving
<1> QED BY <1>1, <1>2, <1>3 DEF OutboxInv

-----------------------------------------------------------------------------
(***************************************************************************)
(* Types.                                                                  *)
(***************************************************************************)

LEMMA IdleType ==
    ASSUME OutboxAssumption, NEW pc \in {"down", "booted", "idle"} \cup Serving
    PROVE  At(pc) \in Process
BY DEF At, Process, OutboxAssumption

LEMMA OneWorker ==
    ASSUME OutboxTypeOK, NEW w \in Workers, NEW r \in Process,
           worker' = [worker EXCEPT ![w] = r]
    PROVE  worker' \in [Workers -> Process]
BY DEF OutboxTypeOK

LEMMA OneEvent ==
    ASSUME OutboxTypeOK, NEW e \in Events, NEW r \in EventRow,
           event' = [event EXCEPT ![e] = r]
    PROVE  event' \in [Events -> EventRow]
BY DEF OutboxTypeOK

LEMMA RestTyped ==
    ASSUME OutboxTypeOK, event' \in [Events -> EventRow], worker' \in [Workers -> Process],
           endpoint' = endpoint, owed' = owed, retrying' \subseteq Events,
           got' \subseteq Events \X Endpoints, contested' \subseteq Events,
           spent' \in 0 .. SpendBound
    PROVE  OutboxTypeOK'
BY DEF OutboxTypeOK

LEMMA PutBackTyped ==
    ASSUME OutboxTypeOK, NEW E \in SUBSET Events, PutBack(E)
    PROVE  event' \in [Events -> EventRow] /\ contested' \subseteq Events
<1>1. event' = [e \in Events |-> IF e \in E THEN [event[e] EXCEPT !.status = "RETRY"]
                                           ELSE event[e]]
  BY DEF PutBack
<1>2. \A e \in Events : event[e] \in EventRow
  BY DEF OutboxTypeOK
<1>3. \A e \in Events : [event[e] EXCEPT !.status = "RETRY"] \in EventRow
  BY <1>2 DEF EventRow
<1>4. contested' \subseteq Events
  BY DEF PutBack, OutboxTypeOK
<1> QED BY <1>1, <1>2, <1>3, <1>4

LEMMA TypeWorker ==
    ASSUME OutboxAssumption, OutboxTypeOK, WorkersHonest, NEW w \in Workers,
           WorkerStep(w) \/ Crash(w)
    PROVE  OutboxTypeOK'
<1> DEFINE e == worker[w].event
           q == worker[w].endpoint
<1>1. worker[w] \in Process
  BY DEF OutboxTypeOK
<1>2. worker[w].pc \in Serving => e \in Events /\ event[e] \in EventRow
  BY DEF OutboxTypeOK, WorkersHonest
<1>3. worker[w].pc = "called" => q \in Endpoints
  BY DEF WorkersHonest, Serving
<1>4. Active \subseteq Endpoints /\ Subscribed \subseteq Endpoints
  BY DEF Active, Subscribed
<1>5. /\ event \in [Events -> EventRow] /\ retrying \subseteq Events /\ spent \in 0 .. SpendBound
      /\ got \subseteq Events \X Endpoints /\ contested \subseteq Events
  BY DEF OutboxTypeOK
<1> HIDE DEF e, q
<1>6. CASE Start(w)
  <2>1. PICK stale \in SUBSET {x \in Events : event[x].status = "PROCESSING"} :
           worker' = [worker EXCEPT ![w] = [At("booted") EXCEPT !.stale = stale]]
    BY <1>6 DEF Start
  <2>2. [At("booted") EXCEPT !.stale = stale] \in Process
    BY <2>1, IdleType DEF Process
  <2> QED BY <1>5, <1>6, <2>1, <2>2, OneWorker, RestTyped DEF Start
<1>7. CASE RecoverStale(w)
  <2>1. worker[w].stale \in SUBSET Events
    BY <1>1 DEF Process
  <2>2. worker' \in [Workers -> Process]
    BY <1>7, IdleType, OneWorker DEF RecoverStale
  <2> QED BY <1>5, <1>7, <2>1, <2>2, PutBackTyped, RestTyped DEF RecoverStale
<1>8. CASE ChooseTargets(w)
  <2> DEFINE chosen == IF worker[w].fixed THEN worker[w].targets ELSE Subscribed
  <2>1. e \in Events /\ event[e] \in EventRow
    BY <1>2, <1>8 DEF ChooseTargets, Serving
  <2>2. chosen \in SUBSET Endpoints
    BY <1>1, <1>4 DEF Process
  <2> HIDE DEF chosen
  <2>3. [worker[w] EXCEPT !.pc = "visiting", !.fixed = TRUE, !.targets = chosen,
                          !.active = Active] \in Process
    BY <1>1, <1>4, <2>2 DEF Process, Serving
  <2>4. [event[e] EXCEPT !.fixed = TRUE, !.targets = chosen] \in EventRow
    BY <2>1, <2>2 DEF EventRow
  <2>5. worker' = [worker EXCEPT ![w] = [worker[w] EXCEPT !.pc = "visiting", !.fixed = TRUE,
                                                !.targets = chosen, !.active = Active]]
    BY <1>8 DEF ChooseTargets, chosen
  <2>6. event' = event \/ event' = [event EXCEPT ![e] =
                                      [event[e] EXCEPT !.fixed = TRUE, !.targets = chosen]]
    BY <1>8 DEF ChooseTargets, chosen, e
  <2>7. worker' \in [Workers -> Process]
    BY <2>3, <2>5, OneWorker
  <2>8. event' \in [Events -> EventRow]
    BY <1>5, <2>1, <2>4, <2>6, OneEvent
  <2> QED BY <1>5, <1>8, <2>7, <2>8, RestTyped DEF ChooseTargets
<1>9. ASSUME NEW p \in Endpoints, worker[w].pc \in {"visiting", "called"}, Marked(w, p)
      PROVE  event' \in [Events -> EventRow] /\ worker' \in [Workers -> Process]
  <2> DEFINE known == worker[w].marks \cup {p}
  <2>1. e \in Events /\ event[e] \in EventRow
    BY <1>2, <1>9 DEF Serving
  <2>2. known \in SUBSET Endpoints
    BY <1>1, <1>9 DEF Process
  <2>3. worker' = [worker EXCEPT ![w] = [worker[w] EXCEPT !.pc = "visiting", !.marks = known,
                                                         !.endpoint = None, !.ok = FALSE]]
    BY <1>9 DEF Marked
  <2>4. event' = [event EXCEPT ![e] = [event[e] EXCEPT !.marks = known]]
    BY <1>9 DEF Marked, e
  <2> HIDE DEF known
  <2>5. [worker[w] EXCEPT !.pc = "visiting", !.marks = known, !.endpoint = None, !.ok = FALSE]
          \in Process
    BY <1>1, <2>2 DEF Process, Serving
  <2>6. [event[e] EXCEPT !.marks = known] \in EventRow
    BY <2>1, <2>2 DEF EventRow
  <2>7. worker' \in [Workers -> Process]
    BY <2>3, <2>5, OneWorker
  <2>8. event' \in [Events -> EventRow]
    BY <2>1, <2>4, <2>6, OneEvent
  <2> QED BY <2>7, <2>8
<1>10. CASE Deliver(w)
  BY <1>3, <1>5, <1>9, <1>10, RestTyped DEF Deliver, q
<1>11. ASSUME NEW p \in Endpoints, Skip(w, p) PROVE OutboxTypeOK'
  BY <1>5, <1>9, <1>11, RestTyped DEF Skip
<1>12. ASSUME NEW try \in 0 .. MaxAttempts, e \in Events, Failing(w, try)
       PROVE  worker' \in [Workers -> Process]
  <2>1. [At("failing") EXCEPT !.event = e, !.try = try] \in Process
    BY <1>12 DEF At, Process, Serving
  <2>2. worker' = [worker EXCEPT ![w] = [At("failing") EXCEPT !.event = e, !.try = try]]
    BY <1>12 DEF Failing, e
  <2> QED BY <2>1, <2>2, OneWorker
<1>13. CASE Refuse(w)
  <2>1. e \in Events /\ event[e] \in EventRow
    BY <1>2, <1>13 DEF Refuse, Serving
  <2>2. worker' \in [Workers -> Process]
    <3>1. worker[w].try \in 0 .. MaxAttempts
      BY <1>1 DEF Process
    <3> QED BY <1>12, <1>13, <2>1, <3>1 DEF Refuse
  <2>3. [event[e] EXCEPT !.marks = worker[w].marks] \in EventRow
    BY <1>1, <2>1 DEF EventRow, Process
  <2>4. event' = [event EXCEPT ![e] = [event[e] EXCEPT !.marks = worker[w].marks]]
    BY <1>13 DEF Refuse, e
  <2>5. event' \in [Events -> EventRow]
    BY <2>1, <2>3, <2>4, OneEvent
  <2> QED BY <1>5, <1>13, <2>2, <2>5, RestTyped DEF Refuse
<1>14. CASE RecordLost(w)
  <2>1. e \in Events /\ event[e] \in EventRow
    BY <1>2, <1>14 DEF RecordLost, Serving
  <2>2. event[e].tries \in 0 .. MaxAttempts
    BY <2>1 DEF EventRow
  <2>3. Failing(w, event[e].tries)
    BY <1>14 DEF RecordLost, e
  <2>4. worker' \in [Workers -> Process]
    BY <1>12, <2>1, <2>2, <2>3
  <2> QED BY <1>5, <1>14, <2>4, RestTyped DEF RecordLost
<1>15. ASSUME worker[w].pc \in Serving,
              NEW s \in {"DEAD", "RETRY", "DELIVERED"},
              event' = [event EXCEPT ![e].status = s],
              worker' = [worker EXCEPT ![w] = At("idle")]
       PROVE  event' \in [Events -> EventRow] /\ worker' \in [Workers -> Process]
  <2>1. e \in Events /\ [event[e] EXCEPT !.status = s] \in EventRow
    BY <1>2, <1>15 DEF EventRow
  <2>2. event' = [event EXCEPT ![e] = [event[e] EXCEPT !.status = s]]
    BY <1>15
  <2>3. event' \in [Events -> EventRow]
    BY <2>1, <2>2, OneEvent
  <2>4. worker' \in [Workers -> Process]
    BY <1>15, IdleType, OneWorker
  <2> QED BY <2>3, <2>4
<1>16. CASE Fail(w)
  <2>1. PICK s \in {"DEAD", "RETRY"} : event' = [event EXCEPT ![e].status = s]
    BY <1>16 DEF Fail, e
  <2> QED BY <1>5, <1>15, <1>16, <2>1, RestTyped DEF Fail, Serving
<1>17. CASE Finish(w)
  BY <1>5, <1>15, <1>17, RestTyped DEF Finish, Serving, e
<1>18. ASSUME NEW x \in Events, Claim(w, x) PROVE OutboxTypeOK'
  <2> DEFINE try == NextTry(x)
             r == [At("claimed") EXCEPT !.event = x, !.try = try, !.fixed = event[x].fixed,
                                        !.targets = event[x].targets, !.marks = KnownMarks(x)]
             row == [event[x] EXCEPT !.status = "PROCESSING", !.tries = try]
  <2>1. event[x] \in EventRow
    BY <1>5
  <2>2. try \in 0 .. MaxAttempts
    BY <2>1 DEF EventRow, NextTry, OutboxAssumption
  <2>3. worker' = [worker EXCEPT ![w] = r]
    BY <1>18 DEF Claim
  <2>4. event' = [event EXCEPT ![x] = row]
    BY <1>18 DEF Claim
  <2> HIDE DEF try
  <2>5. r \in Process
    BY <2>1, <2>2 DEF At, Process, EventRow, KnownMarks, Serving
  <2>6. row \in EventRow
    BY <2>1, <2>2 DEF EventRow
  <2> HIDE DEF r, row
  <2>7. event' \in [Events -> EventRow] /\ worker' \in [Workers -> Process]
    BY <2>3, <2>4, <2>5, <2>6, OneEvent, OneWorker
  <2> QED BY <1>5, <1>18, <2>7, RestTyped DEF Claim
<1>19. ASSUME NEW p \in Endpoints, Call(w, p) PROVE OutboxTypeOK'
  <2>1. e \in Events
    BY <1>2, <1>19 DEF Call, Serving
  <2>2. PICK taken \in BOOLEAN, ok \in BOOLEAN :
          /\ got' = IF taken THEN got \cup {<<e, p>>} ELSE got
          /\ worker' = [worker EXCEPT ![w].pc = "called", ![w].endpoint = p, ![w].ok = ok]
    BY <1>19 DEF Call, e
  <2>3. got' \subseteq Events \X Endpoints
    BY <1>5, <2>1, <2>2
  <2>4. [worker[w] EXCEPT !.pc = "called", !.endpoint = p, !.ok = ok] \in Process
    BY <1>1 DEF Process, Serving
  <2>5. worker' = [worker EXCEPT ![w] = [worker[w] EXCEPT !.pc = "called", !.endpoint = p,
                                                          !.ok = ok]]
    BY <2>2
  <2>6. worker' \in [Workers -> Process]
    BY <2>4, <2>5, OneWorker
  <2> QED BY <1>5, <1>19, <2>3, <2>6, RestTyped DEF Call
<1>20. CASE Crash(w)
  <2>1. worker' \in [Workers -> Process]
    BY <1>20, IdleType, OneWorker DEF Crash
  <2>2. spent' \in 0 .. SpendBound
    BY <1>5, <1>20 DEF Crash, Spend, OutboxAssumption
  <2> QED BY <1>5, <1>20, <2>1, <2>2, RestTyped DEF Crash
<1> QED BY <1>6, <1>7, <1>8, <1>10, <1>11, <1>13, <1>14, <1>16, <1>17, <1>18, <1>19, <1>20
        DEF WorkerStep

LEMMA TypeOther ==
    ASSUME OutboxAssumption, OutboxTypeOK, Next,
           \A w \in Workers : ~WorkerStep(w) /\ ~Crash(w)
    PROVE  OutboxTypeOK'
<1>1. /\ event \in [Events -> EventRow] /\ retrying \subseteq Events /\ spent \in 0 .. SpendBound
      /\ endpoint \in [Endpoints -> EndpointRow] /\ owed \in [Events -> SUBSET Endpoints]
      /\ worker \in [Workers -> Process]
      /\ got \subseteq Events \X Endpoints /\ contested \subseteq Events
  BY DEF OutboxTypeOK
<1>2. Active \subseteq Endpoints /\ Subscribed \subseteq Endpoints
  BY DEF Active, Subscribed
<1>3. ASSUME NEW x \in Events, Enqueue(x) PROVE OutboxTypeOK'
  <2>1. [event[x] EXCEPT !.status = "PENDING"] \in EventRow
    BY <1>1 DEF EventRow
  <2>2. event' \in [Events -> EventRow]
    BY <1>3, <2>1, OneEvent DEF Enqueue
  <2>3. owed' \in [Events -> SUBSET Endpoints]
    BY <1>1, <1>2, <1>3 DEF Enqueue
  <2> QED BY <1>1, <1>3, <2>2, <2>3 DEF Enqueue, OutboxTypeOK
<1>4. ASSUME NEW x \in Events, NEW p \in Endpoints, EnqueueTest(x, p) PROVE OutboxTypeOK'
  <2>0. event[x] \in EventRow /\ {p} \in SUBSET Endpoints
    BY <1>1
  <2>1. [event[x] EXCEPT !.status = "PENDING", !.fixed = TRUE, !.targets = {p}] \in EventRow
    BY <2>0 DEF EventRow
  <2>2. event' = [event EXCEPT ![x] = [event[x] EXCEPT !.status = "PENDING", !.fixed = TRUE,
                                                       !.targets = {p}]]
    BY <1>4 DEF EnqueueTest
  <2>3. event' \in [Events -> EventRow]
    BY <2>1, <2>2, OneEvent
  <2>4. owed' \in [Events -> SUBSET Endpoints]
    BY <1>1, <1>2, <1>4 DEF EnqueueTest
  <2> QED BY <1>1, <1>4, <2>3, <2>4 DEF EnqueueTest, OutboxTypeOK
<1>5. ASSUME NEW x \in Events, RetryRead(x) PROVE OutboxTypeOK'
  BY <1>1, <1>5 DEF RetryRead, Spend, OutboxTypeOK, OutboxAssumption
<1>6. ASSUME NEW x \in Events, RetryCommit(x) PROVE OutboxTypeOK'
  <2>1. event' \in [Events -> EventRow] /\ contested' \subseteq Events
    BY <1>6, PutBackTyped DEF RetryCommit
  <2> QED BY <1>1, <1>6, <2>1 DEF RetryCommit, OutboxTypeOK
<1>7. ASSUME NEW p \in Endpoints, NEW r \in EndpointRow, Change(p, r) PROVE OutboxTypeOK'
  <2>1. endpoint' \in [Endpoints -> EndpointRow]
    BY <1>1, <1>7 DEF Change
  <2>2. owed' \in [Events -> SUBSET Endpoints]
    BY <1>1, <1>7 DEF Change
  <2>3. spent' \in 0 .. SpendBound
    BY <1>1, <1>7 DEF Change, Spend, OutboxAssumption
  <2> QED BY <1>1, <1>7, <2>1, <2>2, <2>3 DEF Change, OutboxTypeOK
<1>8. ASSUME NEW p \in Endpoints, DeleteIntegration(p) PROVE OutboxTypeOK'
  <2>0. endpoint[p] \in EndpointRow
    BY <1>1
  <2>1. [endpoint[p] EXCEPT !.exists = FALSE] \in EndpointRow
    BY <2>0 DEF EndpointRow
  <2> QED BY <1>7, <1>8, <2>1 DEF DeleteIntegration
<1> QED BY <1>3, <1>4, <1>5, <1>6, <1>7, <1>8 DEF Next, PatchIntegration

-----------------------------------------------------------------------------
(***************************************************************************)
(* The invariant.  Steps fall in two kinds: those of a worker, which       *)
(* leave what is owed alone, and the others, which leave the workers.      *)
(***************************************************************************)

\* The conditions of WorkersHonest on one worker.
HonestWorker(w) ==
    /\ \A e \in worker[w].stale : event[e].status # "absent"
    /\ worker[w].pc \in Serving =>
         LET e == worker[w].event
         IN /\ e \in Events
            /\ event[e].status # "absent"
            /\ Honest(e, worker[w].marks)
            /\ worker[w].pc = "claimed" =>
                 owed[e] \subseteq IF worker[w].fixed THEN worker[w].targets ELSE Subscribed
            /\ worker[w].pc \in {"visiting", "called"} =>
                 owed[e] \subseteq worker[w].targets \cap worker[w].active
            /\ worker[w].pc = "called" =>
                 /\ worker[w].endpoint \in Endpoints
                 /\ worker[w].ok => <<e, worker[w].endpoint>> \in got

\* The conditions of RowsHonest and of the last part of OutboxInv on one event.
HonestRow(e) ==
    /\ Honest(e, event[e].marks)
    /\ owed[e] \subseteq IF event[e].fixed THEN event[e].targets \cap Active ELSE Subscribed
    /\ event[e].status = "absent" => ~event[e].fixed /\ event[e].marks = {} /\ e \notin retrying
    /\ event[e].status = "DELIVERED" => owed[e] \subseteq Takers(e)

LEMMA InvParts ==
    OutboxInv <=> /\ OutboxTypeOK
                  /\ \A e \in Events : HonestRow(e)
                  /\ \A w \in Workers : HonestWorker(w)
BY DEF OutboxInv, RowsHonest, WorkersHonest, HonestRow, HonestWorker

\* What a step of one worker leaves alone keeps every other worker honest.
LEMMA OthersHonest ==
    ASSUME OutboxInv, OutboxTypeOK', NEW w \in Workers, NEW r,
           worker' = [worker EXCEPT ![w] = r],
           endpoint' = endpoint, owed' = owed, got \subseteq got',
           \A e \in Events : event[e].status # "absent" => event'[e].status # "absent",
           NEW v \in Workers, v # w
    PROVE  HonestWorker(v)'
<1>1. worker'[v] = worker[v]
  BY DEF OutboxInv, OutboxTypeOK
<1>2. HonestWorker(v)
  BY InvParts
<1>3. Subscribed' = Subscribed /\ \A e \in Events : Takers(e) \subseteq Takers(e)'
  BY DEF Subscribed, Active, Takers
<1>4. worker[v].stale \subseteq Events
  BY DEF OutboxInv, OutboxTypeOK, Process
<1> QED BY <1>1, <1>2, <1>3, <1>4 DEF HonestWorker, Honest

\* A row keeps its promise when its snapshot and marks stay, its status does not
\* become absent, and DELIVERED is not new.
LEMMA RowKept ==
    ASSUME OutboxInv, endpoint' = endpoint, owed' = owed, got \subseteq got', NEW x \in Events,
           retrying' = retrying \/ event'[x].status # "absent",
           event'[x].fixed = event[x].fixed, event'[x].targets = event[x].targets,
           event'[x].marks = event[x].marks,
           event'[x].status = "absent" => event[x].status = "absent",
           event'[x].status = "DELIVERED" => event[x].status = "DELIVERED"
    PROVE  HonestRow(x)'
<1>1. HonestRow(x)
  BY InvParts
<1>2. Subscribed' = Subscribed /\ Active' = Active /\ Takers(x) \subseteq Takers(x)'
  BY DEF Subscribed, Active, Takers
<1> QED BY <1>1, <1>2 DEF HonestRow, Honest

\* A step of worker w keeps the invariant when it keeps w and the rows honest.
LEMMA WorkerFrame ==
    ASSUME OutboxInv, OutboxTypeOK', NEW w \in Workers, NEW r,
           worker' = [worker EXCEPT ![w] = r],
           endpoint' = endpoint, owed' = owed, got \subseteq got',
           \A e \in Events : event[e].status # "absent" => event'[e].status # "absent",
           HonestWorker(w)', \A e \in Events : HonestRow(e)'
    PROVE  OutboxInv'
<1>1. \A v \in Workers : v # w => HonestWorker(v)'
  BY OthersHonest
<1>2. /\ OutboxTypeOK'
      /\ (\A e \in Events : HonestRow(e))'
      /\ (\A v \in Workers : HonestWorker(v))'
  BY <1>1
<1> QED BY <1>2 DEF OutboxInv, RowsHonest, WorkersHonest, HonestRow, HonestWorker

LEMMA IdleHonest ==
    ASSUME NEW w \in Workers, NEW pc \in {"down", "booted", "idle"}, worker'[w] = At(pc)
    PROVE  HonestWorker(w)'
BY DEF HonestWorker, At, Serving

\* What every step of a worker that serves an event starts from.
LEMMA ServingFacts ==
    ASSUME OutboxInv, NEW w \in Workers, worker[w].pc \in Serving
    PROVE  LET e == worker[w].event
           IN /\ e \in Events
              /\ event[e] \in EventRow
              /\ worker[w] \in Process
              /\ event[e].status # "absent"
              /\ Honest(e, worker[w].marks)
              /\ HonestRow(e)
              /\ HonestWorker(w)
BY InvParts DEF OutboxInv, OutboxTypeOK, WorkersHonest

LEMMA StartKeeps ==
    ASSUME OutboxAssumption, OutboxInv, OutboxTypeOK', NEW w \in Workers, Start(w)
    PROVE  OutboxInv'
<1>1. PICK stale \in SUBSET {x \in Events : event[x].status = "PROCESSING"} :
        worker' = [worker EXCEPT ![w] = [At("booted") EXCEPT !.stale = stale]]
  BY DEF Start
<1>2. worker'[w] = [At("booted") EXCEPT !.stale = stale]
  BY <1>1 DEF OutboxInv, OutboxTypeOK
<1>3. HonestWorker(w)'
  BY <1>1, <1>2 DEF HonestWorker, At, Serving, Start
<1>4. \A x \in Events : HonestRow(x)'
  BY RowKept DEF Start
<1> QED BY <1>1, <1>3, <1>4, WorkerFrame DEF Start

LEMMA RecoverKeeps ==
    ASSUME OutboxAssumption, OutboxInv, OutboxTypeOK', NEW w \in Workers, RecoverStale(w)
    PROVE  OutboxInv'
<1>1. HonestWorker(w)
  BY InvParts
<1>2. \A x \in worker[w].stale : event[x].status # "absent"
  BY <1>1 DEF HonestWorker
<1>3. worker' = [worker EXCEPT ![w] = At("idle")] /\ worker'[w] = At("idle")
  BY DEF RecoverStale, OutboxInv, OutboxTypeOK
<1>4. ASSUME NEW x \in Events
      PROVE  HonestRow(x)' /\ (event[x].status # "absent" => event'[x].status # "absent")
  <2>1. event[x] \in EventRow
    BY DEF OutboxInv, OutboxTypeOK
  <2>2. event'[x] = IF x \in worker[w].stale THEN [event[x] EXCEPT !.status = "RETRY"]
                                             ELSE event[x]
    BY DEF RecoverStale, PutBack
  <2> QED BY <2>1, <2>2, RowKept DEF RecoverStale, EventRow
<1> QED BY <1>3, <1>4, IdleHonest, WorkerFrame DEF RecoverStale

LEMMA ClaimKeeps ==
    ASSUME OutboxAssumption, OutboxInv, OutboxTypeOK', NEW w \in Workers, NEW e \in Events,
           Claim(w, e)
    PROVE  OutboxInv'
<1> DEFINE try == NextTry(e)
           r == [At("claimed") EXCEPT !.event = e, !.try = try, !.fixed = event[e].fixed,
                                      !.targets = event[e].targets, !.marks = KnownMarks(e)]
<1>1. event[e] \in EventRow /\ event \in [Events -> EventRow] /\ worker \in [Workers -> Process]
  BY DEF OutboxInv, OutboxTypeOK
<1>2. worker' = [worker EXCEPT ![w] = r]
  BY DEF Claim
<1>3. event' = [event EXCEPT ![e] = [event[e] EXCEPT !.status = "PROCESSING", !.tries = try]]
  BY DEF Claim
<1> HIDE DEF try
<1>4. event'[e] = [event[e] EXCEPT !.status = "PROCESSING", !.tries = try]
  BY <1>1, <1>3
<1>5. /\ event'[e].status = "PROCESSING" /\ event'[e].fixed = event[e].fixed
      /\ event'[e].targets = event[e].targets /\ event'[e].marks = event[e].marks
  BY <1>1, <1>4 DEF EventRow
<1>6. ASSUME NEW x \in Events, x # e PROVE event'[x] = event[x]
  BY <1>1, <1>3, <1>6
<1>7. \A x \in Events : HonestRow(x)'
  BY <1>5, <1>6, RowKept DEF Claim
<1>8. worker'[w] = r
  BY <1>1, <1>2
<1>9. /\ worker'[w].pc = "claimed" /\ worker'[w].event = e /\ worker'[w].fixed = event[e].fixed
      /\ worker'[w].targets = event[e].targets /\ worker'[w].marks = event[e].marks
      /\ worker'[w].stale = {}
  BY <1>8 DEF At, KnownMarks
<1>10. Subscribed' = Subscribed /\ Takers(e)' = Takers(e)
  BY DEF Claim, Subscribed, Active, Takers
<1>11. HonestRow(e)
  BY InvParts
<1>12. HonestWorker(w)'
  BY <1>5, <1>9, <1>10, <1>11 DEF HonestWorker, HonestRow, Honest, Claim, Serving
<1>13. \A x \in Events : event[x].status # "absent" => event'[x].status # "absent"
  BY <1>5, <1>6
<1>14. endpoint' = endpoint /\ owed' = owed /\ got \subseteq got'
  BY DEF Claim
<1> HIDE DEF r
<1> QED BY <1>2, <1>7, <1>12, <1>13, <1>14, WorkerFrame

LEMMA ChooseKeeps ==
    ASSUME OutboxAssumption, OutboxInv, OutboxTypeOK', NEW w \in Workers, ChooseTargets(w)
    PROVE  OutboxInv'
<1>0. PICK e \in Events : e = worker[w].event
  BY ServingFacts DEF ChooseTargets, Serving
<1> DEFINE chosen == IF worker[w].fixed THEN worker[w].targets ELSE Subscribed
           r == [worker[w] EXCEPT !.pc = "visiting", !.fixed = TRUE, !.targets = chosen,
                                  !.active = Active]
<1>1. /\ event[e] \in EventRow /\ worker[w] \in Process /\ HonestRow(e)
      /\ event[e].status # "absent" /\ Honest(e, worker[w].marks) /\ HonestWorker(w)
  BY <1>0, ServingFacts DEF ChooseTargets, Serving
<1>2. event \in [Events -> EventRow] /\ worker \in [Workers -> Process]
  BY DEF OutboxInv, OutboxTypeOK
<1>3. worker' = [worker EXCEPT ![w] = r]
  BY DEF ChooseTargets
<1>4. event' = IF worker[w].fixed THEN event
               ELSE [event EXCEPT ![e] = [event[e] EXCEPT !.fixed = TRUE, !.targets = chosen]]
  BY <1>0 DEF ChooseTargets
<1>5. endpoint' = endpoint /\ owed' = owed /\ got' = got /\ retrying' = retrying
  BY DEF ChooseTargets
<1>6. Subscribed' = Subscribed /\ Active' = Active /\ Takers(e)' = Takers(e)
      /\ Subscribed \subseteq Active
  BY <1>5 DEF Subscribed, Active, Takers
<1>7. owed[e] \subseteq chosen /\ owed[e] \subseteq Active
  <2>1. worker[w].pc = "claimed"
    BY DEF ChooseTargets
  <2>2. owed[e] \subseteq chosen
    BY <1>0, <1>1, <2>1 DEF HonestWorker, Serving
  <2>3. owed[e] \subseteq Active
    BY <1>1, <1>6 DEF HonestRow
  <2> QED BY <2>2, <2>3
<1> HIDE DEF chosen
<1>8. ASSUME NEW x \in Events, event'[x] = event[x] PROVE HonestRow(x)'
  BY <1>5, <1>8, RowKept
<1>9. ASSUME ~worker[w].fixed PROVE HonestRow(e)'
  <2>1. event'[e] = [event[e] EXCEPT !.fixed = TRUE, !.targets = chosen]
    BY <1>1, <1>2, <1>4, <1>9
  <2>2. /\ event'[e].fixed /\ event'[e].targets = chosen /\ event'[e].marks = event[e].marks
        /\ event'[e].status = event[e].status
    BY <1>1, <2>1 DEF EventRow
  <2> QED BY <1>1, <1>5, <1>6, <1>7, <2>2 DEF HonestRow, Honest
<1>10. \A x \in Events : HonestRow(x)'
  BY <1>2, <1>4, <1>8, <1>9
<1>11. worker'[w] = r
  BY <1>2, <1>3
<1>12. /\ worker'[w].pc = "visiting" /\ worker'[w].targets = chosen /\ worker'[w].active = Active
       /\ worker'[w].marks = worker[w].marks /\ worker'[w].event = e
       /\ worker'[w].stale = worker[w].stale
  BY <1>1, <1>0, <1>11 DEF Process
<1>13. \A x \in Events : event[x].status # "absent" => event'[x].status # "absent"
  <2>1. ~worker[w].fixed => event'[e].status = event[e].status
    BY <1>1, <1>2, <1>4 DEF EventRow
  <2> QED BY <1>2, <1>4, <2>1
<1>14. worker[w].stale \subseteq Events
  BY <1>1 DEF Process
<1>15. HonestWorker(w)'
  BY <1>1, <1>5, <1>6, <1>7, <1>12, <1>13, <1>14 DEF HonestWorker, Honest, Serving
<1> HIDE DEF r
<1> QED BY <1>3, <1>5, <1>10, <1>13, <1>15, WorkerFrame

\* The commit after an endpoint p that has taken the event, or is not owed it.
LEMMA MarkedKeeps ==
    ASSUME OutboxAssumption, OutboxInv, OutboxTypeOK', NEW w \in Workers, NEW p \in Endpoints,
           worker[w].pc \in {"visiting", "called"}, Marked(w, p),
           p \in owed[worker[w].event] => <<worker[w].event, p>> \in got,
           UNCHANGED <<endpoint, retrying, got, owed, contested, spent>>
    PROVE  OutboxInv'
<1>0. PICK e \in Events : e = worker[w].event
  BY ServingFacts DEF Serving
<1> DEFINE known == worker[w].marks \cup {p}
           r == [worker[w] EXCEPT !.pc = "visiting", !.marks = known, !.endpoint = None,
                                  !.ok = FALSE]
<1>1. /\ event[e] \in EventRow /\ worker[w] \in Process /\ HonestRow(e)
      /\ event[e].status # "absent" /\ Honest(e, worker[w].marks) /\ HonestWorker(w)
  BY <1>0, ServingFacts DEF Serving
<1>2. event \in [Events -> EventRow] /\ worker \in [Workers -> Process]
  BY DEF OutboxInv, OutboxTypeOK
<1>3. worker' = [worker EXCEPT ![w] = r]
  BY DEF Marked
<1>4. event' = [event EXCEPT ![e] = [event[e] EXCEPT !.marks = known]]
  BY <1>0 DEF Marked
<1>5. Honest(e, known)
  BY <1>0, <1>1 DEF Honest, Takers
<1> HIDE DEF known
<1>6. event'[e] = [event[e] EXCEPT !.marks = known]
  BY <1>1, <1>2, <1>4
<1>7. /\ event'[e].marks = known /\ event'[e].fixed = event[e].fixed
      /\ event'[e].targets = event[e].targets /\ event'[e].status = event[e].status
  BY <1>1, <1>6 DEF EventRow
<1>8. \A x \in Events : x # e => event'[x] = event[x]
  BY <1>1, <1>2, <1>4
<1>9. Subscribed' = Subscribed /\ Active' = Active /\ Takers(e)' = Takers(e)
  BY DEF Subscribed, Active, Takers
<1>10. HonestRow(e)'
  BY <1>1, <1>5, <1>7, <1>9 DEF HonestRow, Honest
<1>11. \A x \in Events : HonestRow(x)'
  BY <1>8, <1>10, RowKept
<1>12. worker'[w] = r
  BY <1>2, <1>3
<1>13. /\ worker'[w].pc = "visiting" /\ worker'[w].targets = worker[w].targets
       /\ worker'[w].active = worker[w].active /\ worker'[w].marks = known
       /\ worker'[w].event = e /\ worker'[w].stale = worker[w].stale
  BY <1>1, <1>0, <1>12 DEF Process
<1>14. \A x \in Events : event[x].status # "absent" => event'[x].status # "absent"
  BY <1>7, <1>8
<1>15. worker[w].stale \subseteq Events
  BY <1>1 DEF Process
<1>16. owed[e] \subseteq worker[w].targets \cap worker[w].active
  BY <1>0, <1>1 DEF HonestWorker, Serving
<1>17. HonestWorker(w)'
  BY <1>1, <1>5, <1>9, <1>13, <1>14, <1>15, <1>16 DEF HonestWorker, Honest, Serving
<1> HIDE DEF r
<1> QED BY <1>3, <1>11, <1>14, <1>17, WorkerFrame

LEMMA SkipKeeps ==
    ASSUME OutboxAssumption, OutboxInv, OutboxTypeOK', NEW w \in Workers, NEW p \in Endpoints,
           Skip(w, p)
    PROVE  OutboxInv'
<1>1. HonestWorker(w) /\ worker[w].pc = "visiting"
  BY InvParts DEF Skip
<1>2. p \notin owed[worker[w].event]
  BY <1>1 DEF Skip, HonestWorker, Serving
<1> QED BY <1>1, <1>2, MarkedKeeps DEF Skip

LEMMA DeliverKeeps ==
    ASSUME OutboxAssumption, OutboxInv, OutboxTypeOK', NEW w \in Workers, Deliver(w)
    PROVE  OutboxInv'
<1>1. HonestWorker(w) /\ worker[w].pc = "called" /\ worker[w].ok
  BY InvParts DEF Deliver
<1>2. worker[w].endpoint \in Endpoints /\ <<worker[w].event, worker[w].endpoint>> \in got
  BY <1>1 DEF HonestWorker, Serving
<1> QED BY <1>1, <1>2, MarkedKeeps DEF Deliver

LEMMA CallKeeps ==
    ASSUME OutboxAssumption, OutboxInv, OutboxTypeOK', NEW w \in Workers, NEW p \in Endpoints,
           Call(w, p)
    PROVE  OutboxInv'
<1>0. PICK e \in Events : e = worker[w].event
  BY ServingFacts DEF Call, Serving
<1>1. /\ event[e] \in EventRow /\ worker[w] \in Process
      /\ event[e].status # "absent" /\ Honest(e, worker[w].marks) /\ HonestWorker(w)
  BY <1>0, ServingFacts DEF Call, Serving
<1>2. PICK taken \in BOOLEAN, ok \in BOOLEAN :
        /\ ok => taken
        /\ got' = IF taken THEN got \cup {<<e, p>>} ELSE got
        /\ worker' = [worker EXCEPT ![w] = [worker[w] EXCEPT !.pc = "called", !.endpoint = p,
                                                             !.ok = ok]]
  BY <1>0 DEF Call
<1>3. /\ endpoint' = endpoint /\ owed' = owed /\ retrying' = retrying /\ event' = event
      /\ got \subseteq got'
  BY <1>2 DEF Call
<1>4. \A x \in Events : HonestRow(x)'
  BY <1>3, RowKept
<1>5. worker'[w] = [worker[w] EXCEPT !.pc = "called", !.endpoint = p, !.ok = ok]
  BY <1>2 DEF OutboxInv, OutboxTypeOK
<1>6. /\ worker'[w].pc = "called" /\ worker'[w].targets = worker[w].targets
      /\ worker'[w].active = worker[w].active /\ worker'[w].marks = worker[w].marks
      /\ worker'[w].event = e /\ worker'[w].stale = worker[w].stale
      /\ worker'[w].endpoint = p /\ worker'[w].ok = ok
  BY <1>0, <1>1, <1>5 DEF Process
<1>7. Takers(e) \subseteq Takers(e)'
  BY <1>3 DEF Takers
<1>8. owed[e] \subseteq worker[w].targets \cap worker[w].active
  BY <1>0, <1>1 DEF HonestWorker, Serving, Call
<1>9. ok => <<e, p>> \in got'
  BY <1>2
<1>10. \A x \in worker[w].stale : event[x].status # "absent"
  BY <1>1 DEF HonestWorker
<1>11. HonestWorker(w)'
  BY <1>1, <1>3, <1>6, <1>7, <1>8, <1>9, <1>10 DEF HonestWorker, Honest, Serving
<1> QED BY <1>2, <1>3, <1>4, <1>11, WorkerFrame

\* An error keeps the event, and writes at most what the worker knows.
LEMMA FailingKeeps ==
    ASSUME OutboxAssumption, OutboxInv, OutboxTypeOK', NEW w \in Workers, NEW try,
           worker[w].pc = "called", Failing(w, try),
           \/ event' = event
           \/ event' = [event EXCEPT ![worker[w].event].marks = worker[w].marks],
           UNCHANGED <<endpoint, retrying, got, owed, contested, spent>>
    PROVE  OutboxInv'
<1>0. PICK e \in Events : e = worker[w].event
  BY ServingFacts DEF Serving
<1>1. /\ event[e] \in EventRow /\ worker[w] \in Process /\ HonestRow(e)
      /\ event[e].status # "absent" /\ Honest(e, worker[w].marks) /\ HonestWorker(w)
  BY <1>0, ServingFacts DEF Serving
<1>2. event \in [Events -> EventRow] /\ worker \in [Workers -> Process]
  BY DEF OutboxInv, OutboxTypeOK
<1>3. worker' = [worker EXCEPT ![w] = [At("failing") EXCEPT !.event = e, !.try = try]]
  BY <1>0 DEF Failing
<1>4. event' = event \/ event' = [event EXCEPT ![e] = [event[e] EXCEPT !.marks = worker[w].marks]]
  BY <1>0
<1>5. event'[e] = event[e] \/ event'[e] = [event[e] EXCEPT !.marks = worker[w].marks]
  BY <1>2, <1>4
<1>6. /\ event'[e].marks \in {event[e].marks, worker[w].marks}
      /\ event'[e].fixed = event[e].fixed
      /\ event'[e].targets = event[e].targets /\ event'[e].status = event[e].status
  BY <1>1, <1>5 DEF EventRow
<1>7. \A x \in Events : x # e => event'[x] = event[x]
  BY <1>2, <1>4
<1>8. Subscribed' = Subscribed /\ Active' = Active /\ Takers(e)' = Takers(e)
  BY DEF Subscribed, Active, Takers
<1>9. HonestRow(e)'
  BY <1>1, <1>6, <1>8 DEF HonestRow, Honest
<1>10. \A x \in Events : HonestRow(x)'
  BY <1>7, <1>9, RowKept
<1>11. worker'[w] = [At("failing") EXCEPT !.event = e, !.try = try]
  BY <1>2, <1>3
<1>12. /\ worker'[w].pc = "failing" /\ worker'[w].event = e
       /\ worker'[w].stale = {} /\ worker'[w].marks = {}
  BY <1>11 DEF At
<1>13. HonestWorker(w)'
  BY <1>1, <1>6, <1>12 DEF HonestWorker, Honest, Serving
<1>14. \A x \in Events : event[x].status # "absent" => event'[x].status # "absent"
  BY <1>6, <1>7
<1> QED BY <1>3, <1>10, <1>13, <1>14, WorkerFrame

\* The worker leaves its event in a status of its own choice.
LEMMA LeaveKeeps ==
    ASSUME OutboxAssumption, OutboxInv, OutboxTypeOK', NEW w \in Workers,
           NEW s \in {"RETRY", "DEAD", "DELIVERED"},
           worker[w].pc \in Serving,
           event' = [event EXCEPT ![worker[w].event].status = s],
           worker' = [worker EXCEPT ![w] = At("idle")],
           s = "DELIVERED" => owed[worker[w].event] \subseteq Takers(worker[w].event),
           UNCHANGED <<endpoint, retrying, got, owed, contested, spent>>
    PROVE  OutboxInv'
<1>0. PICK e \in Events : e = worker[w].event
  BY ServingFacts
<1>1. event[e] \in EventRow /\ HonestRow(e)
  BY <1>0, ServingFacts
<1>2. event \in [Events -> EventRow] /\ worker \in [Workers -> Process]
  BY DEF OutboxInv, OutboxTypeOK
<1>3. event'[e] = [event[e] EXCEPT !.status = s]
  BY <1>0, <1>2
<1>4. /\ event'[e].marks = event[e].marks /\ event'[e].fixed = event[e].fixed
      /\ event'[e].targets = event[e].targets /\ event'[e].status = s
  BY <1>1, <1>3 DEF EventRow
<1>5. \A x \in Events : x # e => event'[x] = event[x]
  BY <1>0, <1>2
<1>6. Subscribed' = Subscribed /\ Active' = Active /\ Takers(e)' = Takers(e)
  BY DEF Subscribed, Active, Takers
<1>7. HonestRow(e)'
  BY <1>0, <1>1, <1>4, <1>6 DEF HonestRow, Honest
<1>8. \A x \in Events : HonestRow(x)'
  BY <1>5, <1>7, RowKept
<1>9. worker'[w] = At("idle")
  BY <1>2
<1>10. \A x \in Events : event[x].status # "absent" => event'[x].status # "absent"
  BY <1>4, <1>5
<1> QED BY <1>8, <1>9, <1>10, IdleHonest, WorkerFrame

LEMMA FinishKeeps ==
    ASSUME OutboxAssumption, OutboxInv, OutboxTypeOK', NEW w \in Workers, Finish(w)
    PROVE  OutboxInv' /\ owed[worker[w].event] \subseteq Takers(worker[w].event)
<1>1. HonestWorker(w) /\ worker[w].pc = "visiting"
  BY InvParts DEF Finish
<1>2. owed[worker[w].event] \subseteq Takers(worker[w].event)
  BY <1>1 DEF HonestWorker, Honest, Finish, AllDone, Left, Serving
<1> QED BY <1>1, <1>2, LeaveKeeps DEF Finish, Serving

LEMMA FailKeeps ==
    ASSUME OutboxAssumption, OutboxInv, OutboxTypeOK', NEW w \in Workers, Fail(w)
    PROVE  OutboxInv'
<1>1. PICK s \in {"RETRY", "DEAD"} : event' = [event EXCEPT ![worker[w].event].status = s]
  BY DEF Fail
<1> QED BY <1>1, LeaveKeeps DEF Fail, Serving

LEMMA CrashKeeps ==
    ASSUME OutboxAssumption, OutboxInv, OutboxTypeOK', NEW w \in Workers, Crash(w)
    PROVE  OutboxInv'
<1>1. worker' = [worker EXCEPT ![w] = At("down")] /\ worker'[w] = At("down")
  BY DEF Crash, OutboxInv, OutboxTypeOK
<1>2. \A x \in Events : HonestRow(x)'
  BY RowKept DEF Crash
<1> QED BY <1>1, <1>2, IdleHonest, WorkerFrame DEF Crash

LEMMA WorkerKeeps ==
    ASSUME OutboxAssumption, OutboxInv, NEW w \in Workers, WorkerStep(w) \/ Crash(w)
    PROVE  OutboxInv'
<1>1. OutboxTypeOK'
  BY TypeWorker DEF OutboxInv
<1>2. ASSUME Refuse(w) \/ RecordLost(w) PROVE OutboxInv'
  BY <1>1, <1>2, FailingKeeps DEF Refuse, RecordLost
<1> QED BY <1>1, <1>2, StartKeeps, RecoverKeeps, ClaimKeeps, ChooseKeeps, SkipKeeps, DeliverKeeps,
           CallKeeps, FinishKeeps, FailKeeps, CrashKeeps DEF WorkerStep

\* Workers stay honest while nothing more is owed for the events they have, and
\* what is still owed stays subscribed.
LEMMA WorkersKept ==
    ASSUME OutboxInv, worker' = worker, got' = got,
           \A x \in Events : event[x].status # "absent" =>
             /\ event'[x].status # "absent"
             /\ owed'[x] \subseteq owed[x]
             /\ owed'[x] \cap Subscribed \subseteq Subscribed',
           NEW v \in Workers
    PROVE  HonestWorker(v)'
<1>1. HonestWorker(v) /\ worker[v] \in Process
  BY InvParts DEF OutboxInv, OutboxTypeOK
<1>2. \A x \in Events : Takers(x)' = Takers(x)
  BY DEF Takers
<1>3. worker[v].stale \subseteq Events
  BY <1>1 DEF Process
<1>4. \A x \in worker'[v].stale : event'[x].status # "absent"
  BY <1>1, <1>3 DEF HonestWorker
<1>5. ASSUME worker[v].pc \in Serving PROVE HonestWorker(v)'
  <2>1. PICK e \in Events : e = worker[v].event
    BY <1>5, ServingFacts
  <2>2. /\ event'[e].status # "absent" /\ owed'[e] \subseteq owed[e]
        /\ owed'[e] \cap Subscribed \subseteq Subscribed'
    BY <1>1, <1>5, <2>1 DEF HonestWorker
  <2>3. Honest(e, worker[v].marks)'
    BY <1>1, <1>2, <1>5, <2>1, <2>2 DEF HonestWorker, Honest
  <2>4. worker[v].pc = "claimed" =>
          owed'[e] \subseteq IF worker[v].fixed THEN worker[v].targets ELSE Subscribed'
    BY <1>1, <1>5, <2>1, <2>2 DEF HonestWorker
  <2>5. worker[v].pc \in {"visiting", "called"} =>
          owed'[e] \subseteq worker[v].targets \cap worker[v].active
    BY <1>1, <1>5, <2>1, <2>2 DEF HonestWorker
  <2>6. worker[v].pc = "called" => worker[v].endpoint \in Endpoints
                                   /\ (worker[v].ok => <<e, worker[v].endpoint>> \in got)
    BY <1>1, <1>5, <2>1 DEF HonestWorker
  <2> QED BY <1>4, <2>1, <2>2, <2>3, <2>4, <2>5, <2>6 DEF HonestWorker, Honest
<1> QED BY <1>1, <1>4, <1>5 DEF HonestWorker

LEMMA OtherFrame ==
    ASSUME OutboxTypeOK', \A x \in Events : HonestRow(x)', \A v \in Workers : HonestWorker(v)'
    PROVE  OutboxInv'
<1>1. /\ OutboxTypeOK'
      /\ (\A x \in Events : HonestRow(x))'
      /\ (\A v \in Workers : HonestWorker(v))'
  OBVIOUS
<1> QED BY <1>1 DEF OutboxInv, RowsHonest, WorkersHonest, HonestRow, HonestWorker

\* A new event: nobody serves it, and it is owed to subscribed endpoints only.
LEMMA PublishKeeps ==
    ASSUME OutboxInv, OutboxTypeOK', NEW e \in Events, event[e].status = "absent",
           NEW fixed \in BOOLEAN, NEW targets \in SUBSET Endpoints, NEW P \in SUBSET Endpoints,
           P \subseteq IF fixed THEN targets \cap Active ELSE Subscribed,
           event' = [event EXCEPT ![e] = [event[e] EXCEPT !.status = "PENDING", !.fixed = fixed,
                                                          !.targets = targets]],
           owed' = [owed EXCEPT ![e] = P],
           UNCHANGED <<endpoint, worker, retrying, got, contested, spent>>
    PROVE  OutboxInv'
<1>1. event \in [Events -> EventRow] /\ owed \in [Events -> SUBSET Endpoints]
      /\ event[e] \in EventRow /\ event[e].marks = {}
  BY DEF OutboxInv, OutboxTypeOK, RowsHonest
<1>2. Subscribed' = Subscribed /\ Active' = Active /\ \A x \in Events : Takers(x)' = Takers(x)
  BY DEF Subscribed, Active, Takers
<1>3. event'[e] = [event[e] EXCEPT !.status = "PENDING", !.fixed = fixed, !.targets = targets]
      /\ owed'[e] = P
  BY <1>1
<1>4. /\ event'[e].status = "PENDING" /\ event'[e].fixed = fixed /\ event'[e].targets = targets
      /\ event'[e].marks = {}
  BY <1>1, <1>3 DEF EventRow
<1>5. HonestRow(e)'
  BY <1>2, <1>3, <1>4 DEF HonestRow, Honest
<1>6. ASSUME NEW x \in Events, x # e PROVE event'[x] = event[x] /\ owed'[x] = owed[x]
  BY <1>1, <1>6
<1>7. ASSUME NEW x \in Events, x # e PROVE HonestRow(x)'
  <2>1. HonestRow(x)
    BY InvParts
  <2> QED BY <1>2, <1>6, <1>7, <2>1 DEF HonestRow, Honest
<1>8. \A v \in Workers : HonestWorker(v)'
  BY <1>2, <1>6, WorkersKept
<1> QED BY <1>5, <1>7, <1>8, OtherFrame

LEMMA ChangeKeeps ==
    ASSUME OutboxInv, OutboxTypeOK', NEW p \in Endpoints, NEW r \in EndpointRow, Change(p, r)
    PROVE  OutboxInv'
<1>1. endpoint \in [Endpoints -> EndpointRow] /\ event' = event /\ got' = got /\ worker' = worker
      /\ retrying' = retrying
  BY DEF OutboxInv, OutboxTypeOK, Change
<1>2. \A x \in Endpoints : endpoint'[x] = IF x = p THEN r ELSE endpoint[x]
  BY <1>1 DEF Change
<1>3. \A x \in Events : owed'[x] \subseteq owed[x]
                        /\ (p \in owed'[x] => r.exists /\ r.active /\ r.wants)
  BY DEF Change
<1>4. ASSUME NEW x \in Events
      PROVE  /\ owed'[x] \cap Subscribed \subseteq Subscribed'
             /\ owed'[x] \cap Active \subseteq Active'
  BY <1>2, <1>3 DEF Subscribed, Active
<1>5. \A x \in Events : Takers(x)' = Takers(x)
  BY <1>1 DEF Takers
<1>6. ASSUME NEW x \in Events PROVE HonestRow(x)'
  <2>1. HonestRow(x)
    BY InvParts
  <2> QED BY <1>1, <1>3, <1>4, <1>5, <2>1 DEF HonestRow, Honest
<1>7. \A v \in Workers : HonestWorker(v)'
  BY <1>1, <1>3, <1>4, WorkersKept
<1> QED BY <1>6, <1>7, OtherFrame

LEMMA RetryKeeps ==
    ASSUME OutboxInv, OutboxTypeOK', NEW e \in Events, RetryRead(e) \/ RetryCommit(e)
    PROVE  OutboxInv'
<1>1. endpoint' = endpoint /\ owed' = owed /\ got' = got /\ worker' = worker
  BY DEF RetryRead, RetryCommit
<1>2. HonestRow(e) /\ event[e].status # "absent" /\ event[e] \in EventRow
  BY InvParts DEF RetryRead, RetryCommit, HonestRow, OutboxInv, OutboxTypeOK
<1>3. event'[e] = event[e] \/ event'[e] = [event[e] EXCEPT !.status = "RETRY"]
  BY DEF RetryRead, RetryCommit, PutBack
<1>4. ASSUME NEW x \in Events, x # e
      PROVE  event'[x] = event[x] /\ (x \in retrying' <=> x \in retrying)
  BY <1>4 DEF RetryRead, RetryCommit, PutBack
<1>5. Subscribed' = Subscribed /\ Active' = Active /\ \A x \in Events : Takers(x)' = Takers(x)
  BY <1>1 DEF Subscribed, Active, Takers
<1>6. /\ event'[e].marks = event[e].marks /\ event'[e].fixed = event[e].fixed
      /\ event'[e].targets = event[e].targets
      /\ event'[e].status = event[e].status \/ event'[e].status = "RETRY"
  BY <1>2, <1>3 DEF EventRow
<1>7. HonestRow(e)'
  BY <1>1, <1>2, <1>5, <1>6 DEF HonestRow, Honest
<1>8. ASSUME NEW x \in Events, x # e PROVE HonestRow(x)'
  <2>1. HonestRow(x)
    BY InvParts
  <2> QED BY <1>1, <1>4, <1>5, <1>8, <2>1 DEF HonestRow, Honest
<1>9. \A x \in Events : event[x].status # "absent" => event'[x].status # "absent"
  BY <1>2, <1>4, <1>6
<1>10. \A v \in Workers : HonestWorker(v)'
  BY <1>1, <1>5, <1>9, WorkersKept
<1> QED BY <1>7, <1>8, <1>10, OtherFrame

LEMMA EnqueueKeeps ==
    ASSUME OutboxInv, OutboxTypeOK', NEW e \in Events, Enqueue(e)
    PROVE  OutboxInv'
<1>1. event[e] \in EventRow /\ ~event[e].fixed
  BY DEF Enqueue, OutboxInv, OutboxTypeOK, RowsHonest
<1>2. event[e].fixed \in BOOLEAN /\ event[e].targets \in SUBSET Endpoints
  BY <1>1 DEF EventRow
<1>3. [event[e] EXCEPT !.status = "PENDING"]
        = [event[e] EXCEPT !.status = "PENDING", !.fixed = event[e].fixed,
                           !.targets = event[e].targets]
  BY <1>1 DEF EventRow
<1>4. Subscribed \in SUBSET Endpoints
  BY DEF Subscribed, Active
<1>5. event' = [event EXCEPT ![e] = [event[e] EXCEPT !.status = "PENDING",
                                                    !.fixed = event[e].fixed,
                                                    !.targets = event[e].targets]]
  BY <1>3 DEF Enqueue
<1>6. /\ event[e].status = "absent" /\ owed' = [owed EXCEPT ![e] = Subscribed]
      /\ UNCHANGED <<endpoint, worker, retrying, got, contested, spent>>
  BY DEF Enqueue
<1>7. Subscribed \subseteq IF event[e].fixed THEN event[e].targets \cap Active ELSE Subscribed
  BY <1>1
<1> QED BY <1>2, <1>4, <1>5, <1>6, <1>7, PublishKeeps

LEMMA EnqueueTestKeeps ==
    ASSUME OutboxInv, OutboxTypeOK', NEW e \in Events, NEW p \in Endpoints, EnqueueTest(e, p)
    PROVE  OutboxInv'
<1>1. event' = [event EXCEPT ![e] = [event[e] EXCEPT !.status = "PENDING", !.fixed = TRUE,
                                                     !.targets = {p}]]
  BY DEF EnqueueTest
<1>2. {p} \in SUBSET Endpoints /\ {p} \cap Active \in SUBSET Endpoints
  OBVIOUS
<1> QED BY <1>1, <1>2, PublishKeeps DEF EnqueueTest

\* Every step of the outbox keeps the invariant.
LEMMA StepKeeps ==
    ASSUME OutboxAssumption, OutboxInv, [Next]_vars
    PROVE  OutboxInv'
<1>1. CASE UNCHANGED vars
  <2>1. OutboxTypeOK'
    BY <1>1 DEF OutboxInv, OutboxTypeOK, vars
  <2>2. \A x \in Events : HonestRow(x)'
    BY <1>1, RowKept DEF vars
  <2>3. Subscribed' = Subscribed
    BY <1>1 DEF Subscribed, Active, vars
  <2>4. \A v \in Workers : HonestWorker(v)'
    BY <1>1, <2>3, WorkersKept DEF vars
  <2> QED BY <2>1, <2>2, <2>4, OtherFrame
<1>2. ASSUME NEW w \in Workers, WorkerStep(w) \/ Crash(w) PROVE OutboxInv'
  BY <1>2, WorkerKeeps
<1>3. ASSUME Next, \A w \in Workers : ~WorkerStep(w) /\ ~Crash(w) PROVE OutboxInv'
  <2>1. OutboxTypeOK'
    BY <1>3, TypeOther DEF OutboxInv
  <2>2. ASSUME NEW p \in Endpoints, DeleteIntegration(p) PROVE OutboxInv'
    <3>1. endpoint[p] \in EndpointRow
      BY DEF OutboxInv, OutboxTypeOK
    <3>2. [endpoint[p] EXCEPT !.exists = FALSE] \in EndpointRow
      BY <3>1 DEF EndpointRow
    <3> QED BY <2>1, <2>2, <3>2, ChangeKeeps DEF DeleteIntegration
  <2>3. ASSUME NEW p \in Endpoints, PatchIntegration(p) PROVE OutboxInv'
    BY <2>1, <2>3, ChangeKeeps DEF PatchIntegration
  <2> QED BY <1>3, <2>1, <2>2, <2>3, EnqueueKeeps, EnqueueTestKeeps, RetryKeeps DEF Next
<1> QED BY <1>1, <1>2, <1>3

-----------------------------------------------------------------------------
(***************************************************************************)
(* The refinement.                                                         *)
(***************************************************************************)

\* The status of one event or of several may leave DELIVERED: a declaration is
\* withdrawn.
LEMMA Withdrawn ==
    ASSUME UNCHANGED <<owed, got>>,
           \A e \in Events : event'[e].status = "absent" <=> event[e].status = "absent",
           \A e \in Events : event'[e].status = "DELIVERED" => event[e].status = "DELIVERED"
    PROVE  Promise!ANext
<1> DEFINE E == {e \in Events : event[e].status = "DELIVERED" /\ event'[e].status # "DELIVERED"}
<1>1. Promise!Reopen(E)
  BY DEF Promise!Reopen
<1>2. E \in SUBSET Events
  OBVIOUS
<1> HIDE DEF E
<1>3. \E F \in SUBSET Events : Promise!Reopen(F)
  BY <1>1, <1>2 DEF Promise!Reopen
<1> QED BY <1>3 DEF Promise!ANext

\* A commit of a worker on its event that keeps or sets a status.
LEMMA Committed ==
    ASSUME OutboxInv, OutboxTypeOK', NEW w \in Workers, worker[w].pc \in Serving,
           NEW e, e = worker[w].event,
           UNCHANGED <<owed, got>>,
           \A x \in Events : x # e => event'[x] = event[x],
           event'[e].status = event[e].status \/ event'[e].status \in {"RETRY", "DEAD", "PROCESSING"}
    PROVE  Promise!ANext
<1>1. e \in Events /\ event[e].status # "absent"
  BY ServingFacts
<1>2. \A x \in Events : event'[x].status = "absent" <=> event[x].status = "absent"
  BY <1>1
<1> QED BY <1>1, <1>2, Withdrawn

LEMMA WorkerRefines ==
    ASSUME OutboxAssumption, OutboxInv, OutboxInv', NEW w \in Workers, WorkerStep(w) \/ Crash(w)
    PROVE  [Promise!ANext]_Promise!avars
<1>1. event \in [Events -> EventRow] /\ OutboxTypeOK' /\ worker[w] \in Process
  BY DEF OutboxInv, OutboxTypeOK
<1>2. ASSUME Start(w) \/ Crash(w) PROVE UNCHANGED <<event, owed, got>>
  BY <1>2 DEF Start, Crash
<1>3. CASE RecoverStale(w)
  <2>1. HonestWorker(w) /\ worker[w].stale \subseteq Events
    BY <1>1, InvParts DEF Process
  <2>2. \A x \in worker[w].stale : event[x].status # "absent"
    BY <2>1 DEF HonestWorker
  <2>3. \A x \in Events : event'[x] = IF x \in worker[w].stale
                                      THEN [event[x] EXCEPT !.status = "RETRY"] ELSE event[x]
    BY <1>3 DEF RecoverStale, PutBack
  <2>4. \A x \in Events : event'[x].status = IF x \in worker[w].stale THEN "RETRY"
                                                                    ELSE event[x].status
    BY <1>1, <2>3 DEF EventRow
  <2>5. UNCHANGED <<owed, got>>
    BY <1>3 DEF RecoverStale
  <2> QED BY <2>2, <2>4, <2>5, Withdrawn
<1>4. ASSUME NEW e \in Events, Claim(w, e) PROVE Promise!ANext
  <2>1. \A x \in Events : event'[x].status = IF x = e THEN "PROCESSING" ELSE event[x].status
    BY <1>1, <1>4 DEF Claim, EventRow
  <2>2. event[e].status \in {"PENDING", "RETRY"} /\ UNCHANGED <<owed, got>>
    BY <1>4 DEF Claim
  <2>3. \A x \in Events : event'[x].status = "absent" <=> event[x].status = "absent"
    BY <2>1, <2>2
  <2>4. \A x \in Events : event'[x].status = "DELIVERED" => event[x].status = "DELIVERED"
    BY <2>1
  <2> QED BY <2>2, <2>3, <2>4, Withdrawn
<1>5. ASSUME ChooseTargets(w) \/ Deliver(w) \/ Refuse(w) \/ RecordLost(w)
             \/ \E p \in Endpoints : Skip(w, p)
      PROVE  Promise!ANext
  <2>1. worker[w].pc \in Serving
    BY <1>5 DEF ChooseTargets, Deliver, Refuse, RecordLost, Skip, Serving
  <2>2. PICK e \in Events : e = worker[w].event
    BY SMTT(40), <2>1, ServingFacts
  <2>3. \A x \in Events : x # e => event'[x] = event[x]
    BY <1>1, <1>5, <2>2 DEF ChooseTargets, Deliver, Refuse, RecordLost, Skip, Marked
  <2>4. event'[e].status = event[e].status
    <3>1. event[e] \in EventRow
      BY <1>1
    <3>2. CASE ChooseTargets(w)
      BY <1>1, <2>2, <3>1, <3>2 DEF ChooseTargets, EventRow
    <3>3. ASSUME NEW p, Marked(w, p) PROVE event'[e].status = event[e].status
      BY <1>1, <2>2, <3>1, <3>3 DEF Marked, EventRow
    <3>4. CASE Refuse(w)
      BY <1>1, <2>2, <3>1, <3>4 DEF Refuse, EventRow
    <3>5. CASE RecordLost(w)
      BY <3>5 DEF RecordLost
    <3> QED BY <1>5, <3>2, <3>3, <3>4, <3>5 DEF Deliver, Skip
  <2>5. UNCHANGED <<owed, got>>
    BY <1>5 DEF ChooseTargets, Deliver, Refuse, RecordLost, Skip
  <2> QED BY <1>1, <2>1, <2>2, <2>3, <2>4, <2>5, Committed
<1>6. ASSUME NEW p \in Endpoints, Call(w, p) PROVE [Promise!ANext]_Promise!avars
  <2>1. PICK e \in Events : e = worker[w].event /\ event[e].status # "absent"
    BY <1>6, ServingFacts DEF Call, Serving
  <2>2. got' = got \cup {<<e, p>>} \/ got' = got
    BY <1>6, <2>1 DEF Call
  <2>3. UNCHANGED <<event, owed>>
    BY <1>6 DEF Call
  <2>4. CASE got' = got
    BY <2>3, <2>4 DEF Promise!avars
  <2>5. CASE got' = got \cup {<<e, p>>}
    <3>1. Promise!Take(e, p)
      BY <2>1, <2>3, <2>5 DEF Promise!Take
    <3> QED BY <2>1, <3>1 DEF Promise!ANext
  <2> QED BY <2>2, <2>4, <2>5
<1>7. CASE Fail(w)
  <2>1. PICK e \in Events : e = worker[w].event
    BY <1>7, ServingFacts DEF Fail, Serving
  <2>2. \A x \in Events : x # e => event'[x] = event[x]
    BY <1>1, <1>7, <2>1 DEF Fail
  <2>3. event'[e].status \in {"DEAD", "RETRY"}
    BY <1>1, <1>7, <2>1 DEF Fail, EventRow
  <2> QED BY <1>1, <1>7, <2>1, <2>2, <2>3, Committed DEF Fail, Serving
<1>8. CASE Finish(w)
  <2>1. PICK e \in Events : e = worker[w].event /\ event[e].status # "absent"
    BY <1>8, ServingFacts DEF Finish, Serving
  <2>2. owed[e] \subseteq Takers(e)
    BY <1>1, <1>8, <2>1, FinishKeeps
  <2>3. event' = [event EXCEPT ![e] = [event[e] EXCEPT !.status = "DELIVERED"]]
    BY <1>8, <2>1 DEF Finish
  <2>4. \A x \in Events : event'[x].status = IF x = e THEN "DELIVERED" ELSE event[x].status
    BY <1>1, <2>3 DEF EventRow
  <2>5. UNCHANGED <<owed, got>>
    BY <1>8 DEF Finish
  <2>6. Promise!Declare(e)
    BY <2>1, <2>2, <2>4, <2>5 DEF Promise!Declare, Promise!Takers, Takers
  <2> QED BY <2>6 DEF Promise!ANext
<1> QED BY <1>2, <1>3, <1>4, <1>5, <1>6, <1>7, <1>8 DEF WorkerStep, Promise!avars

LEMMA OtherRefines ==
    ASSUME OutboxAssumption, OutboxInv, Next, \A w \in Workers : ~WorkerStep(w) /\ ~Crash(w)
    PROVE  [Promise!ANext]_Promise!avars
<1>1. event \in [Events -> EventRow] /\ owed \in [Events -> SUBSET Endpoints]
  BY DEF OutboxInv, OutboxTypeOK
<1>2. ASSUME NEW e \in Events, NEW P \in SUBSET Endpoints, event[e].status = "absent",
             \A x \in Events : event'[x].status = IF x = e THEN "PENDING" ELSE event[x].status,
             owed' = [owed EXCEPT ![e] = P], got' = got
      PROVE  Promise!ANext
  <2>1. Promise!Publish(e)
    BY <1>2 DEF Promise!Publish
  <2> QED BY <2>1 DEF Promise!ANext
<1>3. Subscribed \in SUBSET Endpoints
  BY DEF Subscribed, Active
<1>4. ASSUME NEW e \in Events, Enqueue(e) PROVE Promise!ANext
  <2>1. \A x \in Events : event'[x].status = IF x = e THEN "PENDING" ELSE event[x].status
    BY <1>1, <1>4 DEF Enqueue, EventRow
  <2>2. event[e].status = "absent" /\ owed' = [owed EXCEPT ![e] = Subscribed] /\ got' = got
    BY <1>4 DEF Enqueue
  <2> QED BY <1>2, <1>3, <2>1, <2>2
<1>5. ASSUME NEW e \in Events, NEW p \in Endpoints, EnqueueTest(e, p) PROVE Promise!ANext
  <2>1. event' = [event EXCEPT ![e] = [event[e] EXCEPT !.status = "PENDING", !.fixed = TRUE,
                                                       !.targets = {p}]]
    BY <1>5 DEF EnqueueTest
  <2>2. \A x \in Events : event'[x].status = IF x = e THEN "PENDING" ELSE event[x].status
    BY <1>1, <2>1 DEF EventRow
  <2>3. event[e].status = "absent" /\ owed' = [owed EXCEPT ![e] = {p} \cap Active] /\ got' = got
    BY <1>5 DEF EnqueueTest
  <2>4. {p} \cap Active \in SUBSET Endpoints
    OBVIOUS
  <2> QED BY <1>2, <2>2, <2>3, <2>4
<1>6. ASSUME NEW p \in Endpoints, NEW r, Change(p, r) PROVE Promise!ANext
  <2>1. owed' \in [Events -> SUBSET Endpoints] /\ \A e \in Events : owed'[e] \subseteq owed[e]
    BY <1>1, <1>6 DEF Change
  <2>2. UNCHANGED <<event, got>>
    BY <1>6 DEF Change
  <2>3. Promise!Waive
    BY <2>1, <2>2 DEF Promise!Waive
  <2> QED BY <2>3 DEF Promise!ANext
<1>7. ASSUME NEW e \in Events, RetryRead(e) PROVE UNCHANGED <<event, owed, got>>
  BY <1>7 DEF RetryRead
<1>8. ASSUME NEW e \in Events, RetryCommit(e) PROVE Promise!ANext
  <2>1. event[e].status # "absent"
    BY <1>8, InvParts DEF RetryCommit, HonestRow
  <2>2. \A x \in Events : event'[x].status = IF x = e THEN "RETRY" ELSE event[x].status
    BY <1>1, <1>8 DEF RetryCommit, PutBack, EventRow
  <2>3. UNCHANGED <<owed, got>>
    BY <1>8 DEF RetryCommit
  <2>4. \A x \in Events : event'[x].status = "absent" <=> event[x].status = "absent"
    BY <2>1, <2>2
  <2>5. \A x \in Events : event'[x].status = "DELIVERED" => event[x].status = "DELIVERED"
    BY <2>2
  <2> QED BY <2>3, <2>4, <2>5, Withdrawn
<1> QED BY <1>4, <1>5, <1>6, <1>7, <1>8
        DEF Next, PatchIntegration, DeleteIntegration, Promise!avars

-----------------------------------------------------------------------------
(***************************************************************************)
(* What has succeeded is not repeated.                                     *)
(***************************************************************************)

\* A worker that keeps its event and, unless it is failing, writes the marks it knows.
LEMMA ServesOn ==
    ASSUME OutboxInv, OneServes, NEW w \in Workers, NEW e, e = worker[w].event,
           worker[w].pc \in Serving \ {"failing"}, worker'[w].event = e,
           \A v \in Workers : v # w => worker'[v] = worker[v],
           \A x \in Events : x # e => event'[x] = event[x],
           event'[e].status = event[e].status, contested' = contested,
           worker[w].marks = event[e].marks
             => worker'[w].pc = "failing" \/ worker'[w].marks = event'[e].marks
    PROVE  OneServes'
<1>1. \A v \in Workers : \A x : Serves(v, x)' => Serves(v, x)
  BY DEF Serves
<1>2. ASSUME NEW x \in Events \ contested, NEW v \in Workers, Serves(v, x)'
      PROVE  /\ event'[x].status = "PROCESSING"
             /\ \A u \in Workers : Serves(u, x)' => u = v
             /\ worker'[v].pc # "failing" => worker'[v].marks = event'[x].marks
  <2>1. /\ event[x].status = "PROCESSING"
        /\ \A u \in Workers : Serves(u, x) => u = v
        /\ worker[v].pc # "failing" => worker[v].marks = event[x].marks
    BY <1>1, <1>2 DEF OneServes
  <2>2. v = w <=> x = e
    BY <1>1, <1>2, <2>1 DEF Serves
  <2> QED BY <1>1, <2>1, <2>2
<1> QED BY <1>2 DEF OneServes

\* Workers that serve what they served, or nothing, while the events stay or are put back.
LEMMA ServesLess ==
    ASSUME OneServes, contested \subseteq contested',
           \A v \in Workers : worker'[v] = worker[v] \/ worker'[v].pc \notin Serving,
           \A x \in Events \ contested', v \in Workers :
             Serves(v, x) => event'[x] = event[x] \/ worker'[v].pc \notin Serving
    PROVE  OneServes'
<1>1. \A v \in Workers : \A x : Serves(v, x)' => Serves(v, x) /\ worker'[v] = worker[v]
  BY DEF Serves
<1>2. ASSUME NEW x \in Events \ contested', NEW v \in Workers, Serves(v, x)'
      PROVE  /\ event'[x].status = "PROCESSING"
             /\ \A u \in Workers : Serves(u, x)' => u = v
             /\ worker'[v].pc # "failing" => worker'[v].marks = event'[x].marks
  <2>1. Serves(v, x) /\ worker'[v] = worker[v] /\ event'[x] = event[x]
    BY <1>1, <1>2 DEF Serves
  <2> QED BY <1>1, <1>2, <2>1 DEF OneServes
<1> QED BY <1>2 DEF OneServes

LEMMA ClaimAlone ==
    ASSUME OutboxInv, OneServes, NEW w \in Workers, NEW e \in Events, Claim(w, e)
    PROVE  OneServes'
<1> DEFINE r == [At("claimed") EXCEPT !.event = e, !.try = NextTry(e), !.fixed = event[e].fixed,
                                      !.targets = event[e].targets, !.marks = KnownMarks(e)]
<1>1. event \in [Events -> EventRow] /\ worker \in [Workers -> Process]
      /\ contested' = contested
  BY DEF OutboxInv, OutboxTypeOK, Claim
<1>2. /\ worker[w].pc = "idle" /\ event[e].status \in {"PENDING", "RETRY"}
      /\ worker' = [worker EXCEPT ![w] = r]
      /\ event' = [event EXCEPT ![e] = [event[e] EXCEPT !.status = "PROCESSING",
                                                       !.tries = NextTry(e)]]
  BY DEF Claim
<1>3. worker'[w] = r /\ \A v \in Workers : v # w => worker'[v] = worker[v]
  BY <1>1, <1>2
<1>4. r.pc = "claimed" /\ r.event = e /\ r.marks = event[e].marks
  BY DEF At, KnownMarks
<1>5. \A x \in Events : x # e => event'[x] = event[x]
  BY <1>1, <1>2
<1>6. event'[e].status = "PROCESSING" /\ event'[e].marks = event[e].marks
  BY <1>1, <1>2 DEF EventRow
<1> HIDE DEF r
<1>7. ASSUME NEW x \in Events \ contested, NEW v \in Workers, Serves(v, x)'
      PROVE  /\ event'[x].status = "PROCESSING"
             /\ \A u \in Workers : Serves(u, x)' => u = v
             /\ worker'[v].pc # "failing" => worker'[v].marks = event'[x].marks
  <2>1. CASE x = e
    <3>1. \A u \in Workers : ~Serves(u, e)
      BY <1>2, <2>1 DEF OneServes
    <3>2. \A u \in Workers : Serves(u, e)' => u = w
      BY <1>3, <3>1 DEF Serves
    <3>3. v = w
      BY <1>7, <2>1, <3>2
    <3> QED BY <1>3, <1>4, <1>6, <2>1, <3>2, <3>3
  <2>2. CASE x # e
    <3>1. \A u \in Workers : Serves(u, x)' => Serves(u, x) /\ worker'[u] = worker[u]
      BY <1>3, <1>4, <2>2 DEF Serves
    <3> QED BY <1>5, <1>7, <2>2, <3>1 DEF OneServes
  <2> QED BY <2>1, <2>2
<1> QED BY <1>1, <1>7 DEF OneServes

LEMMA StepServes ==
    ASSUME OutboxInv, OneServes, NEW w \in Workers, WorkerStep(w) \/ Crash(w)
    PROVE  OneServes'
<1>1. event \in [Events -> EventRow] /\ worker \in [Workers -> Process] /\ worker[w] \in Process
  BY DEF OutboxInv, OutboxTypeOK
<1>2. worker[w].pc \in Serving => worker[w].event \in Events
                                  /\ event[worker[w].event] \in EventRow
  BY <1>1, ServingFacts
<1>3. CASE Start(w) \/ Crash(w)
  <2>1. /\ event' = event /\ contested' = contested /\ worker'[w].pc \notin Serving
        /\ \A v \in Workers : v # w => worker'[v] = worker[v]
    BY <1>1, <1>3 DEF Start, Crash, At, Serving
  <2> QED BY <2>1, ServesLess
<1>4. CASE RecoverStale(w)
  <2>1. /\ contested' = contested \cup {x \in worker[w].stale : Served(x)}
        /\ \A x \in Events : x \notin worker[w].stale => event'[x] = event[x]
        /\ worker[w].pc = "booted" /\ worker'[w].pc \notin Serving
        /\ \A v \in Workers : v # w => worker'[v] = worker[v]
    BY <1>1, <1>4 DEF RecoverStale, PutBack, At, Serving
  <2>2. \A x \in Events \ contested', v \in Workers : Serves(v, x) => event'[x] = event[x]
    BY <2>1 DEF Served, Serves
  <2> QED BY <2>1, <2>2, ServesLess
<1>5. CASE Fail(w) \/ Finish(w)
  <2> DEFINE e == worker[w].event
  <2>1. PICK s : event' = [event EXCEPT ![e].status = s]
    BY <1>5 DEF Fail, Finish
  <2>2. /\ worker[w].pc \in Serving /\ contested' = contested
        /\ worker'[w].pc \notin Serving
        /\ \A v \in Workers : v # w => worker'[v] = worker[v]
    BY <1>1, <1>5 DEF Fail, Finish, At, Serving
  <2>3. \A x \in Events : x # e => event'[x] = event[x]
    BY <1>1, <2>1
  <2>4. Serves(w, e)
    BY <2>2 DEF Serves
  <2>5. \A v \in Workers : e \notin contested /\ Serves(v, e) => v = w
    BY <1>2, <2>2, <2>4 DEF OneServes
  <2> QED BY <2>2, <2>3, <2>5, ServesLess
<1>6. ASSUME NEW e, e = worker[w].event, NEW r, worker[w].pc \in Serving \ {"failing"},
             worker' = [worker EXCEPT ![w] = r], r.event = e,
             event'[e].status = event[e].status, \A x \in Events : x # e => event'[x] = event[x],
             worker[w].marks = event[e].marks => r.pc = "failing" \/ r.marks = event'[e].marks,
             contested' = contested
      PROVE  OneServes'
  <2>1. worker'[w] = r /\ \A v \in Workers : v # w => worker'[v] = worker[v]
    BY <1>1, <1>6
  <2> QED BY <1>6, <2>1, ServesOn
<1>7. ASSUME NEW p, Marked(w, p), worker[w].pc \in {"visiting", "called"}, contested' = contested
      PROVE  OneServes'
  <2> DEFINE e == worker[w].event
             known == worker[w].marks \cup {p}
             r == [worker[w] EXCEPT !.pc = "visiting", !.marks = known, !.endpoint = None,
                                    !.ok = FALSE]
  <2>1. worker' = [worker EXCEPT ![w] = r]
        /\ event' = [event EXCEPT ![e] = [event[e] EXCEPT !.marks = known]]
    BY <1>7 DEF Marked
  <2>2. r.event = e /\ r.marks = known
    BY <1>1 DEF Process
  <2>3. e \in Events /\ event[e] \in EventRow
    BY <1>2, <1>7 DEF Serving
  <2>4. event'[e].status = event[e].status /\ event'[e].marks = known
        /\ \A x \in Events : x # e => event'[x] = event[x]
    BY <1>1, <2>1, <2>3 DEF EventRow
  <2> HIDE DEF r, known
  <2> QED BY <1>6, <1>7, <2>1, <2>2, <2>4 DEF Serving
<1>8. CASE ChooseTargets(w)
  <2> DEFINE e == worker[w].event
             chosen == IF worker[w].fixed THEN worker[w].targets ELSE Subscribed
             r == [worker[w] EXCEPT !.pc = "visiting", !.fixed = TRUE, !.targets = chosen,
                                    !.active = Active]
  <2>1. /\ worker[w].pc = "claimed" /\ worker' = [worker EXCEPT ![w] = r]
        /\ event' = event \/ event' = [event EXCEPT ![e] = [event[e] EXCEPT !.fixed = TRUE,
                                                                           !.targets = chosen]]
        /\ contested' = contested
    BY <1>8 DEF ChooseTargets
  <2>2. r.event = e /\ r.marks = worker[w].marks
    BY <1>1 DEF Process
  <2>3. e \in Events /\ event[e] \in EventRow
    BY <1>2, <2>1 DEF Serving
  <2>4. \A x \in Events : x # e => event'[x] = event[x]
    BY <1>1, <2>1, <2>3
  <2>5. event'[e] = event[e] \/ event'[e] = [event[e] EXCEPT !.fixed = TRUE, !.targets = chosen]
    BY <1>1, <2>1, <2>3
  <2> HIDE DEF chosen
  <2>6. event'[e].status = event[e].status /\ event'[e].marks = event[e].marks
    BY <2>3, <2>5 DEF EventRow
  <2> HIDE DEF r
  <2> QED BY ZenonT(60), <1>6, <2>1, <2>2, <2>4, <2>6 DEF Serving
<1>9. ASSUME NEW p \in Endpoints, Call(w, p) PROVE OneServes'
  <2>1. PICK ok \in BOOLEAN :
          worker' = [worker EXCEPT ![w] = [worker[w] EXCEPT !.pc = "called", !.endpoint = p,
                                                            !.ok = ok]]
    BY <1>9 DEF Call
  <2> DEFINE r == [worker[w] EXCEPT !.pc = "called", !.endpoint = p, !.ok = ok]
  <2>2. r.event = worker[w].event /\ r.marks = worker[w].marks
    BY <1>1 DEF Process
  <2>3. worker[w].pc = "visiting" /\ event' = event /\ contested' = contested
    BY <1>9 DEF Call
  <2>4. worker' = [worker EXCEPT ![w] = r]
    BY <2>1
  <2> HIDE DEF r
  <2> QED BY <1>6, <2>2, <2>3, <2>4 DEF Serving
<1>10. CASE Refuse(w) \/ RecordLost(w)
  <2> DEFINE e == worker[w].event
  <2>1. PICK try : worker' = [worker EXCEPT ![w] = [At("failing") EXCEPT !.event = e, !.try = try]]
    BY <1>10 DEF Refuse, RecordLost, Failing
  <2> DEFINE r == [At("failing") EXCEPT !.event = e, !.try = try]
  <2>2. r.event = e /\ r.pc = "failing"
    BY DEF At
  <2>3. /\ worker[w].pc = "called" /\ contested' = contested
        /\ event' = event \/ event' = [event EXCEPT ![e].marks = worker[w].marks]
    BY <1>10 DEF Refuse, RecordLost
  <2>4. e \in Events /\ event[e] \in EventRow
    BY <1>2, <2>3 DEF Serving
  <2>5. event'[e].status = event[e].status /\ \A x \in Events : x # e => event'[x] = event[x]
    BY <1>1, <2>3, <2>4 DEF EventRow
  <2>6. worker' = [worker EXCEPT ![w] = r]
    BY <2>1
  <2> HIDE DEF r
  <2> QED BY <1>6, <2>2, <2>3, <2>5, <2>6 DEF Serving
<1>11. ASSUME NEW p \in Endpoints, Skip(w, p) PROVE OneServes'
  BY <1>7, <1>11 DEF Skip
<1>12. CASE Deliver(w)
  BY <1>7, <1>12 DEF Deliver
<1> QED BY <1>3, <1>4, <1>5, <1>8, <1>9, <1>10, <1>11, <1>12, ClaimAlone DEF WorkerStep

LEMMA OneServesKept ==
    ASSUME OutboxInv, OneServes, [Next]_vars
    PROVE  OneServes'
<1>1. CASE UNCHANGED vars
  BY <1>1, ServesLess DEF vars
<1>2. ASSUME NEW e \in Events, Enqueue(e) \/ \E p \in Endpoints : EnqueueTest(e, p)
      PROVE  OneServes'
  <2>1. /\ event[e].status = "absent" /\ worker' = worker /\ contested' = contested
        /\ \A x \in Events : x # e => event'[x] = event[x]
    BY <1>2 DEF Enqueue, EnqueueTest, OutboxInv, OutboxTypeOK
  <2>2. \A v \in Workers : ~Serves(v, e)
    BY <2>1, ServingFacts DEF Serves
  <2> QED BY <2>1, <2>2, ServesLess
<1>3. ASSUME NEW e \in Events, RetryRead(e) PROVE OneServes'
  BY <1>3, ServesLess DEF RetryRead
<1>4. ASSUME NEW e \in Events, RetryCommit(e) PROVE OneServes'
  <2>1. /\ worker' = worker /\ contested' = contested \cup {x \in {e} : Served(x)}
        /\ \A x \in Events : x # e => event'[x] = event[x]
    BY <1>4 DEF RetryCommit, PutBack
  <2>2. \A x \in Events \ contested', v \in Workers : Serves(v, x) => event'[x] = event[x]
    BY <2>1 DEF Served, Serves
  <2> QED BY <2>1, <2>2, ServesLess
<1>5. ASSUME NEW p \in Endpoints, PatchIntegration(p) \/ DeleteIntegration(p) PROVE OneServes'
  BY <1>5, ServesLess DEF PatchIntegration, DeleteIntegration, Change
<1> QED BY <1>1, <1>2, <1>3, <1>4, <1>5, StepServes DEF Next

\* Whoever calls an endpoint of an event that nobody put back sees its mark.
LEMMA CallsUnmarked ==
    ASSUME OutboxInv, OneServes, [Next]_vars, NEW w \in Workers,
           worker[w].pc = "visiting", worker'[w].pc = "called"
    PROVE  worker'[w].endpoint \notin event[worker[w].event].marks
             \/ worker[w].event \in contested
<1>1. worker \in [Workers -> Process] /\ worker[w] \in Process
  BY SMTT(40) DEF OutboxInv, OutboxTypeOK
<1>2. PICK v \in Workers : WorkerStep(v) \/ Crash(v)
  BY DEF Next, vars, Enqueue, EnqueueTest, RetryRead, RetryCommit, PatchIntegration,
         DeleteIntegration, Change
<1>3. v = w
  <2>1. ASSUME NEW u \in Workers, u # v, ChooseTargets(v) \/ Fail(v) \/ Finish(v)
               \/ Crash(v) \/ RecoverStale(v)
        PROVE  worker'[u] = worker[u]
    BY <1>1, <2>1 DEF Claim, ChooseTargets, Fail, Finish, Crash, RecoverStale
  <2>2. ASSUME NEW u \in Workers, u # v, Start(v) \/ Deliver(v) \/ Refuse(v) \/ RecordLost(v)
        PROVE  worker'[u] = worker[u]
    BY <1>1, <2>2 DEF Start, Deliver, Marked, Refuse, RecordLost, Failing
  <2>3. ASSUME NEW u \in Workers, u # v, NEW p \in Endpoints, Skip(v, p) \/ Call(v, p)
        PROVE  worker'[u] = worker[u]
    BY <1>1, <2>3 DEF Skip, Marked, Call
  <2>4. ASSUME NEW u \in Workers, u # v, NEW e \in Events, Claim(v, e)
        PROVE  worker'[u] = worker[u]
    BY <1>1, <2>4 DEF Claim
  <2>5. \A u \in Workers : u # v => worker'[u] = worker[u]
    BY <1>2, <2>1, <2>2, <2>3, <2>4 DEF WorkerStep
  <2> QED BY <2>5
<1>4. WorkerStep(w) \/ Crash(w)
  BY <1>2, <1>3
<1>5. PICK p \in Endpoints : Call(w, p)
  <2>1. ~Start(w) /\ ~RecoverStale(w) /\ ~ChooseTargets(w) /\ ~Deliver(w) /\ ~Refuse(w)
        /\ ~RecordLost(w) /\ ~Fail(w) /\ \A e \in Events : ~Claim(w, e)
    BY DEF Start, RecoverStale, ChooseTargets, Deliver, Refuse, RecordLost, Fail, Claim
  <2>2. ~Finish(w) /\ ~Crash(w)
    BY <1>1 DEF Finish, Crash, At
  <2>3. \A p \in Endpoints : ~Skip(w, p)
    BY <1>1 DEF Skip, Marked, Process
  <2> QED BY <1>4, <2>1, <2>2, <2>3 DEF WorkerStep
<1>6. p \in Left(w) /\ worker'[w].endpoint = p
  BY <1>1, <1>5 DEF Call, Process
<1>7. worker[w].event \in Events /\ Serves(w, worker[w].event)
  BY ServingFacts DEF Serves, Serving
<1>8. worker[w].event \notin contested => worker[w].marks = event[worker[w].event].marks
  BY <1>7 DEF OneServes
<1> QED BY <1>6, <1>8 DEF Left

-----------------------------------------------------------------------------
\* At every step the rows and what the workers have loaded of them are honest
\* about who took an event, whatever workers, recovery, retries and changes of
\* endpoints do to each other.
THEOREM OutboxInvariant == Spec => []OutboxInv
<1>1. Init => OutboxInv
  BY InitInv, OutboxAssumption
<1>2. OutboxInv /\ [Next]_vars => OutboxInv'
  BY StepKeeps, OutboxAssumption
<1> QED BY <1>1, <1>2, PTL DEF Spec

\* The rows of the outbox and the state of its workers keep their types.
THEOREM OutboxTypeCorrect == Spec => []OutboxTypeOK
<1>1. OutboxInv => OutboxTypeOK
  BY DEF OutboxInv
<1> QED BY <1>1, OutboxInvariant, PTL

\* The outbox implements at-least-once delivery: an event is declared delivered
\* only when each endpoint that has wanted it throughout has taken it.
THEOREM PromiseKept == Spec => KeepsPromise
<1>1. Init => Promise!AInit
  BY DEF Init, Promise!AInit
<1>2. OutboxInv /\ OutboxInv' /\ [Next]_vars => [Promise!ANext]_Promise!avars
  <2> SUFFICES ASSUME OutboxInv, OutboxInv', [Next]_vars PROVE [Promise!ANext]_Promise!avars
    OBVIOUS
  <2>1. CASE UNCHANGED vars
    BY <2>1 DEF vars, Promise!avars
  <2>2. ASSUME NEW w \in Workers, WorkerStep(w) \/ Crash(w)
        PROVE  [Promise!ANext]_Promise!avars
    BY <2>2, WorkerRefines, OutboxAssumption
  <2>3. ASSUME Next, \A w \in Workers : ~WorkerStep(w) /\ ~Crash(w)
        PROVE  [Promise!ANext]_Promise!avars
    BY <2>3, OtherRefines, OutboxAssumption
  <2> QED BY <2>1, <2>2, <2>3
<1> QED BY <1>1, <1>2, OutboxInvariant, PTL DEF Spec, KeepsPromise, Promise!ASpec

\* An endpoint whose success is recorded is not called again for the event, however
\* endpoints fail, workers crash and operators retry, until the event is put back under
\* a live worker.
THEOREM RecordedIsNotRepeated == Spec => SuccessIsNotRepeated
<1>1. Init => OneServes
  BY DEF Init, OneServes, Serves, At, Serving
<1>2. OutboxInv /\ OneServes /\ [Next]_vars => OneServes'
  BY OneServesKept
<1>3. OutboxInv /\ OneServes /\ [Next]_vars =>
        [\A w \in Workers :
           (worker[w].pc = "visiting" /\ worker'[w].pc = "called")
             => \/ worker'[w].endpoint \notin event[worker[w].event].marks
                \/ worker[w].event \in contested]_vars
  BY CallsUnmarked
<1> QED BY <1>1, <1>2, <1>3, OutboxInvariant, PTL DEF Spec, SuccessIsNotRepeated
=============================================================================
