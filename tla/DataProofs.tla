----------------------------- MODULE DataProofs -----------------------------
(***************************************************************************)
(* Proofs about what an organization takes in and keeps.  Module Inbound:  *)
(* one answer for a message, consent before automation, and an erasure     *)
(* that lasts.  Modules StoredFiles and Recovery: rows with their files,   *)
(* backups with what they must hold, and a status that rests on archives   *)
(* found whole.                                                            *)
(***************************************************************************)
EXTENDS Inbound, Recovery, TLAPS


-----------------------------------------------------------------------------
(***************************************************************************)
(* What the operators return.                                              *)
(***************************************************************************)

LEMMA UpdateFields ==
    /\ \A m \in Messages : <<"message", m>> \in Updates
    /\ \A u \in Updates : u[2] \in Messages /\ (u[1] = "message" => u = <<"message", u[2]>>)
BY InboundAssumption DEF Updates

\* A conversation that differs from v in its state, not in who it is.
Same(v, next) ==
    next \in ConversationRow /\ next.id = v.id /\ next.consent = v.consent /\ (next.ai => v.ai)

LEMMA HandoffFields ==
    ASSUME NEW v \in ConversationRow
    PROVE  Same(v, Handoff(v)) /\ Same(v, HandoffForGood(v)) /\ ~HandoffForGood(v).ai
BY DEF Handoff, HandoffForGood, ConversationRow, Same

LEMMA DecisionFields ==
    ASSUME NEW next, NEW reply
    PROVE  Decision(next, reply).next = next /\ Decision(next, reply).reply = reply
BY DEF Decision

LEMMA AutomationFollows ==
    ASSUME NEW v \in ConversationRow, NEW justGranted \in BOOLEAN,
           NEW d \in Automation(v, justGranted)
    PROVE  /\ Same(v, d.next) /\ d.reply \in {"notice", "automation"}
           /\ d.reply = "automation" => v.ai
<1> DEFINE flow(step) == [v EXCEPT !.status = "active", !.flow = step]
<1>1. \A step \in {"asked", "done"} : Same(v, flow(step)) /\ flow(step) \in ConversationRow
    BY DEF ConversationRow, Same
<1>2. \A step \in {"asked", "done"} : Same(v, HandoffForGood(flow(step)))
    <2> HIDE DEF flow
    <2> QED
        BY <1>1, HandoffFields DEF Same
<1>3. \A e \in AutomationResults(v, justGranted) :
         Same(v, e.next) /\ e.reply \in {"notice", "automation"}
    <2> HIDE DEF flow
    <2>1. AutomationResults(v, justGranted) \subseteq
            {Decision(flow(step), "automation") : step \in {"asked", "done"}}
              \cup {Decision(HandoffForGood(flow(step)), "automation") : step \in {"asked", "done"}}
              \cup {Decision(HandoffForGood(v), "automation"), Decision(HandoffForGood(v), "notice")}
        BY DEF AutomationResults, flow
    <2> QED
        BY <1>1, <1>2, <2>1, HandoffFields, DecisionFields
<1> QED
    BY <1>3, HandoffFields, DecisionFields DEF Automation

LEMMA DecisionsFollow ==
    ASSUME NEW v \in ConversationRow, NEW k \in MessageKinds, NEW d \in Decisions(v, k)
    PROVE  /\ d.next \in ConversationRow /\ d.next.id = v.id
           /\ d.reply \in {"none", "notice", "automation"}
           /\ Follows(v, d.next, d.reply, k)
<1> DEFINE Good(e) == /\ e.next \in ConversationRow /\ e.next.id = v.id
                      /\ e.reply \in {"none", "notice", "automation"}
                      /\ Follows(v, e.next, e.reply, k)
<1>1. ASSUME NEW next, Same(v, next), NEW reply \in {"none", "notice"}
      PROVE  Good(Decision(next, reply))
    BY <1>1, DecisionFields DEF Same, Follows
<1>2. ASSUME NEW next, next \in ConversationRow, next.id = v.id, Refused(next), ~next.ai
      PROVE  Good(Decision(next, "notice"))
    BY <1>2, DecisionFields DEF Follows
<1>3. CASE d \in {Decision(Handoff(v), "none") : x \in {k} \ {"own"}}
    BY <1>1, <1>3, HandoffFields
<1>4. CASE k = "own" /\ d = Decision(v, "none")
    BY <1>1, <1>4 DEF Same
<1>5. CASE k = "media" /\ d = Decision(Handoff(v), "notice")
    BY <1>1, <1>5, HandoffFields
<1>6. CASE k = "stop" /\ d = Decision([v EXCEPT !.status = "blocked", !.consent = "revoked",
                                               !.ai = FALSE], "notice")
    <2> DEFINE next == [v EXCEPT !.status = "blocked", !.consent = "revoked", !.ai = FALSE]
    <2>1. next \in ConversationRow /\ next.id = v.id /\ Refused(next) /\ ~next.ai
        BY DEF ConversationRow, Refused
    <2> HIDE DEF next
    <2>2. Good(Decision(next, "notice"))
        BY <1>2, <2>1
    <2> QED
        BY <1>6, <2>2 DEF next
<1>7. CASE k = "operator" /\ d = Decision(HandoffForGood(v), "notice")
    BY <1>1, <1>7, HandoffFields
<1>8. CASE k = "yes" /\ d \in Automation([v EXCEPT !.consent = "granted"], TRUE)
    <2> DEFINE y == [v EXCEPT !.consent = "granted"]
    <2>1. y \in ConversationRow /\ y.id = v.id /\ y.consent = "granted" /\ y.ai = v.ai
        BY DEF ConversationRow
    <2> HIDE DEF y
    <2>2. d \in Automation(y, TRUE)
        BY <1>8 DEF y
    <2> QED
        BY <1>8, <2>1, <2>2, AutomationFollows DEF Same, Follows
<1>9. CASE k = "no" /\ d = Decision(HandoffForGood([v EXCEPT !.consent = "declined"]), "notice")
    <2> DEFINE n == [v EXCEPT !.consent = "declined"]
    <2>1. n \in ConversationRow /\ n.id = v.id /\ n.consent = "declined"
        BY DEF ConversationRow
    <2> HIDE DEF n
    <2>2. Good(Decision(HandoffForGood(n), "notice"))
        BY <1>2, <2>1, HandoffFields DEF Same, Refused
    <2> QED
        BY <1>9, <2>2 DEF n
<1>10. CASE k = "talk" /\ d = Decision([v EXCEPT !.consent = "requested", !.status = "awaiting"],
                                       "notice")
    <2> DEFINE next == [v EXCEPT !.consent = "requested", !.status = "awaiting"]
    <2>1. next \in ConversationRow /\ next.id = v.id /\ next.consent = "requested" /\ next.ai = v.ai
        BY DEF ConversationRow
    <2> HIDE DEF next
    <2>2. Good(Decision(next, "notice"))
        BY <2>1, DecisionFields DEF Follows
    <2> QED
        BY <1>10, <2>2 DEF next
<1>11. CASE (~NeedsConsent(v)) /\ d \in Automation(v, FALSE)
    BY <1>11, AutomationFollows DEF Same, Follows
<1> QED
    BY <1>3, <1>4, <1>5, <1>6, <1>7, <1>8, <1>9, <1>10, <1>11 DEF Decisions, MessageKinds

LEMMA MergedFields ==
    ASSUME conv \in ConversationRow, NEW read \in ConversationRow, NEW next \in ConversationRow
    PROVE  LET new == Merged(read, next) IN
           /\ new \in ConversationRow /\ new.id = conv.id
           /\ new.consent = IF next.consent # read.consent THEN next.consent ELSE conv.consent
           /\ new.ai = IF next.ai # read.ai THEN next.ai ELSE conv.ai
BY DEF Merged, Fields, ConversationRow

LEMMA CreatedFields ==
    /\ Created \in ConversationRow /\ Created.id \in {1, 2} /\ Created.consent = "unknown"
    /\ Created.id = 2 <=> request.status = "completed"
<1> DEFINE n == IF request.status = "completed" THEN 2 ELSE 1
<1>1. n \in {1, 2} /\ (n = 2 <=> request.status = "completed")
    OBVIOUS
<1>2. Created = [NoConversation EXCEPT !.id = n, !.term = TRUE]
    BY DEF Created
<1>3. NoConversation \in ConversationRow /\ NoConversation.consent = "unknown"
    BY DEF NoConversation, ConversationRow
<1>4. n \in 0 .. 2
    BY <1>1
<1> HIDE DEF n
<1> QED
    BY <1>1, <1>2, <1>3, <1>4 DEF ConversationRow

-----------------------------------------------------------------------------
(***************************************************************************)
(* What a step leaves alone.                                               *)
(***************************************************************************)

LEMMA TypeFacts ==
    ASSUME InboundInv
    PROVE  /\ \A w \in Workers : worker[w] \in Process /\ worker[w].view \in ConversationRow
                                /\ worker[w].next \in ConversationRow
           /\ \A u \in Updates : row[u] \in RowType
           /\ conv \in ConversationRow /\ operator.view \in ConversationRow
           /\ row \in [Updates -> RowType] /\ worker \in [Workers -> Process]
BY DEF InboundInv, InboundTypeOK, Process

LEMMA IdleFields ==
    /\ Idle \in Process /\ Idle.pc = "idle" /\ Idle.update = None /\ Idle.reply = "none"
    /\ NoConversation \in ConversationRow /\ NoConversation.id = 0
    /\ NoConversation.consent = "unknown"
    /\ NoCall \in [pc: {"idle", "patching"}, view: ConversationRow] /\ NoCall.pc = "idle"
<1>1. NoConversation \in ConversationRow /\ NoConversation.id = 0 /\ NoConversation.consent = "unknown"
    BY DEF NoConversation, ConversationRow
<1> QED
    BY <1>1 DEF Idle, Process, NoCall

\* The conversation is what it was to those who have read it, fewer perhaps.
LEMMA ConversationStays ==
    ASSUME InboundInv,
           conv'.id = conv.id, conv'.consent = conv.consent, conv'.ai = conv.ai,
           conv.id = 0 => conv' = conv,
           agreed' = agreed, overruled' = overruled,
           request'.status = "completed" <=> request.status = "completed",
           \A u \in Updates : row[u].status # "absent" => kind'[u] = kind[u],
           \A w \in Workers : Writes(w)' =>
             /\ Writes(w) /\ worker'[w].view = worker[w].view /\ worker'[w].next = worker[w].next
             /\ worker'[w].reply = worker[w].reply /\ worker'[w].update = worker[w].update
             /\ worker'[w].pc = worker[w].pc,
           \A w \in Workers : worker'[w].pc = "loaded" => worker'[w] = worker[w],
           operator' = operator \/ operator' = NoCall
    PROVE  Identities' /\ ConsentKnown' /\ Decided'
<1>1. Older' \subseteq Older
    BY IdleFields DEF Older
<1>2. Views' \subseteq Views
    <2>1. {worker'[w].view : w \in {v \in Workers : Writes(v)'}}
            \subseteq {worker[w].view : w \in {v \in Workers : Writes(v)}}
        OBVIOUS
    <2> QED
        BY <1>1, <2>1 DEF Views
<1>3. Created' = Created
    BY DEF Created
<1>4. Identities'
    BY <1>1, <1>2, <1>3, IdleFields DEF InboundInv, Identities
<1>5. ConsentKnown'
    BY <1>2 DEF InboundInv, ConsentKnown, Refused
<1>6. Decided'
    <2>1. \A w \in Workers : Writes(w)' => kind'[worker'[w].update] = kind[worker[w].update]
        BY DEF InboundInv, UpdatesHeld, Works, Writes, Accepted
    <2> QED
        BY <2>1 DEF InboundInv, Decided, Follows, Refused, NeedsConsent
<1> QED
    BY <1>4, <1>5, <1>6

LEMMA ErasureStays ==
    ASSUME InboundInv, request'.seen = request.seen, erased' = erased,
           \A u \in Accepted : row'[u].status # "absent" /\ (row'[u].payload => row[u].payload),
           \A m \in Messages : <<"message", m>> \in erased /\ stored[m] = "none" => stored'[m] = "none"
    PROVE  ErasureHolds'
<1>1. Accepted \subseteq Accepted'
    BY DEF Accepted
<1>2. ErasedStaysErased'
    <2> SUFFICES ASSUME NEW u \in erased
                 PROVE  ~row'[u].payload /\ (u[1] = "message" => stored'[u[2]] = "none")
        BY DEF ErasedStaysErased
    <2>1. /\ u \in Accepted /\ u \in Updates /\ ~row[u].payload
          /\ u[1] = "message" => stored[u[2]] = "none"
        BY DEF InboundInv, ErasureHolds, ErasedStaysErased, Accepted
    <2> QED
        BY <2>1, UpdateFields
<1> QED
    BY <1>1, <1>2 DEF InboundInv, ErasureHolds

\* The answers of m are what they were, and so is what accounts for them.
LEMMA CountStays ==
    ASSUME InboundInv, answers' = answers, spent' \in {spent, spent + 1}, redone \subseteq redone',
           \A m \in Messages : Answered(m) => Answered(m)' \/ (m \in redone' /\ spent' = spent + 1)
    PROVE  AnswersCounted'
<1> SUFFICES ASSUME NEW m \in Messages
             PROVE  /\ answers[m] <= spent' + IF Answered(m)' THEN 1 ELSE 0
                    /\ m \notin redone' => answers[m] <= IF Answered(m)' THEN 1 ELSE 0
    BY DEF AnswersCounted
<1>1. /\ answers[m] <= spent + IF Answered(m) THEN 1 ELSE 0
      /\ m \notin redone => answers[m] <= IF Answered(m) THEN 1 ELSE 0
      /\ answers[m] \in Nat /\ spent \in Nat
    BY InboundAssumption DEF InboundInv, AnswersCounted, InboundTypeOK
<1> QED
    BY <1>1

\* Nobody's update changes hands, and no update that is held changes.
LEMMA HeldStays ==
    ASSUME InboundInv, UNCHANGED worker,
           \A u \in Accepted : row'[u].status # "absent",
           \A w \in Workers : Works(w) => row'[worker[w].update] = row[worker[w].update]
    PROVE  UpdatesHeld'
<1>1. \A w \in Workers : Works(w)' = Works(w) /\ Writes(w)' = Writes(w)
    BY DEF Works, Writes
<1>2. \A w \in Workers : Writes(w) => Works(w)
    BY DEF Works
<1>3. Accepted \subseteq Accepted'
    BY DEF Accepted
<1> QED
    BY <1>1, <1>2, <1>3 DEF InboundInv, UpdatesHeld

\* Worker w lets go of its update, which it may have settled.
Leaves(w, p) ==
    /\ p \in Process /\ worker' = [worker EXCEPT ![w] = p]
    /\ worker[w].pc # "idle"
    /\ p.pc = "idle" \/ (p.pc = "failing" /\ p.update = worker[w].update)
Settles(w) ==
    /\ Works(w) \/ ~Held(worker[w].update)
    /\ \E outcome \in {"processed", "ignored", "failed"} :
         row' = [row EXCEPT ![worker[w].update].status = outcome]

LEMMA LeavingHolds ==
    ASSUME InboundInv, NEW w \in Workers, NEW p, Leaves(w, p), UNCHANGED row \/ Settles(w)
    PROVE  /\ row' \in [Updates -> RowType] /\ worker' \in [Workers -> Process]
           /\ worker[w].update \in Updates
           /\ \A u \in Updates : /\ row'[u].payload = row[u].payload
                                 /\ row'[u].status = "absent" <=> row[u].status = "absent"
           /\ worker'[w] = p /\ \A v \in Workers \ {w} : worker'[v] = worker[v]
           /\ UpdatesHeld'
<1> DEFINE u == worker[w].update
<1>1. u \in Accepted /\ u \in Updates /\ row[u].status # "absent"
    BY DEF InboundInv, UpdatesHeld, Leaves, Accepted
<1>2. /\ worker' \in [Workers -> Process] /\ worker'[w] = p
      /\ \A v \in Workers \ {w} : worker'[v] = worker[v]
    BY TypeFacts DEF Leaves
<1>3. /\ row' \in [Updates -> RowType]
      /\ row'[u].payload = row[u].payload /\ row'[u].status # "absent"
      /\ \A x \in Updates \ {u} : row'[x] = row[x]
    <2>1. CASE UNCHANGED row
        BY <1>1, <2>1, TypeFacts
    <2>2. ASSUME NEW outcome \in {"processed", "ignored", "failed"},
                 row' = [row EXCEPT ![u].status = outcome]
          PROVE  <1>3
        BY <1>1, <2>2, TypeFacts DEF RowType
    <2> QED
        BY <2>1, <2>2 DEF Settles
<1> HIDE DEF u
<1>4. UpdatesHeld'
    <2>1. ~Works(w)' /\ ~Writes(w)'
        BY <1>2 DEF Works, Writes, Leaves
    <2>2. \A v \in Workers \ {w} : Works(v) => row'[worker[v].update] = row[worker[v].update]
        <3> SUFFICES ASSUME NEW v \in Workers \ {w}, Works(v), ~(UNCHANGED row)
                     PROVE  row'[worker[v].update] = row[worker[v].update]
            OBVIOUS
        <3>1. worker[v].update # u
            BY DEF InboundInv, UpdatesHeld, Settles, Held, Works, Writes, u
        <3>2. worker[v].update \in Updates
            BY DEF InboundInv, UpdatesHeld, Works, Writes, Accepted
        <3> QED
            BY <1>3, <3>1, <3>2
    <2>3. Accepted \subseteq Accepted'
        BY <1>1, <1>3 DEF Accepted
    <2>4. worker'[w].pc # "idle" => worker'[w].update \in Accepted'
        BY <1>1, <1>2, <2>3 DEF Leaves, u
    <2>5. \A v \in Workers :
             /\ worker'[v].pc # "idle" => worker'[v].update \in Accepted'
             /\ Works(v)' => row'[worker'[v].update].status = "received"
             /\ Writes(v)' => worker'[v].update[1] = "message" /\ row'[worker'[v].update].payload
        <3> SUFFICES ASSUME NEW v \in Workers \ {w}
                     PROVE  /\ worker'[v].pc # "idle" => worker'[v].update \in Accepted'
                            /\ Works(v)' => row'[worker'[v].update].status = "received"
                            /\ Writes(v)' => worker'[v].update[1] = "message"
                                             /\ row'[worker'[v].update].payload
            BY <2>1, <2>4
        <3>1. /\ worker[v].pc # "idle" => worker[v].update \in Accepted
              /\ Works(v) => row[worker[v].update].status = "received"
              /\ Writes(v) => worker[v].update[1] = "message" /\ row[worker[v].update].payload
            BY DEF InboundInv, UpdatesHeld
        <3>2. worker'[v] = worker[v]
            BY <1>2
        <3>3. worker'[v].pc # "idle" => worker'[v].update \in Accepted'
            BY <2>3, <3>1, <3>2
        <3>4. Works(v)' => row'[worker'[v].update].status = "received"
            BY <2>2, <3>1, <3>2 DEF Works, Writes
        <3>5. Writes(v)' => worker'[v].update[1] = "message" /\ row'[worker'[v].update].payload
            BY <2>2, <3>1, <3>2 DEF Works, Writes
        <3> QED
            BY <3>3, <3>4, <3>5
    <2>6. \A v, x \in Workers :
             /\ Works(v)' /\ Works(x)' /\ worker'[v].update = worker'[x].update => v = x
             /\ Writes(v)' /\ Writes(x)' => v = x
        <3> SUFFICES ASSUME NEW v \in Workers, NEW x \in Workers, Works(v)', Works(x)',
                            worker'[v].update = worker'[x].update \/ (Writes(v)' /\ Writes(x)')
                     PROVE  v = x
            BY DEF Works
        <3>1. v # w /\ x # w
            BY <2>1
        <3>2. worker'[v] = worker[v] /\ worker'[x] = worker[x]
            BY <1>2, <3>1
        <3>3. /\ Works(v) /\ Works(x)
              /\ worker[v].update = worker[x].update \/ (Writes(v) /\ Writes(x))
            BY <3>2 DEF Works, Writes
        <3> QED
            BY <3>3 DEF InboundInv, UpdatesHeld
    <2> QED
        BY <2>5, <2>6 DEF UpdatesHeld
<1>5. \A x \in Updates : /\ row'[x].payload = row[x].payload
                         /\ row'[x].status = "absent" <=> row[x].status = "absent"
    BY <1>1, <1>3
<1> QED
    BY <1>1, <1>2, <1>3, <1>4, <1>5 DEF u

LEMMA LeavingAnswers ==
    ASSUME InboundInv, NEW w \in Workers, NEW p, Leaves(w, p), UNCHANGED row \/ Settles(w),
           NEW m \in Messages, Answered(m), ~Answered(m)'
    PROVE  /\ worker[w].pc = "replied" /\ worker[w].reply # "none"
           /\ worker[w].update = <<"message", m>> /\ UNCHANGED row
<1> DEFINE u == <<"message", m>>
<1>1. u \in Updates /\ worker[w].update \in Updates
    BY UpdateFields, LeavingHolds
<1>2. \A v \in Workers \ {w} : worker'[v] = worker[v]
    BY LeavingHolds
<1>3. row'[u].status \in {"absent", "received"}
    BY DEF Answered
<1>4. row[u].status \in {"absent", "received"}
    <2>1. CASE UNCHANGED row
        BY <1>3, <2>1
    <2>2. ASSUME NEW outcome \in {"processed", "ignored", "failed"},
                 row' = [row EXCEPT ![worker[w].update].status = outcome]
          PROVE  <1>4
        BY <1>1, <1>3, <2>2, TypeFacts DEF RowType
    <2> QED
        BY <2>1, <2>2 DEF Settles
<1>5. PICK v \in Workers : worker[v].pc = "replied" /\ worker[v].reply # "none" /\ worker[v].update = u
    BY <1>4 DEF Answered
<1>6. v = w
    BY <1>2, <1>5 DEF Answered
<1>7. UNCHANGED row
    <2>1. ASSUME NEW outcome \in {"processed", "ignored", "failed"},
                 row' = [row EXCEPT ![worker[w].update].status = outcome]
          PROVE  FALSE
        BY <1>1, <1>3, <1>5, <1>6, <2>1, TypeFacts DEF RowType
    <2> QED
        BY <2>1 DEF Settles
<1> QED
    BY <1>5, <1>6, <1>7

LEMMA LeavingInv ==
    ASSUME InboundInv, NEW w \in Workers, NEW p, Leaves(w, p),
           UNCHANGED <<row, ahead>> \/ (Settles(w) /\ ahead' = [v \in Updates |->
              IF v = worker[w].update THEN {} ELSE ahead[v] \ {worker[w].update}]),
           UNCHANGED <<kind, enabled, conv, operator, request, agreed, overruled, erased>>,
           stored' \in [Messages -> {"none", "text", "removed"}],
           \A m \in Messages : <<"message", m>> \in erased /\ stored[m] = "none" => stored'[m] = "none",
           answers' \in [Messages -> Nat], redone' \subseteq Messages, spent' \in 0 .. SpendBound
    PROVE  InboundTypeOK' /\ UpdatesHeld' /\ ErasureHolds' /\ Identities' /\ ConsentKnown' /\ Decided'
<1>1. /\ row' \in [Updates -> RowType] /\ worker' \in [Workers -> Process]
      /\ \A u \in Updates : /\ row'[u].payload = row[u].payload
                            /\ row'[u].status = "absent" <=> row[u].status = "absent"
      /\ worker'[w] = p /\ \A v \in Workers \ {w} : worker'[v] = worker[v]
      /\ UpdatesHeld'
    BY LeavingHolds
<1>2. ahead' \in [Updates -> SUBSET Updates]
    BY DEF InboundInv, InboundTypeOK
<1>3. InboundTypeOK'
    BY <1>1, <1>2 DEF InboundInv, InboundTypeOK, KindsOf
<1>4. ErasureHolds'
    BY <1>1, ErasureStays DEF Accepted
<1>5. Identities' /\ ConsentKnown' /\ Decided'
    <2>1. ~Writes(w)' /\ worker'[w].pc # "loaded"
        BY <1>1 DEF Leaves, Writes
    <2>2. \A v \in Workers : Writes(v)' => Writes(v) /\ worker'[v] = worker[v]
        BY <1>1, <2>1 DEF Writes
    <2>3. \A v \in Workers : worker'[v].pc = "loaded" => worker'[v] = worker[v]
        BY <1>1, <2>1
    <2> QED
        BY <2>2, <2>3, ConversationStays
<1> QED
    BY <1>1, <1>3, <1>4, <1>5

-----------------------------------------------------------------------------
(***************************************************************************)
(* Every action preserves the invariant.                                   *)
(***************************************************************************)

LEMMA FailingFields ==
    ASSUME InboundInv, NEW w \in Workers, worker[w].pc # "idle", Fails(w)
    PROVE  /\ Leaves(w, [Idle EXCEPT !.pc = "failing", !.update = worker[w].update])
           /\ UNCHANGED <<ahead, row>>
<1>1. worker[w] \in Process
    BY TypeFacts
<1> QED
    BY <1>1, IdleFields DEF Fails, Leaves, Process

LEMMA FinishFields ==
    ASSUME InboundInv, NEW w \in Workers, worker[w].pc # "idle",
           NEW outcome \in {"processed", "ignored", "failed"}, Finish(w, outcome),
           Works(w) \/ ~Held(worker[w].update)
    PROVE  /\ Leaves(w, Idle) /\ Settles(w)
           /\ ahead' = [v \in Updates |->
                IF v = worker[w].update THEN {} ELSE ahead[v] \ {worker[w].update}]
BY IdleFields DEF Finish, Settled, Leaves, Settles

LEMMA DropInv ==
    ASSUME InboundInv, NEW w \in Workers,
           \/ PayloadGone(w) \/ HandleFails(w) \/ MarkFailed(w) \/ Ignore(w) \/ Amend(w)
    PROVE  InboundInv'
<1>1. /\ worker[w].pc \in {"loaded", "failing"}
      /\ UNCHANGED <<kind, enabled, conv, operator, request, answers, redone, agreed, overruled,
                     erased, spent>>
    BY DEF PayloadGone, HandleFails, MarkFailed, Ignore, Amend, Loaded
<1>2. /\ answers \in [Messages -> Nat] /\ redone \subseteq Messages /\ spent \in 0 .. SpendBound
      /\ stored \in [Messages -> {"none", "text", "removed"}]
    BY DEF InboundInv, InboundTypeOK
<1>3. /\ stored' \in [Messages -> {"none", "text", "removed"}]
      /\ \A m \in Messages : stored[m] = "none" => stored'[m] = "none"
    <2>1. CASE Amend(w)
        <3>1. worker[w].update[2] \in Messages
            BY <1>1, UpdateFields DEF InboundInv, UpdatesHeld, Accepted
        <3> QED
            BY <1>2, <2>1, <3>1 DEF Amend
    <2> QED
        BY <1>2, <2>1 DEF PayloadGone, HandleFails, MarkFailed, Ignore
<1>4. PICK p : /\ Leaves(w, p)
               /\ UNCHANGED <<row, ahead>> \/ (Settles(w) /\ ahead' = [v \in Updates |->
                     IF v = worker[w].update THEN {} ELSE ahead[v] \ {worker[w].update}])
    <2>1. CASE PayloadGone(w) \/ HandleFails(w)
        BY <1>1, <2>1, FailingFields DEF PayloadGone, HandleFails
    <2>2. CASE MarkFailed(w)
        BY <1>1, <2>2, FinishFields DEF MarkFailed
    <2>3. CASE Ignore(w)
        BY <1>1, <2>3, FinishFields DEF Ignore, Loaded, Works
    <2>4. CASE Amend(w)
        BY <1>1, <2>4, FinishFields DEF Amend, Loaded, Works
    <2> QED
        BY <2>1, <2>2, <2>3, <2>4
<1>5. InboundTypeOK' /\ UpdatesHeld' /\ ErasureHolds' /\ Identities' /\ ConsentKnown' /\ Decided'
    BY <1>1, <1>2, <1>3, <1>4, LeavingInv
<1>6. AnswersCounted'
    <2>1. \A m \in Messages : Answered(m) => Answered(m)'
        BY <1>1, <1>4, LeavingAnswers
    <2> QED
        BY <1>1, <2>1, CountStays
<1> QED
    BY <1>5, <1>6 DEF InboundInv

LEMMA CrashInv ==
    ASSUME InboundInv, NEW w \in Workers, Crash(w)
    PROVE  InboundInv'
<1>1. /\ Leaves(w, Idle) /\ UNCHANGED <<ahead, row, stored, kind, enabled, conv, operator, request,
                                       answers, agreed, overruled, erased>>
      /\ spent' = spent + 1 /\ spent < SpendBound /\ redone \subseteq redone'
    BY IdleFields DEF Crash, Leaves, Spend
<1>2. /\ answers \in [Messages -> Nat] /\ redone \subseteq Messages /\ spent \in 0 .. SpendBound
      /\ stored \in [Messages -> {"none", "text", "removed"}]
    BY DEF InboundInv, InboundTypeOK
<1>3. redone' \subseteq Messages
    <2>1. worker[w].update[2] \in Messages
        BY UpdateFields DEF InboundInv, UpdatesHeld, Accepted, Crash
    <2> QED
        BY <1>2, <2>1 DEF Crash
<1>4. spent' \in 0 .. SpendBound
    BY <1>1, <1>2, InboundAssumption
<1>5. InboundTypeOK' /\ UpdatesHeld' /\ ErasureHolds' /\ Identities' /\ ConsentKnown' /\ Decided'
    BY <1>1, <1>2, <1>3, <1>4, LeavingInv
<1>6. AnswersCounted'
    <2>1. ASSUME NEW m \in Messages, Answered(m), ~Answered(m)' PROVE m \in redone'
        <3>1. worker[w].pc = "replied" /\ worker[w].reply # "none" /\ worker[w].update = <<"message", m>>
            BY <1>1, <2>1, LeavingAnswers
        <3> QED
            BY <3>1 DEF Crash
    <2> QED
        BY <1>1, <2>1, CountStays
<1> QED
    BY <1>5, <1>6 DEF InboundInv

LEMMA AnswerFailsInv ==
    ASSUME InboundInv, NEW w \in Workers, NEW delivered \in BOOLEAN, AnswerFails(w, delivered)
    PROVE  InboundInv'
<1> DEFINE n == worker[w].update[2]
           p == [Idle EXCEPT !.pc = "failing", !.update = worker[w].update]
           one == IF delivered THEN 1 ELSE 0
<1>1. /\ worker[w].pc = "replying" /\ n \in Messages /\ Fails(w)
      /\ UNCHANGED <<stored, kind, enabled, conv, operator, request, agreed, overruled, erased>>
      /\ spent' = spent + 1 /\ spent < SpendBound
      /\ answers' = [answers EXCEPT ![n] = @ + one]
      /\ redone' = IF delivered THEN redone \cup {n} ELSE redone
    BY UpdateFields DEF InboundInv, UpdatesHeld, Accepted, AnswerFails, Spend
<1>2. Leaves(w, p) /\ UNCHANGED <<ahead, row>>
    BY <1>1, FailingFields
<1>3. /\ answers \in [Messages -> Nat] /\ redone \subseteq Messages /\ spent \in 0 .. SpendBound
      /\ stored \in [Messages -> {"none", "text", "removed"}] /\ SpendBound \in Nat
      /\ one \in {0, 1} /\ (one = 1 => delivered)
    BY InboundAssumption DEF InboundInv, InboundTypeOK
<1> HIDE DEF n, p, one
<1>4. answers' \in [Messages -> Nat] /\ redone' \subseteq Messages /\ spent' \in 0 .. SpendBound
    BY <1>1, <1>3
<1>5. InboundTypeOK' /\ UpdatesHeld' /\ ErasureHolds' /\ Identities' /\ ConsentKnown' /\ Decided'
    BY <1>1, <1>2, <1>3, <1>4, LeavingInv
<1>6. AnswersCounted'
    <2> SUFFICES ASSUME NEW m \in Messages
                 PROVE  /\ answers'[m] <= spent' + IF Answered(m)' THEN 1 ELSE 0
                        /\ m \notin redone' => answers'[m] <= IF Answered(m)' THEN 1 ELSE 0
        BY DEF AnswersCounted
    <2>1. Answered(m) => Answered(m)'
        BY <1>1, <1>2, LeavingAnswers
    <2>2. /\ answers[m] <= spent + IF Answered(m) THEN 1 ELSE 0
          /\ m \notin redone => answers[m] <= IF Answered(m) THEN 1 ELSE 0
        BY DEF InboundInv, AnswersCounted
    <2>3. answers'[m] = answers[m] \/ (m = n /\ delivered /\ answers'[m] = answers[m] + 1)
        BY <1>1, <1>3
    <2> QED
        BY <1>1, <1>3, <2>1, <2>2, <2>3
<1> QED
    BY <1>5, <1>6 DEF InboundInv

\* Everything but the updates and the workers, when no worker moves and no update that is
\* held changes.
LEMMA QuietInv ==
    ASSUME InboundInv, UNCHANGED <<worker, answers, redone, overruled, agreed>>,
           ahead' \in [Updates -> SUBSET Updates], row' \in [Updates -> RowType],
           enabled' \in BOOLEAN, conv' \in ConversationRow, request' \in RequestType,
           stored' \in [Messages -> {"none", "text", "removed"}],
           kind' \in [Updates -> MessageKinds \cup {"-"}],
           \A u \in Updates : row'[u].status # "absent" => kind'[u] \in KindsOf(u),
           spent' \in {spent, spent + 1}, spent' \in 0 .. SpendBound,
           operator' = operator \/ operator' = NoCall,
           conv'.id = conv.id, conv'.consent = conv.consent, conv'.ai = conv.ai,
           conv.id = 0 => conv' = conv,
           request'.status = "completed" <=> request.status = "completed",
           request'.seen = request.seen \/ (request'.seen = Accepted /\ UNCHANGED row),
           erased' = erased,
           \A u \in Accepted : /\ kind'[u] = kind[u] /\ row'[u].status = row[u].status
                               /\ row'[u].payload => row[u].payload,
           \A w \in Workers : Works(w) => row'[worker[w].update] = row[worker[w].update],
           \A m \in Messages : <<"message", m>> \in erased /\ stored[m] = "none" => stored'[m] = "none"
    PROVE  InboundInv'
<1>1. InboundTypeOK'
    BY IdleFields DEF InboundInv, InboundTypeOK, KindsOf
<1>2. UpdatesHeld'
    <2>1. \A u \in Accepted : row'[u].status # "absent"
        BY DEF Accepted
    <2> QED
        BY <2>1, HeldStays
<1>3. AnswersCounted'
    <2>1. \A m \in Messages : Answered(m) => Answered(m)'
        <3> SUFFICES ASSUME NEW m \in Messages, Answered(m) PROVE Answered(m)'
            OBVIOUS
        <3>1. CASE row[<<"message", m>>].status \notin {"absent", "received"}
            BY <3>1, UpdateFields DEF Accepted, Answered
        <3> QED
            BY <3>1 DEF Answered
    <2> QED
        BY <2>1, CountStays
<1>4. ErasureHolds'
    <2>1. CASE request'.seen = request.seen
        BY <2>1, ErasureStays DEF Accepted
    <2>2. CASE request'.seen = Accepted /\ UNCHANGED row
        <3>1. ErasedStaysErased'
            <4> SUFFICES ASSUME NEW u \in erased
                         PROVE  ~row'[u].payload /\ (u[1] = "message" => stored'[u[2]] = "none")
                BY DEF ErasedStaysErased
            <4>1. /\ u \in Updates /\ ~row[u].payload
                  /\ u[1] = "message" => stored[u[2]] = "none"
                BY DEF InboundInv, ErasureHolds, ErasedStaysErased, Accepted
            <4> QED
                BY <2>2, <4>1, UpdateFields
        <3> QED
            BY <2>2, <3>1 DEF InboundInv, ErasureHolds, Accepted
    <2> QED
        BY <2>1, <2>2
<1>5. Identities' /\ ConsentKnown' /\ Decided'
    <2>1. \A w \in Workers : Writes(w)' => Writes(w)
        BY DEF Writes
    <2>2. \A u \in Updates : row[u].status # "absent" => kind'[u] = kind[u]
        BY DEF Accepted
    <2> QED
        BY <2>1, <2>2, ConversationStays
<1> QED
    BY <1>1, <1>2, <1>3, <1>4, <1>5 DEF InboundInv

LEMMA HeldByWorkers ==
    ASSUME InboundInv, NEW w \in Workers, Works(w)
    PROVE  Held(worker[w].update) /\ worker[w].update \in Accepted
BY DEF InboundInv, UpdatesHeld, Held, Works, Writes

LEMMA AcceptInv ==
    ASSUME InboundInv, NEW u \in Updates, NEW k \in KindsOf(u), Accept(u, k)
    PROVE  InboundInv'
<1>1. k \in MessageKinds \cup {"-"}
    BY InboundAssumption, UpdateFields DEF KindsOf
<1>2. /\ row' = [row EXCEPT ![u] = [status |-> "received", payload |-> TRUE]]
      /\ ahead' = [ahead EXCEPT ![u] = Received] /\ kind' = [kind EXCEPT ![u] = k]
      /\ row[u].status = "absent"
      /\ UNCHANGED <<enabled, conv, stored, worker, operator, request, answers, redone, agreed,
                     overruled, erased, spent>>
    BY DEF Accept
<1>3. [status |-> "received", payload |-> TRUE] \in RowType /\ Received \subseteq Updates
    BY DEF RowType, Received
<1>4. /\ row \in [Updates -> RowType] /\ ahead \in [Updates -> SUBSET Updates]
      /\ kind \in [Updates -> MessageKinds \cup {"-"}]
      /\ \A x \in Updates : row[x].status # "absent" => kind[x] \in KindsOf(x)
      /\ conv \in ConversationRow /\ request \in RequestType /\ enabled \in BOOLEAN
      /\ stored \in [Messages -> {"none", "text", "removed"}] /\ spent \in 0 .. SpendBound
    BY DEF InboundInv, InboundTypeOK
<1>5. /\ row' \in [Updates -> RowType] /\ ahead' \in [Updates -> SUBSET Updates]
      /\ kind' \in [Updates -> MessageKinds \cup {"-"}]
      /\ \A x \in Updates : row'[x].status # "absent" => kind'[x] \in KindsOf(x)
    BY <1>1, <1>2, <1>3, <1>4
<1>6. \A x \in Accepted : x # u /\ x \in Updates /\ row'[x] = row[x] /\ kind'[x] = kind[x]
    BY <1>2, <1>4 DEF Accepted
<1>7. \A w \in Workers : Works(w) => row'[worker[w].update] = row[worker[w].update]
    BY <1>6, HeldByWorkers
<1> QED
    BY <1>2, <1>4, <1>5, <1>6, <1>7, QuietInv

\* A deletion is asked for, read, or fails; the connection is switched.
LEMMA RequestInv ==
    ASSUME InboundInv, Connect \/ RequestErasure \/ EraseReads \/ EraseFails
    PROVE  InboundInv'
<1>1. /\ row \in [Updates -> RowType] /\ ahead \in [Updates -> SUBSET Updates]
      /\ kind \in [Updates -> MessageKinds \cup {"-"}]
      /\ \A x \in Updates : row[x].status # "absent" => kind[x] \in KindsOf(x)
      /\ conv \in ConversationRow /\ request \in RequestType /\ enabled \in BOOLEAN
      /\ stored \in [Messages -> {"none", "text", "removed"}] /\ spent \in 0 .. SpendBound
    BY DEF InboundInv, InboundTypeOK
<1>2. /\ UNCHANGED <<ahead, row, kind, conv, stored, worker, operator, answers, redone, agreed,
                     overruled, erased>>
      /\ enabled' \in BOOLEAN
    BY <1>1 DEF Connect, RequestErasure, EraseReads, EraseFails
<1>3. spent' \in {spent, spent + 1} /\ spent' \in 0 .. SpendBound
    BY <1>1, InboundAssumption DEF Connect, RequestErasure, EraseReads, EraseFails, Spend
<1>4. /\ request' \in RequestType /\ (request'.status = "completed" <=> request.status = "completed")
      /\ request'.seen = request.seen \/ request'.seen = Accepted
    <2>1. Accepted \subseteq Updates /\ conv.id \in 0 .. 2
        BY <1>1 DEF Accepted, ConversationRow
    <2> QED
        BY <1>1, <2>1 DEF Connect, RequestErasure, EraseReads, EraseFails, RequestType
<1>5. \A x \in Accepted : x \in Updates /\ row'[x] = row[x] /\ kind'[x] = kind[x]
    BY <1>2 DEF Accepted
<1> QED
    BY <1>1, <1>2, <1>3, <1>4, <1>5, QuietInv

LEMMA RetainInv ==
    ASSUME InboundInv, NEW texts \in BOOLEAN, NEW raw \in SUBSET Updates, Retain(texts, raw)
    PROVE  InboundInv'
<1>1. /\ row \in [Updates -> RowType] /\ ahead \in [Updates -> SUBSET Updates]
      /\ kind \in [Updates -> MessageKinds \cup {"-"}]
      /\ \A x \in Updates : row[x].status # "absent" => kind[x] \in KindsOf(x)
      /\ conv \in ConversationRow /\ request \in RequestType /\ enabled \in BOOLEAN
      /\ stored \in [Messages -> {"none", "text", "removed"}] /\ spent \in 0 .. SpendBound
    BY DEF InboundInv, InboundTypeOK
<1>2. /\ UNCHANGED <<ahead, kind, enabled, worker, operator, request, answers, redone, agreed,
                     overruled, erased>>
      /\ \A u \in raw : ~Held(u)
      /\ texts => conv.term
      /\ spent' \in {spent, spent + 1} /\ spent' \in 0 .. SpendBound
    BY <1>1, InboundAssumption DEF Retain, Spend
<1>3. /\ stored' \in [Messages -> {"none", "text", "removed"}]
      /\ \A m \in Messages : stored[m] = "none" => stored'[m] = "none"
    BY <1>1 DEF Retain
<1>4. /\ conv' \in ConversationRow /\ conv'.id = conv.id /\ conv'.consent = conv.consent
      /\ conv'.ai = conv.ai /\ (conv.id = 0 => conv' = conv)
    <2> DEFINE t == conv.term /\ ~texts
    <2>1. t \in BOOLEAN /\ conv' = [conv EXCEPT !.term = t]
        BY DEF Retain
    <2>2. conv.id = 0 => t = conv.term
        <3>1. conv.id = 0 => conv.term = FALSE
            BY DEF InboundInv, Identities, NoConversation
        <3> QED
            BY <3>1
    <2> HIDE DEF t
    <2> QED
        BY <1>1, <2>1, <2>2 DEF ConversationRow
<1>5. /\ row' \in [Updates -> RowType]
      /\ \A u \in Updates : /\ row'[u].status = row[u].status
                            /\ row'[u].payload => row[u].payload
                            /\ u \notin raw => row'[u] = row[u]
    <2>1. row' = [u \in Updates |-> [row[u] EXCEPT !.payload = @ /\ u \notin raw]]
        BY DEF Retain
    <2>2. ASSUME NEW u \in Updates
          PROVE  /\ row'[u] \in RowType /\ row'[u].status = row[u].status
                 /\ row'[u].payload => row[u].payload
                 /\ u \notin raw => row'[u] = row[u]
        <3> DEFINE x == row[u].payload /\ u \notin raw
        <3>1. x \in BOOLEAN /\ (x => row[u].payload) /\ row'[u] = [row[u] EXCEPT !.payload = x]
            BY <2>1
        <3>2. row[u] \in RowType
            BY <1>1
        <3>3. u \notin raw => x = row[u].payload
            BY <3>2 DEF RowType
        <3> HIDE DEF x
        <3> QED
            BY <3>1, <3>2, <3>3 DEF RowType
    <2> QED
        BY <2>1, <2>2
<1>6. \A w \in Workers : Works(w) => row'[worker[w].update] = row[worker[w].update]
    BY <1>2, <1>5, HeldByWorkers DEF Accepted
<1>7. \A u \in Accepted : u \in Updates
    BY DEF Accepted
<1> QED
    BY <1>1, <1>2, <1>3, <1>4, <1>5, <1>6, <1>7, QuietInv

\* Somebody has read the conversation as it is.
LEMMA ReadStays ==
    ASSUME InboundInv,
           UNCHANGED <<conv, request, agreed, overruled, kind>>,
           \A w \in Workers : Writes(w)' => Writes(w) /\ worker'[w] = worker[w],
           \A w \in Workers : worker'[w].pc = "loaded" =>
             worker'[w] = worker[w] \/ worker'[w].view = conv,
           operator' = operator \/ (operator'.view = conv /\ conv.id # 0)
    PROVE  Identities' /\ ConsentKnown' /\ Decided'
<1>1. Older' \subseteq Older \cup {conv}
    BY DEF Older
<1>2. \A w \in Workers : Writes(w)' => worker'[w].view \in Views
    BY DEF Views
<1>3. Views' \subseteq Views \cup {conv}
    BY <1>1, <1>2 DEF Views
<1>4. Created' = Created
    BY DEF Created
<1>5. Identities'
    <2>1. \A w \in Workers : worker'[w].pc = "loaded" /\ worker'[w].view.id = 0
                             => worker'[w].view = NoConversation
        BY DEF InboundInv, Identities
    <2>2. conv.id = 0 => \A v \in Older' :
            v.id # Created.id /\ \A w \in Workers : Writes(w)' => v.id # worker'[w].view.id
        BY <1>1, CreatedFields DEF InboundInv, Identities
    <2> QED
        BY <1>3, <1>4, <2>1, <2>2 DEF InboundInv, Identities
<1>6. ConsentKnown'
    BY <1>3 DEF InboundInv, ConsentKnown, Refused
<1>7. Decided'
    BY DEF InboundInv, Decided, Follows, Refused, NeedsConsent
<1> QED
    BY <1>5, <1>6, <1>7

LEMMA TakeInv ==
    ASSUME InboundInv, NEW w \in Workers, Take(w)
    PROVE  InboundInv'
<1>1. PICK u \in Received :
         /\ ~Held(u)
         /\ worker' = [worker EXCEPT ![w] = [Idle EXCEPT !.pc = "loaded", !.update = u,
                                                         !.view = conv]]
    BY DEF Take
<1>2. /\ worker[w].pc = "idle"
      /\ UNCHANGED <<ahead, row, kind, enabled, conv, stored, operator, request, answers,
                     redone, agreed, overruled, erased, spent>>
    BY DEF Take
<1> DEFINE q == [Idle EXCEPT !.pc = "loaded", !.update = u, !.view = conv]
<1>3. /\ u \in Updates /\ row[u].status = "received" /\ u \in Accepted
    BY DEF Received, Accepted
<1>4. q \in Process /\ q.pc = "loaded" /\ q.update = u /\ q.view = conv
    BY <1>3, TypeFacts, IdleFields DEF Idle, Process
<1> HIDE DEF q
<1>5. /\ worker' \in [Workers -> Process] /\ worker'[w] = q
      /\ \A v \in Workers \ {w} : worker'[v] = worker[v]
    BY <1>1, <1>4, TypeFacts DEF q
<1>6. InboundTypeOK'
    BY <1>2, <1>5 DEF InboundInv, InboundTypeOK, KindsOf
<1>7. UpdatesHeld'
    <2>1. Accepted' = Accepted
        BY <1>2 DEF Accepted
    <2>2. \A v \in Workers \ {w} : Works(v)' => Works(v) /\ worker[v].update # u
        BY <1>1, <1>5 DEF Works, Writes, Held
    <2>3. ~Writes(w)'
        BY <1>4, <1>5 DEF Writes
    <2>4. \A v \in Workers :
            /\ worker'[v].pc # "idle" => worker'[v].update \in Accepted
            /\ Works(v)' => row[worker'[v].update].status = "received"
            /\ Writes(v)' => worker'[v].update[1] = "message" /\ row[worker'[v].update].payload
        <3> SUFFICES ASSUME NEW v \in Workers \ {w}
                     PROVE  /\ worker'[v].pc # "idle" => worker'[v].update \in Accepted
                            /\ Works(v)' => row[worker'[v].update].status = "received"
                            /\ Writes(v)' => /\ worker'[v].update[1] = "message"
                                             /\ row[worker'[v].update].payload
            BY <1>3, <1>4, <1>5, <2>3
        <3>1. worker'[v] = worker[v]
            BY <1>5
        <3> QED
            BY <3>1 DEF InboundInv, UpdatesHeld, Works, Writes
    <2>5. \A v, x \in Workers :
            /\ Works(v)' /\ Works(x)' /\ worker'[v].update = worker'[x].update => v = x
            /\ Writes(v)' /\ Writes(x)' => v = x
        <3> SUFFICES ASSUME NEW v \in Workers, NEW x \in Workers, Works(v)', Works(x)',
                            worker'[v].update = worker'[x].update \/ (Writes(v)' /\ Writes(x)')
                     PROVE  v = x
            BY DEF Works
        <3>1. CASE v # w /\ x # w
            <4>1. worker'[v] = worker[v] /\ worker'[x] = worker[x]
                BY <1>5, <3>1
            <4> QED
                BY <4>1 DEF InboundInv, UpdatesHeld, Works, Writes
        <3> QED
            BY <1>4, <1>5, <2>2, <2>3, <3>1
    <2> QED
        BY <1>2, <2>1, <2>4, <2>5 DEF UpdatesHeld
<1>8. AnswersCounted'
    <2>1. \A m \in Messages : Answered(m) => Answered(m)'
        BY <1>2, <1>5 DEF Answered
    <2> QED
        BY <1>2, <2>1, CountStays
<1>9. ErasureHolds'
    BY <1>2, ErasureStays DEF Accepted
<1>10. Identities' /\ ConsentKnown' /\ Decided'
    <2>1. \A v \in Workers : Writes(v)' => Writes(v) /\ worker'[v] = worker[v]
        BY <1>4, <1>5 DEF Writes
    <2>2. \A v \in Workers : worker'[v].pc = "loaded" => worker'[v] = worker[v] \/ worker'[v].view = conv
        BY <1>4, <1>5
    <2> QED
        BY <1>2, <2>1, <2>2, ReadStays
<1> QED
    BY <1>6, <1>7, <1>8, <1>9, <1>10 DEF InboundInv

LEMMA OperatorReadsInv ==
    ASSUME InboundInv, OperatorReads
    PROVE  InboundInv'
<1>1. /\ UNCHANGED <<ahead, row, kind, enabled, conv, stored, worker, request, answers, redone,
                     agreed, overruled, erased>>
      /\ conv.id # 0 /\ spent' = spent + 1 /\ spent < SpendBound
      /\ operator' = [pc |-> "patching", view |-> conv]
    BY DEF OperatorReads, Spend
<1>2. InboundTypeOK'
    BY <1>1, InboundAssumption DEF InboundInv, InboundTypeOK, KindsOf
<1>3. UpdatesHeld'
    BY <1>1, HeldStays DEF Accepted
<1>4. AnswersCounted'
    <2>1. \A m \in Messages : Answered(m) => Answered(m)'
        BY <1>1 DEF Answered
    <2> QED
        BY <1>1, <2>1, CountStays
<1>5. ErasureHolds'
    BY <1>1, ErasureStays DEF Accepted
<1>6. Identities' /\ ConsentKnown' /\ Decided'
    <2>1. \A v \in Workers : Writes(v)' => Writes(v) /\ worker'[v] = worker[v]
        BY <1>1 DEF Writes
    <2> QED
        BY <1>1, <2>1, ReadStays
<1> QED
    BY <1>2, <1>3, <1>4, <1>5, <1>6 DEF InboundInv

\* The worker that writes is the only one, and its message is there.
LEMMA OpenedFields ==
    ASSUME InboundInv, NEW w \in Workers, worker[w].pc = "loaded", worker[w].view.id = conv.id
    PROVE  LET v == Opened(w) IN
           /\ v \in ConversationRow /\ v.id # 0
           /\ v.consent = "unknown" \/ v = worker[w].view
           /\ conv.id = 0 => v = Created
           /\ conv.id # 0 => v = worker[w].view /\ v.id = conv.id
           /\ request.status # "completed" => v.id # 2
<1>1. worker[w].view \in Views
    BY DEF Views, Older
<1> QED
    BY <1>1, TypeFacts, CreatedFields DEF Opened, InboundInv, Identities

LEMMA HandleInv ==
    ASSUME InboundInv, NEW w \in Workers, Handle(w)
    PROVE  InboundInv'
<1> DEFINE u == worker[w].update
           v == Opened(w)
<1>1. /\ worker[w].pc = "loaded" /\ u[1] = "message" /\ row[u].payload
      /\ ~Locked /\ worker[w].view.id = conv.id
      /\ UNCHANGED <<ahead, row, kind, enabled, conv, stored, operator, request, answers,
                     redone, agreed, overruled, erased, spent>>
    BY DEF Handle, Loaded
<1>2. PICK d \in Decisions(v, kind[u]) :
         worker' = [worker EXCEPT ![w].pc = IF d.reply = "none" THEN "replied" ELSE "replying",
                                  ![w].view = v, ![w].next = d.next, ![w].reply = d.reply]
    BY DEF Handle
<1>3. u \in Updates /\ u \in Accepted /\ row[u].status = "received"
    BY <1>1 DEF InboundInv, UpdatesHeld, Works, Accepted
<1>4. kind[u] \in MessageKinds
    BY <1>1, <1>3, InboundAssumption, UpdateFields DEF InboundInv, InboundTypeOK, KindsOf
<1>5. /\ v \in ConversationRow /\ v.id # 0
      /\ v.consent = "unknown" \/ v = worker[w].view
      /\ conv.id = 0 => v = Created
      /\ conv.id # 0 => v = worker[w].view /\ v.id = conv.id
      /\ request.status # "completed" => v.id # 2
    BY <1>1, OpenedFields
<1> HIDE DEF v
<1>6. /\ d.next \in ConversationRow /\ d.next.id = v.id
      /\ d.reply \in {"none", "notice", "automation"}
      /\ Follows(v, d.next, d.reply, kind[u])
    BY <1>2, <1>4, <1>5, DecisionsFollow
<1> DEFINE c == IF d.reply = "none" THEN "replied" ELSE "replying"
<1>7. c \in {"replied", "replying"} /\ (c = "replying" <=> d.reply # "none")
    OBVIOUS
<1> DEFINE q == [worker[w] EXCEPT !.pc = c, !.view = v, !.next = d.next, !.reply = d.reply]
<1>8. worker' = [worker EXCEPT ![w] = q]
    BY <1>2
<1> HIDE DEF c
<1>9. /\ q \in Process /\ q.pc = c /\ q.update = u /\ q.view = v /\ q.next = d.next
      /\ q.reply = d.reply
    BY <1>5, <1>6, <1>7, TypeFacts DEF Process
<1> HIDE DEF q, u
<1>10. /\ worker' \in [Workers -> Process] /\ worker'[w] = q
       /\ \A x \in Workers \ {w} : worker'[x] = worker[x]
    BY <1>8, <1>9, TypeFacts
<1>11. /\ Writes(w)' /\ \A x \in Workers \ {w} : ~Writes(x)'
       /\ \A x \in Workers : (Works(x)' <=> Works(x)) /\ worker'[x].update = worker[x].update
    <2>1. \A x \in Workers \ {w} : ~Writes(x)'
        BY <1>1, <1>10 DEF Locked, Writes
    <2>2. Writes(w)' /\ Works(w)' /\ Works(w)
        BY <1>1, <1>7, <1>9, <1>10 DEF Works, Writes
    <2>3. ASSUME NEW x \in Workers \ {w}
          PROVE  (Works(x)' <=> Works(x)) /\ worker'[x].update = worker[x].update
        BY <1>10 DEF Works, Writes
    <2>4. worker'[w].update = worker[w].update
        BY <1>9, <1>10 DEF u
    <2> QED
        BY <2>1, <2>2, <2>3, <2>4
<1>12. InboundTypeOK'
    BY <1>1, <1>10 DEF InboundInv, InboundTypeOK, KindsOf
<1>13. UpdatesHeld'
    <2>1. Accepted' = Accepted
        BY <1>1 DEF Accepted
    <2>2. worker'[w].pc # "idle" => worker'[w].update \in Accepted
        BY <1>3, <1>9, <1>10
    <2>3. Writes(w)' => worker'[w].update[1] = "message" /\ row[worker'[w].update].payload
        BY <1>1, <1>9, <1>10
    <2>4. \A x \in Workers \ {w} : worker'[x].pc # "idle" => worker'[x].update \in Accepted
        BY <1>10 DEF InboundInv, UpdatesHeld
    <2>5. \A x \in Workers : Works(x)' => row[worker'[x].update].status = "received"
        BY <1>11 DEF InboundInv, UpdatesHeld
    <2>6. \A x, y \in Workers :
            /\ Works(x)' /\ Works(y)' /\ worker'[x].update = worker'[y].update => x = y
            /\ Writes(x)' /\ Writes(y)' => x = y
        BY <1>11 DEF InboundInv, UpdatesHeld
    <2> QED
        BY <1>1, <1>11, <2>1, <2>2, <2>3, <2>4, <2>5, <2>6 DEF UpdatesHeld
<1>14. AnswersCounted'
    <2>1. \A m \in Messages : Answered(m) => Answered(m)'
        BY <1>1, <1>10 DEF Answered
    <2> QED
        BY <1>1, <2>1, CountStays
<1>15. ErasureHolds'
    BY <1>1, ErasureStays DEF Accepted
<1>16. \A x \in Workers : worker'[x].pc = "loaded" => worker'[x] = worker[x]
    BY <1>7, <1>9, <1>10
<1>17. Older' \subseteq Older /\ Views' \subseteq Views \cup {v}
    <2>1. Older' \subseteq Older
        BY <1>1, <1>16 DEF Older
    <2>2. \A x \in Workers : Writes(x)' => worker'[x].view = v
        BY <1>9, <1>10, <1>11
    <2> QED
        BY <2>1, <2>2 DEF Views
<1>18. Identities'
    <2>1. Created' = Created
        BY <1>1 DEF Created
    <2>2. \A x \in Workers : Writes(x)' => worker'[x] = q
        BY <1>10, <1>11
    <2>3. conv.id = 0 => \A o \in Older' : o.id # Created.id
        BY <1>17 DEF InboundInv, Identities
    <2>4. request.status # "completed" => conv.id # 2 /\ \A o \in Views' : o.id # 2
        BY <1>5, <1>17 DEF InboundInv, Identities
    <2>5. \A x \in Workers : worker'[x].pc = "loaded" /\ worker'[x].view.id = 0
                             => worker'[x].view = NoConversation
        BY <1>16 DEF InboundInv, Identities
    <2>6. /\ conv.id = 0 => conv = NoConversation
          /\ operator.pc = "patching" => operator.view.id # 0
        BY DEF InboundInv, Identities
    <2>7. conv.id = 0 => v.id = Created.id /\ v.consent = "unknown"
        BY <1>5, CreatedFields
    <2>8. \A x \in Workers : Writes(x)' =>
            /\ worker'[x].view.id # 0 /\ worker'[x].next.id = worker'[x].view.id
            /\ IF conv.id = 0 THEN worker'[x].view.consent = "unknown"
                              ELSE worker'[x].view.id = conv.id
        BY <1>5, <1>6, <1>9, <2>2, <2>7
    <2>9. conv.id = 0 => \A o \in Older' :
            o.id # Created.id /\ \A x \in Workers : Writes(x)' => o.id # worker'[x].view.id
        BY <1>9, <2>2, <2>3, <2>7
    <2> QED
        BY <1>1, <2>1, <2>4, <2>5, <2>6, <2>8, <2>9 DEF Identities
<1>19. ConsentKnown'
    <2>1. v.consent = "unknown" \/ v \in Views
        <3>1. worker[w].view \in Views
            BY <1>1 DEF Views, Older
        <3> QED
            BY <1>5, <3>1
    <2>2. \A o \in Views' :
            /\ ~overruled => ~(Refused(o) /\ o.ai)
            /\ o.id = conv.id =>
                 (o.consent = "granted" => agreed) /\ (~overruled /\ conv.ai => o.ai)
        <3> SUFFICES ASSUME v \notin Views
                     PROVE  ~Refused(v) /\ v.consent # "granted" /\ v.id # conv.id
            BY <1>17 DEF InboundInv, ConsentKnown
        <3>1. conv.id = 0
            BY <1>1, <1>5 DEF Views, Older
        <3> QED
            BY <1>5, <2>1, <3>1 DEF Refused
    <2> QED
        BY <1>1, <2>2 DEF InboundInv, ConsentKnown, Refused
<1>20. Decided'
    <2>1. \A x \in Workers : Writes(x)' => worker'[x] = q
        BY <1>10, <1>11
    <2> QED
        BY <1>1, <1>6, <1>7, <1>9, <2>1 DEF Decided, Follows, Refused, NeedsConsent
<1> QED
    BY <1>12, <1>13, <1>14, <1>15, <1>18, <1>19, <1>20 DEF InboundInv

LEMMA AnswerInv ==
    ASSUME InboundInv, NEW w \in Workers, Answer(w)
    PROVE  InboundInv'
<1> DEFINE n == worker[w].update[2]
           q == [worker[w] EXCEPT !.pc = "replied"]
<1>1. /\ worker[w].pc = "replying" /\ worker' = [worker EXCEPT ![w] = q]
      /\ answers' = [answers EXCEPT ![n] = @ + 1]
      /\ UNCHANGED <<ahead, row, kind, enabled, conv, stored, operator, request, redone, agreed,
                     overruled, erased, spent>>
    BY DEF Answer
<1>2. /\ Writes(w) /\ Works(w) /\ worker[w].update \in Updates /\ n \in Messages
      /\ worker[w].update = <<"message", n>> /\ row[<<"message", n>>].status = "received"
      /\ worker[w].reply # "none"
    <2>1. Writes(w) /\ Works(w)
        BY <1>1 DEF Writes, Works
    <2>2. /\ worker[w].update \in Updates /\ worker[w].update[1] = "message"
          /\ row[worker[w].update].status = "received"
        BY <1>1, <2>1 DEF InboundInv, UpdatesHeld, Accepted
    <2> QED
        BY <1>1, <2>1, <2>2, UpdateFields DEF InboundInv, Decided
<1>3. /\ q \in Process /\ q.pc = "replied" /\ q.update = worker[w].update
      /\ q.view = worker[w].view /\ q.next = worker[w].next /\ q.reply = worker[w].reply
    BY TypeFacts DEF Process
<1> HIDE DEF q, n
<1>4. /\ worker' \in [Workers -> Process] /\ worker'[w] = q
      /\ \A x \in Workers \ {w} : worker'[x] = worker[x]
    BY <1>1, <1>3, TypeFacts
<1>5. /\ answers \in [Messages -> Nat] /\ answers' \in [Messages -> Nat]
      /\ answers'[n] = answers[n] + 1 /\ \A m \in Messages \ {n} : answers'[m] = answers[m]
      /\ spent \in Nat
    BY <1>1, <1>2, InboundAssumption DEF InboundInv, InboundTypeOK
<1>6. \A x \in Workers : /\ (Writes(x)' <=> Writes(x)) /\ (Works(x)' <=> Works(x))
                         /\ worker'[x].update = worker[x].update /\ worker'[x].view = worker[x].view
                         /\ worker'[x].next = worker[x].next /\ worker'[x].reply = worker[x].reply
                         /\ worker'[x].pc = "loaded" <=> worker[x].pc = "loaded"
                         /\ worker'[x].pc = "replying" => worker[x].pc = "replying"
                         /\ worker'[x].pc = "idle" <=> worker[x].pc = "idle"
    <2>1. ASSUME NEW x \in Workers \ {w} PROVE (Writes(x)' <=> Writes(x)) /\ (Works(x)' <=> Works(x))
        BY <1>4 DEF Works, Writes
    <2>2. Writes(w)' /\ Works(w)'
        BY <1>3, <1>4 DEF Works, Writes
    <2>3. ASSUME NEW x \in Workers
          PROVE  /\ worker'[x].update = worker[x].update /\ worker'[x].view = worker[x].view
                 /\ worker'[x].next = worker[x].next /\ worker'[x].reply = worker[x].reply
                 /\ worker'[x].pc = "loaded" <=> worker[x].pc = "loaded"
                 /\ worker'[x].pc = "replying" => worker[x].pc = "replying"
                 /\ worker'[x].pc = "idle" <=> worker[x].pc = "idle"
        BY <1>1, <1>3, <1>4
    <2> QED
        BY <1>2, <2>1, <2>2, <2>3
<1>7. InboundTypeOK'
    BY <1>1, <1>4, <1>5 DEF InboundInv, InboundTypeOK, KindsOf
<1>8. UpdatesHeld'
    <2>1. Accepted' = Accepted
        BY <1>1 DEF Accepted
    <2> QED
        BY <1>1, <1>6, <2>1 DEF InboundInv, UpdatesHeld
<1>9. AnswersCounted'
    <2> SUFFICES ASSUME NEW m \in Messages
                 PROVE  /\ answers'[m] <= spent + IF Answered(m)' THEN 1 ELSE 0
                        /\ m \notin redone => answers'[m] <= IF Answered(m)' THEN 1 ELSE 0
        BY <1>1 DEF AnswersCounted
    <2>1. /\ answers[m] <= spent + IF Answered(m) THEN 1 ELSE 0
          /\ m \notin redone => answers[m] <= IF Answered(m) THEN 1 ELSE 0
        BY DEF InboundInv, AnswersCounted
    <2>2. CASE m = n
        <3>1. ~Answered(m)
            <4>1. ASSUME NEW x \in Workers, worker[x].pc = "replied",
                         worker[x].update = worker[w].update
                  PROVE  FALSE
                <5>1. Works(x)
                    BY <4>1 DEF Works, Writes
                <5> QED
                    BY <1>1, <1>2, <4>1, <5>1 DEF InboundInv, UpdatesHeld
            <4> QED
                BY <1>2, <2>2, <4>1 DEF Answered
        <3>2. Answered(m)'
            BY <1>2, <1>3, <1>4, <2>2 DEF Answered
        <3> QED
            BY <1>5, <2>1, <2>2, <3>1, <3>2
    <2>3. CASE m # n
        <3>1. Answered(m) => Answered(m)'
            BY <1>1, <1>4 DEF Answered
        <3> QED
            BY <1>5, <2>1, <2>3, <3>1
    <2> QED
        BY <2>2, <2>3
<1>10. ErasureHolds'
    BY <1>1, ErasureStays DEF Accepted
<1>11. Identities' /\ ConsentKnown' /\ Decided'
    <2>1. Older' \subseteq Older /\ Views' \subseteq Views
        <3>1. Older' \subseteq Older
            BY <1>1, <1>6 DEF Older
        <3>2. {worker'[x].view : x \in {y \in Workers : Writes(y)'}}
                \subseteq {worker[x].view : x \in {y \in Workers : Writes(y)}}
            BY <1>6
        <3> QED
            BY <3>1, <3>2 DEF Views
    <2>2. Created' = Created
        BY <1>1 DEF Created
    <2>3. Identities'
        BY <1>1, <1>6, <2>1, <2>2 DEF InboundInv, Identities
    <2>4. ConsentKnown'
        BY <1>1, <2>1 DEF InboundInv, ConsentKnown, Refused
    <2>5. Decided'
        BY <1>1, <1>6 DEF InboundInv, Decided, Follows, Refused, NeedsConsent
    <2> QED
        BY <2>3, <2>4, <2>5
<1> QED
    BY <1>7, <1>8, <1>9, <1>10, <1>11 DEF InboundInv

\* What the only writer leaves in the conversations row.
LEMMA CommitFields ==
    ASSUME InboundInv, NEW w \in Workers, Writes(w),
           conv' = IF conv.id = 0 THEN worker[w].next ELSE Merged(worker[w].view, worker[w].next),
           overruled' = overruled
    PROVE  /\ conv' \in ConversationRow /\ conv'.id # 0
           /\ conv'.id = worker[w].view.id
           /\ conv.id # 0 => conv'.id = conv.id /\ (~overruled /\ conv'.ai => conv.ai)
           /\ ~overruled => ~(Refused(conv') /\ conv'.ai)
<1> DEFINE view == worker[w].view
           next == worker[w].next
           k == kind[worker[w].update]
<1>1. /\ view \in ConversationRow /\ next \in ConversationRow /\ conv \in ConversationRow
      /\ view \in Views
    BY TypeFacts DEF Views
<1>2. /\ view.id # 0 /\ next.id = view.id
      /\ conv.id = 0 => view.consent = "unknown"
      /\ conv.id # 0 => view.id = conv.id
    BY DEF InboundInv, Identities
<1>3. /\ next.ai => view.ai
      /\ \/ next.consent \in {view.consent, "requested"}
         \/ next.consent = "granted"
         \/ Refused(next) /\ ~next.ai
    BY DEF InboundInv, Decided, Follows
<1>4. /\ ~overruled => ~(Refused(conv) /\ conv.ai)
      /\ view.id = conv.id => (~overruled /\ conv.ai => view.ai)
    BY <1>1 DEF InboundInv, ConsentKnown
<1> HIDE DEF view, next, k
<1>5. CASE conv.id = 0
    <2>1. conv' = next
        BY <1>5 DEF next
    <2> QED
        BY <1>1, <1>2, <1>3, <1>5, <2>1 DEF Refused, view
<1>6. CASE conv.id # 0
    <2>1. conv' = Merged(view, next)
        BY <1>6 DEF view, next
    <2>2. /\ conv' \in ConversationRow /\ conv'.id = conv.id
          /\ conv'.consent = IF next.consent # view.consent THEN next.consent ELSE conv.consent
          /\ conv'.ai = IF next.ai # view.ai THEN next.ai ELSE conv.ai
        BY <1>1, <2>1, MergedFields
    <2>3. next.ai \in BOOLEAN /\ view.ai \in BOOLEAN /\ conv.ai \in BOOLEAN
        BY <1>1 DEF ConversationRow
    <2>4. conv'.ai => conv.ai
        BY <1>3, <2>2, <2>3
    <2>5. ASSUME ~overruled, Refused(conv'), conv'.ai PROVE FALSE
        <3>1. conv.ai /\ view.ai /\ next.ai
            BY <1>2, <1>4, <1>6, <2>2, <2>3, <2>4, <2>5
        <3>2. ~Refused(conv)
            BY <1>4, <2>5, <3>1
        <3>3. conv'.consent = next.consent /\ next.consent # view.consent
            BY <2>2, <2>5, <3>2 DEF Refused
        <3> QED
            BY <1>3, <2>5, <3>1, <3>3 DEF Refused
    <2> QED
        BY <1>2, <1>6, <2>2, <2>4, <2>5 DEF view
<1> QED
    BY <1>5, <1>6

LEMMA CommitInv ==
    ASSUME InboundInv, NEW w \in Workers, Commit(w)
    PROVE  InboundInv'
<1> DEFINE n == worker[w].update[2]
<1>1. /\ worker[w].pc = "replied" /\ Writes(w) /\ Works(w)
      /\ conv' = IF conv.id = 0 THEN worker[w].next ELSE Merged(worker[w].view, worker[w].next)
      /\ stored' = [stored EXCEPT ![n] = "text"]
      /\ agreed' = (agreed \/ conv'.consent = "granted")
      /\ Finish(w, "processed")
      /\ UNCHANGED <<kind, enabled, operator, request, answers, redone, overruled, erased, spent>>
    BY DEF Commit, Writes, Works
<1>2. /\ Leaves(w, Idle) /\ Settles(w)
      /\ ahead' = [v \in Updates |->
           IF v = worker[w].update THEN {} ELSE ahead[v] \ {worker[w].update}]
    BY <1>1, FinishFields
<1>3. /\ worker[w].update \in Updates /\ n \in Messages
      /\ worker[w].update = <<"message", n>> /\ row[<<"message", n>>].payload
    BY <1>1, UpdateFields DEF InboundInv, UpdatesHeld, Accepted
<1>4. /\ row' \in [Updates -> RowType] /\ worker' \in [Workers -> Process]
      /\ \A u \in Updates : /\ row'[u].payload = row[u].payload
                            /\ row'[u].status = "absent" <=> row[u].status = "absent"
      /\ worker'[w] = Idle /\ \A v \in Workers \ {w} : worker'[v] = worker[v]
      /\ UpdatesHeld'
    BY <1>2, LeavingHolds
<1>5. /\ conv' \in ConversationRow /\ conv'.id # 0
      /\ conv'.id = worker[w].view.id
      /\ conv.id # 0 => conv'.id = conv.id /\ (~overruled /\ conv'.ai => conv.ai)
      /\ ~overruled => ~(Refused(conv') /\ conv'.ai)
    BY <1>1, CommitFields
<1> HIDE DEF n
<1>6. InboundTypeOK'
    <2>1. ahead' \in [Updates -> SUBSET Updates]
        BY <1>2 DEF InboundInv, InboundTypeOK
    <2>2. stored' \in [Messages -> {"none", "text", "removed"}] /\ agreed' \in BOOLEAN
        BY <1>1 DEF InboundInv, InboundTypeOK
    <2> QED
        BY <1>1, <1>4, <1>5, <2>1, <2>2 DEF InboundInv, InboundTypeOK, KindsOf
<1>7. AnswersCounted'
    <2>1. row' # row
        <3>1. row[worker[w].update].status = "received"
            BY <1>1 DEF InboundInv, UpdatesHeld
        <3>2. row'[worker[w].update].status = "processed"
            BY <1>1, <1>3, TypeFacts DEF Finish, Settled, RowType
        <3> QED
            BY <3>1, <3>2
    <2>2. \A m \in Messages : Answered(m) => Answered(m)'
        BY <1>2, <2>1, LeavingAnswers
    <2> QED
        BY <1>1, <2>2, CountStays
<1>8. ErasureHolds'
    <2>1. <<"message", n>> \notin erased
        BY <1>3 DEF InboundInv, ErasureHolds, ErasedStaysErased
    <2>2. \A m \in Messages : <<"message", m>> \in erased /\ stored[m] = "none" => stored'[m] = "none"
        BY <1>1, <2>1 DEF InboundInv, InboundTypeOK
    <2> QED
        BY <1>1, <1>4, <2>2, ErasureStays DEF Accepted
<1>9. /\ \A v \in Workers : ~Writes(v)'
      /\ \A v \in Workers : worker'[v].pc = "loaded" => worker'[v] = worker[v]
    <2>1. \A v \in Workers \ {w} : ~Writes(v)
        BY <1>1 DEF InboundInv, UpdatesHeld
    <2> QED
        BY <1>4, <2>1, IdleFields DEF Writes
<1>10. Older' \subseteq Older /\ Views' = Older'
    BY <1>1, <1>9 DEF Older, Views
<1>11. Identities'
    <2>1. worker[w].view \in Views /\ Older \subseteq Views
        BY <1>1 DEF Views
    <2>2. request.status # "completed" => conv'.id # 2 /\ \A v \in Views' : v.id # 2
        BY <1>5, <1>10, <2>1 DEF InboundInv, Identities
    <2>3. \A v \in Workers : worker'[v].pc = "loaded" /\ worker'[v].view.id = 0
                             => worker'[v].view = NoConversation
        BY <1>9 DEF InboundInv, Identities
    <2> QED
        BY <1>1, <1>5, <1>9, <2>2, <2>3 DEF InboundInv, Identities
<1>12. ConsentKnown'
    <2>1. conv.id = 0 => \A v \in Older : v.id # conv'.id
        BY <1>1, <1>5 DEF InboundInv, Identities
    <2>2. \A v \in Older' :
            /\ ~overruled => ~(Refused(v) /\ v.ai)
            /\ v.id = conv'.id =>
                 (v.consent = "granted" => agreed') /\ (~overruled /\ conv'.ai => v.ai)
        BY <1>1, <1>5, <1>10, <2>1 DEF InboundInv, ConsentKnown, Views
    <2> QED
        BY <1>1, <1>5, <1>10, <2>2 DEF ConsentKnown, Refused
<1>13. Decided'
    BY <1>9 DEF Decided
<1> QED
    BY <1>4, <1>6, <1>7, <1>8, <1>11, <1>12, <1>13 DEF InboundInv

LEMMA PatchedFields ==
    ASSUME NEW v \in ConversationRow
    PROVE  /\ Patched(v) \in ConversationRow /\ Patched(v).id = v.id
           /\ Patched(v).consent = v.consent /\ (Refused(v) => ~Patched(v).ai)
BY DEF Patched, ConversationRow, Refused

\* What an operator may make of the conversation.
LEMMA PatchInv ==
    ASSUME InboundInv, NEW next \in ConversationRow, Refused(next) => ~next.ai,
           operator.pc = "patching", ~Locked, operator' = NoCall, conv.id = operator.view.id,
           conv' = Merged(operator.view, next),
           overruled' = (overruled \/ (conv'.ai /\ ~conv.ai /\ RefusalUnseen(conv'))),
           agreed' = (agreed \/ conv'.consent = "granted"),
           UNCHANGED <<ahead, row, kind, enabled, stored, worker, request, answers, redone, erased,
                       spent>>
    PROVE  InboundInv'
<1> DEFINE view == operator.view
<1>1. view \in ConversationRow /\ conv \in ConversationRow /\ view \in Older /\ view \in Views
    BY TypeFacts DEF Older, Views
<1>2. /\ conv' \in ConversationRow /\ conv'.id = conv.id /\ conv.id # 0
      /\ conv'.consent = IF next.consent # view.consent THEN next.consent ELSE conv.consent
      /\ conv'.ai = IF next.ai # view.ai THEN next.ai ELSE conv.ai
    BY <1>1, MergedFields DEF InboundInv, Identities
<1>3. \A b \in {view.ai, next.ai, conv.ai, conv'.ai} : b \in BOOLEAN
    BY <1>1, <1>2 DEF ConversationRow
<1>4. /\ ~overruled => ~(Refused(conv) /\ conv.ai)
      /\ ~overruled /\ conv.ai => view.ai
    BY <1>1 DEF InboundInv, ConsentKnown
<1> HIDE DEF view
<1>5. ~overruled' => ~overruled /\ (conv'.ai => conv.ai \/ ~RefusalUnseen(conv'))
    BY <1>3
<1>6. InboundTypeOK'
    <2>1. agreed' \in BOOLEAN /\ overruled' \in BOOLEAN
        BY DEF InboundInv, InboundTypeOK
    <2> QED
        BY <1>2, <2>1, IdleFields DEF InboundInv, InboundTypeOK, KindsOf
<1>7. UpdatesHeld'
    BY HeldStays DEF Accepted
<1>8. AnswersCounted'
    <2>1. \A m \in Messages : Answered(m) => Answered(m)'
        BY DEF Answered
    <2> QED
        BY <2>1, CountStays
<1>9. ErasureHolds'
    BY ErasureStays DEF Accepted
<1>10. \A w \in Workers : ~Writes(w)'
    BY DEF Locked, Writes
<1>11. /\ Older' \subseteq Older /\ Views' = Older'
       /\ \A v \in Older' : \E w \in Workers : worker[w].pc = "loaded"
    BY <1>10, IdleFields DEF Older, Views
<1>12. Identities'
    BY <1>2, <1>10, <1>11, IdleFields DEF InboundInv, Identities, Views
<1>13. ~overruled' => ~(Refused(conv') /\ conv'.ai)
    <2> SUFFICES ASSUME ~overruled', Refused(conv'), conv'.ai PROVE FALSE
        OBVIOUS
    <2>1. RefusalUnseen(conv')
        BY DEF RefusalUnseen, Refused
    <2>2. conv.ai /\ view.ai /\ ~Refused(conv)
        BY <1>4, <1>5, <2>1
    <2>3. Refused(next)
        BY <1>2, <2>2 DEF Refused
    <2> QED
        BY <1>2, <1>3, <2>2, <2>3
<1>14. \A v \in Older' :
         /\ ~overruled' => ~(Refused(v) /\ v.ai)
         /\ v.id = conv'.id =>
              (v.consent = "granted" => agreed') /\ (~overruled' /\ conv'.ai => v.ai)
    <2> SUFFICES ASSUME NEW v \in Older'
                 PROVE  /\ ~overruled' => ~(Refused(v) /\ v.ai)
                        /\ v.id = conv'.id =>
                             (v.consent = "granted" => agreed') /\ (~overruled' /\ conv'.ai => v.ai)
        OBVIOUS
    <2>1. v \in Views /\ RefusalUnseen(conv')
        BY <1>11 DEF Views, RefusalUnseen
    <2>2. /\ ~overruled => ~(Refused(v) /\ v.ai)
          /\ v.id = conv.id => (v.consent = "granted" => agreed) /\ (~overruled /\ conv.ai => v.ai)
        BY <2>1 DEF InboundInv, ConsentKnown
    <2> QED
        BY <1>2, <1>5, <2>1, <2>2
<1>15. ConsentKnown'
    BY <1>11, <1>13, <1>14 DEF ConsentKnown, Refused
<1>16. Decided'
    BY <1>10 DEF Decided
<1> QED
    BY <1>6, <1>7, <1>8, <1>9, <1>12, <1>15, <1>16 DEF InboundInv

LEMMA OperatorWritesInv ==
    ASSUME InboundInv, OperatorWrites
    PROVE  InboundInv'
<1>1. /\ operator.pc = "patching" /\ ~Locked /\ operator' = NoCall
      /\ UNCHANGED <<ahead, row, kind, enabled, stored, worker, request, answers, redone, erased,
                     spent>>
    BY DEF OperatorWrites
<1>2. CASE UNCHANGED <<conv, agreed, overruled>>
    <2>1. /\ row \in [Updates -> RowType] /\ ahead \in [Updates -> SUBSET Updates]
          /\ kind \in [Updates -> MessageKinds \cup {"-"}]
          /\ \A x \in Updates : row[x].status # "absent" => kind[x] \in KindsOf(x)
          /\ conv \in ConversationRow /\ request \in RequestType /\ enabled \in BOOLEAN
          /\ stored \in [Messages -> {"none", "text", "removed"}] /\ spent \in 0 .. SpendBound
        BY DEF InboundInv, InboundTypeOK
    <2>2. \A u \in Accepted : u \in Updates /\ kind'[u] = kind[u] /\ row'[u] = row[u]
        BY <1>1 DEF Accepted
    <2> QED
        BY <1>1, <1>2, <2>1, <2>2, QuietInv
<1>3. ASSUME conv.id = operator.view.id,
             NEW s \in {operator.view.status, "active", "closed"},
             NEW c \in {operator.view.consent, "granted", "revoked"}, NEW a \in BOOLEAN,
             LET next == Patched([operator.view EXCEPT !.status = s, !.consent = c, !.ai = a]) IN
               /\ conv' = Merged(operator.view, next)
               /\ overruled' = (overruled \/ (conv'.ai /\ ~conv.ai /\ RefusalUnseen(conv'))),
             agreed' = (agreed \/ conv'.consent = "granted")
      PROVE  InboundInv'
    <2> DEFINE v == [operator.view EXCEPT !.status = s, !.consent = c, !.ai = a]
    <2>1. v \in ConversationRow
        BY ZenonT(60), TypeFacts DEF ConversationRow
    <2> HIDE DEF v
    <2>2. Patched(v) \in ConversationRow /\ (Refused(Patched(v)) => ~Patched(v).ai)
        BY <2>1, PatchedFields DEF Refused
    <2>3. /\ conv' = Merged(operator.view, Patched(v))
          /\ overruled' = (overruled \/ (conv'.ai /\ ~conv.ai /\ RefusalUnseen(conv')))
        BY <1>3 DEF v
    <2> QED
        BY <1>1, <1>3, <2>2, <2>3, PatchInv
<1> QED
    BY ZenonT(60), <1>2, <1>3 DEF OperatorWrites

\* A deletion that finds no conversation only ends the request.
LEMMA EraseNothingInv ==
    ASSUME InboundInv, request.status = "processing",
           request' = [request EXCEPT !.status = "completed", !.seen = {}],
           UNCHANGED <<ahead, row, kind, enabled, conv, stored, worker, operator, answers, redone,
                       agreed, overruled, erased, spent>>
    PROVE  InboundInv'
<1>1. request' \in RequestType /\ request'.status = "completed" /\ request'.seen = {}
    BY DEF InboundInv, InboundTypeOK, RequestType
<1>2. InboundTypeOK'
    BY <1>1 DEF InboundInv, InboundTypeOK, KindsOf
<1>3. UpdatesHeld'
    BY HeldStays DEF Accepted
<1>4. AnswersCounted'
    <2>1. \A m \in Messages : Answered(m) => Answered(m)'
        BY DEF Answered
    <2> QED
        BY <2>1, CountStays
<1>5. ErasureHolds'
    BY <1>1 DEF InboundInv, ErasureHolds, ErasedStaysErased, Accepted
<1>6. /\ Older' = Older /\ Views' = Views
      /\ \A w \in Workers : Writes(w)' <=> Writes(w)
    BY DEF Older, Views, Writes
<1>7. Identities'
    <2>1. Created.id # 2 /\ Created'.id = 2 /\ \A v \in Views : v.id # 2
        BY <1>1, CreatedFields DEF InboundInv, Identities, Created, NoConversation
    <2>2. Older \subseteq Views
        BY DEF Views
    <2> QED
        BY <1>1, <1>6, <2>1, <2>2 DEF InboundInv, Identities
<1>8. ConsentKnown' /\ Decided'
    BY <1>6 DEF InboundInv, ConsentKnown, Decided, Refused, Follows, NeedsConsent
<1> QED
    BY <1>2, <1>3, <1>4, <1>5, <1>7, <1>8 DEF InboundInv

LEMMA EraseAllInv ==
    ASSUME InboundInv, Erase, request.found # 0
    PROVE  InboundInv'
<1>1. /\ request.status = "processing"
      /\ request' = [request EXCEPT !.status = "completed", !.seen = {}]
      /\ ~Locked /\ \A u \in request.seen : ~Held(u)
      /\ row' = [u \in Updates |-> [row[u] EXCEPT !.payload = @ /\ ~Scrubbed(u)]]
      /\ conv' = NoConversation /\ stored' = [m \in Messages |-> "none"]
      /\ agreed' = FALSE /\ erased' = request.seen
      /\ UNCHANGED <<ahead, kind, enabled, worker, operator, answers, redone, overruled, spent>>
    BY DEF Erase
<1>2. request' \in RequestType /\ request'.status = "completed" /\ request'.seen = {}
    BY <1>1 DEF InboundInv, InboundTypeOK, RequestType
<1>3. /\ row' \in [Updates -> RowType]
      /\ \A u \in Updates : /\ row'[u].status = row[u].status
                            /\ u \in request.seen => ~row'[u].payload
                            /\ u \notin request.seen => row'[u] = row[u]
    <2>1. ASSUME NEW u \in Updates
          PROVE  /\ row'[u] \in RowType /\ row'[u].status = row[u].status
                 /\ u \in request.seen => ~row'[u].payload
                 /\ u \notin request.seen => row'[u] = row[u]
        <3> DEFINE x == row[u].payload /\ ~Scrubbed(u)
        <3>1. x \in BOOLEAN /\ row'[u] = [row[u] EXCEPT !.payload = x]
            BY <1>1
        <3>2. row[u] \in RowType
            BY TypeFacts
        <3>3. u \notin request.seen => x = row[u].payload
            BY <3>2 DEF RowType, Scrubbed
        <3>4. u \in request.seen => ~x
            BY DEF Scrubbed
        <3> HIDE DEF x
        <3> QED
            BY <3>1, <3>2, <3>3, <3>4 DEF RowType
    <2> QED
        BY <1>1, <2>1
<1>4. Accepted' = Accepted
    BY <1>3 DEF Accepted
<1>5. InboundTypeOK'
    <2>1. request.seen \subseteq Updates
        BY DEF InboundInv, InboundTypeOK, RequestType
    <2> QED
        BY <1>1, <1>2, <1>3, <2>1, IdleFields DEF InboundInv, InboundTypeOK, KindsOf
<1>6. UpdatesHeld'
    <2>1. \A w \in Workers : Works(w) => row'[worker[w].update] = row[worker[w].update]
        <3> SUFFICES ASSUME NEW w \in Workers, Works(w)
                     PROVE  row'[worker[w].update] = row[worker[w].update]
            OBVIOUS
        <3>1. Held(worker[w].update) /\ worker[w].update \in Updates
            BY HeldByWorkers DEF Accepted
        <3> QED
            BY <1>1, <1>3, <3>1
    <2>2. \A u \in Accepted : row'[u].status # "absent"
        BY <1>3 DEF Accepted
    <2> QED
        BY <1>1, <2>1, <2>2, HeldStays
<1>7. AnswersCounted'
    <2>1. \A m \in Messages : Answered(m) => Answered(m)'
        BY <1>1, <1>3, UpdateFields DEF Answered
    <2> QED
        BY <1>1, <2>1, CountStays
<1>8. ErasureHolds'
    <2>1. request.seen \subseteq Accepted
        BY DEF InboundInv, ErasureHolds
    <2>2. ErasedStaysErased'
        BY <1>1, <1>3, <2>1, UpdateFields DEF ErasedStaysErased, Accepted
    <2> QED
        BY <1>1, <1>2, <1>4, <2>1, <2>2 DEF ErasureHolds
<1>9. \A w \in Workers : ~Writes(w) /\ ~Writes(w)'
    BY <1>1 DEF Locked, Writes
<1>10. Older' = Older /\ Views' = Older /\ Views = Older
    BY <1>1, <1>9 DEF Older, Views
<1>11. Identities'
    <2>1. Created'.id = 2
        BY <1>2 DEF Created, NoConversation
    <2>2. \A v \in Views : v.id # 2
        BY <1>1 DEF InboundInv, Identities
    <2> QED
        BY <1>1, <1>2, <1>9, <1>10, <2>1, <2>2 DEF InboundInv, Identities
<1>12. ConsentKnown'
    <2>1. \A v \in Older : v.id = 0 => v = NoConversation
        BY DEF Older, InboundInv, Identities
    <2>2. /\ NoConversation.id = 0 /\ NoConversation.consent = "unknown" /\ NoConversation.ai
        BY DEF NoConversation
    <2> QED
        BY <1>1, <1>10, <2>1, <2>2 DEF InboundInv, ConsentKnown, Refused
<1>13. Decided'
    BY <1>9 DEF Decided
<1> QED
    BY <1>5, <1>6, <1>7, <1>8, <1>11, <1>12, <1>13 DEF InboundInv

LEMMA EraseInv ==
    ASSUME InboundInv, Erase
    PROVE  InboundInv'
<1>1. CASE request.found = 0
    BY <1>1, EraseNothingInv DEF Erase
<1>2. CASE request.found # 0
    BY <1>2, EraseAllInv
<1> QED
    BY <1>1, <1>2

-----------------------------------------------------------------------------
(***************************************************************************)
(* The theorems.                                                           *)
(***************************************************************************)

LEMMA InboundStart == Init => InboundInv
<1> SUFFICES ASSUME Init PROVE InboundInv
    OBVIOUS
<1>1. /\ \A w \in Workers : worker[w] = Idle /\ ~Works(w) /\ ~Writes(w)
      /\ operator.pc = "idle" /\ Accepted = {} /\ conv = NoConversation
      /\ Older = {} /\ Views = {}
    BY IdleFields DEF Init, Works, Writes, Accepted, Older, Views
<1>2. InboundTypeOK
    <2>1. /\ ahead \in [Updates -> SUBSET Updates] /\ row \in [Updates -> RowType]
          /\ \A u \in Updates : row[u].status = "absent"
        BY DEF Init, RowType
    <2>2. /\ kind \in [Updates -> MessageKinds \cup {"-"}] /\ enabled \in BOOLEAN
          /\ conv \in ConversationRow /\ stored \in [Messages -> {"none", "text", "removed"}]
          /\ worker \in [Workers -> Process]
          /\ operator \in [pc: {"idle", "patching"}, view: ConversationRow]
        BY IdleFields DEF Init
    <2>3. request \in RequestType
        BY DEF Init, RequestType
    <2>4. /\ redone \subseteq Messages
          /\ agreed \in BOOLEAN /\ overruled \in BOOLEAN /\ erased \subseteq Updates
        BY DEF Init
    <2>5. answers \in [Messages -> Nat] /\ spent \in 0 .. SpendBound
        BY InboundAssumption DEF Init
    <2> QED
        BY <2>1, <2>2, <2>3, <2>4, <2>5 DEF InboundTypeOK
<1>3. UpdatesHeld
    BY <1>1, IdleFields DEF UpdatesHeld
<1>4. AnswersCounted
    <2> SUFFICES ASSUME NEW m \in Messages
                 PROVE  /\ answers[m] <= spent + IF Answered(m) THEN 1 ELSE 0
                        /\ answers[m] <= IF Answered(m) THEN 1 ELSE 0
        BY DEF AnswersCounted
    <2>1. answers[m] = 0 /\ spent = 0
        BY DEF Init
    <2> QED
        BY <2>1
<1>5. ErasureHolds
    BY DEF Init, ErasureHolds, ErasedStaysErased
<1>6. Identities /\ ConsentKnown /\ Decided
    BY <1>1, IdleFields DEF Init, Identities, ConsentKnown, Decided, Refused
<1> QED
    BY <1>2, <1>3, <1>4, <1>5, <1>6 DEF InboundInv

LEMMA InboundStep == InboundInv /\ [Next]_vars => InboundInv'
<1> SUFFICES ASSUME InboundInv, [Next]_vars PROVE InboundInv'
    OBVIOUS
<1>1. ASSUME NEW u \in Updates, NEW k \in KindsOf(u), Accept(u, k) PROVE InboundInv'
    BY <1>1, AcceptInv
<1>2. ASSUME NEW w \in Workers,
             \/ Take(w) \/ PayloadGone(w) \/ MarkFailed(w) \/ Ignore(w) \/ Handle(w) \/ HandleFails(w)
             \/ Answer(w) \/ Commit(w) \/ Amend(w) \/ Crash(w)
      PROVE  InboundInv'
    BY <1>2, TakeInv, DropInv, HandleInv, AnswerInv, CommitInv, CrashInv
<1>3. ASSUME NEW w \in Workers, NEW delivered \in BOOLEAN, AnswerFails(w, delivered)
      PROVE  InboundInv'
    BY <1>3, AnswerFailsInv
<1>4. CASE Connect \/ RequestErasure \/ EraseReads \/ EraseFails
    BY <1>4, RequestInv
<1>5. CASE OperatorReads
    BY <1>5, OperatorReadsInv
<1>6. CASE OperatorWrites
    BY <1>6, OperatorWritesInv
<1>7. CASE Erase
    BY <1>7, EraseInv
<1>8. ASSUME NEW texts \in BOOLEAN, NEW raw \in {{}, Accepted}, Retain(texts, raw)
      PROVE  InboundInv'
    <2>1. raw \in SUBSET Updates
        BY DEF Accepted
    <2> QED
        BY <1>8, <2>1, RetainInv
<1>9. CASE UNCHANGED vars
    <2>1. /\ row \in [Updates -> RowType] /\ ahead \in [Updates -> SUBSET Updates]
          /\ kind \in [Updates -> MessageKinds \cup {"-"}]
          /\ \A x \in Updates : row[x].status # "absent" => kind[x] \in KindsOf(x)
          /\ conv \in ConversationRow /\ request \in RequestType /\ enabled \in BOOLEAN
          /\ stored \in [Messages -> {"none", "text", "removed"}] /\ spent \in 0 .. SpendBound
        BY DEF InboundInv, InboundTypeOK
    <2>2. \A u \in Accepted : u \in Updates /\ kind'[u] = kind[u] /\ row'[u] = row[u]
        BY <1>9 DEF Accepted, vars
    <2>3. UNCHANGED <<ahead, row, kind, enabled, conv, stored, worker, operator, request,
                      answers, redone, agreed, overruled, erased, spent>>
        BY <1>9 DEF vars
    <2> QED
        BY <2>1, <2>2, <2>3, QuietInv
<1> QED
    BY <1>1, <1>2, <1>3, <1>4, <1>5, <1>6, <1>7, <1>8, <1>9 DEF Next

\* The inductive invariant: who holds which update, how many answers have gone out, what a
\* deletion covers, and what each view of the conversation still says that is true.
THEOREM InboundInvariant == Spec => []InboundInv
BY InboundStart, InboundStep, PTL DEF Spec

\* A message is answered twice only if the transaction that answered it was lost with its
\* worker, or the call that delivered the answer failed (process_next).
THEOREM AnsweredAtMostOnce == Spec => []AnsweredOnce
<1>1. InboundInv => AnsweredOnce
    <2> SUFFICES ASSUME InboundInv, NEW m \in Messages
                 PROVE  answers[m] <= 1 + IF m \in redone THEN SpendBound ELSE 0
        BY DEF AnsweredOnce
    <2>1. /\ answers[m] <= spent + IF Answered(m) THEN 1 ELSE 0
          /\ m \notin redone => answers[m] <= IF Answered(m) THEN 1 ELSE 0
          /\ answers[m] \in Nat /\ spent \in 0 .. SpendBound /\ SpendBound \in Nat
        BY InboundAssumption DEF InboundInv, AnswersCounted, InboundTypeOK
    <2> QED
        BY <2>1
<1> QED
    BY <1>1, InboundInvariant, PTL

\* The automation speaks only to who has agreed, or for whom an operator has overruled a
\* refusal (require_consent_before_ai), whatever was read before whose commit.
THEOREM ConsentComesFirst == Spec => []ConsentFirst
<1>1. InboundInv => ConsentFirst
    <2> SUFFICES ASSUME InboundInv, NEW w \in Workers, Automates(w),
                        kind[worker[w].update] # "yes", ~overruled
                 PROVE  agreed
        BY DEF ConsentFirst
    <2> DEFINE v == worker[w].view
    <2>1. Writes(w) /\ v \in Views /\ v \in ConversationRow
        BY TypeFacts DEF Automates, Writes, Views
    <2>2. v.ai /\ ~NeedsConsent(v)
        BY <2>1 DEF InboundInv, Decided, Follows, Automates
    <2>3. ~Refused(v) /\ (v.id = conv.id => (v.consent = "granted" => agreed))
        BY <2>1, <2>2 DEF InboundInv, ConsentKnown
    <2>4. v.consent = "granted"
        BY <2>1, <2>2, <2>3 DEF NeedsConsent, Refused, ConversationRow
    <2>5. v.id = conv.id
        BY <2>1, <2>4 DEF InboundInv, Identities
    <2> QED
        BY <2>3, <2>4, <2>5
<1> QED
    BY <1>1, InboundInvariant, PTL

\* What a completed deletion stands for does not come back, whatever updates were waiting or
\* being processed (PrivacyService._delete).
THEOREM ErasureLasts == Spec => []ErasedStaysErased
<1>1. InboundInv => ErasedStaysErased
    BY DEF InboundInv, ErasureHolds
<1> QED
    BY <1>1, InboundInvariant, PTL

-----------------------------------------------------------------------------
(***************************************************************************)
(* Files and rows.                                                         *)
(***************************************************************************)

\* A call has made the name of a medium, and has not committed its row.
Made(c, i) ==
    \/ call[c].op = "upload" /\ call[c].item = i
    \/ call[c].op = "import" /\ i \in call[c].written

Touches(c, i) ==
    \/ Made(c, i)
    \/ call[c].op \in {"delete", "gone"} /\ call[c].item = i

\* What a call has made is in the store, has no row, and is nobody else's; what lost its row
\* gets none again.
MadeIsPrivate ==
    \A c \in Callers, i \in Media :
        Made(c, i) =>
            i \in files /\ i \notin media /\ \A d \in Callers : Touches(d, i) => d = c

GoneIsGone == \A c \in Callers : call[c].op = "gone" => call[c].item \notin media

\* The retention works on files that are no longer there, and on rows that were made before.
RetentionIsBehind ==
    \A c \in Callers, s \in Supports :
        call[c].op \in {"retention", "collected"} /\ s \in call[c].ready \cup call[c].deleted =>
            /\ support[s].status # "NONE"
            /\ s \in call[c].deleted => s \notin files

\* A support bundle is made once; what its row will not name, the store has not taken as
\* far as the call knows.
CollectedOnce ==
    \A c \in Callers :
        call[c].op = "collected" =>
            /\ support[call[c].item].status = "NONE"
            /\ ~call[c].stored => call[c].item \notin files \ lost
            /\ \A d \in Callers :
                  call[d].op = "collected" /\ call[d].item = call[c].item => d = c

ErasedIsErased ==
    \A c \in Callers :
        call[c].op = "erased" =>
            /\ support[call[c].item].status # "NONE"
            /\ call[c].item \notin files \ lost

FilesInv ==
    /\ StoredTypeOK
    /\ MadeIsPrivate /\ GoneIsGone /\ MediaHasItsFile
    /\ RetentionIsBehind /\ CollectedOnce /\ ErasedIsErased /\ RetentionFindsIt

\* What the stage of a call names.
LEMMA StageShape ==
    ASSUME NEW stage \in Stage
    PROVE  /\ stage.op \in {"upload", "delete", "gone"} => stage.item \in Media
           /\ stage.op \in {"export", "unlinked"} => stage.item \in Bundles
           /\ stage.op = "refer" =>
                 stage.item \in Media /\ stage.from \in Templates \cup Jobs
           /\ stage.op = "import" =>
                 stage.matched \subseteq Media /\ stage.written \subseteq Media \cup Bundles
           /\ stage.op \in {"retention", "collected"} =>
                 stage.ready \subseteq Supports /\ stage.deleted \subseteq Supports
           /\ stage.op \in {"collected", "erased"} => stage.item \in Supports
           /\ stage.op = "collected" => stage.stored \in BOOLEAN
BY DEF Stage

LEMMA BecomesOne ==
    ASSUME NEW c \in Callers, NEW stage, StoredTypeOK, Becomes(c, stage)
    PROVE  call'[c] = stage /\ \A d \in Callers : d # c => call'[d] = call[d]
BY DEF StoredTypeOK, Becomes

LEMMA BecomesTyped ==
    ASSUME NEW c \in Callers, NEW stage \in Stage, StoredTypeOK, Becomes(c, stage)
    PROVE  call' \in [Callers -> Stage]
BY DEF StoredTypeOK, Becomes

LEMMA IdleStage == NoRequest \in Stage /\ NoRequest.op = "idle"
BY DEF NoRequest, Stage

\* A call that neither makes nor drops a medium leaves what is known of media.
LEMMA MediaFrame ==
    ASSUME StoredTypeOK, MadeIsPrivate, GoneIsGone, MediaHasItsFile,
           NEW c \in Callers, NEW stage, Becomes(c, stage),
           stage.op \notin {"upload", "import", "delete", "gone"},
           media' = media, lost \subseteq lost', files \cap Media \subseteq files'
    PROVE  MadeIsPrivate' /\ GoneIsGone' /\ MediaHasItsFile'
<1>1. call'[c] = stage /\ \A d \in Callers : d # c => call'[d] = call[d]
    BY BecomesOne
<1>2. \A d \in Callers, i \in Media :
          (Made(d, i)' => Made(d, i)) /\ (Touches(d, i)' => Touches(d, i))
    BY <1>1 DEF Made, Touches
<1>3. MadeIsPrivate'
    BY <1>2 DEF MadeIsPrivate
<1>4. GoneIsGone'
    BY <1>1 DEF GoneIsGone
<1>5. MediaHasItsFile'
    BY DEF MediaHasItsFile, StoredTypeOK
<1> QED BY <1>3, <1>4, <1>5

\* A call that has nothing to do with support bundles leaves what is known of them.
LEMMA SupportFrame ==
    ASSUME StoredTypeOK, RetentionIsBehind, CollectedOnce, ErasedIsErased, RetentionFindsIt,
           NEW c \in Callers, NEW stage, Becomes(c, stage),
           stage.op \notin {"retention", "collected", "erased"},
           support' = support, files' \cap Supports \subseteq files,
           lost \cap Supports \subseteq lost'
    PROVE  RetentionIsBehind' /\ CollectedOnce' /\ ErasedIsErased' /\ RetentionFindsIt'
<1>1. call'[c] = stage /\ \A d \in Callers : d # c => call'[d] = call[d]
    BY BecomesOne
<1>2. RetentionIsBehind'
    BY <1>1 DEF RetentionIsBehind
<1>3. CollectedOnce'
    BY <1>1, StageShape DEF CollectedOnce, StoredTypeOK
<1>4. ErasedIsErased'
    BY <1>1, StageShape DEF ErasedIsErased, StoredTypeOK
<1>5. RetentionFindsIt'
    BY DEF RetentionFindsIt, Kept
<1> QED BY <1>2, <1>3, <1>4, <1>5

LEMMA FilesInit == StoredInit => FilesInv
<1> SUFFICES ASSUME StoredInit PROVE FilesInv
    OBVIOUS
<1>1. StoredTypeOK
    BY IdleStage DEF StoredInit, StoredTypeOK, SupportRow
<1>2. \A c \in Callers : call[c].op = "idle"
    BY IdleStage DEF StoredInit
<1>3. MadeIsPrivate /\ GoneIsGone /\ MediaHasItsFile
    BY <1>2 DEF StoredInit, MadeIsPrivate, Made, GoneIsGone, MediaHasItsFile
<1>4. RetentionIsBehind /\ CollectedOnce /\ ErasedIsErased
    BY <1>2 DEF RetentionIsBehind, CollectedOnce, ErasedIsErased
<1>5. RetentionFindsIt
    BY DEF StoredInit, RetentionFindsIt
<1> QED BY <1>1, <1>3, <1>4, <1>5 DEF FilesInv

LEMMA MediaCallKeeps ==
    ASSUME FilesInv, NEW c \in Callers, MediaCall(c)
    PROVE  FilesInv'
<1> USE DEF Doing
<1>0. /\ StoredTypeOK /\ MadeIsPrivate /\ GoneIsGone /\ MediaHasItsFile
      /\ RetentionIsBehind /\ CollectedOnce /\ ErasedIsErased /\ RetentionFindsIt
      /\ call[c] \in Stage
    BY DEF FilesInv, StoredTypeOK
<1> SUFFICES /\ StoredTypeOK' /\ MadeIsPrivate' /\ GoneIsGone' /\ MediaHasItsFile'
             /\ RetentionIsBehind' /\ CollectedOnce' /\ ErasedIsErased' /\ RetentionFindsIt'
    BY DEF FilesInv
<1>a. Media \cap Supports = {} /\ Media \cap Bundles = {}
    BY StoredAssumption
<1>1. ASSUME UploadCommit(c) PROVE FilesInv'
  <2>1. Made(c, call[c].item) /\ call[c].item \in Media
      BY <1>0, <1>1, StageShape DEF UploadCommit, Made
  <2>2. call'[c] = NoRequest /\ \A d \in Callers : d # c => call'[d] = call[d]
      BY <1>0, <1>1, BecomesOne DEF UploadCommit
  <2>3. StoredTypeOK'
    <3>1. call' \in [Callers -> Stage]
        BY <1>0, <1>1, BecomesTyped, IdleStage DEF UploadCommit
    <3> QED BY <1>0, <1>1, <2>1, <3>1 DEF UploadCommit, StoredTypeOK
  <2>4. \A d \in Callers, i \in Media :
            Touches(d, i)' => Touches(d, i) /\ i # call[c].item /\ (Made(d, i)' => Made(d, i))
      BY <1>0, <2>1, <2>2, IdleStage DEF Touches, Made, MadeIsPrivate
  <2>5. MadeIsPrivate'
      BY <1>0, <1>1, <2>4 DEF MadeIsPrivate, UploadCommit, Touches
  <2>6. GoneIsGone'
    <3> SUFFICES ASSUME NEW d \in Callers, call'[d].op = "gone" PROVE call'[d].item \notin media'
        BY DEF GoneIsGone
    <3>1. d # c /\ call'[d] = call[d] /\ call[d].item \in Media
        BY <1>0, <2>2, IdleStage, StageShape DEF StoredTypeOK
    <3>2. Touches(d, call[d].item)'
        BY <3>1 DEF Touches
    <3> QED BY <1>0, <1>1, <2>4, <3>1, <3>2 DEF GoneIsGone, UploadCommit
  <2>7. MediaHasItsFile'
      BY <1>0, <1>1, <2>1 DEF MediaHasItsFile, UploadCommit, MadeIsPrivate
  <2>8. RetentionIsBehind' /\ CollectedOnce' /\ ErasedIsErased' /\ RetentionFindsIt'
      BY <1>0, <1>1, SupportFrame, IdleStage DEF UploadCommit
  <2> QED BY <2>3, <2>5, <2>6, <2>7, <2>8 DEF FilesInv
<1>2. ASSUME UploadFails(c) PROVE FilesInv'
  <2>1. Made(c, call[c].item) /\ call[c].item \in Media
      BY <1>0, <1>2, StageShape DEF UploadFails, Made
  <2>2. call'[c] = NoRequest /\ \A d \in Callers : d # c => call'[d] = call[d]
      BY <1>0, <1>2, BecomesOne DEF UploadFails
  <2>3. StoredTypeOK'
    <3>1. call' \in [Callers -> Stage]
        BY <1>0, <1>2, BecomesTyped, IdleStage DEF UploadFails
    <3> QED BY <1>0, <1>2, <2>1, <3>1 DEF UploadFails, Removed, StoredTypeOK
  <2>4. \A d \in Callers, i \in Media :
            Touches(d, i)' => Touches(d, i) /\ i # call[c].item /\ (Made(d, i)' => Made(d, i))
      BY <1>0, <2>1, <2>2, IdleStage DEF Touches, Made, MadeIsPrivate
  <2>5. MadeIsPrivate'
      BY <1>0, <1>2, <2>4 DEF MadeIsPrivate, UploadFails, Removed, Touches
  <2>6. GoneIsGone'
    <3> SUFFICES ASSUME NEW d \in Callers, call'[d].op = "gone" PROVE call'[d].item \notin media'
        BY DEF GoneIsGone
    <3>1. d # c /\ call'[d] = call[d] /\ call[d].item \in Media
        BY <1>0, <2>2, IdleStage, StageShape DEF StoredTypeOK
    <3>2. Touches(d, call[d].item)'
        BY <3>1 DEF Touches
    <3> QED BY <1>0, <1>2, <2>4, <3>1, <3>2 DEF GoneIsGone, UploadFails
  <2>7. MediaHasItsFile'
      BY <1>0, <1>2, <2>1 DEF MediaHasItsFile, UploadFails, Removed, MadeIsPrivate
  <2>8. RetentionIsBehind' /\ CollectedOnce' /\ ErasedIsErased' /\ RetentionFindsIt'
    <3>1. files' \cap Supports \subseteq files /\ lost \cap Supports \subseteq lost'
        BY <1>2 DEF UploadFails, Removed
    <3> QED BY <1>0, <1>2, <3>1, SupportFrame, IdleStage DEF UploadFails
  <2> QED BY <2>3, <2>5, <2>6, <2>7, <2>8 DEF FilesInv
<1>3. ASSUME DeleteCommit(c) PROVE FilesInv'
  <2> DEFINE i == call[c].item
  <2>1. i \in Media /\ i \in media
      BY <1>0, <1>3, StageShape DEF DeleteCommit
  <2>2. call'[c] = [op |-> "gone", item |-> i] /\ \A d \in Callers : d # c => call'[d] = call[d]
      BY <1>0, <1>3, BecomesOne DEF DeleteCommit
  <2>3. StoredTypeOK'
    <3>1. [op |-> "gone", item |-> i] \in Stage
        BY <2>1 DEF Stage
    <3>2. call' \in [Callers -> Stage]
        BY <1>0, <1>3, <3>1, BecomesTyped DEF DeleteCommit
    <3> QED BY <1>0, <1>3, <3>2 DEF DeleteCommit, StoredTypeOK
  <2>4. \A d \in Callers, j \in Media :
            (Made(d, j)' => Made(d, j)) /\ (Touches(d, j)' => Touches(d, j))
      BY <1>3, <2>2 DEF Touches, Made, DeleteCommit
  <2>5. MadeIsPrivate'
      BY <1>0, <1>3, <2>4 DEF MadeIsPrivate, DeleteCommit
  <2>6. GoneIsGone'
      BY <1>0, <1>3, <2>2 DEF GoneIsGone, DeleteCommit
  <2>7. MediaHasItsFile'
      BY <1>0, <1>3 DEF MediaHasItsFile, DeleteCommit
  <2>8. RetentionIsBehind' /\ CollectedOnce' /\ ErasedIsErased' /\ RetentionFindsIt'
    <3>1. Becomes(c, [op |-> "gone", item |-> i]) /\ support' = support
          /\ files' \cap Supports \subseteq files /\ lost \cap Supports \subseteq lost'
        BY <1>3, <1>a, <2>1 DEF DeleteCommit
    <3> QED BY <1>0, <3>1, SupportFrame
  <2> QED BY <2>3, <2>5, <2>6, <2>7, <2>8 DEF FilesInv
<1>4. ASSUME DeleteFile(c) PROVE FilesInv'
  <2>1. call[c].item \in Media /\ Touches(c, call[c].item) /\ ~Made(c, call[c].item)
        /\ call[c].item \notin media
      BY <1>0, <1>4, StageShape DEF DeleteFile, Touches, Made, GoneIsGone
  <2>2. call'[c] = NoRequest /\ \A d \in Callers : d # c => call'[d] = call[d]
      BY <1>0, <1>4, BecomesOne DEF DeleteFile
  <2>3. StoredTypeOK'
    <3>1. call' \in [Callers -> Stage]
        BY <1>0, <1>4, BecomesTyped, IdleStage DEF DeleteFile
    <3> QED BY <1>0, <1>4, <3>1 DEF DeleteFile, Removed, StoredTypeOK
  <2>4. \A d \in Callers, i \in Media :
            /\ Touches(d, i)' => Touches(d, i)
            /\ Made(d, i)' => Made(d, i) /\ i # call[c].item
      BY <1>0, <2>1, <2>2, IdleStage DEF Touches, Made, MadeIsPrivate
  <2>5. MadeIsPrivate'
      BY <1>0, <1>4, <2>4 DEF MadeIsPrivate, DeleteFile, Removed
  <2>6. GoneIsGone'
      BY <1>0, <1>4, <2>2, IdleStage DEF GoneIsGone, DeleteFile
  <2>7. MediaHasItsFile'
      BY <1>0, <1>4, <2>1 DEF MediaHasItsFile, DeleteFile, Removed
  <2>8. RetentionIsBehind' /\ CollectedOnce' /\ ErasedIsErased' /\ RetentionFindsIt'
    <3>1. files' \cap Supports \subseteq files
        BY <1>4 DEF DeleteFile, Removed
    <3> QED BY <1>0, <1>4, <3>1, SupportFrame, IdleStage DEF DeleteFile
  <2> QED BY <2>3, <2>5, <2>6, <2>7, <2>8 DEF FilesInv
<1>5. ASSUME ReferCommit(c) PROVE FilesInv'
  <2>1. StoredTypeOK'
    <3>1. call' \in [Callers -> Stage]
        BY <1>0, <1>5, BecomesTyped, IdleStage DEF ReferCommit
    <3>2. call[c].item \in Media
        BY <1>0, <1>5, StageShape DEF ReferCommit
    <3> QED BY <1>0, <1>5, <3>1, <3>2 DEF ReferCommit, StoredTypeOK
  <2>2. MadeIsPrivate' /\ GoneIsGone' /\ MediaHasItsFile'
      BY <1>0, <1>5, MediaFrame, IdleStage DEF ReferCommit
  <2>3. RetentionIsBehind' /\ CollectedOnce' /\ ErasedIsErased' /\ RetentionFindsIt'
      BY <1>0, <1>5, SupportFrame, IdleStage DEF ReferCommit
  <2> QED BY <2>1, <2>2, <2>3 DEF FilesInv
<1>6. ASSUME NEW i \in Media, Upload(c, i) PROVE FilesInv'
  <2> DEFINE stage == [op |-> "upload", item |-> i]
  <2>1. /\ call'[c] = stage /\ \A d \in Callers : d # c => call'[d] = call[d]
        /\ Becomes(c, stage)
      BY <1>0, <1>6, BecomesOne DEF Upload
  <2>2. StoredTypeOK'
    <3>1. stage \in Stage
        BY DEF Stage
    <3>2. call' \in [Callers -> Stage]
        BY <1>0, <2>1, <3>1, BecomesTyped
    <3> QED BY <1>0, <1>6, <3>2 DEF Upload, StoredTypeOK
  <2>3. \A d \in Callers : ~Touches(d, i)
      BY <1>6, IdleStage DEF Upload, New, Touches, Made
  <2>4. \A d \in Callers, j \in Media :
            /\ Made(d, j)' => (Made(d, j) /\ j # i) \/ (d = c /\ j = i)
            /\ Touches(d, j)' => (Touches(d, j) /\ j # i) \/ (d = c /\ j = i)
      BY <2>1, <2>3 DEF Touches, Made
  <2>5. MadeIsPrivate'
      BY <1>0, <1>6, <2>4 DEF MadeIsPrivate, Upload, New
  <2>6. GoneIsGone'
      BY <1>0, <1>6, <2>1 DEF GoneIsGone, Upload
  <2>7. MediaHasItsFile'
      BY <1>0, <1>6 DEF MediaHasItsFile, Upload
  <2>8. RetentionIsBehind' /\ CollectedOnce' /\ ErasedIsErased' /\ RetentionFindsIt'
    <3>1. files' \cap Supports \subseteq files /\ lost' = lost /\ support' = support
        BY <1>6, <1>a DEF Upload
    <3> QED BY <1>0, <2>1, <3>1, SupportFrame
  <2> QED BY <2>2, <2>5, <2>6, <2>7, <2>8 DEF FilesInv
<1>7. ASSUME NEW i \in Media, DeleteCheck(c, i) PROVE FilesInv'
  <2> DEFINE stage == [op |-> "delete", item |-> i]
  <2>1. /\ call'[c] = stage /\ \A d \in Callers : d # c => call'[d] = call[d]
        /\ Becomes(c, stage)
      BY <1>0, <1>7, BecomesOne DEF DeleteCheck
  <2>2. StoredTypeOK'
    <3>1. stage \in Stage
        BY DEF Stage
    <3>2. call' \in [Callers -> Stage]
        BY <1>0, <2>1, <3>1, BecomesTyped
    <3> QED BY <1>0, <1>7, <3>2 DEF DeleteCheck, StoredTypeOK
  <2>3. \A d \in Callers, j \in Media :
            /\ Made(d, j)' => Made(d, j) /\ j # i
            /\ Touches(d, j)' => Touches(d, j) \/ j = i
      BY <1>0, <1>7, <2>1 DEF Touches, Made, MadeIsPrivate, DeleteCheck
  <2>4. MadeIsPrivate'
      BY <1>0, <1>7, <2>3 DEF MadeIsPrivate, DeleteCheck
  <2>5. GoneIsGone'
      BY <1>0, <1>7, <2>1 DEF GoneIsGone, DeleteCheck
  <2>6. MediaHasItsFile'
      BY <1>0, <1>7 DEF MediaHasItsFile, DeleteCheck
  <2>7. RetentionIsBehind' /\ CollectedOnce' /\ ErasedIsErased' /\ RetentionFindsIt'
    <3>1. files' = files /\ lost' = lost /\ support' = support
        BY <1>7 DEF DeleteCheck
    <3> QED BY <1>0, <2>1, <3>1, SupportFrame
  <2> QED BY <2>2, <2>4, <2>5, <2>6, <2>7 DEF FilesInv
<1>8. ASSUME NEW i \in Media, NEW x \in Templates \cup Jobs, Refer(c, x, i) PROVE FilesInv'
  <2> DEFINE stage == [op |-> "refer", item |-> i, from |-> x]
  <2>1. /\ files' = files /\ media' = media /\ lost' = lost /\ support' = support
        /\ Becomes(c, stage)
      BY <1>8 DEF Refer
  <2>2. StoredTypeOK'
    <3>1. stage \in Stage
        BY DEF Stage
    <3>2. call' \in [Callers -> Stage]
        BY <1>0, <2>1, <3>1, BecomesTyped
    <3> QED BY <1>0, <1>8, <3>2 DEF Refer, StoredTypeOK
  <2>3. MadeIsPrivate' /\ GoneIsGone' /\ MediaHasItsFile'
      BY <1>0, <2>1, MediaFrame
  <2>4. RetentionIsBehind' /\ CollectedOnce' /\ ErasedIsErased' /\ RetentionFindsIt'
      BY <1>0, <2>1, SupportFrame
  <2> QED BY <2>2, <2>3, <2>4 DEF FilesInv
<1> QED BY <1>1, <1>2, <1>3, <1>4, <1>5, <1>6, <1>7, <1>8 DEF MediaCall, FilesInv

LEMMA BundleCallKeeps ==
    ASSUME FilesInv, NEW c \in Callers, BundleCall(c)
    PROVE  FilesInv'
<1> USE DEF Doing
<1>0. /\ StoredTypeOK /\ MadeIsPrivate /\ GoneIsGone /\ MediaHasItsFile
      /\ RetentionIsBehind /\ CollectedOnce /\ ErasedIsErased /\ RetentionFindsIt
      /\ call[c] \in Stage
    BY DEF FilesInv, StoredTypeOK
<1>a. Media \cap Supports = {} /\ Media \cap Bundles = {} /\ Bundles \cap Supports = {}
    BY StoredAssumption
<1>1. ASSUME ExportCommit(c) PROVE FilesInv'
  <2>1. StoredTypeOK'
    <3>1. call' \in [Callers -> Stage]
        BY <1>0, <1>1, BecomesTyped, IdleStage DEF ExportCommit
    <3>2. call[c].item \in Bundles
        BY <1>0, <1>1, StageShape DEF ExportCommit
    <3> QED BY <1>0, <1>1, <3>1, <3>2 DEF ExportCommit, StoredTypeOK
  <2>2. MadeIsPrivate' /\ GoneIsGone' /\ MediaHasItsFile'
      BY <1>0, <1>1, MediaFrame, IdleStage DEF ExportCommit
  <2>3. RetentionIsBehind' /\ CollectedOnce' /\ ErasedIsErased' /\ RetentionFindsIt'
      BY <1>0, <1>1, SupportFrame, IdleStage DEF ExportCommit
  <2> QED BY <2>1, <2>2, <2>3 DEF FilesInv
<1>2. ASSUME ImportFails(c) PROVE FilesInv'
  <2>1. call'[c] = NoRequest /\ \A d \in Callers : d # c => call'[d] = call[d]
      BY <1>0, <1>2, BecomesOne DEF ImportFails
  <2>2. /\ call[c].op = "import" /\ call[c].written \subseteq Media \cup Bundles
        /\ files' \in {files \ call[c].written, files}
      BY <1>0, <1>2, StageShape DEF ImportFails, Removed, Undone
  <2>3. StoredTypeOK'
    <3>1. call' \in [Callers -> Stage]
        BY <1>0, <1>2, BecomesTyped, IdleStage DEF ImportFails
    <3> QED BY <1>0, <1>2, <2>2, <3>1 DEF ImportFails, StoredTypeOK
  <2>4. \A d \in Callers, i \in Media :
            /\ Made(d, i)' => Made(d, i) /\ i \notin call[c].written
            /\ Touches(d, i)' => Touches(d, i)
      BY <1>0, <2>1, <2>2, IdleStage DEF Touches, Made, MadeIsPrivate
  <2>5. MadeIsPrivate'
      BY <1>0, <1>2, <2>2, <2>4 DEF MadeIsPrivate, ImportFails
  <2>6. GoneIsGone'
      BY <1>0, <1>2, <2>1, IdleStage DEF GoneIsGone, ImportFails
  <2>7. MediaHasItsFile'
    <3>1. \A i \in Media : i \in call[c].written => i \notin media
        BY <1>0, <2>2 DEF MadeIsPrivate, Made
    <3> QED BY <1>0, <1>2, <2>2, <3>1 DEF MediaHasItsFile, ImportFails, StoredTypeOK
  <2>8. RetentionIsBehind' /\ CollectedOnce' /\ ErasedIsErased' /\ RetentionFindsIt'
    <3>1. files' \cap Supports \subseteq files
        BY <2>2
    <3> QED BY <1>0, <1>2, <3>1, SupportFrame, IdleStage DEF ImportFails
  <2> QED BY <2>3, <2>5, <2>6, <2>7, <2>8 DEF FilesInv
<1>3. ASSUME DeleteBundleCommit(c) PROVE FilesInv'
  <2>1. StoredTypeOK'
    <3>1. call' \in [Callers -> Stage]
        BY <1>0, <1>3, BecomesTyped, IdleStage DEF DeleteBundleCommit
    <3> QED BY <1>0, <1>3, <3>1 DEF DeleteBundleCommit, StoredTypeOK
  <2>2. MadeIsPrivate' /\ GoneIsGone' /\ MediaHasItsFile'
      BY <1>0, <1>3, MediaFrame, IdleStage DEF DeleteBundleCommit
  <2>3. RetentionIsBehind' /\ CollectedOnce' /\ ErasedIsErased' /\ RetentionFindsIt'
      BY <1>0, <1>3, SupportFrame, IdleStage DEF DeleteBundleCommit
  <2> QED BY <2>1, <2>2, <2>3 DEF FilesInv
<1>4. ASSUME NEW b \in Bundles, Export(c, b) PROVE FilesInv'
  <2> DEFINE stage == [op |-> "export", item |-> b]
  <2>1. /\ media' = media /\ lost' = lost /\ support' = support /\ files' = files \cup {b}
        /\ Becomes(c, stage)
      BY <1>4 DEF Export
  <2>2. StoredTypeOK'
    <3>1. stage \in Stage
        BY DEF Stage
    <3>2. call' \in [Callers -> Stage]
        BY <1>0, <2>1, <3>1, BecomesTyped
    <3> QED BY <1>0, <1>4, <3>2 DEF Export, StoredTypeOK
  <2>3. MadeIsPrivate' /\ GoneIsGone' /\ MediaHasItsFile'
      BY <1>0, <2>1, MediaFrame
  <2>4. RetentionIsBehind' /\ CollectedOnce' /\ ErasedIsErased' /\ RetentionFindsIt'
      BY <1>0, <1>a, <2>1, SupportFrame
  <2> QED BY <2>2, <2>3, <2>4 DEF FilesInv
<1>5. ASSUME NEW b \in Bundles, DeleteBundle(c, b) PROVE FilesInv'
  <2> DEFINE stage == [op |-> "unlinked", item |-> b]
  <2>1. /\ media' = media /\ lost' = lost /\ support' = support /\ files' = files \ {b}
        /\ Becomes(c, stage)
      BY <1>5 DEF DeleteBundle
  <2>2. StoredTypeOK'
    <3>1. stage \in Stage
        BY DEF Stage
    <3>2. call' \in [Callers -> Stage]
        BY <1>0, <2>1, <3>1, BecomesTyped
    <3> QED BY <1>0, <1>5, <3>2 DEF DeleteBundle, StoredTypeOK
  <2>3. MadeIsPrivate' /\ GoneIsGone' /\ MediaHasItsFile'
    <3>1. files \cap Media \subseteq files'
        BY <1>a, <2>1
    <3> QED BY <1>0, <2>1, <3>1, MediaFrame
  <2>4. RetentionIsBehind' /\ CollectedOnce' /\ ErasedIsErased' /\ RetentionFindsIt'
      BY <1>0, <1>a, <2>1, SupportFrame
  <2> QED BY <2>2, <2>3, <2>4 DEF FilesInv
<1>6. ASSUME NEW matched \in SUBSET Media, ImportBegin(c, matched) PROVE FilesInv'
  <2> DEFINE stage == [op |-> "import", matched |-> matched, written |-> {}]
  <2>1. /\ media' = media /\ lost' = lost /\ support' = support /\ files' = files
        /\ Becomes(c, stage)
      BY <1>6 DEF ImportBegin
  <2>2. call'[c] = stage /\ \A d \in Callers : d # c => call'[d] = call[d]
      BY <1>0, <2>1, BecomesOne
  <2>3. StoredTypeOK'
    <3>1. stage \in Stage
        BY DEF Stage
    <3>2. call' \in [Callers -> Stage]
        BY <1>0, <2>1, <3>1, BecomesTyped
    <3> QED BY <1>0, <1>6, <3>2 DEF ImportBegin, StoredTypeOK
  <2>4. \A d \in Callers, i \in Media :
            (Made(d, i)' => Made(d, i)) /\ (Touches(d, i)' => Touches(d, i))
      BY <2>2 DEF Touches, Made
  <2>5. MadeIsPrivate' /\ GoneIsGone' /\ MediaHasItsFile'
      BY <1>0, <2>1, <2>2, <2>4 DEF MadeIsPrivate, GoneIsGone, MediaHasItsFile
  <2>6. RetentionIsBehind' /\ CollectedOnce' /\ ErasedIsErased' /\ RetentionFindsIt'
      BY <1>0, <2>1, SupportFrame
  <2> QED BY <2>3, <2>5, <2>6 DEF FilesInv
<1>7. ASSUME NEW i \in Media \cup Bundles, ImportFile(c, i) PROVE FilesInv'
  <2> DEFINE stage == [call[c] EXCEPT !.written = @ \cup {i}]
  <2>1. /\ media' = media /\ lost' = lost /\ support' = support /\ files' = files \cup {i}
        /\ call[c].op = "import" /\ Becomes(c, stage)
      BY <1>7 DEF ImportFile
  <2>2. stage \in Stage /\ stage.op = "import" /\ stage.written = call[c].written \cup {i}
      BY <1>0, <2>1 DEF Stage
  <2>3. call'[c] = stage /\ \A d \in Callers : d # c => call'[d] = call[d]
      BY <1>0, <2>1, BecomesOne
  <2>4. StoredTypeOK'
    <3>1. call' \in [Callers -> Stage]
        BY <1>0, <2>1, <2>2, BecomesTyped
    <3> QED BY <1>0, <1>7, <3>1 DEF ImportFile, StoredTypeOK
  <2> HIDE DEF stage
  <2>5. \A d \in Callers : ~Touches(d, i)
      BY <1>7 DEF ImportFile, New, Touches, Made
  <2>6. \A d \in Callers, j \in Media :
            /\ Made(d, j)' => (Made(d, j) /\ j # i) \/ (d = c /\ j = i)
            /\ Touches(d, j)' => (Touches(d, j) /\ j # i) \/ (d = c /\ j = i)
      BY <2>1, <2>2, <2>3, <2>5 DEF Touches, Made
  <2>7. MadeIsPrivate'
      BY <1>0, <1>7, <2>6 DEF MadeIsPrivate, ImportFile, New
  <2>8. GoneIsGone'
      BY <1>0, <2>1, <2>2, <2>3 DEF GoneIsGone
  <2>9. MediaHasItsFile'
      BY <1>0, <2>1 DEF MediaHasItsFile
  <2>10. RetentionIsBehind' /\ CollectedOnce' /\ ErasedIsErased' /\ RetentionFindsIt'
    <3>1. files' \cap Supports \subseteq files
        BY <1>a, <2>1
    <3> QED BY <1>0, <2>1, <2>2, <3>1, SupportFrame
  <2> QED BY <2>4, <2>7, <2>8, <2>9, <2>10 DEF FilesInv
<1>8. ASSUME NEW t \in Templates, ImportCommit(c, t) PROVE FilesInv'
  <2>1. /\ media' = media \cup (call[c].written \cap Media)
        /\ files' = files /\ lost' = lost /\ support' = support
        /\ call[c].op = "import" /\ Becomes(c, NoRequest)
      BY <1>8 DEF ImportCommit
  <2>2. call'[c] = NoRequest /\ \A d \in Callers : d # c => call'[d] = call[d]
      BY <1>0, <2>1, BecomesOne
  <2>3. call[c].matched \subseteq Media /\ call[c].written \subseteq Media \cup Bundles
      BY <1>0, <2>1, StageShape
  <2>4. StoredTypeOK'
    <3>1. call' \in [Callers -> Stage]
        BY <1>0, <2>1, BecomesTyped, IdleStage
    <3>2. uses' \in [Templates \cup Jobs -> Media \cup {Nothing}]
        BY <1>0, <1>8, <2>3 DEF ImportCommit, StoredTypeOK
    <3> QED BY <1>0, <1>8, <2>3, <3>1, <3>2 DEF ImportCommit, StoredTypeOK
  <2>5. \A i \in Media : i \in call[c].written => Made(c, i)
      BY <2>1 DEF Made
  <2>6. \A d \in Callers, i \in Media :
            /\ Made(d, i)' => Made(d, i)
            /\ Touches(d, i)' => Touches(d, i) /\ i \notin call[c].written
      BY <1>0, <2>2, <2>5, IdleStage DEF Touches, Made, MadeIsPrivate
  <2>7. MadeIsPrivate'
    <3>1. \A d \in Callers, i \in Media : Made(d, i)' => Touches(d, i)'
        BY DEF Touches
    <3> QED BY <1>0, <2>1, <2>6, <3>1 DEF MadeIsPrivate
  <2>8. GoneIsGone'
    <3> SUFFICES ASSUME NEW d \in Callers, call'[d].op = "gone" PROVE call'[d].item \notin media'
        BY DEF GoneIsGone
    <3>1. d # c /\ call'[d] = call[d] /\ call[d].item \in Media
        BY <1>0, <2>2, IdleStage, StageShape DEF StoredTypeOK
    <3>2. Touches(d, call[d].item)'
        BY <3>1 DEF Touches
    <3> QED BY <1>0, <2>1, <2>6, <3>1, <3>2 DEF GoneIsGone
  <2>9. MediaHasItsFile'
      BY <1>0, <2>1, <2>5 DEF MediaHasItsFile, MadeIsPrivate
  <2>10. RetentionIsBehind' /\ CollectedOnce' /\ ErasedIsErased' /\ RetentionFindsIt'
      BY <1>0, <2>1, SupportFrame, IdleStage
  <2> QED BY <2>4, <2>7, <2>8, <2>9, <2>10 DEF FilesInv
<1> QED BY <1>1, <1>2, <1>3, <1>4, <1>5, <1>6, <1>7, <1>8 DEF BundleCall

\* The retention's columns, written over what the rows are by then.
LEMMA ExpiredRows ==
    ASSUME FilesInv, NEW c \in Callers, call[c].op \in {"retention", "collected"}
    PROVE  /\ Expired(call[c]) \in [Supports -> SupportRow]
           /\ \A s \in Supports :
                 /\ Expired(call[c])[s].status = "NONE" <=> support[s].status = "NONE"
                 /\ s \in files \ lost /\ support[s].status # "NONE" =>
                       /\ Expired(call[c])[s].status \in {"READY", "EXPIRED"}
                       /\ Expired(call[c])[s].key
<1>1. /\ \A s \in Supports :
            /\ s \in call[c].ready => support[s].status # "NONE"
            /\ s \in call[c].deleted => s \notin files
      /\ support \in [Supports -> SupportRow]
    BY DEF FilesInv, RetentionIsBehind, StoredTypeOK
<1>2. \A s \in Supports : s \in files \ lost /\ support[s].status # "NONE" =>
          support[s].status \in {"READY", "EXPIRED"} /\ support[s].key
    BY DEF FilesInv, RetentionFindsIt, Kept
<1>3. \A s \in Supports : Expired(call[c])[s] =
          [status |-> IF s \in call[c].ready THEN "EXPIRED" ELSE support[s].status,
           key |-> support[s].key /\ s \notin call[c].deleted]
    BY DEF Expired
<1>4. Expired(call[c]) \in [Supports -> SupportRow]
    BY <1>1 DEF Expired, SupportRow
<1>5. \A s \in Supports :
          /\ Expired(call[c])[s].status =
                IF s \in call[c].ready THEN "EXPIRED" ELSE support[s].status
          /\ Expired(call[c])[s].key = (support[s].key /\ s \notin call[c].deleted)
  <2> SUFFICES ASSUME NEW s \in Supports
               PROVE  /\ Expired(call[c])[s].status =
                            IF s \in call[c].ready THEN "EXPIRED" ELSE support[s].status
                      /\ Expired(call[c])[s].key =
                            (support[s].key /\ s \notin call[c].deleted)
      OBVIOUS
  <2> DEFINE status == IF s \in call[c].ready THEN "EXPIRED" ELSE support[s].status
             key == support[s].key /\ s \notin call[c].deleted
  <2>1. Expired(call[c])[s] = [status |-> status, key |-> key]
      BY <1>3
  <2> HIDE DEF status, key
  <2>2. Expired(call[c])[s].status = status /\ Expired(call[c])[s].key = key
      BY <2>1
  <2> QED BY <2>2 DEF status, key
<1> QED BY <1>1, <1>2, <1>4, <1>5

LEMMA SupportCallKeeps ==
    ASSUME FilesInv, NEW c \in Callers, SupportCall(c)
    PROVE  FilesInv'
<1> USE DEF Doing
<1>0. /\ StoredTypeOK /\ MadeIsPrivate /\ GoneIsGone /\ MediaHasItsFile
      /\ RetentionIsBehind /\ CollectedOnce /\ ErasedIsErased /\ RetentionFindsIt
      /\ call[c] \in Stage /\ support \in [Supports -> SupportRow]
    BY DEF FilesInv, StoredTypeOK
<1>a. Media \cap Supports = {} /\ Media \cap Bundles = {} /\ Bundles \cap Supports = {}
    BY StoredAssumption
<1>1. ASSUME Expire(c) PROVE FilesInv'
  <2>1. PICK deleted \in SUBSET Due :
            /\ files' = files \ deleted
            /\ Becomes(c, [op |-> "retention", deleted |-> deleted,
                           ready |-> {s \in Due : support[s].status = "READY"}])
      BY <1>1 DEF Expire
  <2> DEFINE ready == {s \in Due : support[s].status = "READY"}
             stage == [op |-> "retention", deleted |-> deleted, ready |-> ready]
  <2>2. \A s \in deleted \cup ready : s \in Supports /\ support[s].status # "NONE"
      BY <1>0 DEF Due, Kept, StoredTypeOK
  <2>3. media' = media /\ lost' = lost /\ support' = support /\ Becomes(c, stage)
        /\ bundles' = bundles /\ overdue' = overdue /\ uses' = uses
      BY <1>1, <2>1 DEF Expire
  <2>4. stage \in Stage
      BY <2>2 DEF Stage
  <2>5. /\ stage.op = "retention" /\ stage.ready \cup stage.deleted = deleted \cup ready
        /\ stage.deleted = deleted
      OBVIOUS
  <2>6. call'[c] = stage /\ \A d \in Callers : d # c => call'[d] = call[d]
      BY <1>0, <2>3, BecomesOne
  <2> HIDE DEF ready, stage
  <2>7. StoredTypeOK'
    <3>1. call' \in [Callers -> Stage]
        BY <1>0, <2>3, <2>4, BecomesTyped
    <3> QED BY <1>0, <2>1, <2>3, <3>1 DEF StoredTypeOK
  <2>8. MadeIsPrivate' /\ GoneIsGone' /\ MediaHasItsFile'
    <3>1. files \cap Media \subseteq files'
        BY <1>a, <2>1, <2>2
    <3> QED BY <1>0, <2>3, <2>5, <3>1, MediaFrame
  <2>9. RetentionIsBehind'
      BY <1>0, <2>1, <2>2, <2>3, <2>5, <2>6 DEF RetentionIsBehind
  <2>10. CollectedOnce'
      BY <1>0, <2>1, <2>3, <2>5, <2>6 DEF CollectedOnce
  <2>11. ErasedIsErased'
      BY <1>0, <2>1, <2>3, <2>5, <2>6 DEF ErasedIsErased
  <2>12. RetentionFindsIt'
      BY <1>0, <2>1, <2>3 DEF RetentionFindsIt, Kept
  <2> QED BY <2>7, <2>8, <2>9, <2>10, <2>11, <2>12 DEF FilesInv
<1>2. ASSUME ExpireCommit(c) PROVE FilesInv'
  <2>1. /\ media' = media /\ lost' = lost /\ files' = files /\ bundles' = bundles
        /\ overdue' = overdue /\ uses' = uses
        /\ support' = Expired(call[c]) /\ Becomes(c, NoRequest) /\ call[c].op = "retention"
      BY <1>2 DEF ExpireCommit
  <2>2. /\ support' \in [Supports -> SupportRow]
        /\ \A s \in Supports :
              /\ support'[s].status = "NONE" <=> support[s].status = "NONE"
              /\ s \in files \ lost /\ support[s].status # "NONE" =>
                    support'[s].status \in {"READY", "EXPIRED"} /\ support'[s].key
      BY <2>1, ExpiredRows
  <2>3. call'[c] = NoRequest /\ \A d \in Callers : d # c => call'[d] = call[d]
      BY <1>0, <2>1, BecomesOne
  <2>4. StoredTypeOK'
    <3>1. call' \in [Callers -> Stage]
        BY <1>0, <2>1, BecomesTyped, IdleStage
    <3> QED BY <1>0, <2>1, <2>2, <3>1 DEF StoredTypeOK
  <2>5. MadeIsPrivate' /\ GoneIsGone' /\ MediaHasItsFile'
      BY <1>0, <2>1, IdleStage, MediaFrame
  <2>6. RetentionIsBehind'
      BY <1>0, <2>1, <2>2, <2>3, IdleStage DEF RetentionIsBehind
  <2>7. CollectedOnce'
      BY <1>0, <2>1, <2>2, <2>3, IdleStage, StageShape DEF CollectedOnce, StoredTypeOK
  <2>8. ErasedIsErased'
      BY <1>0, <2>1, <2>2, <2>3, IdleStage, StageShape DEF ErasedIsErased, StoredTypeOK
  <2>9. RetentionFindsIt'
      BY <1>0, <2>1, <2>2 DEF RetentionFindsIt, Kept
  <2> QED BY <2>4, <2>5, <2>6, <2>7, <2>8, <2>9 DEF FilesInv
<1>3. ASSUME CollectCommit(c) PROVE FilesInv'
  <2> DEFINE s0 == call[c].item
             entry == [status |-> IF call[c].stored THEN "READY" ELSE "FAILED",
                     key |-> call[c].stored]
  <2>1. /\ media' = media /\ lost' = lost /\ files' = files /\ bundles' = bundles
        /\ overdue' = overdue /\ uses' = uses
        /\ support' = [Expired(call[c]) EXCEPT ![s0] = entry]
        /\ Becomes(c, NoRequest) /\ call[c].op = "collected"
      BY <1>3 DEF CollectCommit
  <2>2. s0 \in Supports /\ call[c].stored \in BOOLEAN
      BY <1>0, <2>1, StageShape
  <2>3. /\ entry \in SupportRow /\ entry.status \in {"READY", "FAILED"}
        /\ call[c].stored => entry.status = "READY" /\ entry.key
      BY <2>2 DEF SupportRow
  <2> HIDE DEF entry
  <2>4. /\ support' \in [Supports -> SupportRow]
        /\ support'[s0] = entry
        /\ \A s \in Supports : s # s0 =>
              /\ support'[s].status = "NONE" <=> support[s].status = "NONE"
              /\ s \in files \ lost /\ support[s].status # "NONE" =>
                    support'[s].status \in {"READY", "EXPIRED"} /\ support'[s].key
      BY <2>1, <2>2, <2>3, ExpiredRows
  <2>5. support[s0].status = "NONE" /\ (~call[c].stored => s0 \notin files \ lost)
      BY <1>0, <2>1 DEF CollectedOnce
  <2>6. call'[c] = NoRequest /\ \A d \in Callers : d # c => call'[d] = call[d]
      BY <1>0, <2>1, BecomesOne
  <2>7. StoredTypeOK'
    <3>1. call' \in [Callers -> Stage]
        BY <1>0, <2>1, BecomesTyped, IdleStage
    <3> QED BY <1>0, <2>1, <2>4, <3>1 DEF StoredTypeOK
  <2>8. MadeIsPrivate' /\ GoneIsGone' /\ MediaHasItsFile'
      BY <1>0, <2>1, IdleStage, MediaFrame
  <2>9. RetentionIsBehind'
      BY <1>0, <2>1, <2>3, <2>4, <2>6, IdleStage DEF RetentionIsBehind
  <2>10. CollectedOnce'
    <3>1. \A d \in Callers : d # c /\ call[d].op = "collected" =>
              call[d].item # s0 /\ call[d].item \in Supports
        BY <1>0, <2>1, StageShape DEF CollectedOnce, StoredTypeOK
    <3> QED BY <1>0, <2>1, <2>4, <2>6, <3>1, IdleStage DEF CollectedOnce
  <2>11. ErasedIsErased'
    <3>1. \A d \in Callers : call[d].op = "erased" => call[d].item \in Supports
        BY <1>0, StageShape DEF StoredTypeOK
    <3> QED BY <1>0, <2>1, <2>3, <2>4, <2>6, <3>1, IdleStage DEF ErasedIsErased
  <2>12. RetentionFindsIt'
    <3>1. s0 \in files \ lost => entry.status = "READY" /\ entry.key
        BY <2>3, <2>5, <2>2
    <3> QED BY <1>0, <2>1, <2>4, <3>1 DEF RetentionFindsIt, Kept
  <2> QED BY <2>7, <2>8, <2>9, <2>10, <2>11, <2>12 DEF FilesInv
<1>4. ASSUME EraseCommit(c) PROVE FilesInv'
  <2> DEFINE s0 == call[c].item
  <2>1. /\ media' = media /\ lost' = lost /\ files' = files /\ bundles' = bundles
        /\ overdue' = overdue /\ uses' = uses
        /\ support' = [support EXCEPT ![s0].status = "DELETED"]
        /\ Becomes(c, NoRequest) /\ call[c].op = "erased"
      BY <1>4 DEF EraseCommit
  <2>2. s0 \in Supports
      BY <1>0, <2>1, StageShape
  <2>3. /\ support' \in [Supports -> SupportRow]
        /\ support'[s0].status = "DELETED"
        /\ \A s \in Supports : s # s0 => support'[s] = support[s]
      BY <1>0, <2>1, <2>2 DEF SupportRow
  <2>4. support[s0].status # "NONE" /\ s0 \notin files \ lost
      BY <1>0, <2>1 DEF ErasedIsErased
  <2>5. call'[c] = NoRequest /\ \A d \in Callers : d # c => call'[d] = call[d]
      BY <1>0, <2>1, BecomesOne
  <2>6. StoredTypeOK'
    <3>1. call' \in [Callers -> Stage]
        BY <1>0, <2>1, BecomesTyped, IdleStage
    <3> QED BY <1>0, <2>1, <2>3, <3>1 DEF StoredTypeOK
  <2>7. MadeIsPrivate' /\ GoneIsGone' /\ MediaHasItsFile'
      BY <1>0, <2>1, IdleStage, MediaFrame
  <2> HIDE DEF s0
  <2>8. RetentionIsBehind'
      BY <1>0, <2>1, <2>3, <2>5, IdleStage DEF RetentionIsBehind
  <2>9. CollectedOnce'
    <3>1. \A d \in Callers : call[d].op = "collected" =>
              call[d].item # s0 /\ call[d].item \in Supports
        BY <1>0, <2>4, StageShape DEF CollectedOnce, StoredTypeOK
    <3> QED BY <1>0, <2>1, <2>3, <2>5, <3>1, IdleStage DEF CollectedOnce
  <2>10. ErasedIsErased'
    <3>1. \A d \in Callers : call[d].op = "erased" => call[d].item \in Supports
        BY <1>0, StageShape DEF StoredTypeOK
    <3> QED BY <1>0, <2>1, <2>3, <2>5, <3>1, IdleStage DEF ErasedIsErased
  <2>11. RetentionFindsIt'
      BY <1>0, <2>1, <2>3, <2>4 DEF RetentionFindsIt, Kept
  <2> QED BY <2>6, <2>7, <2>8, <2>9, <2>10, <2>11 DEF FilesInv
<1>5. ASSUME NEW s0 \in Supports, Collect(c, s0) PROVE FilesInv'
  <2>1. PICK taken \in BOOLEAN, heard \in BOOLEAN :
            /\ files' = IF taken THEN files \cup {s0} ELSE files
            /\ lost' = IF taken /\ ~heard THEN lost \cup {s0} ELSE lost
            /\ Becomes(c, [op |-> "collected", item |-> s0, stored |-> taken /\ heard,
                           ready |-> IF call[c] = NoRequest THEN {} ELSE call[c].ready,
                           deleted |-> IF call[c] = NoRequest THEN {} ELSE call[c].deleted])
      BY <1>5 DEF Collect
  <2> DEFINE ready == IF call[c] = NoRequest THEN {} ELSE call[c].ready
             deleted == IF call[c] = NoRequest THEN {} ELSE call[c].deleted
             stage == [op |-> "collected", item |-> s0, stored |-> taken /\ heard,
                       ready |-> ready, deleted |-> deleted]
  <2>2. /\ media' = media /\ support' = support /\ bundles' = bundles
        /\ overdue' = overdue /\ uses' = uses /\ Becomes(c, stage)
        /\ support[s0].status = "NONE" /\ s0 \notin files
        /\ \A d \in Callers : call[d].op = "collected" => call[d].item # s0
      BY <1>5, <2>1 DEF Collect
  <2>3. \/ ready = {} /\ deleted = {}
        \/ call[c].op = "retention" /\ ready = call[c].ready /\ deleted = call[c].deleted
      BY <1>5, IdleStage DEF Collect
  <2>4. ready \subseteq Supports /\ deleted \subseteq Supports
      BY <1>0, <2>3, StageShape
  <2> HIDE DEF ready, deleted
  <2>5. stage \in Stage
      BY <2>4 DEF Stage
  <2>6. /\ stage.op = "collected" /\ stage.item = s0 /\ (stage.stored <=> taken /\ heard)
        /\ stage.ready = ready /\ stage.deleted = deleted
      OBVIOUS
  <2> HIDE DEF stage
  <2>7. call'[c] = stage /\ \A d \in Callers : d # c => call'[d] = call[d]
      BY <1>0, <2>2, BecomesOne
  <2>8. StoredTypeOK'
    <3>1. call' \in [Callers -> Stage]
        BY <1>0, <2>2, <2>5, BecomesTyped
    <3> QED BY <1>0, <2>1, <2>2, <3>1 DEF StoredTypeOK
  <2>9. MadeIsPrivate' /\ GoneIsGone' /\ MediaHasItsFile'
    <3>1. files \cap Media \subseteq files' /\ lost \subseteq lost'
        BY <2>1
    <3> QED BY <1>0, <2>2, <2>6, <3>1, MediaFrame
  <2>10. RetentionIsBehind'
    <3> SUFFICES ASSUME NEW d \in Callers, NEW s \in Supports,
                        call'[d].op \in {"retention", "collected"},
                        s \in call'[d].ready \cup call'[d].deleted
                 PROVE  /\ support[s].status # "NONE"
                        /\ s \in call'[d].deleted => s \notin files'
        BY <2>2 DEF RetentionIsBehind
    <3>1. /\ support[s].status # "NONE"
          /\ s \in call'[d].deleted => s \notin files
        BY <1>0, <2>3, <2>6, <2>7 DEF RetentionIsBehind
    <3> QED BY <2>1, <2>2, <3>1
  <2>11. CollectedOnce'
    <3>1. ~stage.stored => s0 \notin files' \ lost'
        BY <2>1, <2>2, <2>6
    <3>2. \A d \in Callers : d # c /\ call'[d].op = "collected" =>
              /\ call[d].op = "collected" /\ call'[d] = call[d] /\ call[d].item # s0
              /\ ~call[d].stored => call[d].item \notin files' \ lost'
        BY <1>0, <2>1, <2>2, <2>7 DEF CollectedOnce
    <3> QED BY <1>0, <2>2, <2>6, <2>7, <3>1, <3>2 DEF CollectedOnce
  <2>12. ErasedIsErased'
      BY <1>0, <2>1, <2>2, <2>6, <2>7 DEF ErasedIsErased
  <2>13. RetentionFindsIt'
      BY <1>0, <2>1, <2>2 DEF RetentionFindsIt, Kept
  <2> QED BY <2>8, <2>9, <2>10, <2>11, <2>12, <2>13 DEF FilesInv
<1>6. ASSUME NEW s0 \in Supports, EraseFile(c, s0) PROVE FilesInv'
  <2> DEFINE stage == [op |-> "erased", item |-> s0]
  <2>1. /\ media' = media /\ lost' = lost /\ support' = support /\ bundles' = bundles
        /\ overdue' = overdue /\ uses' = uses /\ Becomes(c, stage)
        /\ files' = IF support[s0].key THEN files \ {s0} ELSE files
        /\ support[s0].status # "NONE"
      BY <1>6 DEF EraseFile
  <2>2. call'[c] = stage /\ \A d \in Callers : d # c => call'[d] = call[d]
      BY <1>0, <2>1, BecomesOne
  <2>3. StoredTypeOK'
    <3>1. stage \in Stage
        BY DEF Stage
    <3>2. call' \in [Callers -> Stage]
        BY <1>0, <2>1, <3>1, BecomesTyped
    <3> QED BY <1>0, <2>1, <3>2 DEF StoredTypeOK
  <2>4. MadeIsPrivate' /\ GoneIsGone' /\ MediaHasItsFile'
    <3>1. files \cap Media \subseteq files'
        BY <1>a, <2>1
    <3> QED BY <1>0, <2>1, <3>1, MediaFrame
  <2>5. RetentionIsBehind'
      BY <1>0, <2>1, <2>2 DEF RetentionIsBehind
  <2>6. CollectedOnce'
      BY <1>0, <2>1, <2>2 DEF CollectedOnce
  <2>7. s0 \notin files' \ lost'
      BY <1>0, <2>1 DEF RetentionFindsIt, Kept
  <2>8. ErasedIsErased'
      BY <1>0, <2>1, <2>2, <2>7 DEF ErasedIsErased
  <2>9. RetentionFindsIt'
      BY <1>0, <2>1 DEF RetentionFindsIt, Kept
  <2> QED BY <2>3, <2>4, <2>5, <2>6, <2>8, <2>9 DEF FilesInv
<1> QED BY <1>1, <1>2, <1>3, <1>4, <1>5, <1>6 DEF SupportCall

LEMMA StoredStepKeeps ==
    ASSUME FilesInv, StoredNext
    PROVE  FilesInv'
<1>0. /\ StoredTypeOK /\ MadeIsPrivate /\ GoneIsGone /\ MediaHasItsFile
      /\ RetentionIsBehind /\ CollectedOnce /\ ErasedIsErased /\ RetentionFindsIt
    BY DEF FilesInv
<1>1. ASSUME NEW c \in Callers, MediaCall(c) PROVE FilesInv'
    BY <1>1, MediaCallKeeps
<1>2. ASSUME NEW c \in Callers, BundleCall(c) PROVE FilesInv'
    BY <1>2, BundleCallKeeps
<1>3. ASSUME NEW c \in Callers, SupportCall(c) PROVE FilesInv'
    BY <1>3, SupportCallKeeps
<1>4. ASSUME NEW c \in Callers, GiveUp(c) PROVE FilesInv'
  <2>1. StoredTypeOK'
    <3>1. call' \in [Callers -> Stage]
        BY <1>0, <1>4, BecomesTyped, IdleStage DEF GiveUp
    <3> QED BY <1>0, <1>4, <3>1 DEF GiveUp, StoredTypeOK
  <2>2. MadeIsPrivate' /\ GoneIsGone' /\ MediaHasItsFile'
      BY <1>0, <1>4, MediaFrame, IdleStage DEF GiveUp
  <2>3. RetentionIsBehind' /\ CollectedOnce' /\ ErasedIsErased' /\ RetentionFindsIt'
      BY <1>0, <1>4, SupportFrame, IdleStage DEF GiveUp
  <2> QED BY <2>1, <2>2, <2>3 DEF FilesInv
<1>5. ASSUME NEW t \in Templates, LetGo(t) PROVE FilesInv'
  <2>1. StoredTypeOK'
      BY <1>0, <1>5 DEF LetGo, StoredTypeOK
  <2>2. UNCHANGED <<files, media, support, call, lost>>
      BY <1>5 DEF LetGo
  <2> QED BY <1>0, <2>1, <2>2 DEF FilesInv, MadeIsPrivate, Made, Touches, GoneIsGone,
            MediaHasItsFile, RetentionIsBehind, CollectedOnce, ErasedIsErased,
            RetentionFindsIt, Kept
<1>6. ASSUME NEW s \in Supports, Age(s) PROVE FilesInv'
  <2>1. StoredTypeOK'
      BY <1>0, <1>6 DEF Age, StoredTypeOK
  <2>2. UNCHANGED <<files, media, support, call, lost>>
      BY <1>6 DEF Age
  <2> QED BY <1>0, <2>1, <2>2 DEF FilesInv, MadeIsPrivate, Made, Touches, GoneIsGone,
            MediaHasItsFile, RetentionIsBehind, CollectedOnce, ErasedIsErased,
            RetentionFindsIt, Kept
<1> QED BY <1>1, <1>2, <1>3, <1>4, <1>5, <1>6 DEF StoredNext

LEMMA StoredStutterKeeps ==
    ASSUME FilesInv, UNCHANGED storedVars
    PROVE  FilesInv'
<1>1. UNCHANGED <<files, media, bundles, support, overdue, uses, call, lost>>
    BY DEF storedVars
<1> QED BY <1>1 DEF FilesInv, StoredTypeOK, MadeIsPrivate, Made, Touches, GoneIsGone,
          MediaHasItsFile, RetentionIsBehind, CollectedOnce, ErasedIsErased,
          RetentionFindsIt, Kept
-----------------------------------------------------------------------------
(***************************************************************************)
(* Backups, their evidence, and drills.                                    *)
(***************************************************************************)

Building == {"begun", "dumped", "zipped"}
Checking == {"checking", "sound", "unsound", "reported"}

\* What a script has seen of policy and key lets no revoked key through.
Sights ==
    {s \in [accepted: BOOLEAN, signature: {"TRUSTED", "UNTRUSTED", "REVOKED"}, encrypt: BOOLEAN] :
        s.accepted => s.signature # "REVOKED"}

ToolStage ==
    [op: {"idle"}]
      \cup [op: Building \cup {"sealed", "receipt"}, backup: Backups, seen: Sights]
      \cup [op: Checking, backup: Backups, drill: Drills \cup {Nothing}, seen: Sights]

\* A receipt is about an archive, or about what is left of it.
ReceiptHasArchive ==
    \A b \in Backups :
        /\ disk[b].receipt => disk[b].archive # "none"
        /\ evidence[b].status # "NONE" => disk[b].receipt

\* A backup is built by one script, before anything is known of it, and checked after.
BuiltOnce ==
    \A t \in Tools :
        /\ tool[t].op \in Building =>
              /\ disk[tool[t].backup].archive = "none"
              /\ \A u \in Tools :
                    tool[u].op \in Building /\ tool[u].backup = tool[t].backup => u = t
        /\ tool[t].op \in {"sealed", "receipt"} => disk[tool[t].backup].archive # "none"
        /\ tool[t].op \in Checking \cup {"receipt"} => disk[tool[t].backup].receipt

\* The evidence speaks of the backup as it is.
EvidenceIsTrue ==
    \A b \in Backups :
        /\ evidence[b].sealed => evidence[b].status # "NONE" /\ disk[b].sealed
        /\ evidence[b].status = "VERIFIED" => b \in proved

\* The report of a drill is written by one script, about its own backup.
ReportIsOnes ==
    \A t \in Tools :
        /\ tool[t].op \in Checking /\ tool[t].drill # Nothing =>
              \A u \in Tools :
                  tool[u].op \in Checking /\ tool[u].drill = tool[t].drill => u = t
        /\ tool[t].op = "reported" =>
              tool[t].drill # Nothing /\ report[tool[t].drill].of = tool[t].backup

\* What counts as sound, or as passed, goes back to an archive found whole.
SoundIsProved ==
    /\ \A t \in Tools :
          tool[t].op = "sound" => tool[t].backup \in proved /\ tool[t].seen.accepted
    /\ \A d \in Drills :
          /\ report[d].status = "PASSED" => report[d].of \in proved
          /\ drill[d].status = "PASSED" => drill[d].of \in proved

EvidenceInv ==
    /\ RecoveryTypeOK /\ tool \in [Tools -> ToolStage]
    /\ ReceiptHasArchive /\ BuiltOnce /\ EvidenceIsTrue /\ ReportIsOnes /\ SoundIsProved

\* What the stage of a script names.
LEMMA ToolShape ==
    ASSUME NEW stage \in ToolStage
    PROVE  /\ stage.op \in Building \cup {"sealed", "receipt", "idle"} \cup Checking
           /\ stage.op # "idle" =>
                 /\ stage.backup \in Backups /\ stage.seen \in Sights
                 /\ stage.seen.accepted \in BOOLEAN /\ stage.seen.encrypt \in BOOLEAN
                 /\ stage.seen.signature \in {"TRUSTED", "UNTRUSTED", "REVOKED"}
                 /\ stage.seen.accepted => stage.seen.signature \in {"TRUSTED", "UNTRUSTED"}
           /\ stage.op \in Checking => stage.drill \in Drills \cup {Nothing}
           /\ stage.op \in Building \cup {"sealed", "receipt"} =>
                 \A op \in Building \cup {"sealed", "receipt"} :
                     [stage EXCEPT !.op = op] \in ToolStage
           /\ stage.op \in Checking =>
                 \A op \in Checking : [stage EXCEPT !.op = op] \in ToolStage
           /\ stage.op # "idle" =>
                 \A op \in STRING :
                     LET next == [stage EXCEPT !.op = op] IN
                     next.op = op /\ next.backup = stage.backup /\ next.seen = stage.seen
           /\ stage.op \in Checking =>
                 \A op \in STRING : [stage EXCEPT !.op = op].drill = stage.drill
<1>1. CASE stage \in [op: {"idle"}]
    BY <1>1 DEF Building, Checking
<1>2. CASE stage \in [op: Building \cup {"sealed", "receipt"}, backup: Backups, seen: Sights]
  <2>1. /\ stage.op \in Building \cup {"sealed", "receipt"} /\ stage.op \notin Checking
        /\ stage.backup \in Backups /\ stage.seen \in Sights
      BY <1>2 DEF Building, Checking
  <2>2. \A op \in Building \cup {"sealed", "receipt"} : [stage EXCEPT !.op = op] \in ToolStage
      BY <1>2 DEF ToolStage
  <2>3. \A op \in STRING :
            LET next == [stage EXCEPT !.op = op] IN
            next.op = op /\ next.backup = stage.backup /\ next.seen = stage.seen
      BY <1>2
  <2> QED BY <2>1, <2>2, <2>3 DEF Sights
<1>3. CASE stage \in [op: Checking, backup: Backups, drill: Drills \cup {Nothing}, seen: Sights]
  <2>1. /\ stage.op \in Checking /\ stage.op \notin Building \cup {"sealed", "receipt"}
        /\ stage.backup \in Backups /\ stage.seen \in Sights
        /\ stage.drill \in Drills \cup {Nothing}
      BY <1>3 DEF Building, Checking
  <2>2. \A op \in Checking : [stage EXCEPT !.op = op] \in ToolStage
      BY <1>3 DEF ToolStage
  <2>3. \A op \in STRING :
            LET next == [stage EXCEPT !.op = op] IN
            /\ next.op = op /\ next.backup = stage.backup /\ next.seen = stage.seen
            /\ next.drill = stage.drill
      BY <1>3
  <2> QED BY <2>1, <2>2, <2>3 DEF Sights
<1> QED BY <1>1, <1>2, <1>3 DEF ToolStage

LEMMA IdleTool == NoTool \in ToolStage /\ NoTool.op = "idle"
BY DEF NoTool, ToolStage

LEMMA TurnsOne ==
    ASSUME NEW t \in Tools, NEW stage \in ToolStage, tool \in [Tools -> ToolStage],
           Turns(t, stage)
    PROVE  /\ tool' \in [Tools -> ToolStage]
           /\ tool'[t] = stage /\ \A u \in Tools : u # t => tool'[u] = tool[u]
BY DEF Turns

LEMMA SightShape ==
    ASSUME RecoveryTypeOK
    PROVE  Sight \in Sights /\ (Sight.accepted => Sight.signature # "REVOKED")
<1>1. recoveryPolicy.encrypt \in BOOLEAN
    BY RecoveryAssumption DEF RecoveryTypeOK, PolicyContent
<1>2. AcceptsKey \in BOOLEAN /\ (AcceptsKey => signingKey # "REVOKED")
    BY DEF AcceptsKey
<1>3. signingKey \in {"TRUSTED", "UNTRUSTED", "REVOKED"}
    BY DEF RecoveryTypeOK
<1> QED BY <1>1, <1>2, <1>3 DEF Sight, Sights

\* What registering and verifying make of a row.
LEMMA RegisteredRow ==
    ASSUME RecoveryTypeOK, NEW b \in Backups, NEW seen,
           seen.signature \in {"TRUSTED", "UNTRUSTED"}
    PROVE  /\ Registered(b, seen) \in EvidenceRow /\ Verified(b, seen) \in EvidenceRow
           /\ Registered(b, seen).status = "VERIFIED" => evidence[b].status = "VERIFIED"
           /\ Registered(b, seen).status # "NONE"
           /\ Registered(b, seen).sealed => evidence[b].sealed \/ disk[b].sealed
           /\ Verified(b, seen).status = "VERIFIED"
           /\ Verified(b, seen).sealed = Registered(b, seen).sealed
<1>1. evidence[b] \in EvidenceRow /\ disk[b] \in Content
    BY DEF RecoveryTypeOK
<1>2. disk[b].sealed \in BOOLEAN
    BY <1>1 DEF Content
<1> DEFINE new == [status |-> "REGISTERED", sealed |-> disk[b].sealed, signature |-> seen.signature]
<1>3. /\ new \in EvidenceRow /\ new.status = "REGISTERED" /\ new.sealed = disk[b].sealed
    BY <1>2 DEF EvidenceRow
<1>4. Registered(b, seen) = IF evidence[b].status # "NONE" THEN evidence[b] ELSE new
    BY DEF Registered
<1> HIDE DEF new
<1>5. Registered(b, seen) \in EvidenceRow
    BY <1>1, <1>3, <1>4
<1>6. /\ [Registered(b, seen) EXCEPT !.status = "VERIFIED"] \in EvidenceRow
      /\ [Registered(b, seen) EXCEPT !.status = "VERIFIED"].status = "VERIFIED"
      /\ [Registered(b, seen) EXCEPT !.status = "VERIFIED"].sealed = Registered(b, seen).sealed
    BY <1>5 DEF EvidenceRow
<1> QED BY <1>3, <1>4, <1>5, <1>6 DEF Verified

LEMMA EvidenceInit == RecoveryInit => EvidenceInv
<1> SUFFICES ASSUME RecoveryInit PROVE EvidenceInv
    OBVIOUS
<1>1. NoContent \in Content /\ NoContent.receipt = FALSE /\ NoContent.archive = "none"
    BY RecoveryAssumption DEF NoContent, Content, Archive
<1>2. NoEvidence \in EvidenceRow /\ NoEvidence.status = "NONE" /\ NoEvidence.sealed = FALSE
    BY DEF NoEvidence, EvidenceRow
<1>3. NoDrill \in DrillRow /\ NoDrill.status = "NONE"
    BY RecoveryAssumption DEF NoDrill, DrillRow
<1>4. RecoveryTypeOK /\ tool \in [Tools -> ToolStage]
    BY RecoveryAssumption, <1>1, <1>2, <1>3, IdleTool DEF RecoveryInit, RecoveryTypeOK
<1>5. \A t \in Tools : tool[t].op = "idle"
    BY IdleTool DEF RecoveryInit
<1>6. ReceiptHasArchive /\ EvidenceIsTrue
    BY <1>1, <1>2 DEF RecoveryInit, ReceiptHasArchive, EvidenceIsTrue
<1>7. BuiltOnce /\ ReportIsOnes
    BY <1>5 DEF BuiltOnce, ReportIsOnes, Building, Checking
<1>8. SoundIsProved
    BY <1>3, <1>5 DEF RecoveryInit, SoundIsProved
<1> QED BY <1>4, <1>6, <1>7, <1>8 DEF EvidenceInv

\* A script that does not come to check anything leaves what is known of drills.
LEMMA DrillFrame ==
    ASSUME EvidenceInv, NEW t \in Tools, NEW stage \in ToolStage, Turns(t, stage),
           stage.op \notin Checking, proved' = proved, report' = report, drill' = drill
    PROVE  ReportIsOnes' /\ SoundIsProved'
<1>1. tool'[t] = stage /\ \A u \in Tools : u # t => tool'[u] = tool[u]
    BY TurnsOne DEF EvidenceInv
<1>2. ReportIsOnes'
    BY <1>1 DEF ReportIsOnes, EvidenceInv, Checking
<1>3. SoundIsProved'
    BY <1>1 DEF SoundIsProved, EvidenceInv, Checking
<1> QED BY <1>2, <1>3

\* A script that does not build leaves the backups that are being built.
LEMMA BuiltFrame ==
    ASSUME EvidenceInv, NEW t \in Tools, NEW stage \in ToolStage, Turns(t, stage),
           disk' = disk, stage.op \in Checking \cup {"idle"},
           stage.op \in Checking => disk[stage.backup].receipt
    PROVE  BuiltOnce'
<1>1. tool'[t] = stage /\ \A u \in Tools : u # t => tool'[u] = tool[u]
    BY TurnsOne DEF EvidenceInv
<1> QED BY <1>1 DEF BuiltOnce, EvidenceInv, Checking, Building

\* A backup that is being built, or not begun, is known to its builder only.
LEMMA BuilderStep ==
    ASSUME EvidenceInv, NEW t \in Tools, tool[t].op \notin Checking \cup {"sealed", "receipt"},
           NEW b \in Backups, disk[b].archive = "none",
           \A u \in Tools : tool[u].op # "idle" /\ tool[u].backup = b => u = t,
           NEW new \in Content, ~new.receipt, disk' = [disk EXCEPT ![b] = new],
           NEW stage \in ToolStage, Turns(t, stage),
           stage.op \in Building \cup {"sealed", "idle"},
           stage.op # "idle" => stage.backup = b,
           stage.op \in Building <=> stage.op # "idle" /\ new.archive = "none",
           UNCHANGED <<recoveryPolicy, signingKey, hour, evidence, drill, report, proved>>
    PROVE  EvidenceInv'
<1>0. /\ RecoveryTypeOK /\ tool \in [Tools -> ToolStage]
      /\ ReceiptHasArchive /\ BuiltOnce /\ EvidenceIsTrue /\ ReportIsOnes /\ SoundIsProved
    BY DEF EvidenceInv
<1>1. /\ tool' \in [Tools -> ToolStage] /\ tool'[t] = stage
      /\ \A u \in Tools : u # t => tool'[u] = tool[u]
    BY <1>0, TurnsOne
<1>2. /\ disk' \in [Backups -> Content] /\ disk'[b] = new
      /\ \A c \in Backups : c # b => disk'[c] = disk[c]
    BY <1>0 DEF RecoveryTypeOK
<1>3. RecoveryTypeOK'
    BY <1>0, <1>2 DEF RecoveryTypeOK
<1>4. ~disk[b].receipt /\ evidence[b].status = "NONE" /\ ~evidence[b].sealed
    BY <1>0 DEF ReceiptHasArchive, EvidenceIsTrue
<1>5. ReceiptHasArchive'
    BY <1>0, <1>2, <1>4 DEF ReceiptHasArchive
<1>6. EvidenceIsTrue'
    BY <1>0, <1>2, <1>4 DEF EvidenceIsTrue
<1>7. BuiltOnce'
  <2>1. \A u \in Tools : u # t /\ tool[u].op # "idle" =>
            tool[u].backup \in Backups \ {b} /\ disk'[tool[u].backup] = disk[tool[u].backup]
      BY <1>0, <1>2, ToolShape
  <2>2. \A op \in Building \cup {"sealed", "receipt"} \cup Checking : op # "idle"
      BY DEF Building, Checking
  <2>3. stage.op \in Building => stage.op \notin {"sealed", "idle"}
      BY DEF Building
  <2>4. stage.op \notin Checking \cup {"receipt"}
      BY DEF Building, Checking
  <2>5. stage.op = "sealed" => new.archive # "none"
      BY <2>3
  <2> QED BY <1>0, <1>1, <1>2, <2>1, <2>2, <2>3, <2>4, <2>5 DEF BuiltOnce
<1>8. ReportIsOnes' /\ SoundIsProved'
  <2>1. stage.op \notin Checking
      BY DEF Building, Checking
  <2> QED BY <2>1, DrillFrame
<1> QED BY <1>1, <1>3, <1>5, <1>6, <1>7, <1>8 DEF EvidenceInv

\* The builder of a backup is alone with it.
LEMMA BuilderIsAlone ==
    ASSUME EvidenceInv, NEW t \in Tools, tool[t].op \in Building
    PROVE  /\ tool[t].backup \in Backups /\ disk[tool[t].backup].archive = "none"
           /\ tool[t].op \notin Checking \cup {"sealed", "receipt", "idle"}
           /\ \A u \in Tools :
                 tool[u].op # "idle" /\ tool[u].backup = tool[t].backup => u = t
           /\ disk[tool[t].backup] \in Content
           /\ ~disk[tool[t].backup].receipt
<1>1. tool[t].op \notin Checking \cup {"sealed", "receipt", "idle"}
    BY DEF Building, Checking
<1>2. tool[t].backup \in Backups
    BY <1>1, ToolShape DEF EvidenceInv
<1>3. /\ disk[tool[t].backup].archive = "none" /\ ~disk[tool[t].backup].receipt
      /\ disk[tool[t].backup] \in Content
    BY <1>2 DEF EvidenceInv, BuiltOnce, ReceiptHasArchive, RecoveryTypeOK
<1>4. ASSUME NEW u \in Tools, tool[u].op # "idle", tool[u].backup = tool[t].backup
      PROVE  u = t
  <2>1. tool[u].op \in Building
      BY <1>3, <1>4, ToolShape DEF EvidenceInv, BuiltOnce
  <2> QED BY <1>4, <2>1 DEF EvidenceInv, BuiltOnce
<1> QED BY <1>1, <1>2, <1>3, <1>4

LEMMA NoContentShape ==
    NoContent \in Content /\ ~NoContent.receipt /\ NoContent.archive = "none"
BY RecoveryAssumption DEF NoContent, Content, Archive

LEMMA BuildingKeeps ==
    ASSUME EvidenceInv, StoredTypeOK, NEW t \in Tools,
           \/ \E b \in Backups, recipient \in BOOLEAN : BeginBackup(t, b, recipient)
           \/ Dump(t) \/ Copy(t) \/ Seal(t)
           \/ tool[t].op \in {"begun", "dumped"} /\ Break(t)
    PROVE  EvidenceInv'
<1> USE DEF At, Using
<1>0. /\ RecoveryTypeOK /\ tool \in [Tools -> ToolStage] /\ hour \in 0..MaxHour
      /\ tool[t] \in ToolStage
    BY DEF EvidenceInv, RecoveryTypeOK
<1> DEFINE b0 == tool[t].backup
<1>1. ASSUME NEW b \in Backups, NEW recipient \in BOOLEAN, BeginBackup(t, b, recipient)
      PROVE  EvidenceInv'
  <2> DEFINE new == [[disk[b] EXCEPT !.sealed = recipient] EXCEPT !.made = hour]
             stage == [op |-> "begun", backup |-> b, seen |-> Sight]
  <2>1. disk[b] \in Content /\ disk[b].archive = "none" /\ ~disk[b].receipt
      BY <1>0, <1>1 DEF BeginBackup, EvidenceInv, ReceiptHasArchive, RecoveryTypeOK
  <2>2. new \in Content /\ ~new.receipt /\ new.archive = "none"
      BY <1>0, <2>1 DEF Content
  <2>3. disk' = [disk EXCEPT ![b] = new]
      BY <1>0, <1>1 DEF BeginBackup, RecoveryTypeOK, Content
  <2>4. stage \in ToolStage /\ stage.op = "begun" /\ stage.backup = b
      BY <1>0, SightShape DEF ToolStage, Building
  <2>5. /\ Turns(t, stage) /\ tool[t].op = "idle"
        /\ \A u \in Tools : tool[u].op # "idle" /\ tool[u].backup = b => u = t
        /\ UNCHANGED <<recoveryPolicy, signingKey, hour, evidence, drill, report, proved>>
      BY <1>1 DEF BeginBackup
  <2>6. tool[t].op \notin Checking \cup {"sealed", "receipt"} /\ "begun" \in Building
      BY <2>5 DEF Checking, Building
  <2> HIDE DEF new, stage
  <2> QED BY <2>1, <2>2, <2>3, <2>4, <2>5, <2>6, BuilderStep
<1>2. ASSUME Dump(t) PROVE EvidenceInv'
  <2> DEFINE new == [disk[b0] EXCEPT !.rows = media]
             stage == [tool[t] EXCEPT !.op = "dumped"]
  <2>1. tool[t].op \in Building /\ "dumped" \in Building
      BY <1>2 DEF Dump, Building
  <2>2. new \in Content /\ ~new.receipt /\ new.archive = "none"
      BY <2>1, BuilderIsAlone DEF Content, StoredTypeOK
  <2>3. disk' = [disk EXCEPT ![b0] = new]
      BY <1>2 DEF Dump
  <2>4. stage \in ToolStage /\ stage.op = "dumped" /\ stage.backup = b0
      BY <1>0, <2>1, ToolShape, BuilderIsAlone
  <2>5. /\ Turns(t, stage)
        /\ UNCHANGED <<recoveryPolicy, signingKey, hour, evidence, drill, report, proved>>
      BY <1>2 DEF Dump
  <2>6. tool[t].op \notin Checking \cup {"sealed", "receipt"} /\ b0 \in Backups
        /\ disk[b0].archive = "none"
        /\ \A u \in Tools : tool[u].op # "idle" /\ tool[u].backup = b0 => u = t
      BY <2>1, BuilderIsAlone
  <2> HIDE DEF new, stage, b0
  <2> QED BY <2>1, <2>2, <2>3, <2>4, <2>5, <2>6, BuilderStep
<1>3. ASSUME Copy(t) PROVE EvidenceInv'
  <2> DEFINE new == [[disk[b0] EXCEPT !.kept = files \cap Media] EXCEPT !.plain = TRUE]
             stage == [tool[t] EXCEPT !.op = "zipped"]
  <2>1. tool[t].op \in Building /\ "zipped" \in Building
      BY <1>3 DEF Copy, Building
  <2>2. new \in Content /\ ~new.receipt /\ new.archive = "none"
      BY <2>1, BuilderIsAlone DEF Content
  <2>3. disk' = [disk EXCEPT ![b0] = new]
      BY <1>0, <1>3, <2>1, BuilderIsAlone DEF Copy, RecoveryTypeOK, Content
  <2>4. stage \in ToolStage /\ stage.op = "zipped" /\ stage.backup = b0
      BY <1>0, <2>1, ToolShape, BuilderIsAlone
  <2>5. /\ Turns(t, stage)
        /\ UNCHANGED <<recoveryPolicy, signingKey, hour, evidence, drill, report, proved>>
      BY <1>3 DEF Copy
  <2>6. tool[t].op \notin Checking \cup {"sealed", "receipt"} /\ b0 \in Backups
        /\ disk[b0].archive = "none"
        /\ \A u \in Tools : tool[u].op # "idle" /\ tool[u].backup = b0 => u = t
      BY <2>1, BuilderIsAlone
  <2> HIDE DEF new, stage, b0
  <2> QED BY <2>1, <2>2, <2>3, <2>4, <2>5, <2>6, BuilderStep
<1>4. ASSUME Seal(t) PROVE EvidenceInv'
  <2> DEFINE sealed == [tool[t] EXCEPT !.op = "sealed"]
             encrypted == [[disk[b0] EXCEPT !.plain = FALSE] EXCEPT !.archive = "encrypted"]
             open == [disk[b0] EXCEPT !.archive = "open"]
  <2>1. tool[t].op \in Building /\ "sealed" \notin Building /\ "idle" \notin Building
      BY <1>4 DEF Seal, Building
  <2>2. /\ encrypted \in Content /\ ~encrypted.receipt /\ encrypted.archive # "none"
        /\ open \in Content /\ ~open.receipt /\ open.archive # "none"
      BY ZenonT(60), <2>1, BuilderIsAlone DEF Content, Archive
  <2>3. \/ disk' = [disk EXCEPT ![b0] = encrypted] /\ Turns(t, sealed)
        \/ disk' = [disk EXCEPT ![b0] = open] /\ Turns(t, sealed)
        \/ disk' = [disk EXCEPT ![b0] = NoContent] /\ Turns(t, NoTool)
      BY <1>0, <1>4, <2>1, BuilderIsAlone DEF Seal, RecoveryTypeOK, Content
  <2>4. sealed \in ToolStage /\ sealed.op = "sealed" /\ sealed.backup = b0
      BY <1>0, <2>1, ToolShape, BuilderIsAlone
  <2>5. UNCHANGED <<recoveryPolicy, signingKey, hour, evidence, drill, report, proved>>
      BY <1>4 DEF Seal
  <2>6. tool[t].op \notin Checking \cup {"sealed", "receipt"} /\ b0 \in Backups
        /\ disk[b0].archive = "none"
        /\ \A u \in Tools : tool[u].op # "idle" /\ tool[u].backup = b0 => u = t
      BY <2>1, BuilderIsAlone
  <2> HIDE DEF sealed, encrypted, open, b0
  <2>7. CASE disk' = [disk EXCEPT ![b0] = encrypted] /\ Turns(t, sealed)
      BY <2>1, <2>2, <2>4, <2>5, <2>6, <2>7, BuilderStep
  <2>8. CASE disk' = [disk EXCEPT ![b0] = open] /\ Turns(t, sealed)
      BY <2>1, <2>2, <2>4, <2>5, <2>6, <2>8, BuilderStep
  <2>9. CASE disk' = [disk EXCEPT ![b0] = NoContent] /\ Turns(t, NoTool)
      BY <2>1, <2>5, <2>6, <2>9, NoContentShape, IdleTool, BuilderStep
  <2> QED BY <2>3, <2>7, <2>8, <2>9
<1>5. ASSUME tool[t].op \in {"begun", "dumped"}, Break(t) PROVE EvidenceInv'
  <2>1. tool[t].op \in Building /\ "idle" \notin Building
      BY <1>5 DEF Building
  <2>2. /\ disk' = [disk EXCEPT ![b0] = NoContent] /\ Turns(t, NoTool)
        /\ UNCHANGED <<recoveryPolicy, signingKey, hour, evidence, drill, report, proved>>
      BY <1>5 DEF Break
  <2>3. tool[t].op \notin Checking \cup {"sealed", "receipt"} /\ b0 \in Backups
        /\ disk[b0].archive = "none"
        /\ \A u \in Tools : tool[u].op # "idle" /\ tool[u].backup = b0 => u = t
      BY <2>1, BuilderIsAlone
  <2> HIDE DEF b0
  <2> QED BY <2>1, <2>2, <2>3, NoContentShape, IdleTool, BuilderStep
<1> QED BY <1>1, <1>2, <1>3, <1>4, <1>5

LEMMA CheckingKeeps ==
    ASSUME EvidenceInv, NEW t \in Tools,
           \/ tool[t].op \notin {"begun", "dumped"} /\ Break(t)
           \/ WriteReceipt(t) \/ FinishBackup(t)
           \/ \E b \in Backups, d \in Drills \cup {Nothing} : Check(t, b, d)
           \/ Judge(t) \/ FinishVerify(t) \/ Report(t) \/ FinishDrill(t)
    PROVE  EvidenceInv'
<1> USE DEF At, Using
<1>0. /\ RecoveryTypeOK /\ tool \in [Tools -> ToolStage]
      /\ ReceiptHasArchive /\ BuiltOnce /\ EvidenceIsTrue /\ ReportIsOnes /\ SoundIsProved
      /\ tool[t] \in ToolStage
    BY DEF EvidenceInv
<1> SUFFICES /\ RecoveryTypeOK' /\ tool' \in [Tools -> ToolStage]
             /\ ReceiptHasArchive' /\ BuiltOnce' /\ EvidenceIsTrue'
             /\ ReportIsOnes' /\ SoundIsProved'
    BY DEF EvidenceInv
<1> DEFINE b0 == tool[t].backup
           d0 == tool[t].drill
           seen == tool[t].seen
<1>a. "idle" \notin Checking /\ "idle" \notin Building
    BY DEF Checking, Building
<1>1. ASSUME tool[t].op \notin {"begun", "dumped"}, Break(t) PROVE EvidenceInv'
  <2>1. /\ Turns(t, NoTool) /\ disk' = disk
        /\ UNCHANGED <<recoveryPolicy, signingKey, hour, evidence, drill, report, proved>>
      BY <1>1 DEF Break
  <2>2. tool' \in [Tools -> ToolStage]
      BY <1>0, <2>1, IdleTool, TurnsOne
  <2>3. BuiltOnce'
      BY <1>a, <2>1, IdleTool, BuiltFrame
  <2>4. ReportIsOnes' /\ SoundIsProved'
      BY <1>a, <2>1, IdleTool, DrillFrame
  <2> QED BY <1>0, <2>1, <2>2, <2>3, <2>4
            DEF EvidenceInv, RecoveryTypeOK, ReceiptHasArchive, EvidenceIsTrue
<1>2. ASSUME WriteReceipt(t) PROVE EvidenceInv'
  <2> DEFINE stage == [tool[t] EXCEPT !.op = "receipt"]
  <2>1. /\ disk' = [disk EXCEPT ![b0].receipt = TRUE] /\ Turns(t, stage)
        /\ tool[t].op = "sealed"
        /\ UNCHANGED <<recoveryPolicy, signingKey, hour, evidence, drill, report, proved>>
      BY <1>2 DEF WriteReceipt
  <2>2. b0 \in Backups /\ stage \in ToolStage /\ stage.op = "receipt" /\ stage.backup = b0
      BY SMTT(40), <1>0, <2>1, ToolShape
  <2> HIDE DEF stage
  <2>3. /\ tool' \in [Tools -> ToolStage] /\ tool'[t] = stage
        /\ \A u \in Tools : u # t => tool'[u] = tool[u]
      BY <1>0, <2>1, <2>2, TurnsOne
  <2>4. /\ disk' \in [Backups -> Content] /\ disk'[b0].receipt
        /\ disk'[b0].archive = disk[b0].archive /\ disk'[b0].sealed = disk[b0].sealed
        /\ \A b \in Backups : b # b0 => disk'[b] = disk[b]
    <3> DEFINE new == [disk[b0] EXCEPT !.receipt = TRUE]
    <3>1. disk \in [Backups -> Content] /\ disk[b0] \in Content
        BY <1>0, <2>2 DEF RecoveryTypeOK
    <3>2. /\ new \in Content /\ new.receipt
          /\ new.archive = disk[b0].archive /\ new.sealed = disk[b0].sealed
        BY <3>1 DEF Content
    <3>3. disk' = [disk EXCEPT ![b0] = new]
        BY <2>1
    <3> HIDE DEF new
    <3> QED BY <2>2, <3>1, <3>2, <3>3
  <2>5. RecoveryTypeOK'
      BY <1>0, <2>1, <2>4 DEF RecoveryTypeOK
  <2>6. disk[b0].archive # "none"
      BY <1>0, <2>1 DEF BuiltOnce
  <2>7. ReceiptHasArchive'
      BY <1>0, <2>1, <2>2, <2>4, <2>6 DEF ReceiptHasArchive
  <2>8. EvidenceIsTrue'
      BY <1>0, <2>1, <2>2, <2>4 DEF EvidenceIsTrue
  <2>9. BuiltOnce'
    <3>1. \A u \in Tools : tool[u].op # "idle" =>
              /\ tool[u].backup \in Backups
              /\ disk'[tool[u].backup].archive = disk[tool[u].backup].archive
              /\ disk[tool[u].backup].receipt => disk'[tool[u].backup].receipt
        BY <1>0, <2>2, <2>4, ToolShape
    <3>2. "receipt" \notin Building \cup Checking /\ "sealed" \notin Building \cup Checking
        BY DEF Building, Checking
    <3> QED BY <1>0, <1>a, <2>1, <2>2, <2>3, <2>4, <2>6, <3>1, <3>2 DEF BuiltOnce
  <2>10. ReportIsOnes' /\ SoundIsProved'
    <3>1. "receipt" \notin Checking
        BY DEF Checking
    <3> QED BY <2>1, <2>2, <3>1, DrillFrame
  <2> QED BY <2>3, <2>5, <2>7, <2>8, <2>9, <2>10 DEF EvidenceInv
<1>3. ASSUME FinishBackup(t) PROVE EvidenceInv'
  <2>1. /\ tool[t].op = "receipt" /\ Turns(t, NoTool) /\ disk' = disk
        /\ UNCHANGED <<recoveryPolicy, signingKey, hour, drill, report, proved>>
        /\ \/ MayRegister(b0, seen) /\ evidence' = [evidence EXCEPT ![b0] = Registered(b0, seen)]
           \/ evidence' = evidence
      BY <1>3 DEF FinishBackup, Register
  <2>2. /\ b0 \in Backups /\ disk[b0].receipt
        /\ seen.accepted => seen.signature \in {"TRUSTED", "UNTRUSTED"}
      BY <1>0, <2>1, ToolShape DEF BuiltOnce
  <2>3. tool' \in [Tools -> ToolStage]
      BY <1>0, <2>1, IdleTool, TurnsOne
  <2>4. BuiltOnce'
      BY <1>a, <2>1, IdleTool, BuiltFrame
  <2>5. ReportIsOnes' /\ SoundIsProved'
      BY <1>a, <2>1, IdleTool, DrillFrame
  <2>6. RecoveryTypeOK' /\ ReceiptHasArchive' /\ EvidenceIsTrue'
    <3>1. CASE evidence' = evidence
        BY <1>0, <2>1, <3>1 DEF RecoveryTypeOK, ReceiptHasArchive, EvidenceIsTrue
    <3>2. CASE MayRegister(b0, seen)
               /\ evidence' = [evidence EXCEPT ![b0] = Registered(b0, seen)]
      <4>1. /\ Registered(b0, seen) \in EvidenceRow
            /\ Registered(b0, seen).status = "VERIFIED" => evidence[b0].status = "VERIFIED"
            /\ Registered(b0, seen).status # "NONE"
            /\ Registered(b0, seen).sealed => evidence[b0].sealed \/ disk[b0].sealed
          BY <1>0, <2>2, <3>2, RegisteredRow DEF MayRegister
      <4>2. /\ evidence' \in [Backups -> EvidenceRow] /\ evidence'[b0] = Registered(b0, seen)
            /\ \A b \in Backups : b # b0 => evidence'[b] = evidence[b]
          BY <1>0, <2>2, <3>2, <4>1 DEF RecoveryTypeOK
      <4>3. RecoveryTypeOK'
          BY <1>0, <2>1, <4>2 DEF RecoveryTypeOK
      <4>4. ReceiptHasArchive'
          BY <1>0, <2>1, <2>2, <4>1, <4>2 DEF ReceiptHasArchive
      <4>5. EvidenceIsTrue'
          BY <1>0, <2>1, <2>2, <4>1, <4>2 DEF EvidenceIsTrue
      <4> QED BY <4>3, <4>4, <4>5
    <3> QED BY <2>1, <3>1, <3>2
  <2> QED BY <2>3, <2>4, <2>5, <2>6 DEF EvidenceInv
<1>4. ASSUME NEW b \in Backups, NEW d \in Drills \cup {Nothing}, Check(t, b, d)
      PROVE  EvidenceInv'
  <2> DEFINE stage == [op |-> "checking", backup |-> b, drill |-> d, seen |-> Sight]
  <2>1. /\ tool[t].op = "idle" /\ Turns(t, stage) /\ disk' = disk /\ disk[b].receipt
        /\ UNCHANGED <<recoveryPolicy, signingKey, hour, evidence, drill, report, proved>>
        /\ d # Nothing => \A u \in Tools : tool[u].op \in Checking => tool[u].drill # d
      BY <1>4 DEF Check, Checking
  <2>2. /\ stage \in ToolStage /\ stage.op = "checking" /\ stage.backup = b /\ stage.drill = d
      BY <1>0, SightShape DEF ToolStage, Checking
  <2> HIDE DEF stage
  <2>3. /\ tool' \in [Tools -> ToolStage] /\ tool'[t] = stage
        /\ \A u \in Tools : u # t => tool'[u] = tool[u]
      BY <1>0, <2>1, <2>2, TurnsOne
  <2>4. "checking" \in Checking
      BY DEF Checking
  <2>5. BuiltOnce'
      BY <2>1, <2>2, <2>4, BuiltFrame
  <2>6. ReportIsOnes'
      BY <1>0, <2>1, <2>2, <2>3 DEF ReportIsOnes
  <2>7. SoundIsProved'
      BY <1>0, <2>1, <2>2, <2>3 DEF SoundIsProved
  <2> QED BY <1>0, <2>1, <2>3, <2>5, <2>6, <2>7
            DEF EvidenceInv, RecoveryTypeOK, ReceiptHasArchive, EvidenceIsTrue
<1>5. ASSUME Judge(t) PROVE EvidenceInv'
  <2>1. /\ tool[t].op = "checking" /\ disk' = disk
        /\ UNCHANGED <<recoveryPolicy, signingKey, hour, evidence, drill, report>>
      BY <1>5 DEF Judge
  <2>2. b0 \in Backups /\ tool[t].op \in Checking /\ disk[b0].receipt
      BY <1>0, <2>1, ToolShape DEF Checking, BuiltOnce
  <2> DEFINE sound == [tool[t] EXCEPT !.op = "sound"]
             unsound == [tool[t] EXCEPT !.op = "unsound"]
  <2>3. /\ sound \in ToolStage /\ sound.op = "sound" /\ sound.backup = b0
        /\ sound.drill = d0 /\ sound.seen = seen
        /\ unsound \in ToolStage /\ unsound.op = "unsound" /\ unsound.backup = b0
        /\ unsound.drill = d0
        /\ "sound" \in Checking /\ "unsound" \in Checking
    <3>1. "sound" \in Checking /\ "unsound" \in Checking
        BY DEF Checking
    <3> QED BY <1>0, <1>a, <2>2, <3>1, ToolShape
  <2>4. \/ /\ Turns(t, sound) /\ MayRegister(b0, seen) /\ proved' = proved \cup {b0}
        \/ /\ Turns(t, unsound) \/ Turns(t, NoTool)
           /\ proved' = proved
      BY <1>5 DEF Judge
  <2> HIDE DEF sound, unsound
  <2>5. RecoveryTypeOK' /\ ReceiptHasArchive' /\ EvidenceIsTrue'
      BY <1>0, <2>1, <2>2, <2>4 DEF RecoveryTypeOK, ReceiptHasArchive, EvidenceIsTrue
  <2>6. CASE Turns(t, sound) /\ MayRegister(b0, seen) /\ proved' = proved \cup {b0}
    <3>1. /\ tool' \in [Tools -> ToolStage] /\ tool'[t] = sound
          /\ \A u \in Tools : u # t => tool'[u] = tool[u]
        BY <1>0, <2>3, <2>6, TurnsOne
    <3>2. BuiltOnce'
        BY <2>1, <2>2, <2>3, <2>6, BuiltFrame
    <3>3. ReportIsOnes'
        BY <1>0, <2>1, <2>2, <2>3, <3>1 DEF ReportIsOnes
    <3>4. SoundIsProved'
        BY <1>0, <2>1, <2>3, <2>6, <3>1 DEF SoundIsProved, MayRegister
    <3> QED BY <2>5, <3>1, <3>2, <3>3, <3>4 DEF EvidenceInv
  <2>7. CASE Turns(t, unsound) /\ proved' = proved
    <3>1. /\ tool' \in [Tools -> ToolStage] /\ tool'[t] = unsound
          /\ \A u \in Tools : u # t => tool'[u] = tool[u]
        BY <1>0, <2>3, <2>7, TurnsOne
    <3>2. BuiltOnce'
        BY <2>1, <2>2, <2>3, <2>7, BuiltFrame
    <3>3. ReportIsOnes'
        BY <1>0, <2>1, <2>2, <2>3, <3>1 DEF ReportIsOnes
    <3>4. SoundIsProved'
        BY <1>0, <2>1, <2>3, <2>7, <3>1 DEF SoundIsProved
    <3> QED BY <2>5, <3>1, <3>2, <3>3, <3>4 DEF EvidenceInv
  <2>8. CASE Turns(t, NoTool) /\ proved' = proved
    <3>1. tool' \in [Tools -> ToolStage]
        BY <1>0, <2>8, IdleTool, TurnsOne
    <3>2. BuiltOnce'
        BY <1>a, <2>1, <2>8, IdleTool, BuiltFrame
    <3>3. ReportIsOnes' /\ SoundIsProved'
        BY <1>a, <2>1, <2>8, IdleTool, DrillFrame
    <3> QED BY <2>5, <3>1, <3>2, <3>3 DEF EvidenceInv
  <2> QED BY <2>4, <2>6, <2>7, <2>8
<1>6. ASSUME FinishVerify(t) PROVE EvidenceInv'
  <2>1. /\ tool[t].op = "sound" /\ Turns(t, NoTool) /\ disk' = disk
        /\ evidence' = [evidence EXCEPT ![b0] = Verified(b0, seen)]
        /\ UNCHANGED <<recoveryPolicy, signingKey, hour, drill, report, proved>>
      BY <1>6 DEF FinishVerify
  <2>2. b0 \in Backups /\ disk[b0].receipt /\ b0 \in proved
        /\ seen.signature \in {"TRUSTED", "UNTRUSTED"}
      BY <1>0, <2>1, ToolShape DEF BuiltOnce, Checking, SoundIsProved
  <2>3. /\ Verified(b0, seen) \in EvidenceRow
        /\ Verified(b0, seen).status = "VERIFIED"
        /\ Verified(b0, seen).sealed => evidence[b0].sealed \/ disk[b0].sealed
      BY <1>0, <2>2, RegisteredRow
  <2>4. /\ evidence' \in [Backups -> EvidenceRow] /\ evidence'[b0] = Verified(b0, seen)
        /\ \A b \in Backups : b # b0 => evidence'[b] = evidence[b]
      BY <1>0, <2>1, <2>2, <2>3 DEF RecoveryTypeOK
  <2>5. tool' \in [Tools -> ToolStage]
      BY <1>0, <2>1, IdleTool, TurnsOne
  <2>6. BuiltOnce'
      BY <1>a, <2>1, IdleTool, BuiltFrame
  <2>7. ReportIsOnes' /\ SoundIsProved'
      BY <1>a, <2>1, IdleTool, DrillFrame
  <2>8. RecoveryTypeOK'
      BY <1>0, <2>1, <2>4 DEF RecoveryTypeOK
  <2>9. ReceiptHasArchive'
      BY <1>0, <2>1, <2>2, <2>3, <2>4 DEF ReceiptHasArchive
  <2>10. EvidenceIsTrue'
      BY <1>0, <2>1, <2>2, <2>3, <2>4 DEF EvidenceIsTrue
  <2> QED BY <2>5, <2>6, <2>7, <2>8, <2>9, <2>10 DEF EvidenceInv
<1>7. ASSUME Report(t) PROVE EvidenceInv'
  <2> DEFINE stage == [tool[t] EXCEPT !.op = "reported"]
             entry == [status |-> IF tool[t].op \in {"sound"} THEN "PASSED" ELSE "FAILED",
                     of |-> b0, at |-> hour]
  <2>1. /\ tool[t].op \in {"sound", "unsound"} /\ d0 # Nothing /\ Turns(t, stage)
        /\ report' = [report EXCEPT ![d0] = entry]
        /\ disk' = disk
        /\ UNCHANGED <<recoveryPolicy, signingKey, hour, evidence, drill, proved>>
      BY <1>7 DEF Report
  <2>2. tool[t].op \in Checking /\ b0 \in Backups /\ d0 \in Drills /\ disk[b0].receipt
      BY <1>0, <2>1, ToolShape DEF Checking, BuiltOnce
  <2>3. /\ stage \in ToolStage /\ stage.op = "reported" /\ stage.backup = b0
        /\ stage.drill = d0 /\ "reported" \in Checking
    <3>1. "reported" \in Checking
        BY DEF Checking
    <3> QED BY <1>0, <1>a, <2>2, <3>1, ToolShape
  <2>4. /\ entry \in DrillRow /\ entry.of = b0
        /\ entry.status = "PASSED" => tool[t].op = "sound"
      BY <1>0, <2>1, <2>2 DEF DrillRow, RecoveryTypeOK
  <2> HIDE DEF stage, entry
  <2>5. /\ tool' \in [Tools -> ToolStage] /\ tool'[t] = stage
        /\ \A u \in Tools : u # t => tool'[u] = tool[u]
      BY <1>0, <2>1, <2>3, TurnsOne
  <2>6. /\ report' \in [Drills -> DrillRow] /\ report'[d0] = entry
        /\ \A d \in Drills : d # d0 => report'[d] = report[d]
      BY <1>0, <2>1, <2>2, <2>4 DEF RecoveryTypeOK
  <2>7. BuiltOnce'
      BY <2>1, <2>2, <2>3, BuiltFrame
  <2>8. RecoveryTypeOK' /\ ReceiptHasArchive' /\ EvidenceIsTrue'
      BY <1>0, <2>1, <2>6 DEF RecoveryTypeOK, ReceiptHasArchive, EvidenceIsTrue
  <2>9. ReportIsOnes'
    <3>1. \A u \in Tools : u # t /\ tool[u].op = "reported" =>
              tool[u].drill \in Drills \ {d0} /\ tool[u].op \in Checking
        BY <1>0, <2>1, <2>2, ToolShape DEF ReportIsOnes, Checking
    <3> QED BY <1>0, <2>1, <2>2, <2>3, <2>4, <2>5, <2>6, <3>1 DEF ReportIsOnes
  <2>10. SoundIsProved'
    <3>1. entry.status = "PASSED" => entry.of \in proved
        BY <1>0, <2>1, <2>4 DEF SoundIsProved
    <3> QED BY <1>0, <2>1, <2>3, <2>5, <2>6, <3>1 DEF SoundIsProved
  <2> QED BY <2>5, <2>7, <2>8, <2>9, <2>10 DEF EvidenceInv
<1>8. ASSUME FinishDrill(t) PROVE EvidenceInv'
  <2> DEFINE entry == AfterDrill(t)
  <2>1. /\ tool[t].op = "reported" /\ Turns(t, NoTool) /\ disk' = disk
        /\ UNCHANGED <<recoveryPolicy, signingKey, hour, report, proved>>
        /\ \/ /\ MayRecord(report[d0], entry, seen)
              /\ evidence' = [evidence EXCEPT ![b0] = entry]
              /\ drill' = [drill EXCEPT ![d0] = report[d0]]
           \/ evidence' = evidence /\ drill' = drill
      BY <1>8 DEF FinishDrill
  <2>2. /\ b0 \in Backups /\ d0 \in Drills /\ disk[b0].receipt
        /\ report[d0].of = b0 /\ report[d0] \in DrillRow
        /\ seen.accepted => seen.signature \in {"TRUSTED", "UNTRUSTED"}
      BY <1>0, <2>1, ToolShape DEF BuiltOnce, Checking, ReportIsOnes, RecoveryTypeOK
  <2>3. report[d0].status = "PASSED" => b0 \in proved
      BY <1>0, <2>2 DEF SoundIsProved
  <2>4. tool' \in [Tools -> ToolStage] /\ tool'[t] = NoTool
        /\ \A u \in Tools : u # t => tool'[u] = tool[u]
      BY <1>0, <2>1, IdleTool, TurnsOne
  <2>5. BuiltOnce'
      BY <1>a, <2>1, IdleTool, BuiltFrame
  <2>6. ReportIsOnes'
      BY <1>0, <1>a, <2>1, <2>4, IdleTool DEF ReportIsOnes
  <2>7. CASE evidence' = evidence /\ drill' = drill
    <3>1. ReportIsOnes' /\ SoundIsProved'
        BY <1>a, <2>1, <2>7, IdleTool, DrillFrame
    <3> QED BY <1>0, <2>1, <2>4, <2>5, <2>7, <3>1
              DEF EvidenceInv, RecoveryTypeOK, ReceiptHasArchive, EvidenceIsTrue
  <2>8. CASE /\ MayRecord(report[d0], entry, seen)
             /\ evidence' = [evidence EXCEPT ![b0] = entry]
             /\ drill' = [drill EXCEPT ![d0] = report[d0]]
    <3>1. seen.signature \in {"TRUSTED", "UNTRUSTED"} /\ entry.status # "NONE"
        BY <2>2, <2>8 DEF MayRecord
    <3>2. /\ entry \in EvidenceRow
          /\ entry.status = "VERIFIED" => b0 \in proved
          /\ entry.sealed => disk[b0].sealed
      <4>1. entry \in {Verified(b0, seen), Registered(b0, seen), evidence[b0]}
            /\ \/ entry = Verified(b0, seen) /\ report[d0].status = "PASSED"
               \/ entry \in {Registered(b0, seen), evidence[b0]}
          BY DEF AfterDrill, AfterUnsound
      <4>2. evidence[b0] \in EvidenceRow /\ (evidence[b0].status = "VERIFIED" => b0 \in proved)
            /\ (evidence[b0].sealed => disk[b0].sealed)
          BY <1>0, <2>2 DEF RecoveryTypeOK, EvidenceIsTrue
      <4>3. /\ Registered(b0, seen) \in EvidenceRow /\ Verified(b0, seen) \in EvidenceRow
            /\ Registered(b0, seen).status = "VERIFIED" => evidence[b0].status = "VERIFIED"
            /\ Registered(b0, seen).sealed => evidence[b0].sealed \/ disk[b0].sealed
            /\ Verified(b0, seen).sealed = Registered(b0, seen).sealed
          BY <1>0, <2>2, <3>1, RegisteredRow
      <4> HIDE DEF entry
      <4> QED BY <2>3, <4>1, <4>2, <4>3
    <3> HIDE DEF entry
    <3>3. /\ evidence' \in [Backups -> EvidenceRow] /\ evidence'[b0] = entry
          /\ \A b \in Backups : b # b0 => evidence'[b] = evidence[b]
        BY <1>0, <2>2, <2>8, <3>2 DEF RecoveryTypeOK
    <3>4. /\ drill' \in [Drills -> DrillRow] /\ drill'[d0] = report[d0]
          /\ \A d \in Drills : d # d0 => drill'[d] = drill[d]
        BY <1>0, <2>2, <2>8 DEF RecoveryTypeOK
    <3>5. RecoveryTypeOK'
        BY <1>0, <2>1, <3>3, <3>4 DEF RecoveryTypeOK
    <3>6. ReceiptHasArchive'
        BY <1>0, <2>1, <2>2, <3>3 DEF ReceiptHasArchive
    <3>7. EvidenceIsTrue'
        BY <1>0, <2>1, <2>2, <3>1, <3>2, <3>3 DEF EvidenceIsTrue
    <3>8. SoundIsProved'
        BY <1>0, <2>1, <2>2, <2>3, <2>4, <3>4, IdleTool DEF SoundIsProved
    <3> QED BY <2>4, <2>5, <2>6, <3>5, <3>6, <3>7, <3>8 DEF EvidenceInv
  <2> QED BY <2>1, <2>7, <2>8
<1> QED BY <1>1, <1>2, <1>3, <1>4, <1>5, <1>6, <1>7, <1>8 DEF EvidenceInv

LEMMA OutsideKeeps ==
    ASSUME EvidenceInv,
           \/ \E b \in Backups : ImportBackup(b) \/ Damage(b)
           \/ \E d \in Drills : ImportDrill(d)
           \/ \E p \in Policies : UpdatePolicy(p)
           \/ \E s \in {"TRUSTED", "UNTRUSTED", "REVOKED"} : SetTrust(s)
           \/ Tick
    PROVE  EvidenceInv'
<1>0. /\ RecoveryTypeOK /\ tool \in [Tools -> ToolStage]
      /\ ReceiptHasArchive /\ BuiltOnce /\ EvidenceIsTrue /\ ReportIsOnes /\ SoundIsProved
    BY DEF EvidenceInv
<1>1. ASSUME NEW b0 \in Backups, ImportBackup(b0) PROVE EvidenceInv'
  <2> DEFINE entry == Registered(b0, Sight)
  <2>1. /\ disk[b0].receipt /\ Sight.accepted
        /\ evidence' = [evidence EXCEPT ![b0] = entry]
        /\ UNCHANGED <<recoveryPolicy, signingKey, hour, disk, drill, report, tool, proved>>
      BY <1>1 DEF ImportBackup, MayRegister, Register
  <2>2. Sight.signature \in {"TRUSTED", "UNTRUSTED"}
      BY <1>0, <2>1, SightShape DEF Sights
  <2>3. /\ entry \in EvidenceRow /\ entry.status # "NONE"
        /\ entry.status = "VERIFIED" => evidence[b0].status = "VERIFIED"
        /\ entry.sealed => evidence[b0].sealed \/ disk[b0].sealed
      BY <1>0, <2>2, RegisteredRow
  <2> HIDE DEF entry
  <2>4. /\ evidence' \in [Backups -> EvidenceRow] /\ evidence'[b0] = entry
        /\ \A b \in Backups : b # b0 => evidence'[b] = evidence[b]
      BY <1>0, <2>1, <2>3 DEF RecoveryTypeOK
  <2>5. RecoveryTypeOK'
      BY <1>0, <2>1, <2>4 DEF RecoveryTypeOK
  <2>6. ReceiptHasArchive' /\ EvidenceIsTrue'
      BY <1>0, <2>1, <2>3, <2>4 DEF ReceiptHasArchive, EvidenceIsTrue
  <2> QED BY <1>0, <2>1, <2>5, <2>6 DEF EvidenceInv, BuiltOnce, ReportIsOnes, SoundIsProved
<1>2. ASSUME NEW b0 \in Backups, Damage(b0) PROVE EvidenceInv'
  <2> DEFINE new == [disk[b0] EXCEPT !.archive = "damaged"]
  <2>1. /\ disk[b0].archive # "none" /\ disk' = [disk EXCEPT ![b0] = new]
        /\ UNCHANGED <<recoveryPolicy, signingKey, hour, evidence, drill, report, tool, proved>>
      BY <1>2 DEF Damage
  <2>2. disk \in [Backups -> Content] /\ disk[b0] \in Content
      BY <1>0 DEF RecoveryTypeOK
  <2>3. /\ new \in Content /\ new.archive # "none"
        /\ new.receipt = disk[b0].receipt /\ new.sealed = disk[b0].sealed
      BY <2>2 DEF Content, Archive
  <2> HIDE DEF new
  <2>4. /\ disk' \in [Backups -> Content] /\ disk'[b0] = new
        /\ \A b \in Backups : b # b0 => disk'[b] = disk[b]
      BY <2>1, <2>2, <2>3
  <2>5. RecoveryTypeOK'
      BY <1>0, <2>1, <2>4 DEF RecoveryTypeOK
  <2>6. ReceiptHasArchive' /\ EvidenceIsTrue'
      BY <1>0, <2>1, <2>3, <2>4 DEF ReceiptHasArchive, EvidenceIsTrue
  <2>7. BuiltOnce'
    <3>1. \A u \in Tools : tool[u].op # "idle" =>
              /\ tool[u].backup \in Backups
              /\ disk[tool[u].backup].archive = "none" =>
                    disk'[tool[u].backup].archive = "none"
              /\ disk[tool[u].backup].archive # "none" =>
                    disk'[tool[u].backup].archive # "none"
              /\ disk[tool[u].backup].receipt => disk'[tool[u].backup].receipt
        BY <1>0, <2>1, <2>3, <2>4, ToolShape
    <3>2. "idle" \notin Building /\ "idle" \notin Checking
        BY DEF Building, Checking
    <3> QED BY <1>0, <2>1, <3>1, <3>2 DEF BuiltOnce
  <2> QED BY <1>0, <2>1, <2>5, <2>6, <2>7 DEF EvidenceInv, ReportIsOnes, SoundIsProved
<1>3. ASSUME NEW d0 \in Drills, ImportDrill(d0) PROVE EvidenceInv'
  <2>1. /\ drill' = [drill EXCEPT ![d0] = report[d0]]
        /\ UNCHANGED <<recoveryPolicy, signingKey, hour, disk, evidence, report, tool, proved>>
      BY <1>3 DEF ImportDrill
  <2>2. /\ drill' \in [Drills -> DrillRow] /\ drill'[d0] = report[d0]
        /\ \A d \in Drills : d # d0 => drill'[d] = drill[d]
      BY <1>0, <2>1 DEF RecoveryTypeOK
  <2>3. RecoveryTypeOK'
      BY <1>0, <2>1, <2>2 DEF RecoveryTypeOK
  <2>4. SoundIsProved'
      BY <1>0, <2>1, <2>2 DEF SoundIsProved
  <2> QED BY <1>0, <2>1, <2>3, <2>4
            DEF EvidenceInv, ReceiptHasArchive, BuiltOnce, EvidenceIsTrue, ReportIsOnes
<1>4. ASSUME \/ \E p \in Policies : UpdatePolicy(p)
             \/ \E s \in {"TRUSTED", "UNTRUSTED", "REVOKED"} : SetTrust(s)
             \/ Tick
      PROVE  EvidenceInv'
  <2>1. UNCHANGED <<disk, evidence, drill, report, tool, proved>>
      BY <1>4 DEF UpdatePolicy, SetTrust, Tick
  <2>2. /\ recoveryPolicy' \in Policies /\ signingKey' \in {"TRUSTED", "UNTRUSTED", "REVOKED"}
        /\ hour' \in 0..MaxHour
      BY <1>0, <1>4, RecoveryAssumption DEF UpdatePolicy, SetTrust, Tick, RecoveryTypeOK
  <2> QED BY <1>0, <2>1, <2>2 DEF EvidenceInv, RecoveryTypeOK, ReceiptHasArchive, BuiltOnce,
            EvidenceIsTrue, ReportIsOnes, SoundIsProved
<1> QED BY <1>1, <1>2, <1>3, <1>4

LEMMA RecoveryStepKeeps ==
    ASSUME EvidenceInv, StoredTypeOK, RecoveryNext
    PROVE  EvidenceInv'
<1>1. ASSUME NEW t \in Tools, Run(t) PROVE EvidenceInv'
  <2>1. CASE \/ \E b \in Backups, recipient \in BOOLEAN : BeginBackup(t, b, recipient)
             \/ Dump(t) \/ Copy(t) \/ Seal(t)
             \/ tool[t].op \in {"begun", "dumped"} /\ Break(t)
      BY <2>1, BuildingKeeps
  <2>2. CASE \/ tool[t].op \notin {"begun", "dumped"} /\ Break(t)
             \/ WriteReceipt(t) \/ FinishBackup(t)
             \/ \E b \in Backups, d \in Drills \cup {Nothing} : Check(t, b, d)
             \/ Judge(t) \/ FinishVerify(t) \/ Report(t) \/ FinishDrill(t)
      BY <2>2, CheckingKeeps
  <2> QED BY <1>1, <2>1, <2>2 DEF Run
<1> QED BY <1>1, OutsideKeeps DEF RecoveryNext

LEMMA RecoveryStutterKeeps ==
    ASSUME EvidenceInv, UNCHANGED recoveryVars
    PROVE  EvidenceInv'
<1>1. UNCHANGED <<recoveryPolicy, signingKey, hour, disk, evidence, drill, report, tool, proved>>
    BY SMTT(40) DEF recoveryVars
<1> QED BY <1>1 DEF EvidenceInv, RecoveryTypeOK, ReceiptHasArchive, BuiltOnce,
          EvidenceIsTrue, ReportIsOnes, SoundIsProved

-----------------------------------------------------------------------------
(***************************************************************************)
(* The theorems about files and evidence.                                  *)
(***************************************************************************)

LEMMA RecoveryLeavesFiles ==
    ASSUME RecoveryNext
    PROVE  UNCHANGED storedVars
BY DEF RecoveryNext, Run, Break, BeginBackup, Dump, Copy, Seal, WriteReceipt, FinishBackup,
       Check, Judge, FinishVerify, Report, FinishDrill, ImportBackup, ImportDrill,
       UpdatePolicy, SetTrust, Damage, Tick

\* The inductive invariant of files, rows, backups and drills (app/services/storage.py,
\* app/services/recovery.py).
THEOREM ArchivesInvariant == ArchivesSpec => [](FilesInv /\ EvidenceInv)
<1>1. StoredInit /\ RecoveryInit => FilesInv /\ EvidenceInv
    BY FilesInit, EvidenceInit
<1>2. (FilesInv /\ EvidenceInv) /\ [ArchivesNext]_archivesVars => (FilesInv /\ EvidenceInv)'
  <2> SUFFICES ASSUME FilesInv, EvidenceInv, [ArchivesNext]_archivesVars
               PROVE  (FilesInv /\ EvidenceInv)'
      OBVIOUS
  <2>0. StoredTypeOK
      BY DEF FilesInv
  <2>1. CASE StoredNext /\ UNCHANGED recoveryVars
      BY <2>1, StoredStepKeeps, RecoveryStutterKeeps
  <2>2. CASE RecoveryNext
      BY <2>0, <2>2, RecoveryStepKeeps, RecoveryLeavesFiles, StoredStutterKeeps
  <2>3. CASE UNCHANGED archivesVars
      BY <2>3, StoredStutterKeeps, RecoveryStutterKeeps DEF archivesVars
  <2> QED BY <2>1, <2>2, <2>3 DEF ArchivesNext
<1> QED BY <1>1, <1>2, PTL DEF ArchivesSpec

\* Rows and files stay together: a medium that has its row has its file, and the retention
\* finds every support bundle that is in the store (app/api/media.py:227,
\* app/services/support_bundle.py:414).
THEOREM RowsAndFilesTogether == ArchivesSpec => []RowsKeepTheirFiles
<1>1. FilesInv => RowsKeepTheirFiles
    BY DEF FilesInv, RowsKeepTheirFiles
<1> QED BY <1>1, ArchivesInvariant, PTL

\* A backup has the file of every medium in its dump that is still there
\* (app/services/recovery.py:1013).
THEOREM BackupsHoldMedia == ArchivesSpec => BackupHoldsLiveMedia
<1>1. FilesInv /\ EvidenceInv /\ [ArchivesNext]_archivesVars =>
          [\A b \in Backups :
              ~disk[b].plain /\ disk'[b].plain =>
                  (disk'[b].rows \cap media) \ lost \subseteq disk'[b].kept]_<<disk, storedVars>>
  <2> SUFFICES ASSUME FilesInv, EvidenceInv, [ArchivesNext]_archivesVars,
                      NEW b \in Backups, ~disk[b].plain, disk'[b].plain
               PROVE  (disk'[b].rows \cap media) \ lost \subseteq disk'[b].kept
      OBVIOUS
  <2>1. media \ lost \subseteq files /\ media \subseteq Media
      BY DEF FilesInv, MediaHasItsFile, StoredTypeOK
  <2>2. disk \in [Backups -> Content] /\ tool \in [Tools -> ToolStage]
      BY DEF EvidenceInv, RecoveryTypeOK
  <2>3. ASSUME NEW t \in Tools, Copy(t) PROVE disk'[b].kept = files \cap Media
      BY <2>2, <2>3 DEF Copy, Content
  <2>4. ASSUME NEW t \in Tools, Run(t), ~Copy(t) PROVE FALSE
    <3> USE DEF At, Using
    <3>1. CASE \/ FinishBackup(t) \/ Judge(t) \/ FinishVerify(t) \/ Report(t) \/ FinishDrill(t)
               \/ \E c \in Backups, d \in Drills \cup {Nothing} : Check(t, c, d)
        BY <3>1 DEF FinishBackup, Judge, FinishVerify, Report, FinishDrill, Check
    <3>2. CASE Dump(t)
        BY <2>2, <3>2 DEF Dump, Content
    <3>3. CASE WriteReceipt(t)
        BY <2>2, <3>3 DEF WriteReceipt, Content
    <3>4. ASSUME NEW c \in Backups, NEW recipient \in BOOLEAN, BeginBackup(t, c, recipient)
          PROVE  FALSE
        BY <2>2, <3>4 DEF BeginBackup, Content
    <3>5. CASE Seal(t)
        BY <2>2, <3>5 DEF Seal, NoContent, Content
    <3>6. CASE Break(t)
        BY <2>2, <3>6 DEF Break, NoContent
    <3> QED BY <2>4, <3>1, <3>2, <3>3, <3>4, <3>5, <3>6 DEF Run
  <2>5. ASSUME NEW c \in Backups, Damage(c) PROVE FALSE
      BY <2>2, <2>5 DEF Damage, Content
  <2>6. \E t \in Tools : Copy(t)
    <3>1. disk' # disk
        OBVIOUS
    <3>2. RecoveryNext
        BY <3>1 DEF ArchivesNext, recoveryVars, archivesVars
    <3> QED BY <2>4, <2>5, <3>1, <3>2
              DEF RecoveryNext, ImportBackup, ImportDrill, UpdatePolicy, SetTrust, Tick
  <2> QED BY <2>1, <2>3, <2>6
<1> QED BY <1>1, ArchivesInvariant, PTL DEF ArchivesSpec, BackupHoldsLiveMedia

\* When the status passes, a recent backup was found whole and a recent drill restored one
\* (app/services/recovery.py:619).
THEOREM StatusIsProven == ArchivesSpec => []PassedIsProven
<1>1. EvidenceInv => PassedIsProven
  <2> SUFFICES ASSUME EvidenceInv, Compliant
               PROVE  /\ \E b \in proved : hour - disk[b].made <= Rpo /\ disk[b].sealed
                      /\ \E d \in PassedDrills :
                            hour - drill[d].at <= DrillAge /\ drill[d].of \in proved
      BY DEF PassedIsProven
  <2>1. EvidenceIsTrue /\ SoundIsProved
      BY DEF EvidenceInv
  <2>2. PICK b \in Latest : hour - disk[b].made <= Rpo /\ evidence[b].sealed
      BY DEF Compliant
  <2>3. b \in Backups /\ evidence[b].status = "VERIFIED"
      BY DEF Latest, Counting
  <2>4. b \in proved /\ disk[b].sealed
      BY <2>1, <2>2, <2>3 DEF EvidenceIsTrue
  <2>5. PICK d \in LatestDrills : DrillOk(d)
      BY DEF Compliant
  <2>6. d \in PassedDrills /\ d \in Drills /\ drill[d].status = "PASSED"
      BY DEF LatestDrills, PassedDrills
  <2>7. drill[d].of \in proved /\ hour - drill[d].at <= DrillAge
      BY <2>1, <2>5, <2>6 DEF SoundIsProved, DrillOk
  <2> QED BY <2>2, <2>4, <2>6, <2>7
<1> QED BY <1>1, ArchivesInvariant, PTL
=============================================================================
