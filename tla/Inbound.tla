------------------------------ MODULE Inbound ------------------------------
(***************************************************************************)
(* One conversation of a Telegram Business account: the webhook that       *)
(* stores updates, the workers that process them and answer                *)
(* (app/services/inbound.py, flows.py, ai/), the operator                  *)
(* (app/api/conversations.py), and the deletion and retention of what the  *)
(* contact wrote (app/services/privacy.py).                                *)
(*                                                                         *)
(* A worker handles an update, the Telegram call included, in one database *)
(* transaction.  It reads the conversation first, and locks its row only   *)
(* when it writes last_message_at: what it decides by may be out of date   *)
(* by then.  A commit writes the columns the transaction has changed.      *)
(* After an exception the update is free, and still RECEIVED, until it is  *)
(* marked as FAILED in a second transaction.                               *)
(***************************************************************************)
EXTENDS Integers

CONSTANTS
    Messages,    \* messages in the chat
    Edited,      \* those that Telegram reports as edited
    Deleted,     \* those that Telegram reports as deleted
    Kinds,       \* what each message may be: see MessageKinds
    Workers,     \* worker processes
    None,        \* no update
    SpendBound   \* bound: crashes, failed calls and what people and retention do, together

MessageKinds == {"own", "media", "stop", "operator", "yes", "no", "talk"}

Updates ==
    ({"message"} \X Messages) \cup ({"edited"} \X Edited) \cup ({"deleted"} \X Deleted)

ASSUME InboundAssumption ==
    /\ Edited \subseteq Messages /\ Deleted \subseteq Messages
    /\ Kinds \in [Messages -> SUBSET MessageKinds]
    /\ None \notin Updates
    /\ SpendBound \in Nat

VARIABLES
    ahead,     \* the RECEIVED updates that came before each one that is still RECEIVED
    row,       \* all updates: their status, and whether payload_enc is still there
    kind,      \* what each update says
    enabled,   \* TelegramBusinessConnection.is_enabled and ACTIVE
    conv,      \* the conversations row
    stored,    \* conversation_messages: the contact's text
    worker,    \* each process: its update, what it has read and will write
    operator,  \* a call of patch_conversation, close or reply in progress
    request,   \* the PrivacyRequest to delete the contact's data
    answers,   \* history: how many answers each message has got
    redone,    \* history: messages answered in a transaction that was lost, or whose
               \* answer was delivered by a call that failed
    agreed,    \* history: the conversation's consent has been GRANTED
    overruled, \* history: an operator has turned the automation on against a refusal
    erased,    \* history: updates a completed deletion stands for
    spent      \* (only to bound the behaviours)

vars == <<ahead, row, kind, enabled, conv, stored, worker, operator, request,
          answers, redone, agreed, overruled, erased, spent>>

\* `id' 0: no such row.  `flow': the step of the intake flow.
\* `term': retention_until is set.
ConversationRow ==
    [id: 0 .. 2, status: {"new", "awaiting", "active", "handoff", "closed", "blocked"},
     consent: {"unknown", "requested", "granted", "declined", "revoked"},
     ai: BOOLEAN, flow: {"start", "asked", "done"}, term: BOOLEAN]

Fields == {"status", "consent", "ai", "flow"}

NoConversation == [id |-> 0, status |-> "new", consent |-> "unknown", ai |-> TRUE,
                   flow |-> "start", term |-> FALSE]

Process == [pc: {"idle", "loaded", "replying", "replied", "failing"}, update: Updates \cup {None},
            view: ConversationRow, next: ConversationRow,
            reply: {"none", "notice", "automation"}]

Idle == [pc |-> "idle", update |-> None, view |-> NoConversation, next |-> NoConversation,
         reply |-> "none"]

RowType == [status: {"absent", "received", "processed", "ignored", "failed"}, payload: BOOLEAN]

RequestType == [status: {"none", "pending", "processing", "completed", "failed"},
                found: 0 .. 2, seen: SUBSET Updates]

\* An operator's call between reading and writing the conversation.
NoCall == [pc |-> "idle", view |-> NoConversation]

Init ==
    /\ ahead = [u \in Updates |-> {}]
    /\ row = [u \in Updates |-> [status |-> "absent", payload |-> FALSE]]
    /\ kind = [u \in Updates |-> "-"]
    /\ enabled = TRUE
    /\ conv = NoConversation
    /\ stored = [m \in Messages |-> "none"]
    /\ worker = [w \in Workers |-> Idle]
    /\ operator = NoCall
    /\ request = [status |-> "none", found |-> 0, seen |-> {}]
    /\ answers = [m \in Messages |-> 0]
    /\ redone = {}
    /\ agreed = FALSE
    /\ overruled = FALSE
    /\ erased = {}
    /\ spent = 0

Spend == spent < SpendBound /\ spent' = spent + 1

\* FOR UPDATE SKIP LOCKED: the update a worker has taken is out of reach.
Held(u) == \E w \in Workers : worker[w].update = u /\ worker[w].pc # "failing"

\* Who has written the conversation in its transaction holds the row's lock.
Locked == \E w \in Workers : worker[w].pc \in {"replying", "replied"}

Received == {u \in Updates : row[u].status = "received"}
Accepted == {u \in Updates : row[u].status # "absent"}

-----------------------------------------------------------------------------
(***************************************************************************)
(* The webhook: an update is stored once, whatever Telegram repeats.       *)
(***************************************************************************)

KindsOf(u) == IF u[1] = "message" THEN Kinds[u[2]] ELSE {"-"}

Accept(u, k) ==
    /\ row[u].status = "absent"
    /\ ahead' = [ahead EXCEPT ![u] = Received]
    /\ row' = [row EXCEPT ![u] = [status |-> "received", payload |-> TRUE]]
    /\ kind' = [kind EXCEPT ![u] = k]
    /\ UNCHANGED <<enabled, conv, stored, worker, operator, request, answers, redone, agreed,
                   overruled, erased, spent>>

-----------------------------------------------------------------------------
(***************************************************************************)
(* The workers.                                                            *)
(***************************************************************************)

Settled(u, outcome) ==
    /\ row' = [row EXCEPT ![u].status = outcome]
    /\ ahead' = [v \in Updates |-> IF v = u THEN {} ELSE ahead[v] \ {u}]

Finish(w, outcome) ==
    /\ Settled(worker[w].update, outcome)
    /\ worker' = [worker EXCEPT ![w] = Idle]

Take(w) ==
    /\ worker[w].pc = "idle"
    /\ \E u \in Received :
         /\ ~Held(u) /\ \A v \in ahead[u] : Held(v)
         /\ worker' = [worker EXCEPT ![w] = [Idle EXCEPT !.pc = "loaded", !.update = u,
                                                         !.view = conv]]
    /\ UNCHANGED <<ahead, row, kind, enabled, conv, stored, operator, request, answers,
                   redone, agreed, overruled, erased, spent>>

\* An exception rolls everything back and lets go of the update.
Fails(w) ==
    /\ worker' = [worker EXCEPT ![w] = [Idle EXCEPT !.pc = "failing",
                                                    !.update = worker[w].update]]
    /\ UNCHANGED <<ahead, row>>

\* The update is marked, whoever has processed it in between, as soon as nobody holds it.
MarkFailed(w) ==
    /\ worker[w].pc = "failing" /\ ~Held(worker[w].update)
    /\ Finish(w, "failed")
    /\ UNCHANGED <<kind, enabled, conv, stored, operator, request, answers, redone,
                   agreed, overruled, erased, spent>>

PayloadGone(w) ==
    /\ worker[w].pc = "loaded"
    /\ ~row[worker[w].update].payload
    /\ Fails(w)
    /\ UNCHANGED <<kind, enabled, conv, stored, operator, request, answers, redone,
                   agreed, overruled, erased, spent>>

Loaded(w, type) ==
    /\ worker[w].pc = "loaded"
    /\ worker[w].update[1] = type
    /\ row[worker[w].update].payload

Ignore(w) ==
    LET m == worker[w].update[2] IN
    /\ \/ Loaded(w, "message") /\ (~enabled \/ stored[m] # "none")
       \/ /\ Loaded(w, "edited") \/ Loaded(w, "deleted")
          /\ worker[w].view.id = 0 \/ stored[m] = "none"
    /\ ~Locked
    /\ Finish(w, "ignored")
    /\ UNCHANGED <<kind, enabled, conv, stored, operator, request, answers, redone,
                   agreed, overruled, erased, spent>>

Handoff(v) == [v EXCEPT !.status = "handoff"]
HandoffForGood(v) == [v EXCEPT !.status = "handoff", !.ai = FALSE]
Decision(next, reply) == [next |-> next, reply |-> reply]

\* AutomationFlowEngine.process and AIService.process: a question of the flow, the
\* end of the flow (with or without handoff), the AI's answer, its handoff or error.
\* A flow that was replaced starts again; an answer may be refused.
AutomationResults(v, justGranted) ==
    LET flow(step) == [v EXCEPT !.status = "active", !.flow = step] IN
    CASE v.flow = "start" \/ (justGranted /\ v.flow = "asked") ->
           {Decision(flow("asked"), "automation"), Decision(HandoffForGood(flow("done")), "automation")}
      [] v.flow = "asked" /\ ~justGranted ->
           {Decision(flow("asked"), "automation"), Decision(flow("done"), "automation"),
            Decision(HandoffForGood(flow("done")), "automation")}
      [] OTHER ->
           {Decision(flow("done"), "automation"), Decision(HandoffForGood(v), "automation"),
            Decision(HandoffForGood(v), "notice")}

\* Inactive hours and the AI's rate limit hand the conversation over for now, the
\* daily cap for good.
Automation(v, justGranted) ==
    IF ~v.ai
    THEN {Decision(Handoff(v), "notice")}
    ELSE {Decision(Handoff(v), "notice"), Decision(HandoffForGood(v), "notice")}
           \cup AutomationResults(v, justGranted)

\* Mutant: consent is asked for once; whatever comes then is let through.
NeedsConsentOnce(v) == v.consent = "unknown"

NeedsConsent(v) == v.consent \in {"unknown", "requested"}

\* What becomes of the conversation, and the answer the contact gets.  Without a
\* policy, or outside the allowed chat types, an operator takes over silently.
Decisions(v, k) ==
    {Decision(Handoff(v), "none") : x \in {k} \ {"own"}} \cup
    CASE k = "own" -> {Decision(v, "none")}
      [] k = "media" -> {Decision(Handoff(v), "notice")}
      [] k = "stop" -> {Decision([v EXCEPT !.status = "blocked", !.consent = "revoked",
                                           !.ai = FALSE], "notice")}
      [] k = "operator" -> {Decision(HandoffForGood(v), "notice")}
      [] NeedsConsent(v) /\ k = "yes" -> Automation([v EXCEPT !.consent = "granted"], TRUE)
      [] NeedsConsent(v) /\ k = "no" ->
           {Decision(HandoffForGood([v EXCEPT !.consent = "declined"]), "notice")}
      [] NeedsConsent(v) /\ k = "talk" ->
           {Decision([v EXCEPT !.consent = "requested", !.status = "awaiting"], "notice")}
      [] OTHER -> Automation(v, FALSE)

\* The conversation is found again by its id; a new one is created with its text's
\* term of retention.  The message is stored with it.
Created == [NoConversation EXCEPT !.id = IF request.status = "completed" THEN 2 ELSE 1,
                                  !.term = TRUE]

Opened(w) == IF worker[w].view.id = 0 THEN Created ELSE worker[w].view

\* Locks the row: waits for whoever holds it, then goes on with what it has read.
Handle(w) ==
    LET u == worker[w].update IN
    /\ Loaded(w, "message")
    /\ enabled
    /\ ~Locked
    /\ worker[w].view.id = conv.id
    /\ stored[u[2]] = "none"
    /\ \E d \in Decisions(Opened(w), kind[u]) :
         worker' = [worker EXCEPT ![w].pc = IF d.reply = "none" THEN "replied" ELSE "replying",
                                  ![w].view = Opened(w), ![w].next = d.next,
                                  ![w].reply = d.reply]
    /\ UNCHANGED <<ahead, row, kind, enabled, conv, stored, operator, request, answers,
                   redone, agreed, overruled, erased, spent>>

\* The row was deleted, or another worker has created it: StaleDataError, IntegrityError.
HandleFails(w) ==
    /\ Loaded(w, "message")
    /\ enabled
    /\ ~Locked
    /\ worker[w].view.id # conv.id
    /\ Fails(w)
    /\ UNCHANGED <<kind, enabled, conv, stored, operator, request, answers, redone,
                   agreed, overruled, erased, spent>>

\* Mutant: a call that was answered too late is made again.
AnswerRepeated(w) ==
    /\ worker[w].pc = "replying"
    /\ answers' = [answers EXCEPT ![worker[w].update[2]] = @ + 1]
    /\ worker' \in {worker, [worker EXCEPT ![w].pc = "replied"]}
    /\ UNCHANGED <<ahead, row, kind, enabled, conv, stored, operator, request, redone, agreed,
                   overruled, erased, spent>>

Answer(w) ==
    /\ worker[w].pc = "replying"
    /\ answers' = [answers EXCEPT ![worker[w].update[2]] = @ + 1]
    /\ worker' = [worker EXCEPT ![w].pc = "replied"]
    /\ UNCHANGED <<ahead, row, kind, enabled, conv, stored, operator, request, redone, agreed,
                   overruled, erased, spent>>

\* The call fails, with or without the message delivered.
AnswerFails(w, delivered) ==
    /\ worker[w].pc = "replying"
    /\ Spend
    /\ answers' = [answers EXCEPT ![worker[w].update[2]] = @ + IF delivered THEN 1 ELSE 0]
    /\ Fails(w)
    /\ redone' = IF delivered THEN redone \cup {worker[w].update[2]} ELSE redone
    /\ UNCHANGED <<kind, enabled, conv, stored, operator, request, agreed,
                   overruled, erased>>

\* Only what the transaction has changed is written.
Merged(read, next) ==
    [f \in DOMAIN conv |-> IF f \in Fields /\ next[f] # read[f] THEN next[f] ELSE conv[f]]

Commit(w) ==
    LET p == worker[w] IN
    /\ p.pc = "replied"
    /\ conv' = IF conv.id = 0 THEN p.next ELSE Merged(p.view, p.next)
    /\ stored' = [stored EXCEPT ![p.update[2]] = "text"]
    /\ agreed' = (agreed \/ conv'.consent = "granted")
    /\ Finish(w, "processed")
    /\ UNCHANGED <<kind, enabled, operator, request, answers, redone, overruled,
                   erased, spent>>

\* The edit writes the new text, the deletion removes it, each on the row it has read.
Amend(w) ==
    LET u == worker[w].update IN
    /\ Loaded(w, "edited") \/ Loaded(w, "deleted")
    /\ worker[w].view.id # 0
    /\ stored[u[2]] # "none"
    /\ stored' = [stored EXCEPT ![u[2]] = IF u[1] = "edited" THEN "text" ELSE "removed"]
    /\ Finish(w, "processed")
    /\ UNCHANGED <<kind, enabled, conv, operator, request, answers, redone, agreed,
                   overruled, erased, spent>>

\* The transaction is lost; the update is received still.
Crash(w) ==
    /\ worker[w].pc # "idle"
    /\ Spend
    /\ redone' = IF worker[w].pc = "replied" /\ worker[w].reply # "none"
                 THEN redone \cup {worker[w].update[2]} ELSE redone
    /\ worker' = [worker EXCEPT ![w] = Idle]
    /\ UNCHANGED <<ahead, row, kind, enabled, conv, stored, operator, request, answers, agreed,
                   overruled, erased>>

-----------------------------------------------------------------------------
\* A business_connection update, from acceptance to commit, or a patch of the API.
Connect ==
    /\ Spend
    /\ enabled' \in BOOLEAN
    /\ UNCHANGED <<ahead, row, kind, conv, stored, worker, operator, request, answers, redone,
                   agreed, overruled, erased>>

-----------------------------------------------------------------------------
(***************************************************************************)
(* The operator: each call reads the conversation, then writes it.         *)
(***************************************************************************)

OperatorReads ==
    /\ operator.pc = "idle"
    /\ conv.id # 0
    /\ Spend
    /\ operator' = [pc |-> "patching", view |-> conv]
    /\ UNCHANGED <<ahead, row, kind, enabled, conv, stored, worker, request, answers, redone,
                   agreed, overruled, erased>>

\* A conversation out of the automation's hands has the automation off.
Patched(v) ==
    IF v.status \in {"handoff", "blocked", "closed"} \/ v.consent \in {"declined", "revoked"}
    THEN [v EXCEPT !.ai = FALSE] ELSE v

\* The conversation is refused, or a message is being handled on what was read before.
RefusalUnseen(v) ==
    v.consent \in {"declined", "revoked"} \/ \E w \in Workers : worker[w].pc = "loaded"

\* patch_conversation sets any of the three; close_conversation and a reply, which
\* is refused for closed and blocked conversations, are special cases of it.
OperatorWrites ==
    /\ operator.pc = "patching"
    /\ ~Locked
    /\ operator' = NoCall
    /\ \/ /\ conv.id # operator.view.id
          /\ UNCHANGED <<conv, agreed, overruled>>
       \/ /\ conv.id = operator.view.id
          /\ \E s \in {operator.view.status, "active", "closed"},
                c \in {operator.view.consent, "granted", "revoked"}, a \in BOOLEAN :
               LET next == Patched([operator.view EXCEPT !.status = s, !.consent = c, !.ai = a]) IN
               /\ conv' = Merged(operator.view, next)
               /\ overruled' = (overruled \/ (conv'.ai /\ ~conv.ai /\ RefusalUnseen(conv')))
          /\ agreed' = (agreed \/ conv'.consent = "granted")
    /\ UNCHANGED <<ahead, row, kind, enabled, stored, worker, request, answers, redone, erased,
                   spent>>

-----------------------------------------------------------------------------
(***************************************************************************)
(* Deletion on request, and retention.                                     *)
(***************************************************************************)

RequestErasure ==
    /\ request.status = "none"
    /\ Spend
    /\ request' = [request EXCEPT !.status = "pending"]
    /\ UNCHANGED <<ahead, row, kind, enabled, conv, stored, worker, operator, answers, redone,
                   agreed, overruled, erased>>

\* PROCESSING is committed first: who crashes after it leaves the request there.
EraseReads ==
    /\ request.status \in {"pending", "failed"}
    /\ request' = [status |-> "processing", found |-> conv.id, seen |-> Accepted]
    /\ UNCHANGED <<ahead, row, kind, enabled, conv, stored, worker, operator, answers, redone,
                   agreed, overruled, erased, spent>>

\* Mutant: updates that are still to be processed keep their text.
ScrubbedWhenDone(u) == u \in request.seen /\ row[u].status # "received"

\* Every raw update that mentions the chat.
Scrubbed(u) == u \in request.seen

\* Waits for the rows that workers hold.  A contact without conversation is left alone.
Erase ==
    /\ request.status = "processing"
    /\ request' = [request EXCEPT !.status = "completed", !.seen = {}]
    /\ IF request.found = 0
       THEN UNCHANGED <<row, conv, stored, agreed, erased>>
       ELSE /\ ~Locked
            /\ \A u \in request.seen : ~Held(u)
            /\ row' = [u \in Updates |-> [row[u] EXCEPT !.payload = @ /\ ~Scrubbed(u)]]
            /\ conv' = NoConversation
            /\ stored' = [m \in Messages |-> "none"]
            /\ agreed' = FALSE
            /\ erased' = request.seen
    /\ UNCHANGED <<ahead, kind, enabled, worker, operator, answers, redone, overruled, spent>>

EraseFails ==
    /\ request.status = "processing"
    /\ Spend
    /\ request' = [request EXCEPT !.status = "failed"]
    /\ UNCHANGED <<ahead, row, kind, enabled, conv, stored, worker, operator, answers, redone,
                   agreed, overruled, erased>>

\* RetentionService.run: the term of the conversation has passed, or that of raw updates.
Retain(texts, raw) ==
    /\ Spend
    /\ texts => conv.term /\ ~Locked
    /\ raw \subseteq Accepted /\ \A u \in raw : ~Held(u)
    /\ stored' = [m \in Messages |-> IF texts /\ stored[m] = "text" THEN "removed" ELSE stored[m]]
    /\ conv' = [conv EXCEPT !.term = @ /\ ~texts]
    /\ row' = [u \in Updates |-> [row[u] EXCEPT !.payload = @ /\ u \notin raw]]
    /\ UNCHANGED <<ahead, kind, enabled, worker, operator, request, answers, redone, agreed,
                   overruled, erased>>

-----------------------------------------------------------------------------
Next ==
    \/ \E u \in Updates : \E k \in KindsOf(u) : Accept(u, k)
    \/ \E w \in Workers :
         \/ Take(w) \/ PayloadGone(w) \/ MarkFailed(w) \/ Ignore(w) \/ Handle(w) \/ HandleFails(w)
         \/ Answer(w) \/ Commit(w) \/ Amend(w) \/ Crash(w)
         \/ \E delivered \in BOOLEAN : AnswerFails(w, delivered)
    \/ Connect
    \/ OperatorReads \/ OperatorWrites
    \/ RequestErasure \/ EraseReads \/ Erase \/ EraseFails
    \/ \E texts \in BOOLEAN : \E raw \in {{}, Accepted} : Retain(texts, raw)

Spec == Init /\ [][Next]_vars

-----------------------------------------------------------------------------
(***************************************************************************)
(* Properties.                                                             *)
(***************************************************************************)

\* Every variable has its type; what an update says is known as soon as it is stored.
InboundTypeOK ==
    /\ ahead \in [Updates -> SUBSET Updates]
    /\ row \in [Updates -> RowType]
    /\ \A u \in Updates : row[u].status # "absent" => kind[u] \in KindsOf(u)
    /\ kind \in [Updates -> MessageKinds \cup {"-"}]
    /\ enabled \in BOOLEAN
    /\ conv \in ConversationRow
    /\ stored \in [Messages -> {"none", "text", "removed"}]
    /\ worker \in [Workers -> Process]
    /\ operator \in [pc: {"idle", "patching"}, view: ConversationRow]
    /\ request \in RequestType
    /\ answers \in [Messages -> Nat] /\ redone \subseteq Messages
    /\ agreed \in BOOLEAN /\ overruled \in BOOLEAN /\ erased \subseteq Updates
    /\ spent \in 0 .. SpendBound

\* A message is answered at most once, unless the transaction that answered it was lost
\* with its worker, or the call that delivered the answer failed (process_next).
AnsweredOnce ==
    \A m \in Messages : answers[m] <= 1 + IF m \in redone THEN SpendBound ELSE 0

Automates(w) == worker[w].pc \in {"replying", "replied"} /\ worker[w].reply = "automation"

\* The flow and the AI speak only to a contact who has agreed, in this message or
\* before, or for whom an operator has recorded it (require_consent_before_ai) - unless
\* an operator has turned the automation on over a refusal, or while one was being
\* handled on an older view of the conversation.
ConsentFirst ==
    \A w \in Workers : Automates(w) =>
      agreed \/ kind[worker[w].update] = "yes" \/ overruled

\* What a completed deletion stands for does not come back, whatever updates were
\* waiting or being processed (PrivacyService._delete).
ErasedStaysErased ==
    \A u \in erased : ~row[u].payload /\ (u[1] = "message" => stored[u[2]] = "none")

\* A stop word stops the automation even if it could not be answered: the answer is
\* sent within the transaction that records the stop, and a failed update is dropped.
StopSurvivesFailure ==
    [][\A m \in Messages : LET u == <<"message", m>> IN
         kind[u] = "stop" /\ row[u].status = "received" /\ row'[u].status = "failed"
           => conv'.status = "blocked"]_vars

\* Text that is kept has a term (RetentionService.run).
KeptTextHasATerm == \A m \in Messages : stored[m] = "text" => conv.term

-----------------------------------------------------------------------------
(***************************************************************************)
(* The inductive invariant behind them.                                    *)
(***************************************************************************)

Writes(w) == worker[w].pc \in {"replying", "replied"}
Works(w) == worker[w].pc = "loaded" \/ Writes(w)

\* A worker has an update that is still RECEIVED to itself, one at a time writes the
\* conversation, and it does so for a message whose text is there.
UpdatesHeld ==
    /\ \A w \in Workers :
         /\ worker[w].pc # "idle" => worker[w].update \in Accepted
         /\ Works(w) => row[worker[w].update].status = "received"
         /\ Writes(w) => worker[w].update[1] = "message" /\ row[worker[w].update].payload
    /\ \A v, w \in Workers :
         /\ Works(v) /\ Works(w) /\ worker[v].update = worker[w].update => v = w
         /\ Writes(v) /\ Writes(w) => v = w

\* The message needs no answer any more.
Answered(m) ==
    \/ row[<<"message", m>>].status \notin {"absent", "received"}
    \/ \E w \in Workers : /\ worker[w].pc = "replied" /\ worker[w].reply # "none"
                          /\ worker[w].update = <<"message", m>>

\* All answers but one have been lost with their transaction.
AnswersCounted ==
    \A m \in Messages :
      /\ answers[m] <= spent + IF Answered(m) THEN 1 ELSE 0
      /\ m \notin redone => answers[m] <= IF Answered(m) THEN 1 ELSE 0

\* What is erased, or will be, was stored once; nothing is left of it.
ErasureHolds ==
    /\ request.seen \subseteq Accepted /\ erased \subseteq Accepted
    /\ ErasedStaysErased

\* The views of the conversation that were read in other transactions than its writer's.
Older == {worker[w].view : w \in {v \in Workers : worker[v].pc = "loaded"}}
           \cup IF operator.pc = "patching" THEN {operator.view} ELSE {}
Views == Older \cup {worker[w].view : w \in {v \in Workers : Writes(v)}}

\* A conversation that is created again has an identity nobody has read before; the
\* writer's is the one there is, or the new one.
Identities ==
    /\ conv.id = 0 => conv = NoConversation
    /\ \A w \in Workers : worker[w].pc = "loaded" /\ worker[w].view.id = 0
                          => worker[w].view = NoConversation
    /\ operator.pc = "patching" => operator.view.id # 0
    /\ request.status # "completed" => conv.id # 2 /\ \A v \in Views : v.id # 2
    /\ conv.id = 0 =>
         \A v \in Older :
           v.id # Created.id /\ \A w \in Workers : Writes(w) => v.id # worker[w].view.id
    /\ \A w \in Workers : Writes(w) =>
         /\ worker[w].view.id # 0 /\ worker[w].next.id = worker[w].view.id
         /\ IF conv.id = 0 THEN worker[w].view.consent = "unknown"
                           ELSE worker[w].view.id = conv.id

Refused(v) == v.consent \in {"declined", "revoked"}

\* Whoever has refused is not automated, nor is, in the eyes of those who have read the
\* conversation, who is not in fact - unless an operator has overruled it.
ConsentKnown ==
    /\ conv.consent = "granted" => agreed
    /\ ~overruled => ~(Refused(conv) /\ conv.ai)
    /\ \A v \in Views :
         /\ ~overruled => ~(Refused(v) /\ v.ai)
         /\ v.id = conv.id =>
              (v.consent = "granted" => agreed) /\ (~overruled /\ conv.ai => v.ai)

\* What a message of kind k may make of a conversation.
Follows(v, next, reply, k) ==
    /\ next.ai => v.ai
    /\ \/ next.consent \in {v.consent, "requested"}
       \/ next.consent = "granted" /\ k = "yes"
       \/ Refused(next) /\ ~next.ai
    /\ reply = "automation" => k = "yes" \/ (v.ai /\ ~NeedsConsent(v))

Decided ==
    \A w \in Workers : Writes(w) =>
      LET p == worker[w] IN
      /\ Follows(p.view, p.next, p.reply, kind[p.update])
      /\ p.pc = "replying" => p.reply # "none"

InboundInv ==
    /\ InboundTypeOK /\ UpdatesHeld /\ AnswersCounted /\ ErasureHolds
    /\ Identities /\ ConsentKnown /\ Decided

=============================================================================
