---------------------------- MODULE Destinations ----------------------------
(***************************************************************************)
(* The register of chats an organization may publish to                    *)
(* (app/api/destinations.py, app/services/destination_validation.py), and  *)
(* what the delivery worker makes of it (app/services/safety.py).  One     *)
(* connection, and one place in Telegram that operators list: a topic of a *)
(* forum, or a chat.                                                       *)
(*                                                                         *)
(* No call of the API locks a row.  A call reads the row, may wait for     *)
(* Telegram, and writes when it commits the columns that differ from what  *)
(* it read (the ORM updates no others), over whatever the row says by      *)
(* then.  Times always differ.  What a call will write is therefore fixed  *)
(* when it has read, and kept in its session until it commits.             *)
(***************************************************************************)
EXTENDS Naturals, FiniteSets

CONSTANTS
    Nil,         \* no destination, no worker, a field that is not asked for
    Rows,        \* identifiers of destinations
    Jobs,
    Editors,     \* calls of the API in progress at one time
    Workers,
    HasTopic,    \* whether the place is a topic: topic_id is not null
    Requests     \* the changes that operators ask for

Permission == {"UNVERIFIED", "CONFIRMED", "DENIED"}
Term == {"NONE", "RUNNING", "PAST"}

\* A destination.  grounds: it has a note or a link to rules; term: permission_expires_at;
\* until: validation_expires_at.
Row == [enabled: BOOLEAN, permission: Permission, grounds: BOOLEAN, term: Term,
        validated: BOOLEAN, until: {"RUNNING", "PAST"}]

\* DestinationPatch: a field that is Nil is not in the request.
Patch == [enabled: BOOLEAN \cup {Nil}, permission: Permission \cup {Nil},
          grounds: BOOLEAN \cup {Nil}, term: {"NONE", "RUNNING", "PAST", Nil}]

ASSUME DestinationAssumption ==
    /\ HasTopic \in BOOLEAN /\ Requests \subseteq Patch
    /\ Nil \notin Rows \cup Workers \cup Row
    /\ IsFiniteSet(Workers)

VARIABLES
    row,      \* the destination with each identifier, or Nil
    linked,   \* the destinations that campaigns use
    job,      \* the deliveries: destination and status
    session,  \* what each call has read and is about to write
    late      \* history: requests to Telegram since the destination was closed

destinationVars == <<row, linked, job, session, late>>

Listed == {r \in Rows : row[r] # Nil}
NoSession == [op |-> "idle", row |-> Nil, asks |-> {}, write |-> Nil]
Unused == [row |-> Nil, status |-> "NONE", by |-> Nil]

DestinationInit ==
    /\ row = [r \in Rows |-> Nil]
    /\ linked = {}
    /\ job = [j \in Jobs |-> Unused]
    /\ session = [e \in Editors |-> NoSession]
    /\ late = [r \in Rows |-> 0]

-----------------------------------------------------------------------------
(***************************************************************************)
(* What the gate of the worker asks of a destination.                      *)
(***************************************************************************)

\* validation_is_fresh
Fresh(d) == d.validated /\ d.until = "RUNNING"

Open(d) ==
    /\ d.enabled
    /\ d.permission = "CONFIRMED"
    /\ d.grounds
    /\ d.term # "PAST"
    /\ Fresh(d)

Closed(r) == row[r] = Nil \/ ~Open(row[r])

\* Requests to Telegram since a destination was closed: called are those made in this step.
Counted(called) ==
    late' = [r \in Rows |->
        IF row'[r] # Nil /\ Open(row'[r]) THEN 0
        ELSE late[r] + (IF r \in called /\ Closed(r) THEN 1 ELSE 0)]

-----------------------------------------------------------------------------
(***************************************************************************)
(* What a call writes of a row it has read as view and means to be new.    *)
(***************************************************************************)

\* Mutant: the whole row is written.
EveryColumn(view, new) == new

Written(view, new) == [c \in DOMAIN view |-> IF new[c] # view[c] THEN new[c] ELSE Nil]

Kept(asked, value) == IF asked = Nil THEN value ELSE asked

\* The row with what a call has written.
Updated(d, write) == [c \in DOMAIN d |-> Kept(write[c], d[c])]

\* A permission that is not confirmed has no term, and a denied destination is off.
Merged(view, p) ==
    LET permission == Kept(p.permission, view.permission) IN
    [view EXCEPT !.permission = permission,
                 !.enabled = permission # "DENIED" /\ Kept(p.enabled, @),
                 !.grounds = Kept(p.grounds, @),
                 !.term = IF permission = "CONFIRMED" THEN Kept(p.term, @) ELSE "NONE"]

Admissible(new) == new.permission = "CONFIRMED" => new.grounds /\ new.term # "PAST"

PatchWrites(view, p) ==
    LET new == Merged(view, p) IN
    [Written(view, new) EXCEPT
        !.term = IF p.term = "RUNNING" /\ new.term = "RUNNING" THEN "RUNNING" ELSE @]

\* record_validation_success: Telegram describes the chat, in which the account may write
\* or not.
AfterAnswer(view, writable) ==
    [Written(view, [view EXCEPT !.validated = writable, !.enabled = @ /\ writable])
        EXCEPT !.until = "RUNNING"]

\* record_validation_failure; forbidden: the error says that the account may not write.
AfterError(view, forbidden) ==
    [Written(view, [view EXCEPT !.validated = FALSE, !.enabled = @ /\ ~forbidden])
        EXCEPT !.until = "PAST"]

-----------------------------------------------------------------------------
(***************************************************************************)
(* The calls of the API, in two steps each.                                *)
(***************************************************************************)

Begin(e, op, r, asks, write) ==
    /\ session[e] = NoSession
    /\ session' = [session EXCEPT ![e] = [op |-> op, row |-> r, asks |-> asks, write |-> write]]
    /\ UNCHANGED <<row, linked, job, late>>

Busy(e, op) == session[e].op = op
Done(e) == session' = [session EXCEPT ![e] = NoSession]

PatchRead(e, r, p) ==
    /\ r \in Listed
    /\ Admissible(Merged(row[r], p))
    /\ Begin(e, "patch", r, {c \in DOMAIN p : p[c] # Nil}, PatchWrites(row[r], p))

\* One destination or each of a batch: the call waits for Telegram.
CheckRead(e, r) ==
    /\ r \in Listed
    /\ \/ \E writable \in BOOLEAN : Begin(e, "check", r, {}, AfterAnswer(row[r], writable))
       \/ \E forbidden \in BOOLEAN : Begin(e, "check", r, {}, AfterError(row[r], forbidden))

Write(e) ==
    /\ session[e].op \in {"patch", "check"}
    /\ row' = [row EXCEPT ![session[e].row] = Updated(@, session[e].write)]
    /\ Done(e)
    /\ Counted({})
    /\ UNCHANGED <<linked, job>>

\* One destination or a row of a file.  A file that is not understood, or that offers a
\* permission without grounds, and a row whose chat does not resolve, create nothing.
Offers == {o \in [confirmed: BOOLEAN, grounds: BOOLEAN, term: {"NONE", "RUNNING"},
                  enabled: BOOLEAN] :
              /\ o.confirmed => o.grounds
              /\ o.term # "NONE" => o.confirmed}

CreateCheck(e) ==
    /\ Listed = {}
    /\ Begin(e, "create", Nil, {}, Nil)

\* uq_destination_chat_topic
Unique == HasTopic => Listed = {}

\* A violation ends a single call, and costs a file only this row.
Create(e, r, o, writable) ==
    /\ Busy(e, "create")
    /\ r \notin Listed
    /\ row' = [row EXCEPT ![r] = IF ~Unique THEN Nil ELSE
                  [enabled |-> o.enabled /\ writable,
                   permission |-> IF o.confirmed THEN "CONFIRMED" ELSE "UNVERIFIED",
                   grounds |-> o.grounds, term |-> o.term,
                   validated |-> writable, until |-> "RUNNING"]]
    /\ Done(e)
    /\ Counted({})
    /\ UNCHANGED <<linked, job>>

DeleteCheck(e, r) ==
    /\ r \in Listed \ linked
    /\ Begin(e, "delete", r, {}, Nil)

\* The database refuses to delete what a delivery refers to.  A link that a campaign has
\* made since goes with the destination, and so do the calls that have read it: their
\* updates find no row.
Delete(e) ==
    LET r == session[e].row IN
    /\ Busy(e, "delete")
    /\ IF \E j \in Jobs : job[j].row = r
       THEN Done(e) /\ UNCHANGED <<row, linked, late>>
       ELSE /\ row' = [row EXCEPT ![r] = Nil]
            /\ linked' = linked \ {r}
            /\ session' = [x \in Editors |-> IF session[x].row = r THEN NoSession ELSE session[x]]
            /\ late' = [late EXCEPT ![r] = 0]
    /\ UNCHANGED job

-----------------------------------------------------------------------------
(***************************************************************************)
(* Campaigns and their deliveries.                                         *)
(***************************************************************************)

Link(r) ==
    /\ r \in Listed
    /\ linked' = IF r \in linked THEN linked \ {r} ELSE linked \cup {r}
    /\ UNCHANGED <<row, job, session, late>>

\* The scheduler makes a delivery for each link whose destination is on.
Queue(j, r) ==
    /\ r \in linked /\ row[r].enabled
    /\ job[j].status = "NONE"
    /\ job' = [job EXCEPT ![j] = [row |-> r, status |-> "QUEUED", by |-> Nil]]
    /\ UNCHANGED <<row, linked, session, late>>

\* Mutant: the worker relies on what was asked when the campaign was started, the check aside.
AdmittedWhenChecked(j) == Fresh(row[job[j].row])

\* The gate is asked once, in the transaction that takes the job.
Admitted(j) == Open(row[job[j].row])

Take(w, j) ==
    /\ job[j].status = "QUEUED"
    /\ \A k \in Jobs : job[k].by # w
    /\ job' = [job EXCEPT ![j] = IF Admitted(j)
                                 THEN [@ EXCEPT !.status = "TAKEN", !.by = w]
                                 ELSE [@ EXCEPT !.status = "REVIEW"]]
    /\ UNCHANGED <<row, linked, session, late>>

\* Telegram takes the message, fails it, or says that the account may not write.
Send(w, j, answer) ==
    LET r == job[j].row IN
    /\ job[j].by = w
    /\ job' = [job EXCEPT ![j] = [row |-> r, status |-> "OVER", by |-> Nil]]
    /\ row' = IF answer = "forbidden"
              THEN [row EXCEPT ![r].enabled = FALSE, ![r].permission = "DENIED"]
              ELSE row
    /\ Counted({r})
    /\ UNCHANGED <<linked, session>>

\* retry_job
Retry(j) ==
    /\ job[j].status \in {"REVIEW", "OVER"}
    /\ job' = [job EXCEPT ![j].status = "QUEUED"]
    /\ UNCHANGED <<row, linked, session, late>>

\* permission_expires_at or validation_expires_at passes.
Expire(r) ==
    /\ r \in Listed
    /\ \/ row[r].term = "RUNNING" /\ row' = [row EXCEPT ![r].term = "PAST"]
       \/ row[r].until = "RUNNING" /\ row' = [row EXCEPT ![r].until = "PAST"]
    /\ Counted({})
    /\ UNCHANGED <<linked, job, session>>

-----------------------------------------------------------------------------
Call(e) ==
    \/ Write(e) \/ Delete(e) \/ CreateCheck(e)
    \/ \E r \in Rows :
        \/ CheckRead(e, r) \/ DeleteCheck(e, r)
        \/ \E p \in Requests : PatchRead(e, r, p)
        \/ \E o \in Offers, writable \in BOOLEAN : Create(e, r, o, writable)

DestinationNext ==
    \/ \E e \in Editors : Call(e)
    \/ \E r \in Rows : Link(r) \/ Expire(r)
    \/ \E j \in Jobs : Retry(j) \/ \E r \in Rows : Queue(j, r)
    \/ \E w \in Workers, j \in Jobs :
        Take(w, j) \/ \E answer \in {"taken", "failed", "forbidden"} : Send(w, j, answer)

DestinationSpec == DestinationInit /\ [][DestinationNext]_destinationVars

-----------------------------------------------------------------------------
(***************************************************************************)
(* Properties.                                                             *)
(***************************************************************************)

\* However operators, checks and workers overlap, a destination closed to publishing gets
\* at most the messages that workers had taken up before: the gate reads the row of the
\* moment, although the calls that change it write over each other
\* (app/services/safety.py:233).
ClosedMeansNoMore == \A r \in Rows : late[r] <= Cardinality(Workers)

Asked(r, c) == \E e \in Editors :
    session[e].row = r /\ c \in session[e].asks /\ session'[e] = NoSession

\* A permission, or a destination that is off, comes back only by a request of an operator
\* for that; a change of something else, or a check, that was read before a withdrawal
\* does not undo it (app/api/destinations.py:806).
ReturnsOnRequest ==
    [][\A r \in Rows : (row[r] # Nil /\ row'[r] # Nil) =>
        /\ row'[r].enabled => row[r].enabled \/ Asked(r, "enabled")
        /\ row'[r].permission = "CONFIRMED" =>
              row[r].permission = "CONFIRMED" \/ Asked(r, "permission")]_destinationVars
=============================================================================
