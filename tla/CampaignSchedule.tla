-------------------------- MODULE CampaignSchedule --------------------------
(***************************************************************************)
(* One campaign from its draft to its last run: approval requests and      *)
(* their decisions (app/services/approvals.py), the calls of operators     *)
(* (app/api/campaigns.py), the scheduler that turns occurrences into runs  *)
(* (app/services/scheduler.py), and what the delivery worker does to a     *)
(* campaign when a run ends.  Jobs of a run are the subject of module      *)
(* Delivery, batches of module Rollout; here a run is only waiting, in     *)
(* doubt or done.                                                          *)
(*                                                                         *)
(* Every call locks the row of the campaign and reads it afresh, so each   *)
(* is one step.  The worker does not: it keeps the campaign it loaded when *)
(* it took the job.                                                        *)
(***************************************************************************)
EXTENDS Integers, FiniteSets

CONSTANTS
    Contents,   \* what campaign_fingerprint covers; one value per fingerprint
    PlanOf,     \* the schedule of each content: daily, at, end
    Admins,     \* owners and administrators
    Operators,  \* other users that may submit a campaign
    Day,        \* the time between two occurrences
    Ttl,        \* approval_request_ttl_hours
    MaxTime,    \* bound: the last moment
    None        \* no time, no content, no user

Times == 0 .. MaxTime
Plan == [daily: BOOLEAN, at: Times, end: Times]

ASSUME ScheduleAssumption ==
    /\ Day \in Nat \ {0} /\ Ttl \in Nat \ {0} /\ MaxTime \in Nat
    /\ PlanOf \in [Contents -> Plan]
    /\ IsFiniteSet(Admins)
    /\ None \notin Contents \cup Times \cup Admins \cup Operators

VARIABLES
    now,       \* the clock
    content,   \* what the campaign, its templates, destinations and connection say
    campaign,  \* the campaigns row
    request,   \* the latest approval request; those before it are all closed
    halted,    \* publishing_paused or maintenance_mode of the organization
    runs,      \* campaign_runs, by scheduled_for
    worker     \* the run whose job the worker sends, and the campaign it loaded

vars == <<now, content, campaign, request, halted, runs, worker>>

Active == {"SCHEDULED", "RUNNING"}
Terminal == {"COMPLETED", "FAILED", "CANCELLED"}
CampaignRow ==
    [status: Active \cup Terminal \cup {"DRAFT", "PAUSED"},
     next: Times \cup {None}, approved: Contents \cup {None}, active: BOOLEAN]

\* A request that is CLOSED has been rejected, cancelled or has expired; nothing reads
\* the rest of it again.
RequestRow ==
    [status: {"CLOSED", "PENDING", "APPROVED"},
     of: Contents \cup {None}, requester: Admins \cup Operators \cup {None},
     required: 1 .. 2, distinct: BOOLEAN, yes: SUBSET Admins, expires: 0 .. MaxTime + Ttl]

ClosedRequest ==
    [status |-> "CLOSED", of |-> None, requester |-> None, required |-> 1,
     distinct |-> FALSE, yes |-> {}, expires |-> 0]

\* jobs is what its jobs are, the one being sent aside: some WAIT (pending, held or
\* in review), some are in DOUBT (an uncertain result), or all are DONE.
RunRow ==
    [status: {"NONE", "OPEN", "ENDED", "CANCELLED"}, of: Contents \cup {None},
     jobs: {"WAIT", "DOUBT", "DONE"}]

NoRun == [status |-> "NONE", of |-> None, jobs |-> "DONE"]

Serving == [run: Times \cup {None}, next: Times \cup {None}, cancelled: BOOLEAN]

ScheduleTypeOK ==
    /\ now \in Times
    /\ content \in Contents
    /\ campaign \in CampaignRow
    /\ request \in RequestRow
    /\ halted \in BOOLEAN
    /\ runs \in [Times -> RunRow]
    /\ worker \in Serving

Idle == [run |-> None, next |-> None, cancelled |-> FALSE]

\* create_campaign.
Init ==
    /\ now = 0
    /\ content \in Contents
    /\ campaign = [status |-> "DRAFT", next |-> None, approved |-> None, active |-> FALSE]
    /\ request = ClosedRequest
    /\ halted = FALSE
    /\ runs = [t \in Times |-> NoRun]
    /\ worker = Idle

-----------------------------------------------------------------------------
(***************************************************************************)
(* Approval.                                                               *)
(***************************************************************************)
Later(s, t) == IF s > t THEN s ELSE t

\* invalidate_campaign_approval, on the campaign and on its pending requests.
Unapproved(c) == [c EXCEPT !.approved = None, !.active = FALSE, !.next = None]

Withdrawn(r) == IF r.status = "PENDING" THEN ClosedRequest ELSE r

ApprovalIsCurrent(c) == c.approved # None /\ c.approved = content

\* _ensure_approval_capacity.
EnoughApprovers(u, required, distinct) ==
    Cardinality(IF distinct THEN Admins \ {u} ELSE Admins) >= required

Submitted(u, required, distinct) ==
    [status |-> "PENDING", of |-> content, requester |-> u, required |-> required,
     distinct |-> distinct, yes |-> {}, expires |-> now + Ttl]

Drafted(c) == [Unapproved(c) EXCEPT !.status = "DRAFT"]

\* submit_campaign_approval, when the preflight passes.  The organization's policy
\* may have any value: the request keeps the one it was submitted under.
SubmitApproval(u, required, distinct) ==
    /\ campaign.status \in {"DRAFT", "PAUSED"}
    /\ EnoughApprovers(u, required, distinct)
    /\ request' = Submitted(u, required, distinct)
    /\ campaign' = [Drafted(campaign) EXCEPT !.active = TRUE]
    /\ UNCHANGED <<now, content, halted, runs, worker>>

\* Whether decide_approval_request accepts a decision; a refusal rolls everything back.
Decidable(r, c, u) ==
    /\ r.status = "PENDING" /\ r.expires > now /\ c.active
    /\ r.of = content
    /\ ~(r.distinct /\ r.requester = u)
    /\ u \notin r.yes

\* A call that sets next_run_at to the present reads a later clock, of microseconds,
\* than the one by which a run was created.
ClockHasMoved == runs[now].status = "NONE"

\* The request and the campaign with one more approval.
Approves(r, c, u) ==
    LET yes == r.yes \cup {u}
        enough == Cardinality(yes) >= r.required
    IN  /\ ClockHasMoved
        /\ request' = [r EXCEPT !.yes = yes, !.status = IF enough THEN "APPROVED" ELSE @]
        /\ campaign' = IF enough
                         THEN [c EXCEPT !.approved = r.of, !.status = "SCHEDULED",
                                        !.next = Later(PlanOf[content].at, now)]
                         ELSE c

DecideApprove(u) ==
    /\ Decidable(request, campaign, u)
    /\ Approves(request, campaign, u)
    /\ UNCHANGED <<now, content, halted, runs, worker>>

DecideReject(u) ==
    /\ Decidable(request, campaign, u)
    /\ request' = ClosedRequest
    /\ campaign' = Drafted(campaign)
    /\ UNCHANGED <<now, content, halted, runs, worker>>

\* approve_campaign, the compatible endpoint: submits, and also approves where the
\* requester may decide.
ApproveCampaign(u, required) ==
    /\ campaign.status \in {"DRAFT", "PAUSED"}
    /\ EnoughApprovers(u, required, FALSE)
    /\ Approves(Submitted(u, required, FALSE), [Drafted(campaign) EXCEPT !.active = TRUE], u)
    /\ UNCHANGED <<now, content, halted, runs, worker>>

\* expire_approval_request, called by the scheduler.
ExpireRequest ==
    /\ request.status = "PENDING" /\ request.expires <= now
    /\ request' = ClosedRequest
    /\ campaign' = IF campaign.active
                     THEN [Unapproved(campaign) EXCEPT
                              !.status = IF @ \in Terminal THEN @ ELSE "DRAFT"]
                     ELSE campaign
    /\ UNCHANGED <<now, content, halted, runs, worker>>

-----------------------------------------------------------------------------
(***************************************************************************)
(* Changes of the content.                                                 *)
(***************************************************************************)
\* A template, a destination or the connection changes: nothing tells the campaign.
EditElsewhere(c) ==
    /\ PlanOf[c] = PlanOf[content]
    /\ content' = c
    /\ UNCHANGED <<now, campaign, request, halted, runs, worker>>

NoDoubt == \A t \in Times : runs[t].jobs # "DOUBT"

\* _cancel_nonterminal_campaign_work; a job being sent goes on.
WorkCancelled ==
    [t \in Times |-> [runs[t] EXCEPT !.jobs = "DONE",
                                     !.status = IF @ = "OPEN" THEN "CANCELLED" ELSE @]]

PatchCampaign(c) ==
    /\ campaign.status \in {"DRAFT", "PAUSED"}
    /\ NoDoubt
    /\ content' = c
    /\ runs' = WorkCancelled
    /\ request' = Withdrawn(request)
    /\ campaign' = Drafted(campaign)
    /\ UNCHANGED <<now, halted, worker>>

ReplaceDestinations(c) ==
    /\ campaign.status = "DRAFT"
    /\ PlanOf[c] = PlanOf[content]
    /\ content' = c
    /\ request' = Withdrawn(request)
    /\ campaign' = Unapproved(campaign)
    /\ UNCHANGED <<now, halted, runs, worker>>

-----------------------------------------------------------------------------
(***************************************************************************)
(* The scheduler.                                                          *)
(***************************************************************************)
\* Mutant: the occurrence that has passed is the next one.
NextOccurrenceAgain(t) == IF PlanOf[content].daily THEN t ELSE None

\* next_occurrence.
NextOccurrence(t) ==
    LET plan == PlanOf[content] IN
    IF plan.daily /\ t + Day <= plan.end THEN t + Day ELSE None

Due == campaign.status \in Active /\ campaign.next # None /\ campaign.next <= now /\ ~halted

\* tick: the pilot stage, the service level, the readiness report, the preflight or
\* the capacity refuses; or the capacity refuses while the run is created.
Block ==
    /\ Due
    /\ campaign' = [campaign EXCEPT !.status = "PAUSED", !.next = None]
    /\ UNCHANGED <<now, content, request, halted, runs, worker>>

BlockStaleApproval ==
    /\ Due
    /\ ~ApprovalIsCurrent(campaign)
    /\ campaign' = [campaign EXCEPT !.status = "DRAFT", !.next = None, !.approved = None]
    /\ UNCHANGED <<now, content, request, halted, runs, worker>>

\* What _create_run makes of the campaign; without an enabled destination the run
\* has failed at once, and with it a campaign that runs once.
Launched(t, empty) ==
    LET next == NextOccurrence(t) IN
    [campaign EXCEPT !.next = next,
                     !.status = IF next # None THEN "SCHEDULED"
                                ELSE IF PlanOf[content].daily THEN "COMPLETED"
                                ELSE IF empty THEN "FAILED" ELSE "RUNNING"]

\* Mutant: a run is created without looking at the approval again.
MayCreateUnseen(t) == Due /\ t = campaign.next

MayCreate(t) ==
    /\ Due /\ t = campaign.next
    /\ ApprovalIsCurrent(campaign)

CreateRun(t, empty) ==
    /\ MayCreate(t)
    /\ runs' = [runs EXCEPT ![t] = [status |-> IF empty THEN "ENDED" ELSE "OPEN", of |-> content,
                                    jobs |-> IF empty THEN "DONE" ELSE "WAIT"]]
    /\ campaign' = Launched(t, empty)
    /\ UNCHANGED <<now, content, request, halted, worker>>

-----------------------------------------------------------------------------
(***************************************************************************)
(* The operators' calls.                                                   *)
(***************************************************************************)
\* Mutant: run_now refuses a cancelled campaign only.
OverForRunNowCancelled == {"CANCELLED"}

\* The states in which run_now refuses.
OverForRunNow == Terminal

RunNow ==
    /\ campaign.status \notin OverForRunNow
    /\ ApprovalIsCurrent(campaign)
    /\ ~halted
    /\ \A t \in Times : runs[t].status # "OPEN"
    /\ ClockHasMoved
    /\ campaign' = [campaign EXCEPT !.status = "SCHEDULED", !.next = now]
    /\ UNCHANGED <<now, content, request, halted, runs, worker>>

Pause ==
    /\ campaign.status \in Active
    /\ campaign' = [campaign EXCEPT !.status = "PAUSED"]
    /\ UNCHANGED <<now, content, request, halted, runs, worker>>

\* resume_campaign: with jobs waiting it goes on, else it is scheduled.
Resumed ==
    IF \E t \in Times : runs[t].jobs = "WAIT"
      THEN [campaign EXCEPT !.status = "RUNNING"]
      ELSE [campaign EXCEPT !.status = "SCHEDULED", !.next = IF @ = None THEN now ELSE @]

Resume ==
    /\ campaign.status = "PAUSED"
    /\ ApprovalIsCurrent(campaign)
    /\ NoDoubt
    /\ ~halted
    /\ ClockHasMoved
    /\ campaign' = Resumed
    /\ UNCHANGED <<now, content, request, halted, runs, worker>>

Cancel ==
    /\ campaign.status \notin {"COMPLETED", "CANCELLED"}
    /\ NoDoubt
    /\ runs' = WorkCancelled
    /\ request' = Withdrawn(request)
    /\ campaign' = [Unapproved(campaign) EXCEPT !.status = "CANCELLED"]
    /\ UNCHANGED <<now, content, halted, worker>>

\* abort_staged_run.
AbortRun(t) ==
    /\ runs[t].status = "OPEN"
    /\ runs[t].jobs # "DOUBT" /\ worker.run # t
    /\ runs' = [runs EXCEPT ![t].status = "CANCELLED", ![t].jobs = "DONE"]
    /\ request' = Withdrawn(request)
    /\ campaign' = [Unapproved(campaign) EXCEPT !.status = "PAUSED"]
    /\ UNCHANGED <<now, content, halted, worker>>

\* pause_campaigns_above_stage; the jobs it puts into review still wait.
StageLowered ==
    /\ campaign.status \in Active
    /\ campaign' = [campaign EXCEPT !.status = "PAUSED", !.next = None]
    /\ UNCHANGED <<now, content, request, halted, runs, worker>>

\* pause_publishing and resume_publishing, or maintenance.
HaltOrContinue ==
    /\ halted' = ~halted
    /\ UNCHANGED <<now, content, campaign, request, runs, worker>>

-----------------------------------------------------------------------------
(***************************************************************************)
(* The delivery worker.                                                    *)
(***************************************************************************)
\* process_next takes a job, perhaps the last one, and evaluate_delivery allows it.
BeginSend(t) ==
    /\ worker = Idle
    /\ runs[t].jobs = "WAIT"
    /\ campaign.status \in Active
    /\ ~halted
    /\ ApprovalIsCurrent(campaign)
    /\ \E left \in {"WAIT", "DONE"} : runs' = [runs EXCEPT ![t].jobs = left]
    /\ worker' = [run |-> t, next |-> campaign.next, cancelled |-> runs[t].status = "CANCELLED"]
    /\ UNCHANGED <<now, content, campaign, request, halted>>

\* The end of a run, decided on the campaign object of the session.
EndOfRun(c, status, next) ==
    IF next = None /\ status \notin {"CANCELLED", "FAILED"}
      THEN {[c EXCEPT !.status = s] : s \in {"COMPLETED", "FAILED"}}
      ELSE {c}

\* The result is recorded, and the run finalized as the worker knows it; the campaign
\* was active when it was loaded.
EndSend(t) ==
    /\ worker.run = t
    /\ IF runs[t].jobs = "DONE" /\ ~worker.cancelled
         THEN /\ runs' = [runs EXCEPT ![t].status = "ENDED"]
              /\ campaign' \in EndOfRun(campaign, "RUNNING", worker.next)
         ELSE UNCHANGED <<runs, campaign>>
    /\ worker' = Idle
    /\ UNCHANGED <<now, content, request, halted>>

\* The result is unknown, or the worker died in the call.
LoseResult(t) ==
    /\ worker.run = t
    /\ runs' = [runs EXCEPT ![t].jobs = "DOUBT"]
    /\ worker' = Idle
    /\ UNCHANGED <<now, content, campaign, request, halted>>

\* The last open job of a run is settled by an operator, who reads everything afresh.
Settled(t) ==
    /\ runs[t].status \in {"OPEN", "ENDED"} /\ worker.run # t
    /\ runs' = [runs EXCEPT ![t].jobs = "DONE", ![t].status = "ENDED"]
    /\ campaign' \in EndOfRun(campaign, campaign.status, campaign.next)

\* ... or the run is cancelled, or has a job that is being sent.
SettledAside(t) ==
    /\ runs[t].status = "CANCELLED" \/ worker.run = t
    /\ runs' = [runs EXCEPT ![t].jobs = "DONE"]
    /\ UNCHANGED campaign

\* cancel_job, and resolve_uncertain_delivery as sent or skipped.
SettleJobs(t) ==
    /\ runs[t].jobs # "DONE"
    /\ Settled(t) \/ SettledAside(t)
    /\ UNCHANGED <<now, content, request, halted, worker>>

\* resolve_uncertain_delivery as not sent, and retry_job of a failed job.
Requeue(t) ==
    /\ \/ runs[t].jobs = "DOUBT"
       \/ runs[t].jobs = "DONE" /\ runs[t].status \in {"OPEN", "ENDED"}
    /\ campaign.status \in Active
    /\ ApprovalIsCurrent(campaign)
    /\ runs' = [runs EXCEPT ![t].jobs = "WAIT"]
    /\ UNCHANGED <<now, content, campaign, request, halted, worker>>

AdvanceClock ==
    /\ now < MaxTime
    /\ now' = now + 1
    /\ UNCHANGED <<content, campaign, request, halted, runs, worker>>

-----------------------------------------------------------------------------
Approval ==
    \/ \E u \in Admins \cup Operators, n \in 1 .. 2, d \in BOOLEAN : SubmitApproval(u, n, d)
    \/ \E u \in Admins : DecideApprove(u)
    \/ \E u \in Admins : DecideReject(u)
    \/ \E u \in Admins, n \in 1 .. 2 : ApproveCampaign(u, n)

Editing ==
    \E c \in Contents : EditElsewhere(c) \/ PatchCampaign(c) \/ ReplaceDestinations(c)

\* One pass of SchedulerService.tick; a request that expires leaves nothing due.
Launch ==
    \/ Block
    \/ BlockStaleApproval
    \/ \E t \in Times, empty \in BOOLEAN : CreateRun(t, empty)

Operating ==
    \/ RunNow \/ Pause \/ Resume \/ Cancel \/ StageLowered \/ HaltOrContinue
    \/ \E t \in Times : AbortRun(t)

Sending ==
    \E t \in Times :
        BeginSend(t) \/ EndSend(t) \/ LoseResult(t) \/ SettleJobs(t) \/ Requeue(t)

Next == Approval \/ ExpireRequest \/ Editing \/ Launch \/ Operating \/ Sending \/ AdvanceClock

Spec == Init /\ [][Next]_vars

-----------------------------------------------------------------------------
(***************************************************************************)
(* Properties.                                                             *)
(***************************************************************************)
\* A quorum of distinct administrators, none of them the requester where the policy
\* of the request says so, has approved c in one request.
BackedByQuorum(c) ==
    /\ request.status = "APPROVED" /\ request.of = c
    /\ Cardinality(request.yes) >= request.required
    /\ request.distinct => request.requester \notin request.yes

\* Whatever is edited, resubmitted, resumed or rescheduled on the way, a run is only
\* ever created with content that a quorum has approved (approvals.py, _create_run).
RunsAreApproved ==
    [][\A t \in Times :
          runs[t].status = "NONE" /\ runs'[t].status # "NONE" => BackedByQuorum(runs'[t].of)]_vars

\* A campaign that is finished, with no run open and no request pending, stays so: no
\* call, no late result of the worker and no old approval starts it again.
Over ==
    /\ campaign.status \in Terminal
    /\ request.status # "PENDING"
    /\ \A t \in Times : runs[t].status # "OPEN"

OverStaysOver == [][Over => Over']_vars

\* "Only then resume the schedule" (docs/RUNBOOK.md:272): a campaign shown as scheduled
\* or running has a run to finish or an occurrence to come: it is never forgotten between
\* tick, pause, resume and the end of a run.
NotForgotten ==
    campaign.status \in Active /\ campaign.next = None =>
        \E t \in Times : runs[t].status = "OPEN" \/ runs[t].jobs # "DONE" \/ worker.run = t

\* A run is never created twice for one time, so the unique key of campaign_runs is
\* never hit: tick answers that with a next_run_at of None for a campaign that runs
\* once, and with nothing to start it again.
OccurrenceIsNew == campaign.next # None => runs[campaign.next].status = "NONE"

\* "The worker computes the fingerprint again right before sending"
\* (docs/RELEASE_NOTES_1.2.md:57): what is sent is what is approved now.
SendsWhatIsApproved ==
    [][\A t \in Times : worker.run # t /\ worker'.run = t => runs[t].of = campaign.approved]_vars
=============================================================================
