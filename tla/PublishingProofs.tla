-------------------------- MODULE PublishingProofs --------------------------
(***************************************************************************)
(* Proofs about when a campaign's runs are created and with what           *)
(* (CampaignSchedule), where its messages may go (Destinations), and at    *)
(* what pace (Pacing).                                                     *)
(***************************************************************************)
EXTENDS CampaignSchedule, Destinations, Pacing, FiniteSetTheorems, NaturalsInduction,
        WellFoundedInduction, TLAPS

-----------------------------------------------------------------------------
(***************************************************************************)
(* Campaigns, approvals and the scheduler.                                 *)
(***************************************************************************)

\* The approval of a campaign rests on the request that gave it.
Backed ==
    /\ campaign.approved # None => request.status = "APPROVED" /\ request.of = campaign.approved
    /\ request.status = "APPROVED" => Cardinality(request.yes) >= request.required
    /\ request.status # "CLOSED" /\ request.distinct => request.requester \notin request.yes

\* Runs are created in the order of their times, and none ahead of the clock.
RunsInOrder ==
    \A t \in Times : runs[t].status # "NONE" =>
        /\ t <= now
        /\ campaign.next # None => t < campaign.next

\* What is not created has no jobs.
Uncreated ==
    \A t \in Times : runs[t].status = "NONE" => runs[t].jobs = "DONE" /\ worker.run # t

ScheduleInv == ScheduleTypeOK /\ Backed /\ RunsInOrder /\ Uncreated

Created ==
    \A t \in Times :
        runs[t].status = "NONE" /\ runs'[t].status # "NONE" => BackedByQuorum(runs'[t].of)

LEMMA ScheduleFacts ==
    ASSUME ScheduleInv
    PROVE  /\ now \in Times /\ now \in Int /\ content \in Contents
           /\ campaign \in CampaignRow /\ request \in RequestRow
           /\ halted \in BOOLEAN /\ runs \in [Times -> RunRow] /\ worker \in Serving
BY DEF ScheduleInv, ScheduleTypeOK, Times

\* Rows without an approval, with no occurrence to come.
LEMMA UnapprovedRow ==
    ASSUME ScheduleInv, NEW s \in Active \cup Terminal \cup {"DRAFT", "PAUSED"}
    PROVE  /\ Unapproved(campaign) \in CampaignRow
           /\ Unapproved(campaign).approved = None /\ Unapproved(campaign).next = None
           /\ Unapproved(campaign).status = campaign.status
           /\ [Unapproved(campaign) EXCEPT !.status = s] \in CampaignRow
           /\ [Unapproved(campaign) EXCEPT !.status = s].approved = None
           /\ [Unapproved(campaign) EXCEPT !.status = s].next = None
           /\ [Unapproved(campaign) EXCEPT !.status = s].status = s
BY ScheduleFacts DEF Unapproved, CampaignRow

LEMMA ClosedRow ==
    ASSUME ScheduleInv
    PROVE  /\ ClosedRequest \in RequestRow
           /\ Withdrawn(request) \in RequestRow
           /\ Withdrawn(request) \in {request, ClosedRequest}
           /\ Withdrawn(request).status # "PENDING"
<1>1. ClosedRequest \in RequestRow
    BY ScheduleAssumption DEF ClosedRequest, RequestRow
<1>2. Withdrawn(request) \in {request, ClosedRequest} /\ Withdrawn(request).status # "PENDING"
    BY DEF Withdrawn, ClosedRequest
<1> QED
    BY <1>1, <1>2, ScheduleFacts

\* The request is closed or left as it is, and the approval withdrawn or left as it is.
LEMMA BackedStays ==
    ASSUME Backed, request' \in {request, ClosedRequest},
           campaign'.approved = None \/
               (request' = request /\ campaign'.approved = campaign.approved)
    PROVE  Backed'
BY DEF Backed, ClosedRequest

\* A step that creates no run and sets no next occurrence.
LEMMA PlainSchedule ==
    ASSUME ScheduleInv, now' = now, content' \in Contents, halted' \in BOOLEAN,
           campaign' \in CampaignRow, campaign'.next \in {campaign.next, None},
           request' \in RequestRow, Backed',
           runs' \in [Times -> RunRow], worker' \in Serving,
           \A t \in Times : runs'[t].status = "NONE" <=> runs[t].status = "NONE",
           \A t \in Times : runs'[t].status = "NONE" => runs'[t].jobs = "DONE" /\ worker'.run # t
    PROVE  ScheduleInv' /\ Created
<1>1. ScheduleTypeOK'
    BY ScheduleFacts DEF ScheduleTypeOK, Times
<1>2. RunsInOrder'
    BY DEF ScheduleInv, RunsInOrder, Times
<1>3. Uncreated'
    BY DEF Uncreated, Times
<1>4. Created
    BY DEF Created
<1> QED
    BY <1>1, <1>2, <1>3, <1>4 DEF ScheduleInv

\* One that leaves runs and worker alone.
LEMMA RowSchedule ==
    ASSUME ScheduleInv, now' = now, content' \in Contents, halted' \in BOOLEAN,
           campaign' \in CampaignRow, campaign'.next \in {campaign.next, None},
           request' \in RequestRow, Backed', runs' = runs, worker' = worker
    PROVE  ScheduleInv' /\ Created
BY PlainSchedule, ScheduleFacts DEF ScheduleInv, Uncreated

-----------------------------------------------------------------------------
\* Approval.
LEMMA SubmitStep ==
    ASSUME ScheduleInv, NEW u \in Admins \cup Operators, NEW n \in 1 .. 2, NEW d \in BOOLEAN,
           SubmitApproval(u, n, d)
    PROVE  ScheduleInv' /\ Created
<1>1. /\ request' = Submitted(u, n, d)
      /\ campaign' = [Drafted(campaign) EXCEPT !.active = TRUE]
    BY DEF SubmitApproval
<1>2. Submitted(u, n, d) \in RequestRow /\ now + Ttl \in 0 .. MaxTime + Ttl
    <2>1. now + Ttl \in 0 .. MaxTime + Ttl
        BY ScheduleFacts, ScheduleAssumption DEF Times
    <2> QED
        BY <2>1, ScheduleFacts DEF Submitted, RequestRow
<1>3. Drafted(campaign) \in CampaignRow /\ Drafted(campaign).approved = None
      /\ Drafted(campaign).next = None
    BY UnapprovedRow DEF Drafted
<1>4. campaign' \in CampaignRow /\ campaign'.approved = None /\ campaign'.next = None
    BY <1>1, <1>3 DEF CampaignRow
<1>5. Backed'
    BY <1>1, <1>4 DEF Backed, Submitted
<1> QED
    BY <1>1, <1>2, <1>4, <1>5, ScheduleFacts, RowSchedule DEF SubmitApproval

\* The next occurrence is set to a time that has no run yet and is not past.
LEMMA NextSchedule ==
    ASSUME ScheduleInv, UNCHANGED <<now, content, halted, runs, worker>>, ClockHasMoved,
           campaign' \in CampaignRow, campaign'.next \in {campaign.next, None} \/ campaign'.next >= now,
           request' \in RequestRow, Backed'
    PROVE  ScheduleInv' /\ Created
<1>1. ScheduleTypeOK'
    BY ScheduleFacts DEF ScheduleTypeOK
<1>2. ASSUME NEW t \in Times, runs[t].status # "NONE"
      PROVE  t <= now /\ (campaign'.next # None => t < campaign'.next)
    <2>1. t <= now /\ (campaign.next # None => t < campaign.next)
        BY <1>2 DEF ScheduleInv, RunsInOrder
    <2>2. t # now
        BY <1>2 DEF ClockHasMoved
    <2>3. campaign'.next # None => campaign'.next \in Int
        BY DEF CampaignRow, Times
    <2> QED
        BY <2>1, <2>2, <2>3, ScheduleFacts DEF Times
<1>3. RunsInOrder'
    BY <1>2 DEF RunsInOrder, Times
<1>4. Uncreated' /\ Created
    BY DEF ScheduleInv, Uncreated, Created, Times
<1> QED
    BY <1>1, <1>3, <1>4 DEF ScheduleInv

LEMMA LaterTime ==
    ASSUME NEW s \in Times, NEW t \in Times
    PROVE  Later(s, t) \in Times /\ Later(s, t) >= t
BY ScheduleAssumption DEF Later, Times

LEMMA ApprovesStep ==
    ASSUME ScheduleInv, NEW r \in RequestRow, NEW c \in CampaignRow, NEW u \in Admins,
           r.status = "PENDING", r.of = content, r.distinct => r.requester \notin r.yes,
           ~(r.distinct /\ r.requester = u),
           c.approved = None, c.next \in {campaign.next, None},
           Approves(r, c, u), UNCHANGED <<now, content, halted, runs, worker>>
    PROVE  ScheduleInv' /\ Created
<1> DEFINE yes == r.yes \cup {u}
           enough == Cardinality(yes) >= r.required
           next == Later(PlanOf[content].at, now)
<1>1. /\ ClockHasMoved
      /\ request' = [r EXCEPT !.yes = yes, !.status = IF enough THEN "APPROVED" ELSE @]
      /\ campaign' = IF enough
                       THEN [c EXCEPT !.approved = r.of, !.status = "SCHEDULED", !.next = next]
                       ELSE c
    BY DEF Approves
<1>2. next \in Times /\ next >= now
    BY LaterTime, ScheduleFacts, ScheduleAssumption DEF Plan
<1>3. yes \in SUBSET Admins
    BY DEF RequestRow
<1> HIDE DEF next
<1>4. request' \in RequestRow
    BY <1>1, <1>3 DEF RequestRow
<1>5. /\ campaign' \in CampaignRow
      /\ campaign'.next \in {campaign.next, None} \/ campaign'.next >= now
    BY <1>1, <1>2, ScheduleFacts DEF CampaignRow, Active
<1>6. /\ request'.yes = yes /\ request'.required = r.required /\ request'.distinct = r.distinct
      /\ request'.requester = r.requester /\ request'.of = r.of
      /\ request'.status = IF enough THEN "APPROVED" ELSE "PENDING"
    BY <1>1 DEF RequestRow
<1>7. campaign'.approved = IF enough THEN r.of ELSE None
    BY <1>1 DEF CampaignRow
<1>8. Backed'
    BY <1>6, <1>7 DEF Backed
<1> QED
    BY <1>1, <1>4, <1>5, <1>8, NextSchedule

LEMMA DecideStep ==
    ASSUME ScheduleInv, NEW u \in Admins, DecideApprove(u) \/ DecideReject(u)
    PROVE  ScheduleInv' /\ Created
<1>1. CASE DecideApprove(u)
    BY <1>1, ScheduleFacts, ApprovesStep DEF DecideApprove, Decidable, ScheduleInv, Backed
<1>2. CASE DecideReject(u)
    <2>1. request' = ClosedRequest /\ campaign' = Drafted(campaign)
        BY <1>2 DEF DecideReject
    <2>2. campaign' \in CampaignRow /\ campaign'.approved = None /\ campaign'.next = None
        BY <2>1, UnapprovedRow DEF Drafted
    <2>3. Backed'
        BY <2>1, <2>2, BackedStays DEF ScheduleInv
    <2> QED
        BY <1>2, <2>1, <2>2, <2>3, ClosedRow, ScheduleFacts, RowSchedule DEF DecideReject
<1> QED
    BY <1>1, <1>2

LEMMA ApproveCampaignStep ==
    ASSUME ScheduleInv, NEW u \in Admins, NEW n \in 1 .. 2, ApproveCampaign(u, n)
    PROVE  ScheduleInv' /\ Created
<1> DEFINE r == Submitted(u, n, FALSE)
           c == [Drafted(campaign) EXCEPT !.active = TRUE]
<1>1. Approves(r, c, u) /\ UNCHANGED <<now, content, halted, runs, worker>>
    BY DEF ApproveCampaign
<1>2. now + Ttl \in 0 .. MaxTime + Ttl
    BY ScheduleFacts, ScheduleAssumption DEF Times
<1>3. r \in RequestRow
    BY <1>2, ScheduleFacts DEF Submitted, RequestRow
<1>4. r.status = "PENDING" /\ r.of = content /\ ~r.distinct
    BY DEF Submitted
<1>5. Drafted(campaign) \in CampaignRow /\ Drafted(campaign).approved = None
      /\ Drafted(campaign).next = None
    BY UnapprovedRow DEF Drafted
<1>6. c \in CampaignRow /\ c.approved = None /\ c.next = None
    BY <1>5 DEF CampaignRow
<1> HIDE DEF r, c
<1> QED
    BY <1>1, <1>3, <1>4, <1>6, ApprovesStep

LEMMA ExpireStep ==
    ASSUME ScheduleInv, ExpireRequest
    PROVE  ScheduleInv' /\ Created
<1>1. request.status = "PENDING" /\ request' = ClosedRequest
    BY DEF ExpireRequest
<1>2. campaign.approved = None
    BY <1>1 DEF ScheduleInv, Backed
<1>3. /\ campaign' \in CampaignRow /\ campaign'.approved = None
      /\ campaign'.next \in {campaign.next, None}
    <2>1. CASE campaign.active
        <3>1. PICK s \in {campaign.status, "DRAFT"} :
                  campaign' = [Unapproved(campaign) EXCEPT !.status = s]
            BY <2>1 DEF ExpireRequest, Unapproved
        <3>2. campaign.status \in Active \cup Terminal \cup {"DRAFT", "PAUSED"}
            BY ScheduleFacts DEF CampaignRow
        <3> QED
            BY <3>1, <3>2, UnapprovedRow
    <2>2. CASE ~campaign.active
        BY <1>2, <2>2, ScheduleFacts DEF ExpireRequest
    <2> QED
        BY <2>1, <2>2
<1>4. Backed'
    BY <1>1, <1>3, BackedStays DEF ScheduleInv
<1> QED
    BY <1>1, <1>3, <1>4, ClosedRow, ScheduleFacts, RowSchedule DEF ExpireRequest

-----------------------------------------------------------------------------
\* Changes of the content.
LEMMA WorkCancelledRuns ==
    ASSUME ScheduleInv
    PROVE  /\ WorkCancelled \in [Times -> RunRow]
           /\ \A t \in Times : WorkCancelled[t].status = "NONE" <=> runs[t].status = "NONE"
           /\ \A t \in Times : WorkCancelled[t].jobs = "DONE" /\ WorkCancelled[t].status # "OPEN"
BY ScheduleFacts DEF WorkCancelled, RunRow

LEMMA EditStep ==
    ASSUME ScheduleInv, NEW c \in Contents,
           EditElsewhere(c) \/ PatchCampaign(c) \/ ReplaceDestinations(c)
    PROVE  ScheduleInv' /\ Created
<1>1. CASE EditElsewhere(c)
    <2>1. Backed'
        BY <1>1, BackedStays DEF EditElsewhere, ScheduleInv
    <2> QED
        BY <1>1, <2>1, ScheduleFacts, RowSchedule DEF EditElsewhere
<1>2. CASE PatchCampaign(c)
    <2>1. campaign' \in CampaignRow /\ campaign'.approved = None /\ campaign'.next = None
        BY <1>2, UnapprovedRow DEF PatchCampaign, Drafted
    <2>2. Backed' /\ request' \in RequestRow
        BY <1>2, <2>1, ClosedRow, BackedStays DEF PatchCampaign, ScheduleInv
    <2>3. \A t \in Times : runs[t].status = "NONE" => worker.run # t
        BY DEF ScheduleInv, Uncreated
    <2> QED
        BY <1>2, <2>1, <2>2, <2>3, WorkCancelledRuns, ScheduleFacts, PlainSchedule
        DEF PatchCampaign
<1>3. CASE ReplaceDestinations(c)
    <2>1. campaign' \in CampaignRow /\ campaign'.approved = None /\ campaign'.next = None
        BY <1>3, UnapprovedRow DEF ReplaceDestinations
    <2>2. Backed' /\ request' \in RequestRow
        BY <1>3, <2>1, ClosedRow, BackedStays DEF ReplaceDestinations, ScheduleInv
    <2> QED
        BY <1>3, <2>1, <2>2, ScheduleFacts, RowSchedule DEF ReplaceDestinations
<1> QED
    BY <1>1, <1>2, <1>3

-----------------------------------------------------------------------------
\* The scheduler.
LEMMA LaunchStep ==
    ASSUME ScheduleInv, Block \/ BlockStaleApproval
    PROVE  ScheduleInv' /\ Created
<1>1. /\ campaign' \in CampaignRow /\ campaign'.next = None
      /\ campaign'.approved \in {campaign.approved, None}
    BY ScheduleFacts DEF Block, BlockStaleApproval, CampaignRow
<1>2. UNCHANGED <<now, content, request, halted, runs, worker>>
    BY DEF Block, BlockStaleApproval
<1>3. Backed'
    BY <1>1, <1>2, BackedStays DEF ScheduleInv
<1> QED
    BY <1>1, <1>2, <1>3, ScheduleFacts, RowSchedule

LEMMA NextOccurrenceIsLater ==
    ASSUME ScheduleInv, NEW t \in Times
    PROVE  /\ NextOccurrence(t) \in Times \cup {None}
           /\ NextOccurrence(t) # None => NextOccurrence(t) > t
<1> DEFINE plan == PlanOf[content]
<1>1. plan.end \in Times
    BY ScheduleFacts, ScheduleAssumption DEF Plan
<1>2. NextOccurrence(t) = IF plan.daily /\ t + Day <= plan.end THEN t + Day ELSE None
    BY DEF NextOccurrence
<1> HIDE DEF plan
<1> QED
    BY <1>1, <1>2, ScheduleAssumption DEF Times

LEMMA CreateStep ==
    ASSUME ScheduleInv, NEW t \in Times, NEW empty \in BOOLEAN, CreateRun(t, empty)
    PROVE  ScheduleInv' /\ Created
<1> DEFINE made == [status |-> IF empty THEN "ENDED" ELSE "OPEN", of |-> content,
                    jobs |-> IF empty THEN "DONE" ELSE "WAIT"]
           next == NextOccurrence(t)
<1>1. /\ t = campaign.next /\ campaign.next <= now
      /\ campaign.approved = content
      /\ runs' = [runs EXCEPT ![t] = made]
      /\ UNCHANGED <<now, content, request, halted, worker>>
    BY DEF CreateRun, MayCreate, Due, ApprovalIsCurrent
<1>2. made \in RunRow /\ made.status # "NONE" /\ made.of = content
    BY ScheduleFacts DEF RunRow
<1> HIDE DEF made
<1>3. /\ runs' \in [Times -> RunRow] /\ runs'[t] = made
      /\ \A s \in Times \ {t} : runs'[s] = runs[s]
    BY <1>1, <1>2, ScheduleFacts
<1>4. next \in Times \cup {None} /\ (next # None => next > t)
    BY NextOccurrenceIsLater
<1>5. PICK status \in {"SCHEDULED", "COMPLETED", "FAILED", "RUNNING"} :
          campaign' = [campaign EXCEPT !.next = next, !.status = status]
    BY DEF CreateRun, Launched
<1> HIDE DEF next
<1>6. /\ campaign' \in CampaignRow /\ campaign'.next = next
      /\ campaign'.approved = campaign.approved
    BY <1>4, <1>5, ScheduleFacts DEF CampaignRow, Active, Terminal
<1>7. ScheduleTypeOK'
    BY <1>1, <1>3, <1>6, ScheduleFacts DEF ScheduleTypeOK
<1>8. Backed'
    BY <1>1, <1>6, BackedStays DEF ScheduleInv
<1>9. ASSUME NEW s \in Times, runs'[s].status # "NONE"
      PROVE  s <= now /\ (next # None => s < next)
    <2>1. s = t \/ (s < t /\ s <= now)
        BY <1>1, <1>3, <1>9, ScheduleAssumption DEF ScheduleInv, RunsInOrder
    <2> QED
        BY <1>1, <1>4, <2>1 DEF Times
<1>10. RunsInOrder'
    BY <1>1, <1>6, <1>9 DEF RunsInOrder, Times
<1>11. Uncreated'
    BY <1>1, <1>2, <1>3 DEF ScheduleInv, Uncreated, Times
<1>12. BackedByQuorum(content)
    BY <1>1, ScheduleFacts, ScheduleAssumption DEF ScheduleInv, Backed, BackedByQuorum
<1>13. Created
    BY <1>2, <1>3, <1>12 DEF Created
<1> QED
    BY <1>7, <1>8, <1>10, <1>11, <1>13 DEF ScheduleInv

-----------------------------------------------------------------------------
\* The operators' calls.
LEMMA PauseStep ==
    ASSUME ScheduleInv, Pause \/ StageLowered \/ HaltOrContinue
    PROVE  ScheduleInv' /\ Created
<1>1. /\ campaign' \in CampaignRow /\ campaign'.next \in {campaign.next, None}
      /\ campaign'.approved = campaign.approved
    BY ScheduleFacts DEF Pause, StageLowered, HaltOrContinue, CampaignRow
<1>2. UNCHANGED <<now, content, request, runs, worker>> /\ halted' \in BOOLEAN
    BY ScheduleFacts DEF Pause, StageLowered, HaltOrContinue
<1>3. Backed'
    BY <1>1, <1>2, BackedStays DEF ScheduleInv
<1> QED
    BY <1>1, <1>2, <1>3, ScheduleFacts, RowSchedule

LEMMA RunNowStep ==
    ASSUME ScheduleInv, RunNow \/ Resume
    PROVE  ScheduleInv' /\ Created
<1>1. ClockHasMoved /\ UNCHANGED <<now, content, request, halted, runs, worker>>
    BY DEF RunNow, Resume
<1>2. PICK status \in {"SCHEDULED", "RUNNING"}, next \in {campaign.next, now} :
          campaign' = [campaign EXCEPT !.status = status, !.next = next]
    <2>1. CASE RunNow
        BY <2>1 DEF RunNow
    <2>2. CASE Resume
        <3>1. \/ campaign' = [campaign EXCEPT !.status = "RUNNING"]
              \/ campaign' = [campaign EXCEPT !.status = "SCHEDULED",
                                              !.next = IF @ = None THEN now ELSE @]
            BY <2>2 DEF Resume, Resumed
        <3>2. [campaign EXCEPT !.status = "RUNNING"]
                = [campaign EXCEPT !.status = "RUNNING", !.next = campaign.next]
            BY ScheduleFacts DEF CampaignRow
        <3> QED
            BY <3>1, <3>2
    <2> QED
        BY <2>1, <2>2
<1>3. /\ campaign' \in CampaignRow /\ campaign'.next = next
      /\ campaign'.approved = campaign.approved
    BY <1>2, ScheduleFacts DEF CampaignRow, Active
<1>4. Backed'
    BY <1>1, <1>3, BackedStays DEF ScheduleInv
<1>5. campaign'.next \in {campaign.next, None} \/ campaign'.next >= now
    BY <1>2, <1>3, ScheduleFacts
<1> QED
    BY <1>1, <1>3, <1>4, <1>5, ScheduleFacts, NextSchedule

LEMMA CancelStep ==
    ASSUME ScheduleInv, Cancel \/ \E t \in Times : AbortRun(t)
    PROVE  ScheduleInv' /\ Created
<1>0. PICK s \in {"CANCELLED", "PAUSED"} :
          campaign' = [Unapproved(campaign) EXCEPT !.status = s]
    BY DEF Cancel, AbortRun
<1>1. /\ campaign' \in CampaignRow /\ campaign'.approved = None /\ campaign'.next = None
      /\ request' = Withdrawn(request)
      /\ UNCHANGED <<now, content, halted, worker>>
    <2>1. s \in Active \cup Terminal \cup {"DRAFT", "PAUSED"}
        BY DEF Terminal
    <2> QED
        BY <1>0, <2>1, UnapprovedRow DEF Cancel, AbortRun
<1>2. Backed' /\ request' \in RequestRow
    BY <1>1, ClosedRow, BackedStays DEF ScheduleInv
<1>3. /\ runs' \in [Times -> RunRow]
      /\ \A t \in Times : runs'[t].status = "NONE" <=> runs[t].status = "NONE"
      /\ \A t \in Times : runs'[t].status = "NONE" => runs'[t].jobs = "DONE"
    <2>1. CASE Cancel
        BY <2>1, WorkCancelledRuns DEF Cancel
    <2>2. ASSUME NEW t \in Times, AbortRun(t)
          PROVE  /\ runs' \in [Times -> RunRow]
                 /\ \A u \in Times : runs'[u].status = "NONE" <=> runs[u].status = "NONE"
                 /\ \A u \in Times : runs'[u].status = "NONE" => runs'[u].jobs = "DONE"
        BY <2>2, ScheduleFacts DEF AbortRun, RunRow, ScheduleInv, Uncreated
    <2> QED
        BY <2>1, <2>2
<1>4. \A t \in Times : runs[t].status = "NONE" => worker.run # t
    BY DEF ScheduleInv, Uncreated
<1> QED
    BY <1>1, <1>2, <1>3, <1>4, ScheduleFacts, PlainSchedule

-----------------------------------------------------------------------------
\* The delivery worker, and the operators' calls on jobs: one run that exists changes.
LEMMA RunChanges ==
    ASSUME ScheduleInv, NEW t \in Times, runs[t].status # "NONE",
           runs' \in [Times -> RunRow], runs'[t].status # "NONE",
           \A s \in Times \ {t} : runs'[s] = runs[s],
           UNCHANGED <<now, content, request, halted>>,
           campaign' \in CampaignRow, campaign'.next = campaign.next,
           campaign'.approved = campaign.approved,
           worker' \in Serving, worker'.run \in {worker.run, t, None}
    PROVE  ScheduleInv' /\ Created
<1>1. Backed'
    BY BackedStays DEF ScheduleInv
<1>2. \A s \in Times : runs'[s].status = "NONE" <=> runs[s].status = "NONE"
    OBVIOUS
<1>3. \A s \in Times : runs'[s].status = "NONE" => runs'[s].jobs = "DONE" /\ worker'.run # s
    BY ScheduleAssumption DEF ScheduleInv, Uncreated
<1> QED
    BY <1>1, <1>2, <1>3, ScheduleFacts, PlainSchedule

LEMMA EndedCampaign ==
    ASSUME ScheduleInv, NEW status, NEW next, campaign' \in EndOfRun(campaign, status, next)
    PROVE  /\ campaign' \in CampaignRow /\ campaign'.next = campaign.next
           /\ campaign'.approved = campaign.approved
           /\ campaign'.status \in {campaign.status, "COMPLETED", "FAILED"}
BY ScheduleFacts DEF EndOfRun, CampaignRow, Terminal

LEMMA IdleServes == Idle \in Serving /\ Idle.run = None
BY DEF Idle, Serving

\* A run with jobs, or in the hands of the worker, exists.
LEMMA RunExists ==
    ASSUME ScheduleInv, NEW t \in Times, runs[t].jobs # "DONE" \/ worker.run = t
    PROVE  runs[t].status # "NONE"
BY DEF ScheduleInv, Uncreated

LEMMA BeginSendStep ==
    ASSUME ScheduleInv, NEW t \in Times, BeginSend(t)
    PROVE  ScheduleInv' /\ Created
<1>1. runs[t].status # "NONE"
    BY RunExists DEF BeginSend
<1>2. PICK left \in {"WAIT", "DONE"} : runs' = [runs EXCEPT ![t].jobs = left]
    BY DEF BeginSend
<1>3. /\ runs' \in [Times -> RunRow] /\ runs'[t].status # "NONE"
      /\ \A s \in Times \ {t} : runs'[s] = runs[s]
    BY <1>1, <1>2, ScheduleFacts DEF RunRow
<1>4. worker' \in Serving /\ worker'.run = t
    BY ScheduleFacts DEF BeginSend, Serving, CampaignRow
<1> QED
    BY <1>1, <1>3, <1>4, ScheduleFacts, RunChanges DEF BeginSend

LEMMA EndSendStep ==
    ASSUME ScheduleInv, NEW t \in Times, EndSend(t) \/ LoseResult(t)
    PROVE  ScheduleInv' /\ Created
<1>1. runs[t].status # "NONE"
    BY RunExists DEF EndSend, LoseResult
<1>2. /\ runs' \in [Times -> RunRow] /\ runs'[t].status # "NONE"
      /\ \A s \in Times \ {t} : runs'[s] = runs[s]
    BY <1>1, ScheduleFacts DEF EndSend, LoseResult, RunRow
<1>3. /\ campaign' \in CampaignRow /\ campaign'.next = campaign.next
      /\ campaign'.approved = campaign.approved
    BY EndedCampaign, ScheduleFacts DEF EndSend, LoseResult
<1>4. worker' = Idle /\ UNCHANGED <<now, content, request, halted>>
    BY DEF EndSend, LoseResult
<1> QED
    BY <1>1, <1>2, <1>3, <1>4, IdleServes, RunChanges

LEMMA SettleStep ==
    ASSUME ScheduleInv, NEW t \in Times, SettleJobs(t) \/ Requeue(t)
    PROVE  ScheduleInv' /\ Created
<1>1. runs[t].status # "NONE"
    BY RunExists DEF SettleJobs, Requeue
<1>2. /\ runs' \in [Times -> RunRow] /\ runs'[t].status # "NONE"
      /\ \A s \in Times \ {t} : runs'[s] = runs[s]
    BY <1>1, ScheduleFacts DEF SettleJobs, Settled, SettledAside, Requeue, RunRow
<1>3. /\ campaign' \in CampaignRow /\ campaign'.next = campaign.next
      /\ campaign'.approved = campaign.approved
    BY EndedCampaign, ScheduleFacts DEF SettleJobs, Settled, SettledAside, Requeue
<1>4. UNCHANGED <<now, content, request, halted, worker>>
    BY DEF SettleJobs, Requeue
<1> QED
    BY <1>1, <1>2, <1>3, <1>4, ScheduleFacts, RunChanges

LEMMA ClockStep ==
    ASSUME ScheduleInv, AdvanceClock
    PROVE  ScheduleInv' /\ Created
<1>1. now' \in Times /\ now' = now + 1 /\ UNCHANGED <<content, campaign, request, halted, runs, worker>>
    BY ScheduleFacts, ScheduleAssumption DEF AdvanceClock, Times
<1>2. ScheduleTypeOK' /\ Backed' /\ Uncreated' /\ Created
    BY <1>1 DEF ScheduleInv, ScheduleTypeOK, Backed, Uncreated, Created
<1>3. RunsInOrder'
    BY <1>1, ScheduleFacts DEF ScheduleInv, RunsInOrder, Times
<1> QED
    BY <1>2, <1>3 DEF ScheduleInv

LEMMA ScheduleInit == Init => ScheduleInv
<1> SUFFICES ASSUME Init PROVE ScheduleInv
    OBVIOUS
<1>1. now \in Times /\ content \in Contents /\ halted \in BOOLEAN
    <2>1. 0 \in Times
        BY ScheduleAssumption DEF Times
    <2> QED
        BY <2>1 DEF Init
<1>2. campaign \in CampaignRow /\ request \in RequestRow /\ worker \in Serving
    <2>1. 0 \in 0 .. MaxTime + Ttl
        BY ScheduleAssumption
    <2>2. ClosedRequest \in RequestRow
        BY <2>1 DEF ClosedRequest, RequestRow
    <2> QED
        BY <2>2, IdleServes DEF Init, CampaignRow
<1>3. runs \in [Times -> RunRow]
    BY DEF Init, NoRun, RunRow
<1>4. Backed /\ RunsInOrder /\ Uncreated
    BY ScheduleAssumption, IdleServes
    DEF Init, Backed, RunsInOrder, Uncreated, ClosedRequest, NoRun
<1> QED
    BY <1>1, <1>2, <1>3, <1>4 DEF ScheduleInv, ScheduleTypeOK

LEMMA ScheduleNext ==
    ASSUME ScheduleInv, [Next]_vars
    PROVE  ScheduleInv' /\ Created
<1>1. CASE Approval
    BY <1>1, SubmitStep, DecideStep, ApproveCampaignStep DEF Approval
<1>2. CASE ExpireRequest
    BY <1>2, ExpireStep
<1>3. CASE Editing
    BY <1>3, EditStep DEF Editing
<1>4. CASE Launch
    BY <1>4, LaunchStep, CreateStep DEF Launch
<1>5. CASE Operating
    BY <1>5, PauseStep, RunNowStep, CancelStep DEF Operating
<1>6. CASE Sending
    BY <1>6, BeginSendStep, EndSendStep, SettleStep DEF Sending
<1>7. CASE AdvanceClock
    BY <1>7, ClockStep
<1>8. CASE UNCHANGED vars
    BY <1>8 DEF vars, ScheduleInv, ScheduleTypeOK, Backed, RunsInOrder, Uncreated, Created
<1> QED
    BY <1>1, <1>2, <1>3, <1>4, <1>5, <1>6, <1>7, <1>8 DEF Next

\* The inductive invariant, for any contents, plans, people and bounds.
THEOREM ScheduleInvariant == Spec => []ScheduleInv
BY ScheduleInit, ScheduleNext, PTL DEF Spec

\* The clock, the campaign, its request, its runs and the worker keep their types.
THEOREM ScheduleTypeCorrect == Spec => []ScheduleTypeOK
<1>1. ScheduleInv => ScheduleTypeOK
    BY DEF ScheduleInv
<1> QED
    BY ScheduleInvariant, <1>1, PTL

\* The occurrence to come has no run yet, whatever is approved again, run by hand,
\* resumed or late: the unique key of campaign_runs is never hit.
THEOREM OccurrencesAreNew == Spec => []OccurrenceIsNew
<1>1. ScheduleInv => OccurrenceIsNew
    BY ScheduleFacts DEF ScheduleInv, RunsInOrder, OccurrenceIsNew, CampaignRow, Times
<1> QED
    BY ScheduleInvariant, <1>1, PTL

\* A run is created only with content that a quorum has approved in one request.
THEOREM RunsHaveApproval == Spec => RunsAreApproved
<1>1. ScheduleInv /\ [Next]_vars => [Created]_vars
    BY ScheduleNext
<1> QED
    BY ScheduleInvariant, <1>1, PTL DEF Spec, RunsAreApproved, Created

-----------------------------------------------------------------------------
\* What is over stays over.
LEMMA OverNext ==
    ASSUME ScheduleInv, [Next]_vars, Over
    PROVE  Over'
<1>0. /\ campaign.status \in Terminal /\ campaign.status \notin Active \cup {"DRAFT", "PAUSED"}
      /\ request.status # "PENDING"
      /\ \A t \in Times : runs[t].status # "OPEN"
    BY DEF Over, Terminal, Active
<1>1. ~Approval
    BY <1>0 DEF Approval, SubmitApproval, DecideApprove, DecideReject, Decidable, ApproveCampaign
<1>2. ~ExpireRequest
    BY <1>0 DEF ExpireRequest
<1>3. CASE Editing
    BY <1>0, <1>3 DEF Editing, EditElsewhere, PatchCampaign, ReplaceDestinations, Over
<1>4. ~Launch
    BY <1>0 DEF Launch, Block, BlockStaleApproval, CreateRun, MayCreate, Due
<1>5. CASE Operating
    <2>1. ~(RunNow \/ Pause \/ Resume \/ StageLowered \/ \E t \in Times : AbortRun(t))
        BY <1>0 DEF RunNow, OverForRunNow, Pause, Resume, StageLowered, AbortRun
    <2>2. CASE Cancel
        <3>1. campaign'.status = "CANCELLED"
            BY <2>2, UnapprovedRow DEF Cancel, Terminal
        <3> QED
            BY <2>2, <3>1, ClosedRow, WorkCancelledRuns DEF Cancel, Over, Terminal
    <2>3. CASE HaltOrContinue
        BY <1>0, <2>3 DEF HaltOrContinue, Over
    <2> QED
        BY <1>5, <2>1, <2>2, <2>3 DEF Operating
<1>6. ASSUME NEW t \in Times,
             BeginSend(t) \/ EndSend(t) \/ LoseResult(t) \/ SettleJobs(t) \/ Requeue(t)
      PROVE  Over'
    <2>1. ~BeginSend(t) /\ ~Requeue(t)
        BY <1>0 DEF BeginSend, Requeue
    <2>2. CASE EndSend(t) \/ LoseResult(t) \/ SettleJobs(t)
        <3>1. \A s \in Times : runs'[s].status \in {runs[s].status, "ENDED"}
            BY <2>2, ScheduleFacts
            DEF EndSend, LoseResult, SettleJobs, Settled, SettledAside, RunRow
        <3>2. campaign'.status \in {campaign.status, "COMPLETED", "FAILED"}
            BY <2>2, EndedCampaign
            DEF EndSend, LoseResult, SettleJobs, Settled, SettledAside
        <3>3. request' = request
            BY <2>2 DEF EndSend, LoseResult, SettleJobs
        <3> QED
            BY <1>0, <3>1, <3>2, <3>3 DEF Over, Terminal
    <2> QED
        BY <1>6, <2>1, <2>2
<1>7. CASE AdvanceClock \/ UNCHANGED vars
    BY <1>0, <1>7 DEF AdvanceClock, vars, Over
<1> QED
    BY <1>1, <1>2, <1>3, <1>4, <1>5, <1>6, <1>7 DEF Next, Sending

\* A campaign that is over is not started again by any call, late result or old approval.
THEOREM OverRemainsOver == Spec => OverStaysOver
<1>1. ScheduleInv /\ [Next]_vars => [Over => Over']_vars
    BY OverNext
<1> QED
    BY ScheduleInvariant, <1>1, PTL DEF Spec, OverStaysOver

-----------------------------------------------------------------------------
(***************************************************************************)
(* The register of destinations.                                           *)
(***************************************************************************)

\* What a call may have to write: a column that is Nil is left alone.
Columns ==
    [enabled: BOOLEAN \cup {Nil}, permission: Permission \cup {Nil},
     grounds: BOOLEAN \cup {Nil}, term: Term \cup {Nil},
     validated: BOOLEAN \cup {Nil}, until: {"RUNNING", "PAST", Nil}]

JobRow == [row: Rows \cup {Nil}, status: {"NONE", "QUEUED", "TAKEN", "REVIEW", "OVER"},
           by: Workers \cup {Nil}]

RegisterTypes ==
    /\ row \in [Rows -> Row \cup {Nil}]
    /\ linked \subseteq Listed
    /\ job \in [Jobs -> JobRow]
    /\ late \in [Rows -> Nat]
    /\ DOMAIN session = Editors

\* A delivery has a destination that is listed; who holds it has taken it, and nothing else.
JobsFit ==
    /\ \A j \in Jobs : job[j].status # "NONE" => job[j].row \in Listed
    /\ \A j \in Jobs : job[j].by # Nil => job[j].status = "TAKEN"
    /\ \A j, k \in Jobs : job[j].by # Nil /\ job[j].by = job[k].by => j = k

\* What is written turns a destination on, or confirms it, on request only.
OnRequest(write, asks) ==
    /\ write.enabled # Nil /\ write.enabled = TRUE => "enabled" \in asks
    /\ write.permission # Nil /\ write.permission = "CONFIRMED" => "permission" \in asks

SessionFits(s) ==
    /\ s.op \in {"patch", "check", "delete"} => s.row \in Listed
    /\ s.op \in {"patch", "check"} => s.write \in Columns /\ OnRequest(s.write, s.asks)

SessionsFit == \A e \in Editors : SessionFits(session[e])

\* The workers that hold a delivery to a destination.
Carriers(r) == {w \in Workers : \E j \in Jobs : job[j].by = w /\ job[j].row = r}

\* What is closed gets no more than what is held.
LateFits ==
    \A r \in Rows :
        /\ row[r] # Nil /\ Open(row[r]) => late[r] = 0
        /\ late[r] + Cardinality(Carriers(r)) <= Cardinality(Workers)

RegisterInv == RegisterTypes /\ JobsFit /\ SessionsFit /\ LateFits

-----------------------------------------------------------------------------

\* What is read is a row, and what is written over a row leaves one.
LEMMA UpdatedRow ==
    ASSUME NEW d \in Row, NEW write \in Columns
    PROVE  /\ Updated(d, write) \in Row
           /\ Updated(d, write).enabled = Kept(write.enabled, d.enabled)
           /\ Updated(d, write).permission = Kept(write.permission, d.permission)
<1>1. DOMAIN d = {"enabled", "permission", "grounds", "term", "validated", "until"}
    BY DEF Row
<1> DEFINE n == Updated(d, write)
<1>2. n = [enabled |-> Kept(write.enabled, d.enabled),
           permission |-> Kept(write.permission, d.permission),
           grounds |-> Kept(write.grounds, d.grounds), term |-> Kept(write.term, d.term),
           validated |-> Kept(write.validated, d.validated),
           until |-> Kept(write.until, d.until)]
    BY <1>1 DEF Updated
<1>3. /\ Kept(write.enabled, d.enabled) \in BOOLEAN
      /\ Kept(write.permission, d.permission) \in Permission
      /\ Kept(write.grounds, d.grounds) \in BOOLEAN
      /\ Kept(write.term, d.term) \in Term
      /\ Kept(write.validated, d.validated) \in BOOLEAN
      /\ Kept(write.until, d.until) \in {"RUNNING", "PAST"}
    BY DEF Kept, Row, Columns
<1> QED
    BY <1>2, <1>3 DEF Row

\* The difference of two rows.
LEMMA WrittenColumns ==
    ASSUME NEW view \in Row, NEW new \in Row
    PROVE  /\ Written(view, new) \in Columns
           /\ Written(view, new).enabled =
                IF new.enabled # view.enabled THEN new.enabled ELSE Nil
           /\ Written(view, new).permission =
                IF new.permission # view.permission THEN new.permission ELSE Nil
<1>1. DOMAIN view = {"enabled", "permission", "grounds", "term", "validated", "until"}
    BY DEF Row
<1> DEFINE Diff(a, b) == IF b # a THEN b ELSE Nil
<1>2. Written(view, new) =
          [enabled |-> Diff(view.enabled, new.enabled),
           permission |-> Diff(view.permission, new.permission),
           grounds |-> Diff(view.grounds, new.grounds), term |-> Diff(view.term, new.term),
           validated |-> Diff(view.validated, new.validated),
           until |-> Diff(view.until, new.until)]
    BY <1>1 DEF Written
<1>3. /\ Diff(view.enabled, new.enabled) \in BOOLEAN \cup {Nil}
      /\ Diff(view.permission, new.permission) \in Permission \cup {Nil}
      /\ Diff(view.grounds, new.grounds) \in BOOLEAN \cup {Nil}
      /\ Diff(view.term, new.term) \in Term \cup {Nil}
      /\ Diff(view.validated, new.validated) \in BOOLEAN \cup {Nil}
      /\ Diff(view.until, new.until) \in {"RUNNING", "PAST", Nil}
    BY DEF Row
<1> QED
    BY <1>2, <1>3 DEF Columns

\* A change writes a permission, or turns the destination on, when that is asked for.
LEMMA PatchFits ==
    ASSUME DestinationAssumption, NEW view \in Row, NEW p \in Patch
    PROVE  /\ PatchWrites(view, p) \in Columns
           /\ OnRequest(PatchWrites(view, p), {c \in DOMAIN p : p[c] # Nil})
<1> DEFINE new == Merged(view, p)
           asks == {c \in DOMAIN p : p[c] # Nil}
           permission == Kept(p.permission, view.permission)
           enabled == permission # "DENIED" /\ Kept(p.enabled, view.enabled)
           grounds == Kept(p.grounds, view.grounds)
           term == IF permission = "CONFIRMED" THEN Kept(p.term, view.term) ELSE "NONE"
<1>1. /\ permission \in Permission /\ enabled \in BOOLEAN /\ grounds \in BOOLEAN
      /\ term \in Term
    BY DEF Kept, Row, Patch, Permission, Term
<1>2. new = [view EXCEPT !.permission = permission, !.enabled = enabled,
                         !.grounds = grounds, !.term = term]
    BY DEF Merged
<1>3. DOMAIN p = {"enabled", "permission", "grounds", "term"}
    BY DEF Patch
<1>4. enabled = TRUE /\ view.enabled # TRUE => p.enabled # Nil
    BY DEF Kept, Row
<1>5. permission = "CONFIRMED" /\ view.permission # "CONFIRMED" => p.permission # Nil
    BY DEF Kept
<1> HIDE DEF permission, enabled, grounds, term
<1>6. /\ new \in Row /\ new.enabled = enabled /\ new.permission = permission
      /\ new.term = term
    BY <1>1, <1>2 DEF Row
<1> HIDE DEF new
<1>7. /\ Written(view, new) \in Columns
      /\ Written(view, new).enabled = IF new.enabled # view.enabled THEN new.enabled ELSE Nil
      /\ Written(view, new).permission =
             IF new.permission # view.permission THEN new.permission ELSE Nil
    BY <1>6, WrittenColumns
<1> DEFINE w == Written(view, new)
<1>8. PatchWrites(view, p) =
          [w EXCEPT !.term = IF p.term = "RUNNING" /\ new.term = "RUNNING" THEN "RUNNING" ELSE @]
    BY DEF PatchWrites, new
<1> HIDE DEF w
<1>9. /\ PatchWrites(view, p) \in Columns
      /\ PatchWrites(view, p).enabled = w.enabled
      /\ PatchWrites(view, p).permission = w.permission
    BY <1>7, <1>8 DEF Columns, w, Term
<1>10. w.enabled # Nil /\ w.enabled = TRUE => "enabled" \in asks
    BY <1>3, <1>4, <1>6, <1>7 DEF w
<1>11. w.permission # Nil /\ w.permission = "CONFIRMED" => "permission" \in asks
    BY <1>3, <1>5, <1>6, <1>7 DEF w
<1> QED
    BY <1>9, <1>10, <1>11 DEF OnRequest

\* A check turns nothing on.
LEMMA CheckFits ==
    ASSUME NEW view \in Row, NEW b \in BOOLEAN
    PROVE  /\ AfterAnswer(view, b) \in Columns /\ OnRequest(AfterAnswer(view, b), {})
           /\ AfterError(view, b) \in Columns /\ OnRequest(AfterError(view, b), {})
<1>1. ASSUME NEW v \in BOOLEAN, NEW on \in BOOLEAN, on = TRUE => view.enabled = TRUE,
             NEW until \in {"RUNNING", "PAST"}, NEW new,
             new = [view EXCEPT !.validated = v, !.enabled = on], NEW write,
             write = [Written(view, new) EXCEPT !.until = until]
      PROVE  write \in Columns /\ OnRequest(write, {})
    <2>1. new \in Row /\ new.enabled = on /\ new.permission = view.permission
        BY <1>1 DEF Row
    <2> DEFINE w == Written(view, new)
    <2>2. /\ w \in Columns
          /\ w.enabled = IF new.enabled # view.enabled THEN new.enabled ELSE Nil
          /\ w.permission = Nil
        BY <2>1, WrittenColumns
    <2>3. write = [w EXCEPT !.until = until]
        BY <1>1
    <2> HIDE DEF w
    <2>4. write \in Columns /\ write.enabled = w.enabled /\ write.permission = w.permission
        BY <2>2, <2>3 DEF Columns
    <2> QED
        BY <1>1, <2>1, <2>2, <2>4 DEF OnRequest
<1>2. view.enabled \in BOOLEAN
    BY DEF Row
<1>3. AfterAnswer(view, b) \in Columns /\ OnRequest(AfterAnswer(view, b), {})
    <2> DEFINE on == view.enabled /\ b
               new == [view EXCEPT !.validated = b, !.enabled = on]
    <2>1. on \in BOOLEAN /\ (on = TRUE => view.enabled = TRUE)
        BY <1>2
    <2>2. AfterAnswer(view, b) = [Written(view, new) EXCEPT !.until = "RUNNING"]
        BY DEF AfterAnswer
    <2> QED
        BY <1>1, <2>1, <2>2
<1>4. AfterError(view, b) \in Columns /\ OnRequest(AfterError(view, b), {})
    <2> DEFINE on == view.enabled /\ ~b
               new == [view EXCEPT !.validated = FALSE, !.enabled = on]
    <2>1. on \in BOOLEAN /\ (on = TRUE => view.enabled = TRUE)
        BY <1>2
    <2>2. AfterError(view, b) = [Written(view, new) EXCEPT !.until = "PAST"]
        BY DEF AfterError
    <2> QED
        BY <1>1, <2>1, <2>2
<1> QED
    BY <1>3, <1>4
-----------------------------------------------------------------------------
LEMMA InitRegister == DestinationAssumption /\ DestinationInit => RegisterInv
<1> SUFFICES ASSUME DestinationAssumption, DestinationInit PROVE RegisterInv
    OBVIOUS
<1>1. RegisterTypes
    <2>1. Unused \in JobRow
        BY DEF Unused, JobRow
    <2> QED
        BY <2>1 DEF DestinationInit, RegisterTypes, Listed
<1>2. JobsFit
    BY DEF DestinationInit, JobsFit, Unused
<1>3. SessionsFit
    BY DEF DestinationInit, SessionsFit, SessionFits, NoSession
<1>4. LateFits
    <2>1. ASSUME NEW r \in Rows PROVE Carriers(r) = {}
        BY DEF Carriers, DestinationInit, Unused, DestinationAssumption
    <2>2. Cardinality(Workers) \in Nat /\ Cardinality({}) = 0
        BY FS_CardinalityType, FS_EmptySet DEF DestinationAssumption
    <2> QED
        BY <2>1, <2>2 DEF LateFits, DestinationInit
<1> QED
    BY <1>1, <1>2, <1>3, <1>4 DEF RegisterInv

\* Carriers are workers.
LEMMA CarriersCount ==
    ASSUME DestinationAssumption, NEW r
    PROVE  /\ Carriers(r) \subseteq Workers /\ IsFiniteSet(Carriers(r))
           /\ Cardinality(Carriers(r)) \in Nat /\ Cardinality(Workers) \in Nat
           /\ Cardinality(Carriers(r)) <= Cardinality(Workers)
<1>1. Carriers(r) \subseteq Workers
    BY DEF Carriers
<1>2. IsFiniteSet(Workers)
    BY DEF DestinationAssumption
<1> QED
    BY <1>1, <1>2, FS_Subset, FS_CardinalityType

\* What no longer concerns the workers leaves the count as it is, or starts it again.
LEMMA QuietLate ==
    ASSUME DestinationAssumption, RegisterInv, Counted({}), UNCHANGED job
    PROVE  late' \in [Rows -> Nat] /\ LateFits'
<1>1. ASSUME NEW r \in Rows
      PROVE  /\ late'[r] = IF row'[r] # Nil /\ Open(row'[r]) THEN 0 ELSE late[r]
             /\ late[r] \in Nat /\ late'[r] \in Nat
    BY DEF Counted, RegisterInv, RegisterTypes
<1>2. late' \in [Rows -> Nat]
    BY <1>1 DEF Counted
<1>3. ASSUME NEW r \in Rows
      PROVE  /\ row'[r] # Nil /\ Open(row'[r]) => late'[r] = 0
             /\ late'[r] + Cardinality(Carriers(r)') <= Cardinality(Workers)
    <2>1. Carriers(r)' = Carriers(r)
        BY DEF Carriers
    <2>2. late[r] + Cardinality(Carriers(r)) <= Cardinality(Workers)
        BY DEF RegisterInv, LateFits
    <2>3. /\ Cardinality(Carriers(r)) \in Nat /\ Cardinality(Workers) \in Nat
          /\ Cardinality(Carriers(r)) <= Cardinality(Workers)
        BY CarriersCount
    <2>4. late'[r] + Cardinality(Carriers(r)) <= Cardinality(Workers)
        BY <1>1, <2>2, <2>3
    <2>5. row'[r] # Nil /\ Open(row'[r]) => late'[r] = 0
        BY <1>1
    <2> QED
        BY <2>1, <2>4, <2>5
<1>4. ASSUME NEW r \in Rows PROVE Open(row[r])' <=> Open(row'[r])
    BY DEF Open, Fresh
<1> QED
    BY <1>2, <1>3, <1>4 DEF LateFits

\* A call begins.
LEMMA SessionBegins ==
    ASSUME RegisterInv, NEW e \in Editors, NEW op, NEW r, NEW asks, NEW write,
           Begin(e, op, r, asks, write),
           SessionFits([op |-> op, row |-> r, asks |-> asks, write |-> write])
    PROVE  RegisterInv'
<1>1. UNCHANGED <<row, linked, job, late>>
    BY DEF Begin
<1>2. RegisterTypes' /\ JobsFit'
    <2>1. DOMAIN session' = Editors
        BY DEF Begin, RegisterInv, RegisterTypes
    <2> QED
        BY <1>1, <2>1 DEF RegisterInv, RegisterTypes, JobsFit, Listed
<1>3. LateFits'
    BY <1>1 DEF RegisterInv, LateFits, Carriers, Open, Fresh
<1>4. SessionsFit'
    <2>1. ASSUME NEW x \in Editors PROVE SessionFits(session'[x])
        <3>1. CASE x = e
            BY <3>1 DEF Begin, RegisterInv, RegisterTypes
        <3>2. CASE x # e
            BY <3>2 DEF Begin, RegisterInv, RegisterTypes, SessionsFit
        <3> QED
            BY <3>1, <3>2
    <2> QED
        BY <1>1, <2>1 DEF SessionsFit, SessionFits, Listed, OnRequest
<1> QED
    BY <1>2, <1>3, <1>4 DEF RegisterInv

LEMMA ReadStep ==
    ASSUME DestinationAssumption, RegisterInv, NEW e \in Editors, NEW r \in Rows,
           \/ \E p \in Requests : PatchRead(e, r, p)
           \/ CheckRead(e, r) \/ DeleteCheck(e, r) \/ CreateCheck(e)
    PROVE  RegisterInv'
<1>1. r \in Listed => row[r] \in Row
    BY DEF RegisterInv, RegisterTypes, Listed
<1>2. ASSUME NEW p \in Requests, PatchRead(e, r, p) PROVE RegisterInv'
    <2>1. p \in Patch /\ row[r] \in Row /\ r \in Listed
        BY <1>1, <1>2 DEF DestinationAssumption, PatchRead
    <2>2. /\ PatchWrites(row[r], p) \in Columns
          /\ OnRequest(PatchWrites(row[r], p), {c \in DOMAIN p : p[c] # Nil})
        BY <2>1, PatchFits
    <2>3. Begin(e, "patch", r, {c \in DOMAIN p : p[c] # Nil}, PatchWrites(row[r], p))
        BY <1>2 DEF PatchRead
    <2>4. SessionFits([op |-> "patch", row |-> r, asks |-> {c \in DOMAIN p : p[c] # Nil},
                       write |-> PatchWrites(row[r], p)])
        BY <2>1, <2>2 DEF SessionFits
    <2> QED
        BY <2>3, <2>4, SessionBegins
<1>3. CASE CheckRead(e, r)
    <2>1. row[r] \in Row /\ r \in Listed
        BY <1>1, <1>3 DEF CheckRead
    <2>2. PICK b \in BOOLEAN : \/ Begin(e, "check", r, {}, AfterAnswer(row[r], b))
                               \/ Begin(e, "check", r, {}, AfterError(row[r], b))
        BY <1>3 DEF CheckRead
    <2>3. /\ SessionFits([op |-> "check", row |-> r, asks |-> {},
                          write |-> AfterAnswer(row[r], b)])
          /\ SessionFits([op |-> "check", row |-> r, asks |-> {},
                          write |-> AfterError(row[r], b)])
        BY <2>1, CheckFits DEF SessionFits
    <2> QED
        BY <2>2, <2>3, SessionBegins
<1>4. CASE DeleteCheck(e, r)
    <2>1. r \in Listed /\ Begin(e, "delete", r, {}, Nil)
        BY <1>4 DEF DeleteCheck
    <2>2. SessionFits([op |-> "delete", row |-> r, asks |-> {}, write |-> Nil])
        BY <2>1 DEF SessionFits
    <2> QED
        BY <2>1, <2>2, SessionBegins
<1>5. CASE CreateCheck(e)
    <2>1. Begin(e, "create", Nil, {}, Nil)
        BY <1>5 DEF CreateCheck
    <2>2. SessionFits([op |-> "create", row |-> Nil, asks |-> {}, write |-> Nil])
        BY DEF SessionFits
    <2> QED
        BY <2>1, <2>2, SessionBegins
<1> QED
    BY <1>2, <1>3, <1>4, <1>5

\* A call that ends leaves the others what they were about to write.
LEMMA SessionEnds ==
    ASSUME RegisterInv, NEW e \in Editors, Done(e), Listed \subseteq Listed'
    PROVE  SessionsFit' /\ DOMAIN session' = Editors
<1>1. session' = [session EXCEPT ![e] = NoSession] /\ DOMAIN session = Editors
    BY DEF Done, RegisterInv, RegisterTypes
<1>2. ASSUME NEW x \in Editors PROVE SessionFits(session[x])' 
    <2>1. CASE x = e
        BY <1>1, <2>1 DEF SessionFits, NoSession
    <2>2. CASE x # e
        <3>1. SessionFits(session[x]) /\ session'[x] = session[x]
            BY <1>1, <2>2 DEF RegisterInv, SessionsFit
        <3> QED
            BY <3>1 DEF SessionFits, OnRequest
    <2> QED
        BY <2>1, <2>2
<1> QED
    BY <1>1, <1>2 DEF SessionsFit

LEMMA WriteStep ==
    ASSUME DestinationAssumption, RegisterInv, NEW e \in Editors, Write(e)
    PROVE  RegisterInv'
<1> DEFINE r == session[e].row
           write == session[e].write
<1>1. r \in Listed /\ write \in Columns
    BY DEF Write, RegisterInv, SessionsFit, SessionFits
<1>2. r \in Rows /\ row[r] \in Row /\ row \in [Rows -> Row \cup {Nil}]
    BY <1>1 DEF Listed, RegisterInv, RegisterTypes
<1>3. row' = [row EXCEPT ![r] = Updated(row[r], write)]
    BY <1>2 DEF Write
<1> HIDE DEF r, write
<1>4. Updated(row[r], write) \in Row
    BY <1>1, <1>2, UpdatedRow
<1>5. row' \in [Rows -> Row \cup {Nil}] /\ Listed' = Listed
    BY <1>1, <1>2, <1>3, <1>4 DEF Listed, DestinationAssumption
<1>6. Done(e) /\ Counted({}) /\ UNCHANGED <<linked, job>>
    BY DEF Write
<1>7. late' \in [Rows -> Nat] /\ LateFits'
    BY <1>6, QuietLate
<1>8. SessionsFit' /\ DOMAIN session' = Editors
    BY <1>5, <1>6, SessionEnds
<1>9. RegisterTypes' /\ JobsFit'
    BY <1>5, <1>6, <1>7, <1>8 DEF RegisterInv, RegisterTypes, JobsFit
<1> QED
    BY <1>7, <1>8, <1>9 DEF RegisterInv

LEMMA ListingStep ==
    ASSUME DestinationAssumption, RegisterInv, NEW e \in Editors, NEW r \in Rows,
           NEW o \in Offers, NEW writable \in BOOLEAN, Create(e, r, o, writable)
    PROVE  RegisterInv'
<1> DEFINE new == [enabled |-> o.enabled /\ writable,
                   permission |-> IF o.confirmed THEN "CONFIRMED" ELSE "UNVERIFIED",
                   grounds |-> o.grounds, term |-> o.term,
                   validated |-> writable, until |-> "RUNNING"]
<1>1. new \in Row
    BY DEF Offers, Row, Permission, Term
<1>2. row' = [row EXCEPT ![r] = IF ~Unique THEN Nil ELSE new] /\ r \notin Listed
    BY DEF Create
<1> HIDE DEF new
<1>3. row' \in [Rows -> Row \cup {Nil}] /\ Listed \subseteq Listed'
    BY <1>1, <1>2 DEF RegisterInv, RegisterTypes, Listed
<1>4. Done(e) /\ Counted({}) /\ UNCHANGED <<linked, job>>
    BY DEF Create
<1>5. late' \in [Rows -> Nat] /\ LateFits'
    BY <1>4, QuietLate
<1>6. SessionsFit' /\ DOMAIN session' = Editors
    BY <1>3, <1>4, SessionEnds
<1>7. RegisterTypes' /\ JobsFit'
    BY <1>3, <1>4, <1>5, <1>6 DEF RegisterInv, RegisterTypes, JobsFit
<1> QED
    BY <1>5, <1>6, <1>7 DEF RegisterInv

LEMMA TermStep ==
    ASSUME DestinationAssumption, RegisterInv, NEW r \in Rows, Expire(r)
    PROVE  RegisterInv'
<1>1. row[r] \in Row /\ row \in [Rows -> Row \cup {Nil}] /\ r \in Listed
    BY DEF Expire, Listed, RegisterInv, RegisterTypes
<1>2. PICK new \in Row : row' = [row EXCEPT ![r] = new]
    <2>1. CASE row' = [row EXCEPT ![r].term = "PAST"]
        <3>1. [row[r] EXCEPT !.term = "PAST"] \in Row
            BY <1>1 DEF Row, Term
        <3> QED
            BY <1>1, <2>1, <3>1
    <2>2. CASE row' = [row EXCEPT ![r].until = "PAST"]
        <3>1. [row[r] EXCEPT !.until = "PAST"] \in Row
            BY <1>1 DEF Row
        <3> QED
            BY <1>1, <2>2, <3>1
    <2> QED
        BY <2>1, <2>2 DEF Expire
<1>3. row' \in [Rows -> Row \cup {Nil}] /\ Listed' = Listed
    BY <1>1, <1>2 DEF Listed, DestinationAssumption
<1>4. Counted({}) /\ UNCHANGED <<linked, job, session>>
    BY DEF Expire
<1>5. late' \in [Rows -> Nat] /\ LateFits'
    BY <1>4, QuietLate
<1>6. SessionsFit'
    BY <1>3, <1>4 DEF RegisterInv, SessionsFit, SessionFits, OnRequest
<1>7. RegisterTypes' /\ JobsFit'
    BY <1>3, <1>4, <1>5 DEF RegisterInv, RegisterTypes, JobsFit
<1> QED
    BY <1>5, <1>6, <1>7 DEF RegisterInv

\* A destination that deliveries refer to stays.
LEMMA DeleteStep ==
    ASSUME DestinationAssumption, RegisterInv, NEW e \in Editors, Delete(e)
    PROVE  RegisterInv'
<1> DEFINE r == session[e].row
<1>1. r \in Listed /\ r \in Rows
    BY DEF Delete, Busy, RegisterInv, SessionsFit, SessionFits, Listed
<1>2. CASE \E j \in Jobs : job[j].row = r
    <2>1. Done(e) /\ UNCHANGED <<row, linked, late, job>>
        BY <1>2 DEF Delete
    <2>2. Listed' = Listed
        BY <2>1 DEF Listed
    <2>3. SessionsFit' /\ DOMAIN session' = Editors
        BY <2>1, <2>2, SessionEnds
    <2>4. RegisterTypes' /\ JobsFit' /\ LateFits'
        BY <2>1, <2>2, <2>3
        DEF RegisterInv, RegisterTypes, JobsFit, LateFits, Carriers, Open, Fresh
    <2> QED
        BY <2>3, <2>4 DEF RegisterInv
<1>3. CASE \A j \in Jobs : job[j].row # r
    <2>1. /\ row' = [row EXCEPT ![r] = Nil]
          /\ linked' = linked \ {r}
          /\ session' = [x \in Editors |-> IF session[x].row = r THEN NoSession ELSE session[x]]
          /\ late' = [late EXCEPT ![r] = 0]
          /\ UNCHANGED job
        BY <1>3 DEF Delete
    <2> HIDE DEF r
    <2>2. row' \in [Rows -> Row \cup {Nil}] /\ Listed' = Listed \ {r}
        BY <1>1, <2>1 DEF Listed, RegisterInv, RegisterTypes
    <2>3. late' \in [Rows -> Nat] /\ linked' \subseteq Listed'
        BY <1>1, <2>1, <2>2 DEF RegisterInv, RegisterTypes
    <2>4. RegisterTypes' /\ JobsFit'
        BY <1>3, <2>1, <2>2, <2>3 DEF RegisterInv, RegisterTypes, JobsFit
    <2>5. ASSUME NEW x \in Editors PROVE SessionFits(session[x])'
        <3>1. CASE session[x].row = r
            BY <2>1, <3>1 DEF SessionFits, NoSession
        <3>2. CASE session[x].row # r
            <4>1. SessionFits(session[x]) /\ session'[x] = session[x]
                BY <2>1, <3>2 DEF RegisterInv, SessionsFit
            <4> QED
                BY <2>2, <3>2, <4>1 DEF SessionFits, OnRequest
        <3> QED
            BY <3>1, <3>2
    <2>6. ASSUME NEW q \in Rows
          PROVE  /\ row'[q] # Nil /\ Open(row[q])' => late'[q] = 0
                 /\ late'[q] + Cardinality(Carriers(q)') <= Cardinality(Workers)
        <3>1. Carriers(q)' = Carriers(q)
            BY <2>1 DEF Carriers
        <3>2. /\ late[q] + Cardinality(Carriers(q)) <= Cardinality(Workers)
              /\ row[q] # Nil /\ Open(row[q]) => late[q] = 0
            BY DEF RegisterInv, LateFits
        <3>3. /\ Cardinality(Carriers(q)) \in Nat /\ Cardinality(Workers) \in Nat
              /\ Cardinality(Carriers(q)) <= Cardinality(Workers)
            BY CarriersCount
        <3>4. CASE q = r
            <4>1. row'[q] = Nil /\ late'[q] = 0
                BY <1>1, <2>1, <3>4 DEF RegisterInv, RegisterTypes
            <4> QED
                BY <3>1, <3>3, <4>1
        <3>5. CASE q # r
            <4>1. row'[q] = row[q] /\ late'[q] = late[q]
                BY <1>1, <2>1, <3>5 DEF RegisterInv, RegisterTypes
            <4> QED
                BY <3>1, <3>2, <4>1 DEF Open, Fresh
        <3> QED
            BY <3>4, <3>5
    <2> QED
        BY <2>4, <2>5, <2>6 DEF RegisterInv, SessionsFit, LateFits
<1> QED
    BY <1>2, <1>3

\* What campaigns and deliveries do leaves rows and calls alone, but for a delivery sent.
LEMMA JobStep ==
    ASSUME DestinationAssumption, RegisterInv, NEW j \in Jobs, NEW new \in JobRow,
           job' = [job EXCEPT ![j] = new], UNCHANGED <<row, linked, session, late>>,
           new.row \in Listed, new.status # "NONE",
           new.by # Nil => /\ new.status = "TAKEN"
                           /\ new.row = job[j].row /\ Open(row[new.row])
                           /\ \A k \in Jobs : job[k].by # new.by
    PROVE  RegisterInv'
<1>1. job \in [Jobs -> JobRow] /\ job' \in [Jobs -> JobRow] /\ job'[j] = new
      /\ \A k \in Jobs : k # j => job'[k] = job[k]
    BY DEF RegisterInv, RegisterTypes
<1>2. Listed' = Listed
    BY DEF Listed
<1>3. RegisterTypes' /\ SessionsFit'
    BY <1>1, <1>2 DEF RegisterInv, RegisterTypes, SessionsFit, SessionFits, OnRequest
<1>4. JobsFit'
    BY <1>1, <1>2 DEF RegisterInv, JobsFit
<1>5. ASSUME NEW q \in Rows
      PROVE  late[q] + Cardinality(Carriers(q)') <= Cardinality(Workers)
    <2>1. Carriers(q)' \subseteq Workers
        BY DEF Carriers
    <2>2. /\ Cardinality(Carriers(q)) \in Nat /\ Cardinality(Workers) \in Nat
          /\ Cardinality(Carriers(q)') \in Nat
          /\ Cardinality(Carriers(q)') <= Cardinality(Workers)
        BY <2>1, CarriersCount, FS_Subset, FS_CardinalityType DEF DestinationAssumption
    <2>3. late[q] \in Nat /\ late[q] + Cardinality(Carriers(q)) <= Cardinality(Workers)
        BY DEF RegisterInv, RegisterTypes, LateFits
    <2>4. CASE new.by # Nil /\ q = new.row
        <3>1. row[q] # Nil /\ Open(row[q])
            BY <2>4 DEF Listed
        <3>2. late[q] = 0
            BY <3>1 DEF RegisterInv, LateFits
        <3> QED
            BY <2>2, <3>2
    <2>5. CASE ~(new.by # Nil /\ q = new.row)
        <3>1. Carriers(q)' \subseteq Carriers(q)
            BY <1>1, <2>5 DEF Carriers, DestinationAssumption
        <3>2. Cardinality(Carriers(q)') <= Cardinality(Carriers(q))
            BY <3>1, CarriersCount, FS_Subset
        <3> QED
            BY <2>2, <2>3, <3>2
    <2> QED
        BY <2>4, <2>5
<1>6. LateFits'
    BY <1>5 DEF RegisterInv, LateFits, Open, Fresh
<1> QED
    BY <1>3, <1>4, <1>6 DEF RegisterInv

LEMMA QueueStep ==
    ASSUME DestinationAssumption, RegisterInv, NEW j \in Jobs, NEW r \in Rows,
           Queue(j, r) \/ Retry(j)
    PROVE  RegisterInv'
<1>1. job \in [Jobs -> JobRow] /\ linked \subseteq Listed
    BY DEF RegisterInv, RegisterTypes
<1>2. CASE Queue(j, r)
    <2> DEFINE new == [row |-> r, status |-> "QUEUED", by |-> Nil]
    <2>1. /\ new \in JobRow /\ new.row \in Listed /\ new.status # "NONE" /\ new.by = Nil
          /\ job' = [job EXCEPT ![j] = new] /\ UNCHANGED <<row, linked, session, late>>
        BY <1>1, <1>2 DEF Queue, JobRow
    <2> HIDE DEF new
    <2> QED
        BY <2>1, JobStep
<1>3. CASE Retry(j)
    <2> DEFINE new == [job[j] EXCEPT !.status = "QUEUED"]
    <2>1. job[j].row \in Listed /\ job[j].by = Nil
        BY <1>3 DEF Retry, RegisterInv, JobsFit
    <2>2. /\ new \in JobRow /\ new.row \in Listed /\ new.status # "NONE" /\ new.by = Nil
          /\ job' = [job EXCEPT ![j] = new] /\ UNCHANGED <<row, linked, session, late>>
        BY <1>1, <1>3, <2>1 DEF Retry, JobRow
    <2> HIDE DEF new
    <2> QED
        BY <2>2, JobStep
<1> QED
    BY <1>2, <1>3

LEMMA TakeStep ==
    ASSUME DestinationAssumption, RegisterInv, NEW w \in Workers, NEW j \in Jobs, Take(w, j)
    PROVE  RegisterInv'
<1>1. /\ job \in [Jobs -> JobRow] /\ w # Nil /\ UNCHANGED <<row, linked, session, late>>
      /\ \A k \in Jobs : job[k].by # w
    BY DEF RegisterInv, RegisterTypes, Take, DestinationAssumption
<1>2. job[j].row \in Listed /\ job[j].by = Nil
    BY DEF Take, RegisterInv, JobsFit
<1>3. CASE Admitted(j)
    <2> DEFINE new == [job[j] EXCEPT !.status = "TAKEN", !.by = w]
    <2>1. /\ new \in JobRow /\ new.row = job[j].row /\ new.status = "TAKEN" /\ new.by = w
          /\ job' = [job EXCEPT ![j] = new]
        BY <1>1, <1>3 DEF Take, JobRow
    <2> HIDE DEF new
    <2>2. Open(row[new.row])
        BY <1>3, <2>1 DEF Admitted
    <2> QED
        BY <1>1, <1>2, <2>1, <2>2, JobStep
<1>4. CASE ~Admitted(j)
    <2> DEFINE new == [job[j] EXCEPT !.status = "REVIEW"]
    <2>1. /\ new \in JobRow /\ new.row = job[j].row /\ new.status = "REVIEW" /\ new.by = Nil
          /\ job' = [job EXCEPT ![j] = new]
        BY <1>1, <1>2, <1>4 DEF Take, JobRow
    <2> HIDE DEF new
    <2> QED
        BY <1>1, <1>2, <2>1, JobStep
<1> QED
    BY <1>3, <1>4

\* Every message sent to what is closed ends a holding: the sum does not grow.
LEMMA SendStep ==
    ASSUME DestinationAssumption, RegisterInv, NEW w \in Workers, NEW j \in Jobs,
           NEW answer \in {"taken", "failed", "forbidden"}, Send(w, j, answer)
    PROVE  RegisterInv'
<1> DEFINE r == job[j].row
           denied == [row[r] EXCEPT !.enabled = FALSE, !.permission = "DENIED"]
<1>1. job[j].by = w /\ w # Nil /\ job[j].status = "TAKEN"
    BY DEF Send, DestinationAssumption, RegisterInv, JobsFit
<1>2. r \in Listed /\ r \in Rows /\ row[r] \in Row
    BY <1>1 DEF RegisterInv, JobsFit, Listed, RegisterTypes
<1>3. /\ job' = [job EXCEPT ![j] = [row |-> r, status |-> "OVER", by |-> Nil]]
      /\ Counted({r}) /\ UNCHANGED <<linked, session>>
    BY DEF Send
<1>4. row' \in {row, [row EXCEPT ![r] = denied]}
    <2>1. row' = row \/ row' = [row EXCEPT ![r].enabled = FALSE, ![r].permission = "DENIED"]
        BY DEF Send
    <2>2. [row EXCEPT ![r].enabled = FALSE, ![r].permission = "DENIED"]
              = [row EXCEPT ![r] = denied]
        BY <1>2 DEF RegisterInv, RegisterTypes, Row
    <2> QED
        BY <2>1, <2>2
<1>5. denied \in Row
    BY <1>2 DEF Row, Permission
<1> HIDE DEF r, denied
<1>6. row' \in [Rows -> Row \cup {Nil}] /\ Listed' = Listed
    BY <1>2, <1>4, <1>5 DEF Listed, DestinationAssumption, RegisterInv, RegisterTypes
<1>7. /\ job \in [Jobs -> JobRow] /\ job' \in [Jobs -> JobRow]
      /\ job'[j] = [row |-> r, status |-> "OVER", by |-> Nil]
      /\ \A k \in Jobs : k # j => job'[k] = job[k]
    BY <1>2, <1>3 DEF RegisterInv, RegisterTypes, JobRow
<1>8. JobsFit' /\ SessionsFit'
    BY <1>2, <1>3, <1>6, <1>7
    DEF RegisterInv, JobsFit, SessionsFit, SessionFits, OnRequest
<1>9. ASSUME NEW q \in Rows
      PROVE  /\ late'[q] = IF row'[q] # Nil /\ Open(row'[q]) THEN 0
                           ELSE late[q] + (IF q \in {r} /\ Closed(q) THEN 1 ELSE 0)
             /\ late[q] \in Nat /\ late'[q] \in Nat
    BY <1>3 DEF Counted, RegisterInv, RegisterTypes
<1>10. RegisterTypes'
    <2>1. late' \in [Rows -> Nat]
        BY <1>3, <1>9 DEF Counted
    <2> QED
        BY <1>3, <1>6, <1>7, <2>1 DEF RegisterInv, RegisterTypes
<1>11. ASSUME NEW q \in Rows
       PROVE  late'[q] + Cardinality(Carriers(q)') <= Cardinality(Workers)
    <2>1. late[q] + Cardinality(Carriers(q)) <= Cardinality(Workers)
        BY DEF RegisterInv, LateFits
    <2>2. /\ Cardinality(Carriers(q)) \in Nat /\ Cardinality(Workers) \in Nat
          /\ Carriers(q) \subseteq Workers /\ IsFiniteSet(Carriers(q))
        BY CarriersCount
    <2>3. CASE q = r
        <3>1. Carriers(q)' \subseteq Carriers(q) \ {w}
            BY <1>1, <1>7, <2>3 DEF Carriers, DestinationAssumption, RegisterInv, JobsFit
        <3>2. w \in Carriers(q)
            BY <1>1, <2>3 DEF Carriers, r
        <3>3. /\ IsFiniteSet(Carriers(q) \ {w})
              /\ Cardinality(Carriers(q) \ {w}) = Cardinality(Carriers(q)) - 1
            BY <2>2, <3>2, FS_RemoveElement
        <3>4. /\ Cardinality(Carriers(q)') <= Cardinality(Carriers(q) \ {w})
              /\ Cardinality(Carriers(q)') \in Nat
            BY <3>1, <3>3, FS_Subset, FS_CardinalityType
        <3>5. late'[q] <= late[q] + 1
            BY <1>9
        <3> QED
            BY <1>9, <2>1, <2>2, <3>3, <3>4, <3>5
    <2>4. CASE q # r
        <3>1. Carriers(q)' \subseteq Carriers(q)
            BY <1>7, <2>4 DEF Carriers
        <3>2. /\ Cardinality(Carriers(q)') <= Cardinality(Carriers(q))
              /\ Cardinality(Carriers(q)') \in Nat
            BY <2>2, <3>1, FS_Subset, FS_CardinalityType
        <3>3. late'[q] <= late[q]
            BY <1>9, <2>4
        <3> QED
            BY <1>9, <2>1, <2>2, <3>2, <3>3
    <2> QED
        BY <2>3, <2>4
<1>12. ASSUME NEW q \in Rows PROVE row'[q] # Nil /\ Open(row[q])' => late'[q] = 0
    BY <1>9 DEF Open, Fresh
<1>13. LateFits'
    BY <1>11, <1>12 DEF LateFits
<1> QED
    BY <1>8, <1>10, <1>13 DEF RegisterInv

LEMMA LinkStep ==
    ASSUME RegisterInv, NEW r \in Rows, Link(r)
    PROVE  RegisterInv'
<1>1. linked' \subseteq Listed /\ UNCHANGED <<row, job, session, late>>
    BY DEF Link, RegisterInv, RegisterTypes
<1> QED
    BY <1>1 DEF RegisterInv, RegisterTypes, JobsFit, SessionsFit, SessionFits, OnRequest,
                LateFits, Carriers, Listed, Open, Fresh

LEMMA RegisterStep ==
    ASSUME DestinationAssumption, RegisterInv, [DestinationNext]_destinationVars
    PROVE  RegisterInv'
<1>1. CASE \E e \in Editors : Call(e)
    <2> PICK e \in Editors : Call(e)
        BY <1>1
    <2>1. CASE Write(e) \/ Delete(e)
        BY <2>1, WriteStep, DeleteStep
    <2>2. CASE CreateCheck(e)
        <3>1. Begin(e, "create", Nil, {}, Nil)
            BY <2>2 DEF CreateCheck
        <3>2. SessionFits([op |-> "create", row |-> Nil, asks |-> {}, write |-> Nil])
            BY DEF SessionFits
        <3> QED
            BY <3>1, <3>2, SessionBegins
    <2>3. ASSUME NEW r \in Rows,
                 \/ CheckRead(e, r) \/ DeleteCheck(e, r)
                 \/ \E p \in Requests : PatchRead(e, r, p)
          PROVE  RegisterInv'
        BY <2>3, ReadStep
    <2>4. ASSUME NEW r \in Rows, NEW o \in Offers, NEW writable \in BOOLEAN,
                 Create(e, r, o, writable)
          PROVE  RegisterInv'
        BY <2>4, ListingStep
    <2> QED
        BY <2>1, <2>2, <2>3, <2>4 DEF Call
<1>2. CASE \E r \in Rows : Link(r) \/ Expire(r)
    BY <1>2, LinkStep, TermStep
<1>3. CASE \E j \in Jobs : Retry(j) \/ \E r \in Rows : Queue(j, r)
    <2>1. ASSUME NEW j \in Jobs, NEW r \in Rows, Queue(j, r) PROVE RegisterInv'
        BY <2>1, QueueStep
    <2>2. ASSUME NEW j \in Jobs, Retry(j) PROVE RegisterInv'
        <3>1. PICK r \in Rows : TRUE
            BY <2>2 DEF Retry, RegisterInv, JobsFit, Listed
        <3> QED
            BY <2>2, <3>1, QueueStep
    <2> QED
        BY <1>3, <2>1, <2>2
<1>4. CASE \E w \in Workers, j \in Jobs :
               Take(w, j) \/ \E answer \in {"taken", "failed", "forbidden"} : Send(w, j, answer)
    BY <1>4, TakeStep, SendStep
<1>5. CASE UNCHANGED destinationVars
    BY SMTT(40), <1>5
       DEF destinationVars, RegisterInv, RegisterTypes, JobsFit, SessionsFit, SessionFits,
           OnRequest, LateFits, Carriers, Listed, Open, Fresh
<1> QED
    BY <1>1, <1>2, <1>3, <1>4, <1>5 DEF DestinationNext

\* The register, the calls in progress and the deliveries fit each other at every moment.
THEOREM RegisterInvariant == DestinationSpec => []RegisterInv
<1>1. DestinationInit => RegisterInv
    BY InitRegister, DestinationAssumption
<1>2. RegisterInv /\ [DestinationNext]_destinationVars => RegisterInv'
    BY RegisterStep, DestinationAssumption
<1> QED
    BY <1>1, <1>2, PTL DEF DestinationSpec

\* A destination closed to publishing gets at most the messages that workers had taken up
\* before, for any number of workers, operators and destinations
\* (app/services/safety.py:233).
THEOREM ClosedGetsNoMore == DestinationSpec => []ClosedMeansNoMore
<1>1. RegisterInv => ClosedMeansNoMore
    <2>1. ASSUME RegisterInv, NEW r \in Rows PROVE late[r] <= Cardinality(Workers)
        <3>1. /\ late[r] \in Nat /\ late[r] + Cardinality(Carriers(r)) <= Cardinality(Workers)
            BY <2>1 DEF RegisterInv, RegisterTypes, LateFits
        <3>2. Cardinality(Carriers(r)) \in Nat /\ Cardinality(Workers) \in Nat
            BY CarriersCount, DestinationAssumption
        <3> QED
            BY <3>1, <3>2
    <2> QED
        BY <2>1 DEF ClosedMeansNoMore
<1> QED
    BY <1>1, RegisterInvariant, PTL

-----------------------------------------------------------------------------
Returned ==
    \A r \in Rows : (row[r] # Nil /\ row'[r] # Nil) =>
        /\ row'[r].enabled => row[r].enabled \/ Asked(r, "enabled")
        /\ row'[r].permission = "CONFIRMED" =>
              row[r].permission = "CONFIRMED" \/ Asked(r, "permission")

LEMMA ReturnedStep ==
    ASSUME DestinationAssumption, RegisterInv, [DestinationNext]_destinationVars
    PROVE  Returned
<1> SUFFICES ASSUME NEW r \in Rows, row[r] # Nil, row'[r] # Nil
             PROVE  /\ row'[r].enabled => row[r].enabled \/ Asked(r, "enabled")
                    /\ row'[r].permission = "CONFIRMED" =>
                          row[r].permission = "CONFIRMED" \/ Asked(r, "permission")
    BY DEF Returned
<1>1. row[r] \in Row /\ row \in [Rows -> Row \cup {Nil}] /\ r \in Listed
    BY DEF RegisterInv, RegisterTypes, Listed
<1>2. CASE row'[r] = row[r]
    BY <1>2
<1>3. CASE \E e \in Editors : Write(e)
    <2> PICK e \in Editors : Write(e)
        BY <1>3
    <2> DEFINE write == session[e].write
    <2>1. /\ session[e].row \in Listed /\ write \in Columns
          /\ OnRequest(write, session[e].asks)
          /\ session'[e] = NoSession
        BY DEF Write, Done, RegisterInv, RegisterTypes, SessionsFit, SessionFits
    <2>2. row' = [row EXCEPT ![session[e].row] = Updated(row[session[e].row], write)]
        BY <1>1, <2>1 DEF Write, Listed
    <2>3. CASE session[e].row = r
        <3>1. row'[r] = Updated(row[r], write)
            BY <1>1, <2>2, <2>3
        <3>2. /\ row'[r].enabled = Kept(write.enabled, row[r].enabled)
              /\ row'[r].permission = Kept(write.permission, row[r].permission)
            BY <1>1, <2>1, <3>1, UpdatedRow
        <3> HIDE DEF write
        <3>3. row[r].enabled \in BOOLEAN /\ row'[r].enabled \in BOOLEAN
            BY <1>1, <2>1, <3>2 DEF Row, Kept, Columns
        <3>4. row'[r].enabled = TRUE /\ row[r].enabled # TRUE => "enabled" \in session[e].asks
            BY <2>1, <3>2 DEF Kept, OnRequest
        <3>5. row'[r].permission = "CONFIRMED" /\ row[r].permission # "CONFIRMED"
                  => "permission" \in session[e].asks
            BY <2>1, <3>2 DEF Kept, OnRequest
        <3>6. \A c : c \in session[e].asks => Asked(r, c)
            BY <2>1, <2>3 DEF Asked
        <3> QED
            BY <3>3, <3>4, <3>5, <3>6
    <2>4. CASE session[e].row # r
        BY <1>2, <2>2, <2>4
    <2> QED
        BY <2>3, <2>4
<1>4. CASE \E w \in Workers, j \in Jobs, answer \in {"taken", "failed", "forbidden"} :
               Send(w, j, answer)
    <2> PICK w \in Workers, j \in Jobs, answer \in {"taken", "failed", "forbidden"} :
             Send(w, j, answer)
        BY <1>4
    <2>1. row'[r] = row[r] \/ (row'[r].enabled = FALSE /\ row'[r].permission = "DENIED")
        BY <1>1 DEF Send, Row
    <2> QED
        BY <1>2, <2>1
<1>5. CASE \E q \in Rows : Expire(q)
    <2>1. row'[r].enabled = row[r].enabled /\ row'[r].permission = row[r].permission
        BY <1>1, <1>5 DEF Expire, Row
    <2> QED
        BY <2>1
<1>6. CASE \E e \in Editors, q \in Rows, o \in Offers, writable \in BOOLEAN :
               Create(e, q, o, writable)
    BY <1>1, <1>2, <1>6 DEF Create
<1>7. CASE \E e \in Editors : Delete(e)
    <2>1. row'[r] = row[r]
        BY <1>1, <1>7 DEF Delete
    <2> QED
        BY <1>2, <2>1
<1>8. CASE \E e \in Editors, q \in Rows :
               \/ CheckRead(e, q) \/ DeleteCheck(e, q) \/ CreateCheck(e)
               \/ \E p \in Requests : PatchRead(e, q, p)
    BY <1>2, <1>8 DEF CheckRead, DeleteCheck, CreateCheck, PatchRead, Begin
<1>9. CASE \/ \E q \in Rows : Link(q)
           \/ \E j \in Jobs : Retry(j) \/ \E q \in Rows : Queue(j, q)
           \/ \E w \in Workers, j \in Jobs : Take(w, j)
    BY <1>2, <1>9 DEF Link, Retry, Queue, Take
<1>10. CASE UNCHANGED destinationVars
    BY <1>2, <1>10 DEF destinationVars
<1> QED
    BY <1>3, <1>4, <1>5, <1>6, <1>7, <1>8, <1>9, <1>10 DEF DestinationNext, Call

\* A permission, and a destination that is off, comes back only by a request for that: what
\* was read before a withdrawal does not undo it (app/api/destinations.py:806).
THEOREM WithdrawalsHold == DestinationSpec => ReturnsOnRequest
<1>1. RegisterInv /\ [DestinationNext]_destinationVars => [Returned]_destinationVars
    BY ReturnedStep, DestinationAssumption
<1> QED
    BY <1>1, RegisterInvariant, PTL DEF DestinationSpec, ReturnsOnRequest, Returned

-----------------------------------------------------------------------------
(***************************************************************************)
(* The pace of messages.                                                   *)
(***************************************************************************)

\* A day of the clock, and the order of days.
LEMMA DayOfHour ==
    ASSUME PacingAssumption, NEW t \in Int
    PROVE  /\ DayOf(t) \in Int /\ HoursPerDay \in Nat \ {0}
           /\ DayOf(t) * HoursPerDay <= t /\ t < (DayOf(t) + 1) * HoursPerDay
    BY DEF DayOf, PacingAssumption

LEMMA DaysInOrder ==
    ASSUME PacingAssumption, NEW s \in Int, NEW t \in Int, s <= t
    PROVE  DayOf(s) <= DayOf(t)
<1> DEFINE d == DayOf(s)
           e == DayOf(t)
           h == HoursPerDay
<1>1. /\ d \in Int /\ e \in Int /\ h \in Nat \ {0}
      /\ d * h <= s /\ t < (e + 1) * h
    BY DayOfHour
<1> HIDE DEF d, e, h
<1>2. ASSUME e < d PROVE FALSE
    <2>1. ASSUME NEW a \in Int, NEW b \in Int, a <= b PROVE a * h <= b * h
        BY <1>1, <2>1
    <2>2. e + 1 \in Int /\ e + 1 <= d
        BY <1>1, <1>2
    <2>3. (e + 1) * h <= d * h
        BY <1>1, <2>1, <2>2
    <2>4. (e + 1) * h \in Int /\ d * h \in Int
        BY <1>1
    <2> QED
        BY <1>1, <2>3, <2>4
<1> QED
    BY <1>1, <1>2 DEF d, e

\* Numbers have a least one.
LEMMA LeastNumber ==
    ASSUME NEW S \in SUBSET Nat, S # {}
    PROVE  Min(S) \in S /\ \A y \in S : Min(S) <= y
<1>1. IsWellFoundedOn(OpToRel(<, Nat), Nat)
    BY NatLessThanWellFounded, Zenon
<1>2. PICK x \in S : \A y \in S : ~(<<y, x>> \in OpToRel(<, Nat))
    BY <1>1, WFMin, Zenon
<1>3. \A y \in S : ~(y < x)
    BY <1>2, Zenon DEF OpToRel
<1>4. \A y \in S : x <= y
    BY <1>3
<1> QED
    BY <1>4 DEF Min

\* A window that is closed opens later.
LEMMA OpeningIsLater ==
    ASSUME PacingAssumption, NEW w \in WindowChoices, NEW t \in Nat
    PROVE  NextOpening(w, t) > t
<1> DEFINE local == t + w.zone
           days == {day \in DayOf(local) .. DayOf(local) + DaysPerWeek + 1 : OnDay(w, day)}
           openings == {Opens(w, day) : day \in days}
           later == {o \in openings : o > local}
<1>1. /\ w \in Window /\ HoursPerDay \in Nat \ {0} /\ DaysPerWeek \in Nat \ {0}
    BY DEF PacingAssumption
<1>2. w.zone \in Nat /\ w.from \in Int
    BY <1>1 DEF Window, Hours, AnyTime
<1>3. local \in Nat /\ DayOf(local) \in Int
    BY <1>2, DayOfHour
<1>4. NextOpening(w, t) = IF later = {} THEN t + DaysPerWeek * HoursPerDay
                          ELSE Min(later) - w.zone
    BY DEF NextOpening
<1>5. later \subseteq Nat
    <2>1. ASSUME NEW day \in Int PROVE Opens(w, day) \in Int
        BY <1>1, <1>2, <2>1 DEF Opens
    <2>2. \A day \in days : day \in Int
        BY <1>1, <1>3
    <2>3. \A o \in later : o \in Int /\ o > local
        BY <2>1, <2>2
    <2> HIDE DEF later, local
    <2> QED
        BY <1>3, <2>3
<1> HIDE DEF later
<1>6. CASE later = {}
    <2>1. DaysPerWeek * HoursPerDay \in Nat /\ DaysPerWeek * HoursPerDay > 0
        BY <1>1
    <2> QED
        BY <1>4, <1>6, <2>1
<1>7. CASE later # {}
    <2>1. Min(later) \in later
        BY <1>5, <1>7, LeastNumber
    <2>2. Min(later) \in Nat /\ Min(later) > local
        BY <1>5, <2>1 DEF later
    <2> QED
        BY <1>2, <1>4, <1>7, <2>2
<1> QED
    BY <1>6, <1>7

\* Messages that stand in the way of another: those the worker has seen sent.
PacingTypes ==
    /\ clock \in Nat /\ clock >= FirstHour /\ lastSend \in Nat
    /\ window \in [Groups -> WindowChoices] /\ restUntil \in [Groups -> Nat]
    /\ lastSend <= clock /\ \A g \in Groups : restUntil[g] <= clock + Cooldown
    /\ DOMAIN message = Messages
    /\ \A m \in Messages :
          /\ DOMAIN message[m] = {"status", "due", "at", "seen"}
          /\ message[m].at \in Nat /\ message[m].seen \in BOOLEAN
          /\ message[m].seen => message[m].status = "SENT"

OneInFlight == \A m, x \in InFlightNow : m = x

\* The rests of the connection and of the destination cover every message seen sent.
RestsCover ==
    \A x \in Acknowledged :
        /\ FirstHour <= message[x].at /\ message[x].at <= clock
        /\ message[x].at <= lastSend
        /\ message[x].at + Cooldown <= restUntil[GroupOf[x]]

\* A message may be sent at hour t, as far as those seen sent are concerned.
SameDay(t) == {x \in Acknowledged : DayOf(message[x].at) = DayOf(t)}

Spread(m, x, t) ==
    /\ message[x].at + MinInterval <= t
    /\ GroupOf[x] = GroupOf[m] => message[x].at + Cooldown <= t
    /\ (GroupOf[x] = GroupOf[m] /\ TextOf[x] = TextOf[m] /\ GuardHours > 0) =>
          message[x].at + GuardHours < t

Clear(m, t) ==
    /\ \A x \in Acknowledged : Spread(m, x, t)
    /\ Cardinality(SameDay(t)) < DailyCap

InFlightIsClear == \A m \in InFlightNow : Clear(m, clock)

PacingInv ==
    PacingTypes /\ OneInFlight /\ RestsCover /\ InFlightIsClear /\ AcknowledgedAreSpread

-----------------------------------------------------------------------------
LEMMA PacingConstants ==
    ASSUME PacingAssumption
    PROVE  /\ HoursPerDay \in Nat \ {0} /\ FirstHour \in Nat \ {0}
           /\ MinInterval \in Nat /\ Cooldown \in Nat /\ DailyCap \in Nat
           /\ GuardHours \in Nat /\ IsFiniteSet(Messages)
           /\ \A m \in Messages : GroupOf[m] \in Groups
    BY DEF PacingAssumption

LEMMA CountsOfMessages ==
    ASSUME PacingAssumption, NEW S, S \subseteq Messages
    PROVE  /\ IsFiniteSet(S) /\ Cardinality(S) \in Nat
           /\ \A T : T \subseteq S => Cardinality(T) \in Nat /\ Cardinality(T) <= Cardinality(S)
<1>1. IsFiniteSet(S)
    BY PacingConstants, FS_Subset
<1>2. ASSUME NEW T, T \subseteq S
      PROVE  Cardinality(T) \in Nat /\ Cardinality(T) <= Cardinality(S)
    <2>1. IsFiniteSet(T) /\ Cardinality(T) <= Cardinality(S)
        BY <1>1, <1>2, FS_Subset
    <2> QED
        BY <2>1, FS_CardinalityType
<1>3. Cardinality(S) \in Nat
    BY <1>1, FS_CardinalityType
<1> QED
    BY <1>1, <1>2, <1>3

LEMMA InitPacing == ASSUME PacingAssumption, PacingInit PROVE PacingInv
<1>1. Acknowledged = {} /\ InFlightNow = {}
    BY DEF PacingInit, Acknowledged, Sent, InFlightNow
<1>2. PacingTypes
    <2>1. ASSUME NEW m \in Messages
          PROVE  /\ DOMAIN message[m] = {"status", "due", "at", "seen"}
                 /\ message[m].at \in Nat /\ message[m].seen = FALSE
        <3> DEFINE new == [status |-> "PENDING", due |-> FirstHour, at |-> 0, seen |-> FALSE]
        <3>1. message[m] = new
            BY DEF PacingInit
        <3>2. new.at = 0 /\ new.seen = FALSE
            OBVIOUS
        <3>3. DOMAIN new = {"status", "due", "at", "seen"}
            BY Zenon
        <3> QED
            BY <3>1, <3>2, <3>3
    <2>2. /\ clock \in Nat /\ clock >= FirstHour /\ lastSend \in Nat
          /\ window \in [Groups -> WindowChoices] /\ DOMAIN message = Messages
        BY PacingConstants DEF PacingInit
    <2>3. /\ restUntil \in [Groups -> Nat] /\ lastSend <= clock
          /\ \A g \in Groups : restUntil[g] <= clock + Cooldown
        BY PacingConstants DEF PacingInit
    <2> QED
        BY <2>1, <2>2, <2>3 DEF PacingTypes
<1>3. OneInFlight /\ RestsCover /\ InFlightIsClear
    BY <1>1 DEF OneInFlight, RestsCover, InFlightIsClear
<1>4. AcknowledgedAreSpread
    <2>1. \A day : day \notin {DayOf(message[m].at) : m \in Acknowledged}
        BY <1>1
    <2> QED
        BY <1>1, <2>1 DEF AcknowledgedAreSpread
<1> QED
    BY <1>2, <1>3, <1>4 DEF PacingInv

\* What leaves the messages seen sent as they are, and takes only what may go, keeps the pace.
LEMMA QuietStep ==
    ASSUME PacingAssumption, PacingInv, PacingTypes', Acknowledged' = Acknowledged,
           \A x \in Acknowledged : message'[x].at = message[x].at,
           clock' = clock, OneInFlight', \A m \in InFlightNow' : Clear(m, clock),
           lastSend' >= lastSend, \A g \in Groups : restUntil'[g] >= restUntil[g]
    PROVE  PacingInv'
<1>1. Acknowledged \subseteq Messages
    BY DEF Acknowledged, Sent
<1>2. RestsCover'
    <2>1. ASSUME NEW x \in Acknowledged
          PROVE  /\ message'[x].at = message[x].at /\ message[x].at \in Nat
                 /\ FirstHour <= message[x].at /\ message[x].at <= clock
                 /\ message[x].at <= lastSend'
                 /\ message[x].at + Cooldown <= restUntil'[GroupOf[x]]
        <3>1. /\ message[x].at \in Nat /\ GroupOf[x] \in Groups
              /\ lastSend \in Nat /\ lastSend' \in Nat
            BY <1>1, PacingConstants DEF PacingInv, PacingTypes
        <3>2. restUntil[GroupOf[x]] \in Nat /\ restUntil'[GroupOf[x]] \in Nat
              /\ restUntil'[GroupOf[x]] >= restUntil[GroupOf[x]] /\ Cooldown \in Nat
            BY <3>1, PacingConstants DEF PacingInv, PacingTypes
        <3>3. /\ FirstHour <= message[x].at /\ message[x].at <= clock
              /\ message[x].at <= lastSend
              /\ message[x].at + Cooldown <= restUntil[GroupOf[x]]
            BY DEF PacingInv, RestsCover
        <3> QED
            BY <3>1, <3>2, <3>3
    <2> QED
        BY <2>1 DEF RestsCover
<1>3. InFlightIsClear'
    <2>1. ASSUME NEW m \in InFlightNow' PROVE Clear(m, clock)'
        <3>1. Clear(m, clock)
            BY <2>1
        <3>2. SameDay(clock)' = SameDay(clock)
            BY DEF SameDay
        <3> QED
            BY <3>1, <3>2 DEF Clear, Spread
    <2> QED
        BY <2>1 DEF InFlightIsClear
<1>4. AcknowledgedAreSpread'
    <2>1. AcknowledgedAreSpread
        BY DEF PacingInv
    <2>2. \A day : {m \in Acknowledged : DayOf(message'[m].at) = day}
                      = {m \in Acknowledged : DayOf(message[m].at) = day}
        OBVIOUS
    <2>3. {DayOf(message'[m].at) : m \in Acknowledged}
              = {DayOf(message[m].at) : m \in Acknowledged}
        OBVIOUS
    <2>4. \A day \in {DayOf(message'[m].at) : m \in Acknowledged} :
              Cardinality({m \in Acknowledged : DayOf(message'[m].at) = day}) <= DailyCap
        BY <2>1, <2>2, <2>3 DEF AcknowledgedAreSpread
    <2>5. \A x \in Acknowledged : \A y \in Acknowledged \ {x} :
              message'[x].at <= message'[y].at =>
                  /\ message'[y].at >= message'[x].at + MinInterval
                  /\ GroupOf[x] = GroupOf[y] => message'[y].at >= message'[x].at + Cooldown
                  /\ (GroupOf[x] = GroupOf[y] /\ TextOf[x] = TextOf[y] /\ GuardHours > 0) =>
                        message'[y].at > message'[x].at + GuardHours
        BY <2>1 DEF AcknowledgedAreSpread
    <2> QED
        BY <2>4, <2>5 DEF AcknowledgedAreSpread
<1> QED
    BY <1>2, <1>3, <1>4 DEF PacingInv

\* A message that is taken may go: all rules have been asked.
LEMMA TakenIsClear ==
    ASSUME PacingAssumption, PacingInv, NEW m \in Messages, Ready(m),
           ~(~InBlackout(GroupOf[m], clock) /\ Repeats(m)), ~(TryAt(m) > clock)
    PROVE  Clear(m, clock)
<1> DEFINE g == GroupOf[m]
<1>1. g \in Groups /\ clock \in Nat /\ restUntil[g] \in Nat /\ lastSend \in Nat
      /\ window[g] \in WindowChoices /\ MinInterval \in Nat
    BY PacingConstants DEF PacingInv, PacingTypes
<1>2. ~InBlackout(g, clock)
    BY DEF TryAt, InBlackout
<1>3. InWindow(window[g], clock)
    BY <1>1, <1>2, OpeningIsLater DEF TryAt
<1>4. ~(restUntil[g] > clock)
    BY <1>2, <1>3 DEF TryAt
<1>5. ~(lastSend # 0 /\ lastSend + MinInterval > clock)
    BY <1>2, <1>3, <1>4 DEF TryAt
<1>6. ~(Cardinality(SentToday) >= DailyCap)
    <2> DEFINE midnight == (DayOf(clock) + 1) * HoursPerDay
    <2>1. midnight \in Int /\ clock < midnight
        BY <1>1, DayOfHour
    <2>2. Cardinality(SentToday) >= DailyCap => TryAt(m) = midnight
        BY <1>2, <1>3, <1>4, <1>5 DEF TryAt
    <2> HIDE DEF midnight
    <2> QED
        BY <1>1, <2>1, <2>2
<1>7. ~Repeats(m)
    BY <1>1, <1>2
<1>8. ASSUME NEW x \in Acknowledged PROVE Spread(m, x, clock)
    <2>1. x \in Sent /\ x \in Messages /\ x # m
        BY DEF Acknowledged, Sent, Ready
    <2>2. message[x].at \in Nat /\ FirstHour \in Nat \ {0} /\ Cooldown \in Nat
          /\ GuardHours \in Nat
        BY <2>1, PacingConstants DEF PacingInv, PacingTypes
    <2>3. /\ FirstHour <= message[x].at /\ message[x].at <= lastSend
          /\ message[x].at + Cooldown <= restUntil[GroupOf[x]]
        BY DEF PacingInv, RestsCover
    <2>4. message[x].at + MinInterval <= clock
        BY <1>1, <1>5, <2>2, <2>3
    <2>5. GroupOf[x] = g => message[x].at + Cooldown <= clock
        BY <1>1, <1>4, <2>2, <2>3
    <2>6. (GroupOf[x] = g /\ TextOf[x] = TextOf[m] /\ GuardHours > 0) =>
              ~(message[x].at >= clock - GuardHours)
        BY <1>7, <2>1 DEF Repeats
    <2> QED
        BY <1>1, <2>2, <2>4, <2>5, <2>6 DEF Spread
<1>9. Cardinality(SameDay(clock)) < DailyCap
    <2>1. SameDay(clock) \subseteq SentToday
        <3>1. \A t \in Int : DayOf(t) \in Int
            BY DayOfHour
        <3> QED
            BY <1>1, <3>1 DEF SameDay, SentToday, Acknowledged
    <2>2. /\ SentToday \subseteq Messages
        BY DEF SentToday, Sent
    <2>3. /\ Cardinality(SameDay(clock)) \in Nat /\ Cardinality(SentToday) \in Nat
          /\ Cardinality(SameDay(clock)) <= Cardinality(SentToday)
        BY <2>1, <2>2, CountsOfMessages
    <2> QED
        BY <1>6, <2>3, PacingConstants
<1> QED
    BY <1>8, <1>9 DEF Clear

Fields == {"status", "due", "at", "seen"}

\* One message changes, and was not seen sent before or after.
LEMMA UnseenStep ==
    ASSUME PacingAssumption, PacingInv, NEW m \in Messages, ~message[m].seen, NEW new,
           DOMAIN new = Fields, new.at \in Nat, new.seen = FALSE,
           message' = [message EXCEPT ![m] = new], clock' = clock, window' = window,
           \/ UNCHANGED <<lastSend, restUntil>>
           \/ Rested(m),
           new.status = "TAKEN" => InFlightNow = {} /\ Clear(m, clock)
    PROVE  PacingInv'
<1>1. /\ DOMAIN message' = Messages /\ message'[m] = new
      /\ \A x \in Messages : x # m => message'[x] = message[x]
    BY DEF PacingInv, PacingTypes
<1>2. Acknowledged' = Acknowledged /\ \A x \in Acknowledged : message'[x].at = message[x].at
    BY <1>1 DEF Acknowledged, Sent
<1>3. /\ clock \in Nat /\ lastSend \in Nat /\ lastSend <= clock
      /\ restUntil \in [Groups -> Nat] /\ \A g \in Groups : restUntil[g] <= clock + Cooldown
      /\ GroupOf[m] \in Groups /\ Cooldown \in Nat
    BY PacingConstants DEF PacingInv, PacingTypes
<1>4. /\ lastSend' \in Nat /\ lastSend' >= lastSend /\ lastSend' <= clock
      /\ restUntil' \in [Groups -> Nat]
      /\ \A g \in Groups : restUntil'[g] >= restUntil[g] /\ restUntil'[g] <= clock + Cooldown
    <2>1. CASE UNCHANGED <<lastSend, restUntil>>
        BY <1>3, <2>1
    <2>2. CASE Rested(m)
        <3> DEFINE rest == clock + Cooldown
        <3>1. rest \in Nat /\ rest >= rest
            BY <1>3
        <3>2. lastSend' = clock /\ restUntil' = [restUntil EXCEPT ![GroupOf[m]] = rest]
            BY <2>2 DEF Rested
        <3>3. \A g \in Groups : restUntil[g] \in Nat /\ restUntil[g] <= rest
            BY <1>3
        <3> HIDE DEF rest
        <3>4. /\ restUntil' \in [Groups -> Nat]
              /\ \A g \in Groups : restUntil'[g] \in {restUntil[g], rest}
            BY <1>3, <3>1, <3>2
        <3>5. \A g \in Groups : restUntil'[g] >= restUntil[g] /\ restUntil'[g] <= rest
            BY <3>1, <3>3, <3>4
        <3> QED
            BY <1>3, <3>2, <3>4, <3>5 DEF rest
    <2> QED
        BY <2>1, <2>2
<1>5. PacingTypes'
    <2>1. \A x \in Messages :
              /\ DOMAIN message'[x] = {"status", "due", "at", "seen"}
              /\ message'[x].at \in Nat /\ message'[x].seen \in BOOLEAN
              /\ message'[x].seen => message'[x].status = "SENT"
        BY <1>1 DEF PacingInv, PacingTypes, Fields
    <2>2. clock >= FirstHour
        BY DEF PacingInv, PacingTypes
    <2>3. window \in [Groups -> WindowChoices]
        BY DEF PacingInv, PacingTypes
    <2> QED
        BY <1>1, <1>3, <1>4, <2>1, <2>2, <2>3 DEF PacingTypes
<1>6. \A x \in InFlightNow' : x \in InFlightNow \/ (x = m /\ new.status = "TAKEN")
    BY <1>1 DEF InFlightNow
<1>7. OneInFlight'
    BY <1>6 DEF PacingInv, OneInFlight
<1>8. \A x \in InFlightNow' : Clear(x, clock)
    BY <1>6 DEF PacingInv, InFlightIsClear
<1> QED
    BY <1>2, <1>4, <1>5, <1>7, <1>8, QuietStep

LEMMA MessageFields ==
    ASSUME PacingInv, NEW m \in Messages
    PROVE  /\ DOMAIN message[m] = Fields /\ message[m].at \in Nat
           /\ message[m].status # "SENT" => message[m].seen = FALSE
    BY DEF PacingInv, PacingTypes, Fields

\* The worker's pass, and every end of a message but its acknowledgement.
LEMMA WorkerStep ==
    ASSUME PacingAssumption, PacingInv, NEW m \in Messages,
           \/ Consider(m) \/ GiveUp(m) \/ Reconcile(m)
           \/ \E d \in Delays : PutOff(m, d) \/ Stop(m, d)
    PROVE  PacingInv'
<1>1. /\ DOMAIN message[m] = Fields /\ message[m].at \in Nat /\ message[m].seen = FALSE
      /\ clock \in Nat
    <2>1. message[m].status # "SENT"
        BY DEF Consider, Ready, GiveUp, Reconcile, PutOff, Stop, InFlightNow
    <2> QED
        BY <2>1, MessageFields DEF PacingInv, PacingTypes
<1>2. CASE Consider(m)
    <2>1. message[m].status = "PENDING" /\ Ready(m) /\ InFlightNow = {}
          /\ UNCHANGED <<clock, window, restUntil, lastSend>>
        BY <1>2 DEF Consider, Ready
    <2>2. CASE ~InBlackout(GroupOf[m], clock) /\ Repeats(m)
        <3> DEFINE new == [message[m] EXCEPT !.status = "SKIPPED", !.due = 0]
        <3>1. message' = [message EXCEPT ![m] = new]
            BY <1>2, <2>2 DEF Consider
        <3>2. DOMAIN new = Fields /\ new.at \in Nat /\ new.seen = FALSE /\ new.status = "SKIPPED"
            BY <1>1 DEF Fields
        <3> HIDE DEF new
        <3> QED
            BY <1>1, <2>1, <3>1, <3>2, UnseenStep
    <2>3. CASE ~(~InBlackout(GroupOf[m], clock) /\ Repeats(m)) /\ TryAt(m) > clock
        <3> DEFINE new == [message[m] EXCEPT !.due = TryAt(m)]
        <3>1. message' = [message EXCEPT ![m] = new]
            BY <1>2, <2>3 DEF Consider
        <3>2. DOMAIN new = Fields /\ new.at \in Nat /\ new.seen = FALSE /\ new.status = "PENDING"
            BY <1>1, <2>1 DEF Fields
        <3> HIDE DEF new
        <3> QED
            BY <1>1, <2>1, <3>1, <3>2, UnseenStep
    <2>4. CASE ~(~InBlackout(GroupOf[m], clock) /\ Repeats(m)) /\ ~(TryAt(m) > clock)
        <3> DEFINE new == [message[m] EXCEPT !.status = "TAKEN", !.due = 0]
        <3>1. message' = [message EXCEPT ![m] = new]
            BY <1>2, <2>4 DEF Consider
        <3>2. DOMAIN new = Fields /\ new.at \in Nat /\ new.seen = FALSE
            BY <1>1 DEF Fields
        <3>3. Clear(m, clock)
            BY <2>1, <2>4, TakenIsClear
        <3> HIDE DEF new
        <3> QED
            BY <1>1, <2>1, <3>1, <3>2, <3>3, UnseenStep
    <2> QED
        BY <2>2, <2>3, <2>4
<1>3. CASE GiveUp(m)
    <2> DEFINE new == [message[m] EXCEPT !.status = "FAILED"]
    <2>1. message' = [message EXCEPT ![m] = new]
          /\ UNCHANGED <<clock, window, restUntil, lastSend>>
        BY <1>3 DEF GiveUp, PacingInv, PacingTypes
    <2>2. DOMAIN new = Fields /\ new.at \in Nat /\ new.seen = FALSE /\ new.status = "FAILED"
        BY <1>1 DEF Fields
    <2> HIDE DEF new
    <2> QED
        BY <1>1, <2>1, <2>2, UnseenStep
<1>4. CASE Reconcile(m)
    <2>1. UNCHANGED <<clock, window>>
        BY <1>4 DEF Reconcile
    <2>2. CASE Rested(m) /\ message' = [message EXCEPT ![m] =
                                           [message[m] EXCEPT !.status = "SENT", !.at = clock]]
        <3> DEFINE new == [message[m] EXCEPT !.status = "SENT", !.at = clock]
        <3>1. DOMAIN new = Fields /\ new.at \in Nat /\ new.seen = FALSE /\ new.status = "SENT"
            BY <1>1 DEF Fields
        <3>2. message' = [message EXCEPT ![m] = new]
            BY <2>2
        <3> HIDE DEF new
        <3> QED
            BY <1>1, <2>1, <2>2, <3>1, <3>2, UnseenStep
    <2>3. CASE UNCHANGED <<restUntil, lastSend>> /\ message' = [message EXCEPT ![m] =
                                           [message[m] EXCEPT !.status = "PENDING", !.due = clock]]
        <3> DEFINE new == [message[m] EXCEPT !.status = "PENDING", !.due = clock]
        <3>1. DOMAIN new = Fields /\ new.at \in Nat /\ new.seen = FALSE /\ new.status = "PENDING"
            BY <1>1 DEF Fields
        <3>2. message' = [message EXCEPT ![m] = new]
            BY <2>3
        <3> HIDE DEF new
        <3> QED
            BY <1>1, <2>1, <2>3, <3>1, <3>2, UnseenStep
    <2>4. CASE UNCHANGED <<restUntil, lastSend>> /\ message' = [message EXCEPT ![m] =
                                           [message[m] EXCEPT !.status = "SKIPPED"]]
        <3> DEFINE new == [message[m] EXCEPT !.status = "SKIPPED"]
        <3>1. DOMAIN new = Fields /\ new.at \in Nat /\ new.seen = FALSE /\ new.status = "SKIPPED"
            BY <1>1 DEF Fields
        <3>2. message' = [message EXCEPT ![m] = new]
            BY <2>4
        <3> HIDE DEF new
        <3> QED
            BY <1>1, <2>1, <2>4, <3>1, <3>2, UnseenStep
    <2> QED
        BY <1>4, <2>2, <2>3, <2>4 DEF Reconcile
<1>5. ASSUME NEW d \in Delays, PutOff(m, d) PROVE PacingInv'
    <2> DEFINE due == clock + d
               new == [message[m] EXCEPT !.status = "PENDING", !.due = due]
    <2>1. /\ message' = [message EXCEPT ![m] = new]
          /\ UNCHANGED <<clock, window, restUntil, lastSend>>
        BY <1>5 DEF PutOff
    <2> HIDE DEF due
    <2>2. DOMAIN new = Fields /\ new.at \in Nat /\ new.seen = FALSE /\ new.status = "PENDING"
        BY <1>1 DEF Fields
    <2> HIDE DEF new
    <2> QED
        BY <1>1, <2>1, <2>2, UnseenStep
<1>6. ASSUME NEW d \in Delays, Stop(m, d) PROVE PacingInv'
    <2>1. UNCHANGED <<clock, window, restUntil, lastSend>>
        BY <1>6 DEF Stop
    <2>2. PICK s \in {"REVIEW", "UNCERTAIN"} :
              message' = [message EXCEPT ![m] = [message[m] EXCEPT !.status = s]]
        BY <1>6 DEF Stop
    <2> DEFINE new == [message[m] EXCEPT !.status = s]
    <2>3. DOMAIN new = Fields /\ new.at \in Nat /\ new.seen = FALSE /\ new.status # "TAKEN"
        BY <1>1 DEF Fields
    <2> HIDE DEF new
    <2>4. message' = [message EXCEPT ![m] = new]
        BY <2>2 DEF new
    <2> QED
        BY <1>1, <2>1, <2>3, <2>4, UnseenStep
<1> QED
    BY <1>2, <1>3, <1>4, <1>5, <1>6

\* The message in flight arrives: it was clear when it was taken, and time only helped.
LEMMA AcknowledgeStep ==
    ASSUME PacingAssumption, PacingInv, NEW m \in Messages, Acknowledge(m)
    PROVE  PacingInv'
<1> DEFINE new == [message[m] EXCEPT !.status = "SENT", !.at = clock, !.seen = TRUE]
           rest == clock + Cooldown
           g == GroupOf[m]
<1>1. /\ m \in InFlightNow /\ message' = [message EXCEPT ![m] = new]
      /\ lastSend' = clock /\ restUntil' = [restUntil EXCEPT ![g] = rest]
      /\ UNCHANGED <<clock, window>>
    BY DEF Acknowledge, Rested
<1>2. /\ message[m].status = "TAKEN" /\ message[m].seen = FALSE
      /\ DOMAIN message[m] = Fields /\ Clear(m, clock)
    <2>1. message[m].status = "TAKEN"
        BY <1>1 DEF InFlightNow
    <2>2. Clear(m, clock)
        BY <1>1 DEF PacingInv, InFlightIsClear
    <2> QED
        BY <2>1, <2>2, MessageFields
<1>3. /\ clock \in Nat /\ clock >= FirstHour /\ FirstHour \in Nat /\ Cooldown \in Nat
      /\ MinInterval \in Nat /\ DailyCap \in Nat /\ GuardHours \in Nat /\ g \in Groups
      /\ restUntil \in [Groups -> Nat] /\ window \in [Groups -> WindowChoices]
      /\ DOMAIN message = Messages
    BY PacingConstants DEF PacingInv, PacingTypes
<1>4. DOMAIN new = Fields /\ new.at = clock /\ new.seen = TRUE /\ new.status = "SENT"
    BY <1>2 DEF Fields
<1>5. rest \in Nat
    BY <1>3
<1> HIDE DEF new, g, rest
<1>6. /\ DOMAIN message' = Messages /\ message'[m] = new
      /\ \A x \in Messages : x # m => message'[x] = message[x]
    BY <1>1, <1>3
<1>7. /\ Acknowledged' = Acknowledged \cup {m} /\ m \notin Acknowledged
      /\ Acknowledged \subseteq Messages
    BY <1>2, <1>4, <1>6 DEF Acknowledged, Sent
<1>8. /\ \A x \in Acknowledged : message'[x].at = message[x].at /\ message[x].at \in Nat
      /\ message'[m].at = clock
    BY <1>4, <1>6, <1>7 DEF PacingInv, PacingTypes
<1>9. /\ restUntil' \in [Groups -> Nat] /\ restUntil'[g] = rest
      /\ \A q \in Groups : q # g => restUntil'[q] = restUntil[q]
    BY <1>1, <1>3, <1>5
<1>10. PacingTypes'
    <2>1. \A x \in Messages :
              /\ DOMAIN message'[x] = {"status", "due", "at", "seen"}
              /\ message'[x].at \in Nat /\ message'[x].seen \in BOOLEAN
              /\ message'[x].seen => message'[x].status = "SENT"
        <3>1. \A x \in Messages : x # m =>
              /\ DOMAIN message'[x] = {"status", "due", "at", "seen"}
              /\ message'[x].at \in Nat /\ message'[x].seen \in BOOLEAN
              /\ message'[x].seen => message'[x].status = "SENT"
            BY <1>6 DEF PacingInv, PacingTypes
        <3>2. /\ DOMAIN message'[m] = {"status", "due", "at", "seen"}
              /\ message'[m].at \in Nat /\ message'[m].seen \in BOOLEAN
              /\ message'[m].status = "SENT"
            BY <1>3, <1>4, <1>6 DEF Fields
        <3> QED
            BY <3>1, <3>2
    <2>2. \A q \in Groups : restUntil'[q] <= clock + Cooldown
        <3>1. \A q \in Groups : restUntil[q] <= rest
            BY DEF PacingInv, PacingTypes, rest
        <3>2. rest <= rest
            BY <1>5
        <3> QED
            BY <1>9, <3>1, <3>2 DEF rest
    <2> QED
        BY <1>1, <1>3, <1>6, <1>9, <2>1, <2>2 DEF PacingTypes
<1>11. InFlightNow' = {}
    <2>1. \A x \in InFlightNow : x = m
        BY <1>1 DEF PacingInv, OneInFlight
    <2> QED
        BY <1>4, <1>6, <2>1 DEF InFlightNow
<1>12. OneInFlight' /\ InFlightIsClear'
    BY <1>11 DEF OneInFlight, InFlightIsClear
<1>13. RestsCover'
    <2>1. ASSUME NEW x \in Acknowledged
          PROVE  /\ FirstHour <= message[x].at /\ message[x].at <= clock
                 /\ message[x].at + Cooldown <= restUntil'[GroupOf[x]]
        <3>1. /\ FirstHour <= message[x].at /\ message[x].at <= clock
              /\ message[x].at + Cooldown <= restUntil[GroupOf[x]]
            BY DEF PacingInv, RestsCover
        <3>2. message[x].at \in Nat /\ GroupOf[x] \in Groups
            BY <1>7, <1>8, PacingConstants
        <3>3. message[x].at + Cooldown <= rest
            BY <1>3, <3>1, <3>2 DEF rest
        <3>4. restUntil'[GroupOf[x]] \in {restUntil[GroupOf[x]], rest}
            BY <1>9, <3>2
        <3> QED
            BY <3>1, <3>3, <3>4
    <2>2. /\ FirstHour <= clock /\ clock <= clock
          /\ clock + Cooldown <= restUntil'[GroupOf[m]]
        BY <1>3, <1>5, <1>9 DEF rest, g
    <2> QED
        BY <1>1, <1>7, <1>8, <2>1, <2>2 DEF RestsCover
<1>14. AcknowledgedAreSpread'
    <2>1. AcknowledgedAreSpread
        BY DEF PacingInv
    <2>2. ASSUME NEW day \in {DayOf(message'[x].at) : x \in Acknowledged'}
          PROVE  Cardinality({x \in Acknowledged' : DayOf(message'[x].at) = day}) <= DailyCap
        <3> DEFINE old == {x \in Acknowledged : DayOf(message[x].at) = day}
        <3>1. CASE day = DayOf(clock)
            <4>1. {x \in Acknowledged' : DayOf(message'[x].at) = day} = SameDay(clock) \cup {m}
                BY <1>7, <1>8, <3>1 DEF SameDay
            <4>2. /\ m \notin SameDay(clock) /\ IsFiniteSet(SameDay(clock))
                  /\ Cardinality(SameDay(clock)) \in Nat
                BY <1>7, CountsOfMessages DEF SameDay
            <4>3. Cardinality(SameDay(clock) \cup {m}) = Cardinality(SameDay(clock)) + 1
                BY <4>2, FS_AddElement
            <4>4. Cardinality(SameDay(clock)) < DailyCap
                BY <1>2 DEF Clear
            <4>5. Cardinality(SameDay(clock) \cup {m}) <= DailyCap
                BY <1>3, <4>2, <4>3, <4>4
            <4> QED
                BY <4>1, <4>5
        <3>2. CASE day # DayOf(clock)
            <4>1. {x \in Acknowledged' : DayOf(message'[x].at) = day} = old
                BY <1>7, <1>8, <3>2
            <4>2. day \in {DayOf(message[x].at) : x \in Acknowledged}
                BY <1>7, <1>8, <3>2
            <4>3. Cardinality(old) <= DailyCap
                BY <2>1, <4>2 DEF AcknowledgedAreSpread
            <4> QED
                BY <4>1, <4>3
        <3> QED
            BY <3>1, <3>2
    <2>3. ASSUME NEW x \in Acknowledged
          PROVE  /\ message[x].at + MinInterval <= clock /\ message[x].at <= clock
                 /\ GroupOf[x] = GroupOf[m] => message[x].at + Cooldown <= clock
                 /\ (GroupOf[x] = GroupOf[m] /\ TextOf[x] = TextOf[m] /\ GuardHours > 0) =>
                       message[x].at + GuardHours < clock
        <3>1. Spread(m, x, clock) /\ message[x].at \in Nat
            BY <1>2, <1>8 DEF Clear
        <3> QED
            BY <1>3, <3>1 DEF Spread
    <2>4. ASSUME NEW x \in Acknowledged', NEW y \in Acknowledged' \ {x},
                 message'[x].at <= message'[y].at
          PROVE  /\ message'[y].at >= message'[x].at + MinInterval
                 /\ GroupOf[x] = GroupOf[y] => message'[y].at >= message'[x].at + Cooldown
                 /\ (GroupOf[x] = GroupOf[y] /\ TextOf[x] = TextOf[y] /\ GuardHours > 0) =>
                       message'[y].at > message'[x].at + GuardHours
        <3>1. CASE x \in Acknowledged /\ y \in Acknowledged
            BY <1>8, <2>1, <2>4, <3>1 DEF AcknowledgedAreSpread
        <3>2. CASE x \in Acknowledged /\ y = m
            BY <1>3, <1>8, <2>3, <3>2
        <3>3. CASE x = m /\ y \in Acknowledged
            <4>1. message[y].at = clock
                BY <1>3, <1>8, <2>3, <2>4, <3>3
            <4> QED
                BY <1>3, <1>8, <2>3, <3>3, <4>1
        <3> QED
            BY <1>7, <2>4, <3>1, <3>2, <3>3
    <2> QED
        BY <1>1, <2>2, <2>4 DEF AcknowledgedAreSpread
<1> QED
    BY <1>10, <1>12, <1>13, <1>14 DEF PacingInv

\* A message in flight stays clear: a day that begins has no message yet.
LEMMA TickStep ==
    ASSUME PacingAssumption, PacingInv, Tick
    PROVE  PacingInv'
<1>1. /\ clock \in Nat /\ clock' = clock + 1 /\ clock' \in Nat
      /\ UNCHANGED <<window, message, restUntil, lastSend>>
    BY DEF Tick, PacingInv, PacingTypes
<1>2. PacingTypes'
    <2>1. /\ clock' >= FirstHour /\ lastSend <= clock'
          /\ \A g \in Groups : restUntil[g] <= clock' + Cooldown
        BY <1>1, PacingConstants DEF PacingInv, PacingTypes
    <2> QED
        BY <1>1, <2>1 DEF PacingInv, PacingTypes
<1>3. Acknowledged' = Acknowledged /\ InFlightNow' = InFlightNow
      /\ Acknowledged \subseteq Messages
    BY <1>1 DEF Acknowledged, Sent, InFlightNow
<1>4. OneInFlight' /\ AcknowledgedAreSpread'
    <2>1. OneInFlight /\ AcknowledgedAreSpread
        BY DEF PacingInv
    <2>2. OneInFlight'
        BY <1>3, <2>1 DEF OneInFlight
    <2>3. AcknowledgedAreSpread'
        BY ZenonT(60), <1>1, <1>3, <2>1 DEF AcknowledgedAreSpread
    <2> QED
        BY <2>2, <2>3
<1>5. ASSUME NEW x \in Acknowledged
      PROVE  message[x].at \in Nat /\ message[x].at <= clock /\ message[x].at <= clock'
    <2>1. message[x].at \in Nat /\ message[x].at <= clock
        BY <1>3 DEF PacingInv, PacingTypes, RestsCover
    <2> QED
        BY <1>1, <2>1
<1>6. RestsCover'
    BY <1>1, <1>3, <1>5 DEF PacingInv, RestsCover
<1>7. InFlightIsClear'
    <2>1. ASSUME NEW m \in InFlightNow PROVE Clear(m, clock')
        <3>1. Clear(m, clock)
            BY DEF PacingInv, InFlightIsClear
        <3>2. ASSUME NEW x \in Acknowledged PROVE Spread(m, x, clock')
            BY <1>1, <1>5, <3>1, PacingConstants DEF Clear, Spread
        <3>3. Cardinality(SameDay(clock)) < DailyCap /\ Cardinality(SameDay(clock)) \in Nat
            BY <1>3, <3>1, CountsOfMessages DEF Clear, SameDay
        <3>4. CASE DayOf(clock') = DayOf(clock)
            <4>1. SameDay(clock') = SameDay(clock)
                BY <3>4 DEF SameDay
            <4> QED
                BY <3>2, <3>3, <4>1 DEF Clear
        <3>5. CASE DayOf(clock') # DayOf(clock)
            <4>1. DayOf(clock) <= DayOf(clock') /\ DayOf(clock) \in Int /\ DayOf(clock') \in Int
                <5>1. clock \in Int /\ clock' \in Int /\ clock <= clock'
                    BY <1>1
                <5>2. DayOf(clock) <= DayOf(clock')
                    BY <5>1, DaysInOrder
                <5> QED
                    BY <5>1, <5>2, DayOfHour
            <4>2. ASSUME NEW x \in Acknowledged PROVE DayOf(message[x].at) # DayOf(clock')
                <5> DEFINE at == message[x].at
                <5>0. at \in Int /\ clock \in Int /\ at <= clock
                    BY <1>1, <1>5
                <5> HIDE DEF at
                <5>1. DayOf(at) <= DayOf(clock) /\ DayOf(at) \in Int
                    BY <5>0, DaysInOrder, DayOfHour
                <5> QED
                    BY <3>5, <4>1, <5>1 DEF at
            <4>3. SameDay(clock') = {}
                BY <4>2 DEF SameDay
            <4>4. Cardinality(SameDay(clock')) < DailyCap
                BY <3>3, <4>3, FS_EmptySet, PacingConstants
            <4> QED
                BY <3>2, <4>4 DEF Clear
        <3> QED
            BY <3>4, <3>5
    <2>2. ASSUME NEW m \in InFlightNow PROVE Clear(m, clock)'
        <3>1. SameDay(clock)' = SameDay(clock')
            BY <1>1, <1>3 DEF SameDay
        <3> QED
            BY <1>1, <1>3, <2>1, <3>1 DEF Clear, Spread
    <2> QED
        BY <1>3, <2>2 DEF InFlightIsClear
<1> QED
    BY <1>2, <1>4, <1>6, <1>7 DEF PacingInv

\* Messages that nobody has taken or sent wait again.
LEMMA ResumeStep ==
    ASSUME PacingAssumption, PacingInv, ResumeSending
    PROVE  PacingInv'
<1> DEFINE again(m) == [message[m] EXCEPT !.status = "PENDING", !.due = clock]
<1>1. /\ UNCHANGED <<clock, window, restUntil, lastSend>> /\ DOMAIN message' = Messages
      /\ \A m \in Messages : message'[m] = IF message[m].status = "REVIEW" THEN again(m)
                                            ELSE message[m]
    BY DEF ResumeSending
<1>2. ASSUME NEW m \in Messages, message[m].status = "REVIEW"
      PROVE  /\ DOMAIN again(m) = Fields /\ again(m).at \in Nat /\ again(m).seen = FALSE
             /\ again(m).status = "PENDING" /\ message[m].seen = FALSE
    <2>1. DOMAIN message[m] = Fields /\ message[m].at \in Nat /\ message[m].seen = FALSE
        BY <1>2, MessageFields
    <2> QED
        BY <2>1 DEF Fields
<1> HIDE DEF again
<1>3. \A m \in Messages :
          \/ message'[m] = message[m]
          \/ /\ DOMAIN message'[m] = Fields /\ message'[m].at \in Nat /\ message'[m].seen = FALSE
             /\ message'[m].status = "PENDING" /\ message[m].seen = FALSE
    BY <1>1, <1>2
<1>4. PacingTypes'
    <2>1. \A x \in Messages :
              /\ DOMAIN message'[x] = {"status", "due", "at", "seen"}
              /\ message'[x].at \in Nat /\ message'[x].seen \in BOOLEAN
              /\ message'[x].seen => message'[x].status = "SENT"
        BY <1>3 DEF PacingInv, PacingTypes, Fields
    <2> QED
        BY <1>1, <2>1 DEF PacingInv, PacingTypes
<1>5. /\ Acknowledged' = Acknowledged
      /\ \A x \in Acknowledged : message'[x].at = message[x].at
    BY <1>3 DEF Acknowledged, Sent
<1>6. InFlightNow' \subseteq InFlightNow
    BY <1>3 DEF InFlightNow
<1>7. OneInFlight' /\ \A x \in InFlightNow' : Clear(x, clock)
    BY <1>6 DEF PacingInv, OneInFlight, InFlightIsClear
<1>8. lastSend' >= lastSend /\ \A g \in Groups : restUntil'[g] >= restUntil[g]
    BY <1>1 DEF PacingInv, PacingTypes
<1> QED
    BY <1>1, <1>4, <1>5, <1>7, <1>8, QuietStep

LEMMA PacingStep ==
    ASSUME PacingAssumption, PacingInv, [PacingNext]_pacingVars
    PROVE  PacingInv'
<1>1. CASE \E m \in Messages :
               \/ Consider(m) \/ Acknowledge(m) \/ GiveUp(m) \/ Reconcile(m)
               \/ \E d \in Delays : PutOff(m, d) \/ Stop(m, d)
    <2> PICK m \in Messages :
            \/ Consider(m) \/ Acknowledge(m) \/ GiveUp(m) \/ Reconcile(m)
            \/ \E d \in Delays : PutOff(m, d) \/ Stop(m, d)
        BY <1>1
    <2>1. CASE Acknowledge(m)
        BY <2>1, AcknowledgeStep
    <2>2. CASE \/ Consider(m) \/ GiveUp(m) \/ Reconcile(m)
               \/ \E d \in Delays : PutOff(m, d) \/ Stop(m, d)
        BY <2>2, WorkerStep
    <2> QED
        BY <2>1, <2>2
<1>2. CASE UNCHANGED <<clock, window, message, restUntil, lastSend>>
    <2>1. PacingTypes' /\ Acknowledged' = Acknowledged /\ InFlightNow' = InFlightNow
        BY <1>2 DEF PacingInv, PacingTypes, Acknowledged, Sent, InFlightNow
    <2>2. OneInFlight' /\ \A m \in InFlightNow' : Clear(m, clock)
        BY <2>1 DEF PacingInv, OneInFlight, InFlightIsClear
    <2>3. lastSend' >= lastSend /\ \A g \in Groups : restUntil'[g] >= restUntil[g]
        BY <1>2 DEF PacingInv, PacingTypes
    <2> QED
        BY <1>2, <2>1, <2>2, <2>3, QuietStep
<1>3. CASE \E b \in BlackoutChoices :
               Declare(b) \/ Lift(b) \/ \E c \in BlackoutChoices : Replace(b, c)
    BY <1>2, <1>3 DEF Declare, Lift, Replace
<1>4. CASE UNCHANGED pacingVars
    BY <1>2, <1>4 DEF pacingVars
<1> QED
    BY <1>1, <1>3, <1>4, ResumeStep, TickStep DEF PacingNext

\* The messages that the worker has seen sent keep every interval, for any number of
\* messages, destinations and hours (app/services/safety.py:317).
THEOREM PaceIsKept == PacingSpec => []AcknowledgedAreSpread
<1>1. PacingInit => PacingInv
    BY InitPacing, PacingAssumption
<1>2. PacingInv /\ [PacingNext]_pacingVars => PacingInv'
    BY PacingStep, PacingAssumption
<1>3. PacingInv => AcknowledgedAreSpread
    BY DEF PacingInv
<1> QED
    BY <1>1, <1>2, <1>3, PTL DEF PacingSpec
=============================================================================
