----------------------------- MODULE Continuity -----------------------------
(***************************************************************************)
(* Continuity drills of one organization (app/services/continuity.py): a   *)
(* live drill moves the execution lease to the standby site and back by    *)
(* two failover requests (app/services/execution.py), a simulation moves   *)
(* nothing, and both end with a sign-off.                                  *)
(*                                                                         *)
(* A drill does not follow its requests by itself: synchronize_drill       *)
(* projects what became of them into the drill's row, for whoever looks at *)
(* it.  The pollers (the list and get endpoints and the worker's           *)
(* synchronize_open_drills) load the row first and lock it afterwards; the *)
(* lock does not load it again, so they work on the row they loaded and    *)
(* write the columns they have changed.  The other operations load the row *)
(* with its lock.  The lease moves on meanwhile: claims and expiry, an     *)
(* attempt reconciled, failover requests made by hand.                     *)
(*                                                                         *)
(* Left out: heartbeats, runtime fingerprints, running calls, the recovery *)
(* time and four-eyes, which only refuse; the hash chain of the events.    *)
(***************************************************************************)
EXTENDS ExecutionLease, Sequences

CONSTANTS
    Pollers,      \* sessions that synchronize a drill they have loaded before
    Policies,     \* contents of the continuity policy, by their SHA-256
    MaxDrills,    \* bound: drills ever created
    MaxRequests,  \* bound: failover requests ever created
    MaxEpoch      \* bound: claims and reconciliations stop here

ASSUME ContinuityAssumption ==
    /\ Policies # {}
    /\ {MaxDrills, MaxRequests, MaxEpoch} \subseteq Nat \ {0}

VARIABLES
    lease,      \* the organization's execution lease
    requests,   \* failover_requests, in the order of their creation
    drills,     \* continuity_drills, in the order of their creation
    policy,     \* the continuity policy in force
    poller,     \* the row each poller has loaded
    cancel      \* the cancellation that holds its drill's row

vars == <<lease, requests, drills, policy, poller, cancel>>

Unfinished == {"DRAFT", "RUNNING", "AWAITING_FAILBACK", "AWAITING_SIGNOFF"}
Finished == {"PASSED", "FAILED", "CANCELLED", "INVALIDATED"}

\* An id of 0 stands for NULL, as does an epoch of 0.
RequestType ==
    [status: {"REQUESTED", "COMPLETED", "CANCELLED"}, source: Sites, target: Sites,
     epoch: Nat, targetEpoch: Nat]
DrillType ==
    [live: BOOLEAN, status: Unfinished \cup Finished, source: Sites, target: Sites,
     epoch: Nat, policy: Policies, failover: Nat, targetEpoch: Nat,
     failback: Nat, returnEpoch: Nat]

NotLoaded == [drill |-> 0]
NoCancel == [drill |-> 0]

Init ==
    /\ lease = NewLease
    /\ requests = <<>> /\ drills = <<>>
    /\ policy \in Policies
    /\ poller = [p \in Pollers |-> NotLoaded]
    /\ cancel = NoCancel

Free(d) == cancel.drill # d

(***************************************************************************)
(* The lease's own life, and the failover requests.                        *)
(***************************************************************************)

WorkerClaims(w) ==
    /\ MayClaim(lease, w)
    /\ Claimed(lease, w).epoch <= MaxEpoch
    /\ lease' = Claimed(lease, w)
    /\ UNCHANGED <<requests, drills, policy, poller, cancel>>

LeaseExpires ==
    /\ lease.live
    /\ lease' = Expired(lease)
    /\ UNCHANGED <<requests, drills, policy, poller, cancel>>

\* invalidate_reconciled_delivery_fence, for an attempt of the holder.
Reconcile ==
    /\ lease.holder # None /\ lease.epoch < MaxEpoch
    /\ lease' = Retired(lease, lease.holder, lease.epoch)
    /\ UNCHANGED <<requests, drills, policy, poller, cancel>>

NewRequest(target) ==
    [status |-> "REQUESTED", source |-> lease.site, target |-> target,
     epoch |-> lease.epoch, targetEpoch |-> 0]

\* What request_failover asks and does, for its callers.
RequestFailover(target) ==
    /\ lease.status = "ACTIVE" /\ lease.site # target
    /\ \A r \in DOMAIN requests : requests[r].status # "REQUESTED"
    /\ Len(requests) < MaxRequests
    /\ requests' = Append(requests, NewRequest(target))
    /\ lease' = Draining(lease)

RequestByHand(target) ==
    /\ RequestFailover(target)
    /\ UNCHANGED <<drills, policy, poller, cancel>>

Approve(r) ==
    LET item == requests[r] IN
    /\ item.status = "REQUESTED"
    /\ lease.status = "DRAINING"
    /\ lease.site = item.source /\ lease.epoch = item.epoch
    /\ lease' = HandedTo(lease, item.target)
    /\ requests' = [requests EXCEPT ![r].status = "COMPLETED",
                                    ![r].targetEpoch = lease.epoch + 1]
    /\ UNCHANGED <<drills, policy, poller, cancel>>

\* What cancel_failover writes, once it has found the request open.
WithoutRequest(r) ==
    LET item == requests[r] IN
    /\ requests' = [requests EXCEPT ![r].status = "CANCELLED"]
    /\ lease' = IF /\ lease.status = "DRAINING"
                   /\ lease.site = item.source /\ lease.epoch = item.epoch
                  THEN Undrained(lease) ELSE lease

CancelRequest(r) ==
    /\ requests[r].status = "REQUESTED"
    /\ WithoutRequest(r)
    /\ UNCHANGED <<drills, policy, poller, cancel>>

(***************************************************************************)
(* synchronize_drill, as a function of the row and the requests it has     *)
(* read and of the lease.                                                  *)
(***************************************************************************)

\* _request_mismatch, and the lease's own checks: the request and the lease agree
\* with the drill about the route and its epochs.
Agrees(item, from, to, epoch) ==
    /\ item.source = from /\ item.target = to
    /\ item.epoch = epoch /\ item.targetEpoch > item.epoch
    /\ lease.status = "ACTIVE" /\ lease.site = to /\ lease.epoch = item.targetEpoch

AfterFailover(row, item) ==
    IF item.status = "COMPLETED"
      THEN IF Agrees(item, row.source, row.target, row.epoch)
             THEN [row EXCEPT !.status = "AWAITING_FAILBACK",
                              !.targetEpoch = item.targetEpoch]
             ELSE [row EXCEPT !.status = "FAILED"]
      ELSE IF item.status = "CANCELLED" THEN [row EXCEPT !.status = "CANCELLED"]
                                        ELSE row

AfterFailback(row, item) ==
    IF item.status = "COMPLETED"
      THEN IF Agrees(item, row.target, row.source, row.targetEpoch)
             THEN [row EXCEPT !.status = "AWAITING_SIGNOFF",
                              !.returnEpoch = item.targetEpoch]
             ELSE [row EXCEPT !.status = "FAILED"]
      ELSE IF item.status = "CANCELLED" THEN [row EXCEPT !.status = "CANCELLED"]
                                        ELSE row

Failover(row, seen) ==
    IF row.failover # 0 /\ row.targetEpoch = 0
      THEN AfterFailover(row, seen[row.failover]) ELSE row

Failback(row, seen) ==
    IF row.failback # 0 /\ row.returnEpoch = 0
      THEN AfterFailback(row, seen[row.failback]) ELSE row

Synchronized(row, seen) ==
    IF ~row.live \/ row.status \in Finished THEN row
      ELSE IF Failover(row, seen).status \in Finished
             THEN Failover(row, seen)
             ELSE Failback(Failover(row, seen), seen)

(***************************************************************************)
(* The pollers.                                                            *)
(***************************************************************************)

Load(p, d) ==
    /\ poller[p] = NotLoaded
    /\ drills[d].live /\ drills[d].status \in {"RUNNING", "AWAITING_FAILBACK"}
    /\ poller' = [poller EXCEPT ![p] = [drill |-> d, row |-> drills[d]]]
    /\ UNCHANGED <<lease, requests, drills, policy, cancel>>

\* The columns that the poller has changed are written over whatever the row holds.
Written(old, loaded, new) ==
    [c \in DOMAIN old |-> IF new[c] # loaded[c] THEN new[c] ELSE old[c]]

Project(p) ==
    LET d == poller[p].drill IN
    /\ poller[p] # NotLoaded /\ Free(d)
    /\ drills' = [drills EXCEPT ![d] =
                    Written(@, poller[p].row, Synchronized(poller[p].row, requests))]
    /\ poller' = [poller EXCEPT ![p] = NotLoaded]
    /\ UNCHANGED <<lease, requests, policy, cancel>>

(***************************************************************************)
(* The life of a drill.                                                    *)
(***************************************************************************)

Create(live, target) ==
    /\ target # lease.site
    /\ \A d \in DOMAIN drills : drills[d].status \in Finished
    /\ Len(drills) < MaxDrills
    /\ drills' = Append(drills,
         [live |-> live, status |-> "DRAFT", source |-> lease.site, target |-> target,
          epoch |-> lease.epoch, policy |-> policy, failover |-> 0, targetEpoch |-> 0,
          failback |-> 0, returnEpoch |-> 0])
    /\ UNCHANGED <<lease, requests, policy, poller, cancel>>

\* Mutant: the epoch may have moved since the drill was created.
StillAtSite(site, epoch) == lease.status = "ACTIVE" /\ lease.site = site

\* The lease is where a drill has left it.
StillAt(site, epoch) ==
    lease.status = "ACTIVE" /\ lease.site = site /\ lease.epoch = epoch

MayStart(d) ==
    /\ Free(d) /\ drills[d].status = "DRAFT" /\ drills[d].policy = policy
    /\ StillAt(drills[d].source, drills[d].epoch)

StartSimulation(d) ==
    /\ MayStart(d) /\ ~drills[d].live
    /\ drills' = [drills EXCEPT ![d].status = "AWAITING_SIGNOFF"]
    /\ UNCHANGED <<lease, requests, policy, poller, cancel>>

StartLive(d) ==
    /\ MayStart(d) /\ drills[d].live
    /\ RequestFailover(drills[d].target)
    /\ drills' = [drills EXCEPT ![d].status = "RUNNING", ![d].failover = Len(requests')]
    /\ UNCHANGED <<policy, poller, cancel>>

\* request_failback, signoff_drill and cancel_drill synchronize first, and keep
\* nothing of it when they refuse.
RequestFailback(d) ==
    LET row == Synchronized(drills[d], requests) IN
    /\ Free(d) /\ row.live /\ row.status = "AWAITING_FAILBACK"
    /\ StillAt(row.target, row.targetEpoch)
    /\ RequestFailover(row.source)
    /\ drills' = [drills EXCEPT ![d] = [row EXCEPT !.status = "RUNNING",
                                                   !.failback = Len(requests')]]
    /\ UNCHANGED <<policy, poller, cancel>>

SignOff(d, verdict) ==
    LET row == Synchronized(drills[d], requests) IN
    /\ Free(d) /\ row.status = "AWAITING_SIGNOFF" /\ row.policy = policy
    /\ drills' = [drills EXCEPT ![d] = [row EXCEPT !.status = verdict]]
    /\ UNCHANGED <<lease, requests, policy, poller, cancel>>

(***************************************************************************)
(* cancel_drill reads the requests, then waits for the lease's row.        *)
(***************************************************************************)

CancelDrill(d) ==
    /\ cancel = NoCancel /\ drills[d].status \in Unfinished
    /\ cancel' = [drill |-> d, seen |-> requests]
    /\ UNCHANGED <<lease, requests, drills, policy, poller>>

\* Mutant: the drill's own row says where the lease is.
OnStandbyByRow(row) ==
    row.live /\ row.returnEpoch = 0 /\ row.targetEpoch # 0

\* The drill has moved the lease and has not brought it back.
OnStandby(row) ==
    /\ row.live /\ row.returnEpoch = 0
    /\ row.targetEpoch # 0 \/ lease.site = row.target

StillOpen(row, seen) ==
    {r \in {row.failover, row.failback} \ {0} : seen[r].status = "REQUESTED"}

CancelLocked ==
    LET d == cancel.drill
        row == Synchronized(drills[d], cancel.seen)
        open == StillOpen(row, cancel.seen)
    IN
    /\ cancel # NoCancel
    /\ \/ /\ OnStandby(row) \/ row.status \in Finished
          /\ UNCHANGED <<lease, requests, drills>>
       \/ /\ ~OnStandby(row) /\ row.status \in Unfinished
          /\ drills' = [drills EXCEPT ![d] = [row EXCEPT !.status = "CANCELLED"]]
          /\ IF open = {} THEN UNCHANGED <<lease, requests>>
                          ELSE \E r \in open : WithoutRequest(r)
    /\ cancel' = NoCancel
    /\ UNCHANGED <<policy, poller>>

UpdatePolicy(new) ==
    LET open == {d \in DOMAIN drills : drills[d].status \in Unfinished} IN
    /\ \A d \in open : Free(d) /\ ~OnStandby(drills[d])
    /\ policy' = new
    /\ drills' = [d \in DOMAIN drills |->
                    IF d \in open /\ new # policy
                      THEN [drills[d] EXCEPT !.status = "INVALIDATED"] ELSE drills[d]]
    /\ UNCHANGED <<lease, requests, poller, cancel>>

LeaseMoves == LeaseExpires \/ Reconcile \/ \E w \in Workers : WorkerClaims(w)
RequestMoves ==
    \/ \E s \in Sites : RequestByHand(s)
    \/ \E r \in DOMAIN requests : Approve(r) \/ CancelRequest(r)
DrillMoves ==
    \/ \E live \in BOOLEAN, s \in Sites : Create(live, s)
    \/ \E d \in DOMAIN drills : \/ StartSimulation(d) \/ StartLive(d) \/ RequestFailback(d)
                                \/ SignOff(d, "PASSED") \/ SignOff(d, "FAILED")
                                \/ CancelDrill(d)
    \/ CancelLocked
    \/ \E new \in Policies : UpdatePolicy(new)
Polls ==
    \E p \in Pollers : Project(p) \/ \E d \in DOMAIN drills : Load(p, d)

Next == LeaseMoves \/ RequestMoves \/ DrillMoves \/ Polls
Spec == Init /\ [][Next]_vars

-----------------------------------------------------------------------------
(***************************************************************************)
(* Properties.                                                             *)
(***************************************************************************)

\* Every row has its columns' types, and a drill refers to requests that exist.
ContinuityTypeOK ==
    /\ lease \in LeaseType
    /\ \A r \in DOMAIN requests : requests[r] \in RequestType
    /\ \A d \in DOMAIN drills :
         /\ drills[d] \in DrillType
         /\ {drills[d].failover, drills[d].failback} \subseteq 0 .. Len(requests)
    /\ policy \in Policies
    /\ \A p \in Pollers : poller[p].drill \in 0 .. Len(drills)
    /\ cancel.drill \in 0 .. Len(drills)

Completed(r) == r # 0 /\ requests[r].status = "COMPLETED"

\* A drill and its requests tell one story, whatever happened to the lease, to the
\* requests and to the row in between: the failover was asked for at the epoch the
\* drill was created at, the failback at the epoch the failover gave, nothing came
\* between, and an accepted live drill has done both.
DrillIsOneCycle ==
    \A d \in DOMAIN drills : drills[d].live =>
      LET row == drills[d]
          there == row.failover
          back == row.failback
      IN
      /\ there # 0 => /\ requests[there].epoch = row.epoch
                      /\ requests[there].target = row.target
      /\ row.targetEpoch # 0 => /\ Completed(there)
                                /\ requests[there].targetEpoch = row.targetEpoch
      /\ back # 0 => /\ requests[back].epoch = row.targetEpoch
                     /\ requests[back].target = row.source
      /\ row.returnEpoch # 0 => /\ Completed(back)
                                /\ requests[back].targetEpoch = row.returnEpoch
      /\ row.status = "PASSED" => row.epoch < row.targetEpoch
                                  /\ row.targetEpoch < row.returnEpoch

\* Who cancels a drill, by its own operation or by cancelling its request, leaves none
\* of its requests open; and if its failover took place, whatever its row and its
\* request say of it, a failback was asked for or the lease has left the standby.
CancelledLeavesNothing ==
    [][\A d \in DOMAIN drills :
         drills'[d].status = "CANCELLED" /\ drills[d].status # "CANCELLED" =>
           LET there == drills[d].failover
               back == drills[d].failback
           IN
           /\ \A r \in {there, back} \ {0} : requests'[r].status # "REQUESTED"
           /\ there # 0 /\ back = 0 =>
                requests'[there].targetEpoch = 0 \/ lease'.site # drills[d].target
      ]_vars

\* What docs/CONTINUITY_ASSURANCE.md says: a live drill that has moved the lease is
\* not cancelled without a failback.
CancelledOnlyAtHome ==
    \A d \in DOMAIN drills :
      drills[d].status = "CANCELLED" /\ Completed(drills[d].failover)
        => Completed(drills[d].failback)

\* What docs/CONTINUITY_ASSURANCE.md says: no two unfinished drills.
OneDrillAtATime ==
    \A d, e \in DOMAIN drills :
      drills[d].status \in Unfinished /\ drills[e].status \in Unfinished => d = e
=============================================================================
