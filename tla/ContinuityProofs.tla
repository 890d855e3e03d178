-------------------------- MODULE ContinuityProofs --------------------------
(***************************************************************************)
(* Proofs about module Continuity: the drill's row and its two failover    *)
(* requests tell one story, whatever a stale poller writes into the row.   *)
(***************************************************************************)
EXTENDS Continuity, SequenceTheorems, TLAPS

-----------------------------------------------------------------------------
(***************************************************************************)
(* The lease.                                                              *)
(***************************************************************************)

\* Whatever happens to the lease in a drill, it stays one.
LEMMA LeaseOperations ==
    ASSUME NEW l \in LeaseType
    PROVE  /\ \A w \in Workers : Claimed(l, w) \in LeaseType
           /\ \A s \in Sites : HandedTo(l, s) \in LeaseType
           /\ \A h, e : Retired(l, h, e) \in LeaseType
           /\ Expired(l) \in LeaseType
           /\ Draining(l) \in LeaseType
           /\ Undrained(l) \in LeaseType
  <1> DEFINE raised == l.epoch + 1
  <1>0. l.epoch \in Nat \ {0} /\ raised \in Nat \ {0}
    BY DEF LeaseType
  <1> HIDE DEF raised
  <1>1. ASSUME NEW w \in Workers PROVE Claimed(l, w) \in LeaseType
    <2>1. CASE ClaimRaisesEpoch(l, w)
      <3>1. Claimed(l, w) = [l EXCEPT !.holder = w, !.live = TRUE, !.renewed = TRUE,
                                      !.epoch = raised]
        BY <2>1 DEF Claimed, raised
      <3>2. QED
        BY <1>0, <3>1 DEF LeaseType
    <2>2. CASE ~ClaimRaisesEpoch(l, w)
      BY <1>0, <2>2 DEF LeaseType, Claimed
    <2>3. QED
      BY <2>1, <2>2
  <1>2. Expired(l) \in LeaseType
    BY DEF LeaseType, Expired
  <1>3. Draining(l) \in LeaseType /\ Undrained(l) \in LeaseType
    BY DEF LeaseType, Draining, Undrained
  <1>4. ASSUME NEW s \in Sites PROVE HandedTo(l, s) \in LeaseType
    <2>1. HandedTo(l, s) = [l EXCEPT !.site = s, !.holder = None, !.epoch = raised,
                                     !.status = "ACTIVE", !.live = FALSE, !.renewed = FALSE]
      BY DEF HandedTo, raised
    <2>2. QED
      BY <1>0, <2>1 DEF LeaseType
  <1>5. ASSUME NEW h, NEW e PROVE Retired(l, h, e) \in LeaseType
    <2>1. \/ Retired(l, h, e) = l
          \/ Retired(l, h, e) = [l EXCEPT !.holder = None, !.epoch = raised,
                                          !.live = FALSE, !.renewed = FALSE]
      BY DEF Retired, raised
    <2>2. QED
      BY <1>0, <2>1 DEF LeaseType
  <1>6. QED
    BY <1>1, <1>2, <1>3, <1>4, <1>5

\* The first row of an organization.
LEMMA NewLeaseType == NewLease \in LeaseType
  BY LeaseAssumption DEF LeaseType, NewLease

\* No operation takes the epoch back, and a failover raises it by one.
LEMMA EpochGrows ==
    ASSUME NEW l \in LeaseType
    PROVE  /\ l.epoch \in Nat
           /\ \A w \in Workers : Claimed(l, w).epoch >= l.epoch
           /\ \A s \in Sites : HandedTo(l, s).epoch = l.epoch + 1
           /\ \A h, e : Retired(l, h, e).epoch >= l.epoch
           /\ Expired(l).epoch = l.epoch
           /\ Draining(l).epoch = l.epoch
           /\ Undrained(l).epoch = l.epoch
  <1>1. l.epoch \in Nat
    BY DEF LeaseType
  <1>2. /\ Expired(l).epoch = l.epoch /\ Draining(l).epoch = l.epoch
        /\ Undrained(l).epoch = l.epoch
    BY DEF Expired, Draining, Undrained, LeaseType
  <1>3. ASSUME NEW w \in Workers PROVE Claimed(l, w).epoch >= l.epoch
    <2>1. Claimed(l, w).epoch = l.epoch \/ Claimed(l, w).epoch = l.epoch + 1
      BY DEF Claimed, LeaseType
    <2>2. QED
      BY <1>1, <2>1
  <1>4. ASSUME NEW s \in Sites PROVE HandedTo(l, s).epoch = l.epoch + 1
    BY DEF HandedTo, LeaseType
  <1>5. ASSUME NEW h, NEW e PROVE Retired(l, h, e).epoch >= l.epoch
    <2>1. Retired(l, h, e).epoch = l.epoch \/ Retired(l, h, e).epoch = l.epoch + 1
      BY DEF Retired, LeaseType
    <2>2. QED
      BY <1>1, <2>1
  <1>6. QED
    BY <1>1, <1>2, <1>3, <1>4, <1>5

-----------------------------------------------------------------------------
(***************************************************************************)
(* The inductive invariant.                                                *)
(***************************************************************************)

ContinuityTypes ==
    /\ lease \in LeaseType
    /\ requests \in Seq(RequestType) /\ drills \in Seq(DrillType)
    /\ policy \in Policies
    /\ poller \in [Pollers -> {NotLoaded} \cup [drill: Nat \ {0}, row: DrillType]]
    /\ cancel \in {NoCancel} \cup [drill: Nat \ {0}, seen: Seq(RequestType)]

\* A completed request has raised the epoch, and the lease has not gone back.
RequestsFit ==
    \A r \in 1 .. Len(requests) :
        /\ requests[r].targetEpoch <= lease.epoch
        /\ requests[r].status = "COMPLETED" => requests[r].epoch < requests[r].targetEpoch

\* The row of a drill fits the requests rs.
DrillFits(row, rs) ==
    LET there == row.failover
        back == row.failback
    IN
    /\ there \in 0 .. Len(rs) /\ back \in 0 .. Len(rs)
    /\ ~row.live => there = 0 /\ back = 0
    /\ row.status = "DRAFT" => there = 0
    /\ there # 0 => rs[there].epoch = row.epoch /\ rs[there].target = row.target
    /\ row.targetEpoch # 0 => /\ there # 0 /\ rs[there].status = "COMPLETED"
                              /\ rs[there].targetEpoch = row.targetEpoch
    /\ back # 0 => /\ row.targetEpoch # 0
                   /\ rs[back].epoch = row.targetEpoch /\ rs[back].target = row.source
    /\ row.returnEpoch # 0 => /\ back # 0 /\ rs[back].status = "COMPLETED"
                              /\ rs[back].targetEpoch = row.returnEpoch
    /\ row.live /\ row.status \in {"AWAITING_SIGNOFF", "PASSED"} => row.returnEpoch # 0

Ids(row) == {row.failover, row.failback} \ {0}

OwnRequests ==
    \A d, e \in 1 .. Len(drills) : Ids(drills[d]) \cap Ids(drills[e]) # {} => d = e

\* A poller's row is an earlier one of the drill's: what it refers to has stayed.
Earlier(row, now) ==
    /\ row.live = now.live
    /\ row.failover \in {0, now.failover} /\ row.failback \in {0, now.failback}

PollersFit ==
    \A p \in Pollers : poller[p] # NotLoaded =>
        /\ poller[p].drill \in 1 .. Len(drills)
        /\ poller[p].row.live
        /\ Earlier(poller[p].row, drills[poller[p].drill])

\* The requests rt have come of the requests rs: what was settled has stayed.
Extends(rs, rt) ==
    /\ Len(rs) <= Len(rt)
    /\ \A r \in 1 .. Len(rs) :
         /\ rt[r].epoch = rs[r].epoch /\ rt[r].target = rs[r].target
         /\ rs[r].status # "REQUESTED" => rt[r] = rs[r]

CancelFits ==
    cancel # NoCancel =>
        /\ cancel.drill \in 1 .. Len(drills)
        /\ DrillFits(drills[cancel.drill], cancel.seen)
        /\ Extends(cancel.seen, requests)

CycleInv ==
    /\ ContinuityTypes
    /\ RequestsFit
    /\ \A d \in 1 .. Len(drills) : DrillFits(drills[d], requests)
    /\ OwnRequests
    /\ PollersFit
    /\ CancelFits

-----------------------------------------------------------------------------
(***************************************************************************)
(* What synchronize_drill makes of a row.                                  *)
(***************************************************************************)

\* new is row with what the requests seen say of it, in some of its columns.
Projected(row, new, seen) ==
    /\ new.live = row.live /\ new.source = row.source /\ new.target = row.target
    /\ new.epoch = row.epoch /\ new.policy = row.policy
    /\ new.failover = row.failover /\ new.failback = row.failback
    /\ \/ new.targetEpoch = row.targetEpoch
       \/ /\ row.failover # 0 /\ seen[row.failover].status = "COMPLETED"
          /\ new.targetEpoch = seen[row.failover].targetEpoch
    /\ \/ new.returnEpoch = row.returnEpoch
       \/ /\ row.failback # 0 /\ seen[row.failback].status = "COMPLETED"
          /\ new.returnEpoch = seen[row.failback].targetEpoch
    /\ \/ new.status = row.status
       \/ new.status \in {"AWAITING_FAILBACK", "FAILED", "CANCELLED"}
       \/ /\ new.status = "AWAITING_SIGNOFF"
          /\ row.failback # 0 /\ seen[row.failback].status = "COMPLETED"
          /\ new.returnEpoch = seen[row.failback].targetEpoch

\* The failover's part changes the status and the target epoch only.
LEMMA FailoverShape ==
    ASSUME NEW row \in DrillType, NEW seen \in Seq(RequestType),
           row.failover \in 0 .. Len(seen)
    PROVE  /\ Failover(row, seen) \in DrillType
           /\ Projected(row, Failover(row, seen), seen)
           /\ Failover(row, seen).returnEpoch = row.returnEpoch
           /\ Failover(row, seen).status # row.status =>
                Failover(row, seen).status \in {"AWAITING_FAILBACK", "FAILED", "CANCELLED"}
<1>1. CASE row.failover = 0 \/ row.targetEpoch # 0
    BY <1>1 DEF Failover, Projected
<1>2. CASE row.failover # 0 /\ row.targetEpoch = 0
    <2>1. seen[row.failover] \in RequestType
        BY <1>2, ElementOfSeq
    <2> DEFINE item == seen[row.failover]
               done == [row EXCEPT !.status = "AWAITING_FAILBACK", !.targetEpoch = item.targetEpoch]
               failed == [row EXCEPT !.status = "FAILED"]
               over == [row EXCEPT !.status = "CANCELLED"]
    <2>2. /\ item.status \in {"REQUESTED", "COMPLETED", "CANCELLED"}
          /\ item.targetEpoch \in Nat
        BY <2>1 DEF RequestType
    <2>3. CASE item.status = "COMPLETED" /\ Failover(row, seen) = done
        <3>1. done \in DrillType
            BY <2>2 DEF DrillType, Unfinished
        <3> QED
            BY <1>2, <2>3, <3>1 DEF Projected, DrillType
    <2>4. CASE Failover(row, seen) = failed
        <3>1. failed \in DrillType
            BY DEF DrillType, Finished
        <3> QED
            BY <1>2, <2>4, <3>1 DEF Projected, DrillType
    <2>5. CASE Failover(row, seen) = over
        <3>1. over \in DrillType
            BY DEF DrillType, Finished
        <3> QED
            BY <1>2, <2>5, <3>1 DEF Projected, DrillType
    <2>6. CASE item.status = "REQUESTED" /\ Failover(row, seen) = row
        BY <2>6 DEF Projected
    <2> QED
        BY <1>2, <2>2, <2>3, <2>4, <2>5, <2>6 DEF Failover, AfterFailover
<1> QED
    BY <1>1, <1>2

\* The failback's part changes the status and the return epoch only.
LEMMA FailbackShape ==
    ASSUME NEW row \in DrillType, NEW seen \in Seq(RequestType),
           row.failback \in 0 .. Len(seen)
    PROVE  /\ Failback(row, seen) \in DrillType
           /\ Projected(row, Failback(row, seen), seen)
           /\ Failback(row, seen).targetEpoch = row.targetEpoch
           /\ Failback(row, seen).status = "AWAITING_SIGNOFF" =>
                row.status = "AWAITING_SIGNOFF" \/ row.returnEpoch = 0
           /\ /\ Failback(row, seen).status = "AWAITING_FAILBACK"
              /\ row.failback # 0 /\ Failback(row, seen).returnEpoch = 0
              => seen[row.failback].status = "REQUESTED"
<1>1. CASE row.failback = 0 \/ row.returnEpoch # 0
    BY <1>1 DEF Failback, Projected
<1>2. CASE row.failback # 0 /\ row.returnEpoch = 0
    <2>1. seen[row.failback] \in RequestType
        BY <1>2, ElementOfSeq
    <2> DEFINE item == seen[row.failback]
               done == [row EXCEPT !.status = "AWAITING_SIGNOFF", !.returnEpoch = item.targetEpoch]
               failed == [row EXCEPT !.status = "FAILED"]
               over == [row EXCEPT !.status = "CANCELLED"]
    <2>2. /\ item.status \in {"REQUESTED", "COMPLETED", "CANCELLED"}
          /\ item.targetEpoch \in Nat
        BY <2>1 DEF RequestType
    <2>3. CASE item.status = "COMPLETED" /\ Failback(row, seen) = done
        <3>1. done \in DrillType
            BY <2>2 DEF DrillType, Unfinished
        <3> QED
            BY <1>2, <2>3, <3>1 DEF Projected, DrillType
    <2>4. CASE Failback(row, seen) = failed
        <3>1. failed \in DrillType
            BY DEF DrillType, Finished
        <3> QED
            BY <1>2, <2>4, <3>1 DEF Projected, DrillType
    <2>5. CASE Failback(row, seen) = over
        <3>1. over \in DrillType
            BY DEF DrillType, Finished
        <3> QED
            BY <1>2, <2>5, <3>1 DEF Projected, DrillType
    <2>6. CASE item.status = "REQUESTED" /\ Failback(row, seen) = row
        BY <2>6 DEF Projected
    <2> QED
        BY <1>2, <2>2, <2>3, <2>4, <2>5, <2>6 DEF Failback, AfterFailback
<1> QED
    BY <1>1, <1>2

\* synchronize_drill as a whole.
LEMMA SyncShape ==
    ASSUME NEW row \in DrillType, NEW seen \in Seq(RequestType),
           row.failover \in 0 .. Len(seen), row.failback \in 0 .. Len(seen)
    PROVE  LET new == Synchronized(row, seen) IN
           /\ new \in DrillType
           /\ Projected(row, new, seen)
           /\ ~row.live => new = row
           /\ new.status = "AWAITING_SIGNOFF" =>
                row.status = "AWAITING_SIGNOFF" \/ row.returnEpoch = 0
           /\ row.live /\ new.status = "AWAITING_FAILBACK" /\ row.failback # 0
              /\ new.returnEpoch = 0
              => seen[row.failback].status = "REQUESTED"
<1> DEFINE first == Failover(row, seen)
           last == Failback(first, seen)
<1>1. CASE ~row.live \/ row.status \in Finished
    BY <1>1 DEF Synchronized, Projected, Finished
<1>2. CASE row.live /\ row.status \notin Finished /\ first.status \in Finished
    BY <1>2, FailoverShape DEF Synchronized, Finished
<1>3. CASE row.live /\ row.status \notin Finished /\ first.status \notin Finished
    <2>1. Synchronized(row, seen) = last
        BY <1>3 DEF Synchronized
    <2>2. /\ first \in DrillType /\ Projected(row, first, seen)
          /\ first.returnEpoch = row.returnEpoch
          /\ first.status # row.status =>
               first.status \in {"AWAITING_FAILBACK", "FAILED", "CANCELLED"}
        BY FailoverShape
    <2>3. first.failback = row.failback /\ first.failover = row.failover
        BY <2>2 DEF Projected
    <2>4. /\ last \in DrillType /\ Projected(first, last, seen)
          /\ last.targetEpoch = first.targetEpoch
          /\ last.status = "AWAITING_SIGNOFF" =>
               first.status = "AWAITING_SIGNOFF" \/ first.returnEpoch = 0
          /\ last.status = "AWAITING_FAILBACK" /\ first.failback # 0
             /\ last.returnEpoch = 0 => seen[first.failback].status = "REQUESTED"
        BY <2>2, <2>3, FailbackShape
    <2> HIDE DEF first, last
    <2>5. Projected(row, last, seen)
        BY <2>2, <2>3, <2>4 DEF Projected
    <2> QED
        BY <1>3, <2>1, <2>2, <2>3, <2>4, <2>5
<1> QED
    BY <1>1, <1>2, <1>3

\* A row that fits the requests still does after a projection, also of requests
\* that were read before.
LEMMA ProjectedFits ==
    ASSUME NEW row \in DrillType, NEW new \in DrillType,
           NEW rs \in Seq(RequestType), NEW seen \in Seq(RequestType),
           DrillFits(row, rs), Projected(row, new, seen), Extends(seen, rs),
           row.failover \in 0 .. Len(seen), row.failback \in 0 .. Len(seen),
           \A r \in 1 .. Len(rs) : rs[r].status = "COMPLETED" =>
              rs[r].epoch < rs[r].targetEpoch
    PROVE  DrillFits(new, rs)
<1> DEFINE there == row.failover
           back == row.failback
<1>1. ASSUME NEW r \in {there, back}, r # 0, seen[r].status = "COMPLETED"
      PROVE  /\ rs[r] = seen[r] /\ rs[r].status = "COMPLETED"
             /\ rs[r].targetEpoch # 0
    <2>1. r \in 1 .. Len(seen) /\ r \in 1 .. Len(rs)
        BY <1>1 DEF Extends
    <2>2. rs[r] \in RequestType
        BY <2>1, ElementOfSeq
    <2>3. rs[r] = seen[r]
        BY <1>1, <2>1 DEF Extends
    <2>4. rs[r].epoch \in Nat /\ rs[r].targetEpoch \in Nat
        BY <2>2 DEF RequestType
    <2>5. rs[r].epoch < rs[r].targetEpoch
        BY <1>1, <2>1, <2>3
    <2> QED
        BY <1>1, <2>3, <2>4, <2>5
<1>2. there # 0 /\ seen[there].status = "COMPLETED" =>
        rs[there] = seen[there] /\ rs[there].targetEpoch # 0
    BY <1>1
<1>3. back # 0 /\ seen[back].status = "COMPLETED" =>
        rs[back] = seen[back] /\ rs[back].targetEpoch # 0
    BY <1>1
<1>4. new.failover = there /\ new.failback = back /\ new.live = row.live
      /\ new.epoch = row.epoch /\ new.target = row.target /\ new.source = row.source
    BY DEF Projected
<1>5. new.targetEpoch = row.targetEpoch
      \/ (there # 0 /\ rs[there].status = "COMPLETED" /\ rs[there].targetEpoch # 0
          /\ new.targetEpoch = rs[there].targetEpoch)
    BY <1>2 DEF Projected
<1>6. new.returnEpoch = row.returnEpoch
      \/ (back # 0 /\ rs[back].status = "COMPLETED" /\ rs[back].targetEpoch # 0
          /\ new.returnEpoch = rs[back].targetEpoch)
    BY <1>3 DEF Projected
<1>7. new.status = row.status \/ new.status \in {"AWAITING_FAILBACK", "FAILED", "CANCELLED"}
      \/ (new.status = "AWAITING_SIGNOFF" /\ new.returnEpoch # 0)
    BY <1>3 DEF Projected
<1> HIDE DEF there, back
<1> QED
    BY <1>4, <1>5, <1>6, <1>7 DEF DrillFits, there, back

-----------------------------------------------------------------------------
(***************************************************************************)
(* The invariant holds initially, and every step keeps it.                 *)
(***************************************************************************)

LEMMA InitCycle == Init => CycleInv
<1> SUFFICES ASSUME Init PROVE CycleInv
    OBVIOUS
<1>1. requests \in Seq(RequestType) /\ drills \in Seq(DrillType)
      /\ Len(requests) = 0 /\ Len(drills) = 0
    BY EmptySeq DEF Init
<1>2. lease \in LeaseType
    BY NewLeaseType DEF Init
<1> QED
    BY <1>1, <1>2 DEF Init, CycleInv, ContinuityTypes, RequestsFit, OwnRequests,
       PollersFit, CancelFits

LEMMA ExtendsItself ==
    ASSUME NEW rs \in Seq(RequestType)
    PROVE  Extends(rs, rs)
BY DEF Extends

LEMMA ExtendsOn ==
    ASSUME NEW rs \in Seq(RequestType), NEW rt \in Seq(RequestType),
           NEW ru \in Seq(RequestType), Extends(rs, rt), Extends(rt, ru)
    PROVE  Extends(rs, ru)
<1>1. ASSUME NEW r \in 1 .. Len(rs)
      PROVE  /\ ru[r].epoch = rs[r].epoch /\ ru[r].target = rs[r].target
             /\ rs[r].status # "REQUESTED" => ru[r] = rs[r]
    <2>1. r \in 1 .. Len(rt)
        BY DEF Extends
    <2> QED
        BY <2>1 DEF Extends
<1> QED
    BY <1>1 DEF Extends

\* A row that fits the requests fits what comes of them.
LEMMA FitsLater ==
    ASSUME NEW row \in DrillType, NEW rs \in Seq(RequestType),
           NEW rt \in Seq(RequestType), DrillFits(row, rs), Extends(rs, rt)
    PROVE  DrillFits(row, rt)
<1>1. \A r \in 1 .. Len(rs) :
        /\ rt[r].epoch = rs[r].epoch /\ rt[r].target = rs[r].target
        /\ rs[r].status = "COMPLETED" => rt[r] = rs[r]
    BY DEF Extends
<1>2. Len(rs) <= Len(rt) /\ Len(rs) \in Nat /\ Len(rt) \in Nat
    BY LenProperties DEF Extends
<1>3. /\ row.failover # 0 => row.failover \in 1 .. Len(rs)
      /\ row.failback # 0 => row.failback \in 1 .. Len(rs)
      /\ row.failover \in 0 .. Len(rt) /\ row.failback \in 0 .. Len(rt)
    BY <1>2 DEF DrillFits
<1> QED
    BY <1>1, <1>3 DEF DrillFits

\* What no step takes back from a drill's row.
Grows(row, new) ==
    /\ new.live = row.live
    /\ row.failover # 0 => new.failover = row.failover
    /\ row.failback # 0 => new.failback = row.failback

\* No step gives a drill another drill's request.
NewIds ==
    /\ \A d \in 1 .. Len(drills') : \A r \in Ids(drills'[d]) :
         (d <= Len(drills) /\ r \in Ids(drills[d])) \/ r = Len(requests) + 1
    /\ \A d, e \in 1 .. Len(drills') :
         Len(requests) + 1 \in Ids(drills'[d]) \cap Ids(drills'[e]) => d = e

\* What there is to show of a step that starts no poll and no cancellation.
LEMMA CycleStep ==
    ASSUME CycleInv, ContinuityTypes', RequestsFit',
           \A d \in 1 .. Len(drills') : DrillFits(drills'[d], requests'),
           Len(drills) <= Len(drills'),
           \A d \in 1 .. Len(drills) : Grows(drills[d], drills'[d]),
           NewIds,
           \A p \in Pollers : poller'[p] \in {NotLoaded, poller[p]},
           \/ cancel' = NoCancel
           \/ /\ cancel' = cancel /\ Extends(requests, requests')
              /\ cancel # NoCancel => drills'[cancel.drill] = drills[cancel.drill]
    PROVE  CycleInv'
<1>1. OwnRequests'
    <2>1. ASSUME NEW d \in 1 .. Len(drills'), NEW e \in 1 .. Len(drills'),
                 NEW r \in Ids(drills'[d]), r \in Ids(drills'[e])
          PROVE  d = e
        <3>1. CASE r = Len(requests) + 1
            BY <2>1, <3>1 DEF NewIds
        <3>2. CASE r # Len(requests) + 1
            <4>1. /\ d <= Len(drills) /\ r \in Ids(drills[d])
                  /\ e <= Len(drills) /\ r \in Ids(drills[e])
                BY <2>1, <3>2 DEF NewIds
            <4>2. d \in 1 .. Len(drills) /\ e \in 1 .. Len(drills)
                BY <4>1, LenProperties DEF CycleInv, ContinuityTypes
            <4> QED
                BY <4>1, <4>2 DEF CycleInv, OwnRequests
        <3> QED
            BY <3>1, <3>2
    <2> QED
        BY <2>1 DEF OwnRequests
<1>2. PollersFit'
    <2>1. ASSUME NEW p \in Pollers, poller'[p] # NotLoaded
          PROVE  /\ poller'[p].drill \in 1 .. Len(drills')
                 /\ poller'[p].row.live
                 /\ Earlier(poller'[p].row, drills'[poller'[p].drill])
        <3> DEFINE d == poller[p].drill
                   row == poller[p].row
        <3>1. poller'[p] = poller[p]
            BY <2>1
        <3>2. d \in 1 .. Len(drills) /\ row.live /\ Earlier(row, drills[d])
            BY <2>1, <3>1 DEF CycleInv, PollersFit
        <3>3. d \in 1 .. Len(drills')
            BY <3>2, LenProperties DEF CycleInv, ContinuityTypes
        <3>4. Grows(drills[d], drills'[d])
            BY <3>2
        <3> HIDE DEF d, row
        <3>5. Earlier(row, drills'[d])
            BY <3>2, <3>4 DEF Earlier, Grows
        <3> QED
            BY <3>1, <3>2, <3>3, <3>5 DEF d, row
    <2> QED
        BY <2>1 DEF PollersFit
<1>3. CancelFits'
    <2>1. CASE cancel' = NoCancel
        BY <2>1 DEF CancelFits
    <2>2. CASE cancel' # NoCancel
        <3>1. /\ cancel' = cancel /\ Extends(requests, requests')
              /\ drills'[cancel.drill] = drills[cancel.drill]
            BY <2>2
        <3>2. /\ cancel.drill \in 1 .. Len(drills)
              /\ DrillFits(drills[cancel.drill], cancel.seen)
              /\ Extends(cancel.seen, requests)
              /\ cancel.seen \in Seq(RequestType)
            BY <2>2, <3>1 DEF CycleInv, CancelFits, ContinuityTypes
        <3>3. Extends(cancel.seen, requests')
            BY <3>1, <3>2, ExtendsOn DEF CycleInv, ContinuityTypes
        <3>4. cancel.drill \in 1 .. Len(drills')
            BY <3>2, LenProperties DEF CycleInv, ContinuityTypes
        <3> QED
            BY <3>1, <3>2, <3>3, <3>4 DEF CancelFits
    <2> QED
        BY <2>1, <2>2
<1> QED
    BY <1>1, <1>2, <1>3 DEF CycleInv

-----------------------------------------------------------------------------
(***************************************************************************)
(* Steps of the lease and of the requests.                                 *)
(***************************************************************************)

LEMMA OutsideStep ==
    ASSUME CycleInv, lease' \in LeaseType, requests' \in Seq(RequestType), RequestsFit',
           Extends(requests, requests'), UNCHANGED <<drills, policy, poller, cancel>>
    PROVE  CycleInv'
<1>1. ContinuityTypes'
    BY DEF CycleInv, ContinuityTypes
<1>2. \A d \in 1 .. Len(drills') : DrillFits(drills'[d], requests')
    <2>1. ASSUME NEW d \in 1 .. Len(drills)
          PROVE  DrillFits(drills[d], requests')
        <3>1. drills[d] \in DrillType
            BY ElementOfSeq DEF CycleInv, ContinuityTypes
        <3> QED
            BY <3>1, FitsLater DEF CycleInv, ContinuityTypes
    <2> QED
        BY <2>1
<1>3. NewIds
    <2>1. \A d \in 1 .. Len(drills) : Len(requests) + 1 \notin Ids(drills[d])
        BY LenProperties DEF CycleInv, ContinuityTypes, DrillFits, Ids
    <2> QED
        BY <2>1 DEF NewIds
<1>4. \A d \in 1 .. Len(drills) : Grows(drills[d], drills'[d])
    BY DEF Grows
<1>5. Len(drills) <= Len(drills')
    BY LenProperties DEF CycleInv, ContinuityTypes
<1> QED
    BY <1>1, <1>2, <1>3, <1>4, <1>5, CycleStep

LEMMA LeaseSteps == CycleInv /\ LeaseMoves => CycleInv'
<1> SUFFICES ASSUME CycleInv, LeaseMoves PROVE CycleInv'
    OBVIOUS
<1>1. lease \in LeaseType /\ requests \in Seq(RequestType)
    BY DEF CycleInv, ContinuityTypes
<1>2. UNCHANGED <<requests, drills, policy, poller, cancel>>
    BY DEF LeaseMoves, LeaseExpires, Reconcile, WorkerClaims
<1>3. lease' \in LeaseType /\ lease'.epoch >= lease.epoch
    <2>1. lease' = Expired(lease) \/ lease' = Retired(lease, lease.holder, lease.epoch)
          \/ \E w \in Workers : lease' = Claimed(lease, w)
        BY DEF LeaseMoves, LeaseExpires, Reconcile, WorkerClaims
    <2>2. /\ Expired(lease) \in LeaseType
          /\ Retired(lease, lease.holder, lease.epoch) \in LeaseType
          /\ \A w \in Workers : Claimed(lease, w) \in LeaseType
        BY <1>1, LeaseOperations
    <2>3. /\ Expired(lease).epoch = lease.epoch /\ lease.epoch \in Nat
          /\ Retired(lease, lease.holder, lease.epoch).epoch >= lease.epoch
          /\ \A w \in Workers : Claimed(lease, w).epoch >= lease.epoch
        BY <1>1, EpochGrows
    <2> QED
        BY <2>1, <2>2, <2>3
<1>4. RequestsFit'
    <2>1. ASSUME NEW r \in 1 .. Len(requests)
          PROVE  requests[r].targetEpoch <= lease'.epoch
        <3>1. requests[r] \in RequestType
            BY <1>1, ElementOfSeq
        <3>2. requests[r].targetEpoch \in Nat /\ lease.epoch \in Nat /\ lease'.epoch \in Nat
            BY <1>1, <1>3, <3>1 DEF RequestType, LeaseType
        <3>3. requests[r].targetEpoch <= lease.epoch
            BY DEF CycleInv, RequestsFit
        <3> QED
            BY <1>3, <3>2, <3>3
    <2> QED
        BY <1>2, <2>1 DEF CycleInv, RequestsFit
<1> QED
    BY <1>1, <1>2, <1>3, <1>4, ExtendsItself, OutsideStep

\* Asking for a failover, for whichever caller.
LEMMA RequestAppends ==
    ASSUME CycleInv, NEW target \in Sites, RequestFailover(target)
    PROVE  /\ lease' \in LeaseType /\ requests' \in Seq(RequestType)
           /\ Len(requests') = Len(requests) + 1
           /\ requests'[Len(requests')] = NewRequest(target)
           /\ RequestsFit' /\ Extends(requests, requests')
<1>1. /\ lease \in LeaseType /\ requests \in Seq(RequestType)
      /\ requests' = Append(requests, NewRequest(target)) /\ lease' = Draining(lease)
    BY DEF CycleInv, ContinuityTypes, RequestFailover
<1>2. NewRequest(target) \in RequestType
    BY <1>1 DEF NewRequest, RequestType, LeaseType
<1>3. lease' \in LeaseType /\ lease'.epoch = lease.epoch
    BY <1>1, LeaseOperations, EpochGrows
<1>4. /\ requests' \in Seq(RequestType) /\ Len(requests') = Len(requests) + 1
      /\ \A r \in 1 .. Len(requests) : requests'[r] = requests[r]
      /\ requests'[Len(requests) + 1] = NewRequest(target)
    BY <1>1, <1>2, AppendProperties
<1>5. Len(requests) \in Nat
    BY <1>1, LenProperties
<1>6. RequestsFit'
    <2>1. ASSUME NEW r \in 1 .. Len(requests')
          PROVE  /\ requests'[r].targetEpoch <= lease'.epoch
                 /\ requests'[r].status = "COMPLETED" =>
                      requests'[r].epoch < requests'[r].targetEpoch
        <3>1. CASE r = Len(requests) + 1
            BY <1>1, <1>3, <1>4, <3>1 DEF NewRequest, LeaseType
        <3>2. CASE r # Len(requests) + 1
            <4>1. r \in 1 .. Len(requests)
                BY <1>4, <1>5, <3>2
            <4> QED
                BY <1>3, <1>4, <4>1 DEF CycleInv, RequestsFit
        <3> QED
            BY <3>1, <3>2
    <2> QED
        BY <2>1 DEF RequestsFit
<1>7. Extends(requests, requests')
    BY <1>4, <1>5 DEF Extends
<1> QED
    BY <1>3, <1>4, <1>6, <1>7

\* Settling a request that is open.
LEMMA SettledFits ==
    ASSUME CycleInv, NEW r \in 1 .. Len(requests), requests[r].status = "REQUESTED",
           NEW item \in RequestType, requests' = [requests EXCEPT ![r] = item],
           item.epoch = requests[r].epoch, item.target = requests[r].target,
           item.status = "COMPLETED" => item.epoch < item.targetEpoch,
           lease' \in LeaseType, lease'.epoch >= lease.epoch,
           item.targetEpoch <= lease'.epoch
    PROVE  requests' \in Seq(RequestType) /\ RequestsFit' /\ Extends(requests, requests')
<1>1. lease \in LeaseType /\ requests \in Seq(RequestType)
    BY DEF CycleInv, ContinuityTypes
<1>2. /\ requests' \in Seq(RequestType) /\ Len(requests') = Len(requests)
      /\ \A q \in 1 .. Len(requests) : requests'[q] = IF q = r THEN item ELSE requests[q]
    BY <1>1, ExceptSeq
<1>3. RequestsFit'
    <2>1. ASSUME NEW q \in 1 .. Len(requests)
          PROVE  /\ requests'[q].targetEpoch <= lease'.epoch
                 /\ requests'[q].status = "COMPLETED" =>
                      requests'[q].epoch < requests'[q].targetEpoch
        <3>1. CASE q = r
            BY <1>2, <3>1
        <3>2. CASE q # r
            <4>1. requests'[q] = requests[q] /\ requests[q] \in RequestType
                BY <1>1, <1>2, <3>2, ElementOfSeq
            <4>2. /\ requests[q].targetEpoch <= lease.epoch
                  /\ requests[q].status = "COMPLETED" =>
                       requests[q].epoch < requests[q].targetEpoch
                BY DEF CycleInv, RequestsFit
            <4>3. requests[q].targetEpoch \in Nat /\ lease.epoch \in Nat
                  /\ lease'.epoch \in Nat
                BY <1>1, <4>1 DEF RequestType, LeaseType
            <4> QED
                BY <4>1, <4>2, <4>3
        <3> QED
            BY <3>1, <3>2
    <2> QED
        BY <1>2, <2>1 DEF RequestsFit
<1>4. Extends(requests, requests')
    BY <1>1, <1>2, LenProperties DEF Extends
<1> QED
    BY <1>2, <1>3, <1>4

LEMMA RequestSteps == CycleInv /\ RequestMoves => CycleInv'
<1> SUFFICES ASSUME CycleInv, RequestMoves PROVE CycleInv'
    OBVIOUS
<1>1. lease \in LeaseType /\ requests \in Seq(RequestType)
    BY DEF CycleInv, ContinuityTypes
<1>2. ASSUME NEW target \in Sites, RequestByHand(target) PROVE CycleInv'
    BY <1>2, RequestAppends, OutsideStep DEF RequestByHand
<1>3. ASSUME NEW r \in DOMAIN requests, Approve(r) \/ CancelRequest(r) PROVE CycleInv'
    <2>1. r \in 1 .. Len(requests) /\ requests[r] \in RequestType
          /\ requests[r].status = "REQUESTED"
        BY <1>1, <1>3, ElementOfSeq, LenProperties DEF Approve, CancelRequest
    <2>2. CASE Approve(r)
        <3> DEFINE next == lease.epoch + 1
                   item == [requests[r] EXCEPT !.status = "COMPLETED", !.targetEpoch = next]
        <3>1. /\ requests' = [requests EXCEPT ![r] = item]
              /\ lease' = HandedTo(lease, requests[r].target)
              /\ lease.epoch = requests[r].epoch
              /\ UNCHANGED <<drills, policy, poller, cancel>>
            BY <2>2 DEF Approve
        <3>2. lease' \in LeaseType /\ lease'.epoch = next /\ lease.epoch \in Nat
            BY <1>1, <2>1, <3>1, LeaseOperations, EpochGrows DEF RequestType
        <3>3. next \in Nat /\ next = lease.epoch + 1
            BY <3>2
        <3> HIDE DEF next
        <3>4. /\ item \in RequestType /\ item.epoch = requests[r].epoch
              /\ item.target = requests[r].target /\ item.targetEpoch = next
            BY <2>1, <3>3 DEF RequestType
        <3>5. item.epoch < item.targetEpoch /\ lease'.epoch >= lease.epoch
              /\ item.targetEpoch <= lease'.epoch
            BY <3>1, <3>2, <3>4, <3>3
        <3> HIDE DEF item
        <3>6. requests' \in Seq(RequestType) /\ RequestsFit' /\ Extends(requests, requests')
            BY <2>1, <3>1, <3>2, <3>4, <3>5, SettledFits
        <3> QED
            BY <3>1, <3>2, <3>6, OutsideStep
    <2>3. CASE CancelRequest(r)
        <3> DEFINE item == [requests[r] EXCEPT !.status = "CANCELLED"]
        <3>1. /\ requests' = [requests EXCEPT ![r] = item]
              /\ lease' \in {lease, Undrained(lease)}
              /\ UNCHANGED <<drills, policy, poller, cancel>>
            BY <2>3 DEF CancelRequest, WithoutRequest
        <3>2. lease' \in LeaseType /\ lease'.epoch = lease.epoch /\ lease.epoch \in Nat
            BY <1>1, <3>1, LeaseOperations, EpochGrows
        <3>3. /\ item \in RequestType /\ item.epoch = requests[r].epoch
              /\ item.target = requests[r].target /\ item.status = "CANCELLED"
              /\ item.targetEpoch = requests[r].targetEpoch
            BY <2>1 DEF RequestType
        <3>4. lease'.epoch >= lease.epoch /\ item.targetEpoch <= lease'.epoch
            BY <2>1, <3>2, <3>3 DEF CycleInv, RequestsFit
        <3> HIDE DEF item
        <3>5. requests' \in Seq(RequestType) /\ RequestsFit' /\ Extends(requests, requests')
            BY <2>1, <3>1, <3>2, <3>3, <3>4, SettledFits
        <3> QED
            BY <3>1, <3>2, <3>5, OutsideStep
    <2> QED
        BY <1>3, <2>2, <2>3
<1> QED
    BY <1>2, <1>3 DEF RequestMoves

-----------------------------------------------------------------------------
(***************************************************************************)
(* Steps of one drill.                                                     *)
(***************************************************************************)

LEMMA RowStep ==
    ASSUME CycleInv, NEW d \in 1 .. Len(drills), NEW new \in DrillType,
           drills' = [drills EXCEPT ![d] = new], Free(d),
           lease' \in LeaseType, requests' \in Seq(RequestType), RequestsFit',
           Extends(requests, requests'), DrillFits(new, requests'),
           Grows(drills[d], new),
           \A r \in Ids(new) : r \in Ids(drills[d]) \/ r = Len(requests) + 1,
           UNCHANGED <<policy, cancel>>,
           poller' = poller \/ \E p \in Pollers : poller' = [poller EXCEPT ![p] = NotLoaded]
    PROVE  CycleInv'
<1>1. /\ requests \in Seq(RequestType) /\ drills \in Seq(DrillType)
      /\ poller \in [Pollers -> {NotLoaded} \cup [drill: Nat \ {0}, row: DrillType]]
    BY DEF CycleInv, ContinuityTypes
<1>2. /\ drills' \in Seq(DrillType) /\ Len(drills') = Len(drills)
      /\ \A e \in 1 .. Len(drills) : drills'[e] = IF e = d THEN new ELSE drills[e]
    BY <1>1, ExceptSeq
<1>3. /\ poller' \in [Pollers -> {NotLoaded} \cup [drill: Nat \ {0}, row: DrillType]]
      /\ \A p \in Pollers : poller'[p] \in {NotLoaded, poller[p]}
    BY <1>1
<1>4. ContinuityTypes'
    BY <1>2, <1>3 DEF CycleInv, ContinuityTypes
<1>5. ASSUME NEW e \in 1 .. Len(drills)
      PROVE  DrillFits(drills'[e], requests') /\ Grows(drills[e], drills'[e])
    <2>1. CASE e = d
        BY <1>2, <2>1
    <2>2. CASE e # d
        <3>1. drills'[e] = drills[e] /\ drills[e] \in DrillType
            BY <1>1, <1>2, <2>2, ElementOfSeq
        <3>2. DrillFits(drills[e], requests)
            BY DEF CycleInv
        <3>3. DrillFits(drills[e], requests')
            BY <1>1, <3>1, <3>2, FitsLater
        <3> QED
            BY <3>1, <3>3 DEF Grows
    <2> QED
        BY <2>1, <2>2
<1>6. \A e \in 1 .. Len(drills) : Len(requests) + 1 \notin Ids(drills[e])
    BY <1>1, LenProperties DEF CycleInv, DrillFits, Ids
<1>7. NewIds
    <2>1. \A e \in 1 .. Len(drills) : e <= Len(drills)
        BY <1>1, LenProperties
    <2>2. \A e \in 1 .. Len(drills') : \A r \in Ids(drills'[e]) :
            (e <= Len(drills) /\ r \in Ids(drills[e])) \/ r = Len(requests) + 1
        BY <1>2, <2>1
    <2>3. \A e \in 1 .. Len(drills') : Len(requests) + 1 \in Ids(drills'[e]) => e = d
        BY <1>2, <1>6
    <2> QED
        BY <2>2, <2>3 DEF NewIds
<1>8. cancel # NoCancel => drills'[cancel.drill] = drills[cancel.drill]
    BY <1>2 DEF CycleInv, CancelFits, Free
<1>9. Len(drills) <= Len(drills')
    BY <1>1, <1>2, LenProperties
<1>10. cancel' = cancel
    OBVIOUS
<1> HIDE DEF NewIds
<1> QED
    BY <1>2, <1>3, <1>4, <1>5, <1>7, <1>8, <1>9, <1>10, CycleStep

\* What the invariant says of one drill.
LEMMA OfDrill ==
    ASSUME CycleInv, NEW d \in DOMAIN drills
    PROVE  /\ d \in 1 .. Len(drills) /\ drills[d] \in DrillType
           /\ DrillFits(drills[d], requests)
           /\ requests \in Seq(RequestType) /\ lease \in LeaseType
           /\ Extends(requests, requests)
           /\ drills[d].failover \in 0 .. Len(requests)
           /\ drills[d].failback \in 0 .. Len(requests)
           /\ \A r \in 1 .. Len(requests) : requests[r].status = "COMPLETED" =>
                requests[r].epoch < requests[r].targetEpoch
<1>1. requests \in Seq(RequestType) /\ lease \in LeaseType /\ drills \in Seq(DrillType)
    BY DEF CycleInv, ContinuityTypes
<1>2. d \in 1 .. Len(drills) /\ drills[d] \in DrillType
    BY <1>1, ElementOfSeq, LenProperties
<1>3. DrillFits(drills[d], requests)
    BY <1>2 DEF CycleInv
<1> QED
    BY <1>1, <1>2, <1>3, ExtendsItself DEF CycleInv, RequestsFit, DrillFits

\* The row that the operations synchronize first.
LEMMA OfSynchronized ==
    ASSUME CycleInv, NEW d \in DOMAIN drills
    PROVE  LET row == Synchronized(drills[d], requests) IN
           /\ row \in DrillType /\ Projected(drills[d], row, requests)
           /\ DrillFits(row, requests)
           /\ row.live /\ row.status = "AWAITING_FAILBACK" /\ row.failback # 0
              /\ row.returnEpoch = 0
              => requests[row.failback].status = "REQUESTED"
<1> DEFINE row == Synchronized(drills[d], requests)
<1>1. /\ row \in DrillType /\ Projected(drills[d], row, requests)
      /\ drills[d].live /\ row.status = "AWAITING_FAILBACK" /\ drills[d].failback # 0
         /\ row.returnEpoch = 0
         => requests[drills[d].failback].status = "REQUESTED"
    BY OfDrill, SyncShape
<1> HIDE DEF row
<1>2. DrillFits(row, requests)
    BY <1>1, OfDrill, ProjectedFits
<1>3. row.live = drills[d].live /\ row.failback = drills[d].failback
    BY <1>1 DEF Projected
<1> QED
    BY <1>1, <1>2, <1>3 DEF row

LEMMA StartSteps ==
    ASSUME CycleInv, NEW d \in DOMAIN drills, StartSimulation(d) \/ StartLive(d)
    PROVE  CycleInv'
<1>1. CASE StartSimulation(d)
    <2> DEFINE new == [drills[d] EXCEPT !.status = "AWAITING_SIGNOFF"]
    <2>1. /\ drills' = [drills EXCEPT ![d] = new] /\ Free(d) /\ ~drills[d].live
          /\ UNCHANGED <<lease, requests, policy, poller, cancel>>
        BY <1>1 DEF StartSimulation, MayStart
    <2>2. new \in DrillType
        BY OfDrill DEF DrillType, Unfinished
    <2>3. /\ DrillFits(new, requests) /\ Grows(drills[d], new)
          /\ \A r \in Ids(new) : r \in Ids(drills[d])
        BY <2>1, OfDrill DEF DrillType, DrillFits, Grows, Ids
    <2> HIDE DEF new
    <2>4. RequestsFit'
        BY <2>1 DEF CycleInv, RequestsFit
    <2> QED
        BY <2>1, <2>2, <2>3, <2>4, OfDrill, RowStep
<1>2. CASE StartLive(d)
    <2> DEFINE new == [drills[d] EXCEPT !.status = "RUNNING", !.failover = Len(requests')]
    <2>1. /\ drills' = [drills EXCEPT ![d] = new] /\ Free(d) /\ drills[d].live
          /\ drills[d].status = "DRAFT" /\ StillAt(drills[d].source, drills[d].epoch)
          /\ RequestFailover(drills[d].target)
          /\ UNCHANGED <<policy, poller, cancel>>
        BY <1>2 DEF StartLive, MayStart
    <2>2. drills[d].target \in Sites
        BY OfDrill DEF DrillType
    <2>3. /\ lease' \in LeaseType /\ requests' \in Seq(RequestType)
          /\ Len(requests') = Len(requests) + 1
          /\ requests'[Len(requests')] = NewRequest(drills[d].target)
          /\ RequestsFit' /\ Extends(requests, requests')
        BY <2>1, <2>2, RequestAppends
    <2>4. Len(requests') \in Nat \ {0}
        BY <2>3, OfDrill, LenProperties
    <2>5. /\ drills[d].failover = 0 /\ drills[d].targetEpoch = 0
          /\ drills[d].failback = 0 /\ drills[d].returnEpoch = 0
        BY <2>1, OfDrill DEF DrillFits
    <2>6. new \in DrillType
        BY <2>4, OfDrill DEF DrillType, Unfinished
    <2>7. /\ new.failover = Len(requests') /\ new.failback = 0 /\ new.live
          /\ new.targetEpoch = 0 /\ new.returnEpoch = 0 /\ new.status = "RUNNING"
          /\ new.epoch = drills[d].epoch /\ new.target = drills[d].target
        BY <2>1, <2>5, OfDrill DEF DrillType
    <2> HIDE DEF new
    <2>8. requests'[new.failover].epoch = new.epoch /\ requests'[new.failover].target = new.target
        BY <2>1, <2>3, <2>7 DEF NewRequest, StillAt
    <2>9. DrillFits(new, requests')
        BY <2>4, <2>7, <2>8 DEF DrillFits
    <2>10. Grows(drills[d], new) /\ \A r \in Ids(new) : r = Len(requests) + 1
        BY <2>1, <2>3, <2>5, <2>7 DEF Grows, Ids
    <2> QED
        BY <2>1, <2>3, <2>6, <2>9, <2>10, OfDrill, RowStep
<1> QED
    BY <1>1, <1>2

LEMMA FailbackStep ==
    ASSUME CycleInv, NEW d \in DOMAIN drills, RequestFailback(d)
    PROVE  CycleInv'
<1> DEFINE row == Synchronized(drills[d], requests)
           new == [row EXCEPT !.status = "RUNNING", !.failback = Len(requests')]
<1>1. /\ drills' = [drills EXCEPT ![d] = new] /\ Free(d) /\ row.live
      /\ row.status = "AWAITING_FAILBACK" /\ StillAt(row.target, row.targetEpoch)
      /\ RequestFailover(row.source)
      /\ UNCHANGED <<policy, poller, cancel>>
    BY DEF RequestFailback
<1>2. /\ row \in DrillType /\ Projected(drills[d], row, requests)
      /\ DrillFits(row, requests)
      /\ row.failback # 0 /\ row.returnEpoch = 0
         => requests[row.failback].status = "REQUESTED"
    BY <1>1, OfSynchronized
<1> HIDE DEF row
<1>3. row.source \in Sites
    BY <1>2 DEF DrillType
<1>4. /\ lease' \in LeaseType /\ requests' \in Seq(RequestType)
      /\ Len(requests') = Len(requests) + 1
      /\ requests'[Len(requests')] = NewRequest(row.source)
      /\ RequestsFit' /\ Extends(requests, requests')
    BY <1>1, <1>3, RequestAppends
<1>5. Len(requests') \in Nat \ {0} /\ Len(requests) \in Nat
    BY <1>4, OfDrill, LenProperties
<1>6. row.failback = 0
    <2>1. SUFFICES ASSUME row.failback # 0 PROVE FALSE
        OBVIOUS
    <2>2. row.failback \in 1 .. Len(requests) /\ row.failback \in DOMAIN requests
        BY <2>1, <1>2, OfDrill, LenProperties DEF DrillFits
    <2>3. requests[row.failback].status # "REQUESTED"
        BY <1>1, <2>2 DEF RequestFailover
    <2>4. row.returnEpoch # 0
        BY <1>2, <2>1, <2>3
    <2>5. /\ requests[row.failback].epoch = row.targetEpoch
          /\ requests[row.failback].epoch < requests[row.failback].targetEpoch
          /\ requests[row.failback].targetEpoch <= lease.epoch
          /\ lease.epoch = row.targetEpoch
        BY <1>1, <1>2, <2>1, <2>2, <2>4 DEF DrillFits, CycleInv, RequestsFit, StillAt
    <2>6. requests[row.failback] \in RequestType /\ row.targetEpoch \in Nat
        BY <1>2, <2>2, OfDrill, ElementOfSeq DEF DrillType
    <2> QED
        BY <2>5, <2>6 DEF RequestType
<1>7. row.returnEpoch = 0
    BY <1>2, <1>6 DEF DrillFits
<1>8. row.targetEpoch # 0
    <2>1. lease.epoch = row.targetEpoch /\ lease.epoch \in Nat \ {0}
        BY <1>1, OfDrill DEF StillAt, LeaseType
    <2> QED
        BY <2>1
<1>9. new \in DrillType
    BY <1>2, <1>5 DEF DrillType, Unfinished
<1>10. /\ new.failback = Len(requests') /\ new.failover = row.failover /\ new.live
       /\ new.targetEpoch = row.targetEpoch /\ new.returnEpoch = 0
       /\ new.status = "RUNNING" /\ new.epoch = row.epoch /\ new.target = row.target
       /\ new.source = row.source
    BY <1>1, <1>2, <1>7 DEF DrillType
<1> HIDE DEF new
<1>11. /\ requests'[new.failback].epoch = new.targetEpoch
       /\ requests'[new.failback].target = new.source
    BY <1>1, <1>4, <1>10 DEF NewRequest, StillAt
<1>12. DrillFits(row, requests')
    BY <1>2, <1>4, OfDrill, FitsLater
<1>13. DrillFits(new, requests')
    BY <1>5, <1>8, <1>10, <1>11, <1>12 DEF DrillFits
<1>14. row.live = drills[d].live /\ row.failover = drills[d].failover
       /\ drills[d].failback = 0
    BY <1>2, <1>6 DEF Projected
<1>15. Grows(drills[d], new)
    BY <1>1, <1>10, <1>14 DEF Grows
<1>16. \A r \in Ids(new) : r \in Ids(drills[d]) \/ r = Len(requests) + 1
    BY <1>4, <1>10, <1>14 DEF Ids
<1> QED
    BY <1>1, <1>4, <1>9, <1>13, <1>15, <1>16, OfDrill, RowStep

LEMMA SignOffStep ==
    ASSUME CycleInv, NEW d \in DOMAIN drills, NEW verdict \in {"PASSED", "FAILED"},
           SignOff(d, verdict)
    PROVE  CycleInv'
<1> DEFINE row == Synchronized(drills[d], requests)
           new == [row EXCEPT !.status = verdict]
<1>1. /\ drills' = [drills EXCEPT ![d] = new] /\ Free(d)
      /\ row.status = "AWAITING_SIGNOFF"
      /\ UNCHANGED <<lease, requests, policy, poller, cancel>>
    BY DEF SignOff
<1>2. row \in DrillType /\ Projected(drills[d], row, requests) /\ DrillFits(row, requests)
    BY OfSynchronized
<1> HIDE DEF row
<1>3. new \in DrillType
    BY <1>2 DEF DrillType, Finished
<1>4. DrillFits(new, requests)
    BY <1>1, <1>2 DEF DrillType, DrillFits
<1>5. Grows(drills[d], new) /\ \A r \in Ids(new) : r \in Ids(drills[d])
    BY <1>2 DEF DrillType, Projected, Grows, Ids
<1> HIDE DEF new
<1>6. RequestsFit'
    BY <1>1 DEF CycleInv, RequestsFit
<1> QED
    BY <1>1, <1>3, <1>4, <1>5, <1>6, OfDrill, RowStep

\* Column by column, what a poller leaves in the row.
LEMMA WrittenShape ==
    ASSUME NEW old \in DrillType, NEW loaded \in DrillType, NEW new \in DrillType
    PROVE  LET w == Written(old, loaded, new) IN
           /\ w \in DrillType
           /\ w.live = IF new.live # loaded.live THEN new.live ELSE old.live
           /\ w.status = IF new.status # loaded.status THEN new.status ELSE old.status
           /\ w.source = IF new.source # loaded.source THEN new.source ELSE old.source
           /\ w.target = IF new.target # loaded.target THEN new.target ELSE old.target
           /\ w.epoch = IF new.epoch # loaded.epoch THEN new.epoch ELSE old.epoch
           /\ w.policy = IF new.policy # loaded.policy THEN new.policy ELSE old.policy
           /\ w.failover = IF new.failover # loaded.failover THEN new.failover ELSE old.failover
           /\ w.targetEpoch = IF new.targetEpoch # loaded.targetEpoch
                                THEN new.targetEpoch ELSE old.targetEpoch
           /\ w.failback = IF new.failback # loaded.failback THEN new.failback ELSE old.failback
           /\ w.returnEpoch = IF new.returnEpoch # loaded.returnEpoch
                                THEN new.returnEpoch ELSE old.returnEpoch
<1> DEFINE w == Written(old, loaded, new)
<1>1. DOMAIN old = {"live", "status", "source", "target", "epoch", "policy", "failover",
                    "targetEpoch", "failback", "returnEpoch"}
    BY DEF DrillType
<1>2. w = [c \in {"live", "status", "source", "target", "epoch", "policy", "failover",
                  "targetEpoch", "failback", "returnEpoch"} |->
             IF new[c] # loaded[c] THEN new[c] ELSE old[c]]
    BY <1>1 DEF Written
<1> HIDE DEF w
<1>3. /\ w.live = IF new.live # loaded.live THEN new.live ELSE old.live
      /\ w.status = IF new.status # loaded.status THEN new.status ELSE old.status
      /\ w.source = IF new.source # loaded.source THEN new.source ELSE old.source
      /\ w.target = IF new.target # loaded.target THEN new.target ELSE old.target
      /\ w.epoch = IF new.epoch # loaded.epoch THEN new.epoch ELSE old.epoch
      /\ w.policy = IF new.policy # loaded.policy THEN new.policy ELSE old.policy
      /\ w.failover = IF new.failover # loaded.failover THEN new.failover ELSE old.failover
      /\ w.targetEpoch = IF new.targetEpoch # loaded.targetEpoch
                           THEN new.targetEpoch ELSE old.targetEpoch
      /\ w.failback = IF new.failback # loaded.failback THEN new.failback ELSE old.failback
      /\ w.returnEpoch = IF new.returnEpoch # loaded.returnEpoch
                           THEN new.returnEpoch ELSE old.returnEpoch
    BY <1>2
<1>4. w = [live |-> w.live, status |-> w.status, source |-> w.source, target |-> w.target,
           epoch |-> w.epoch, policy |-> w.policy, failover |-> w.failover,
           targetEpoch |-> w.targetEpoch, failback |-> w.failback,
           returnEpoch |-> w.returnEpoch]
    BY <1>2
<1>5. /\ w.live \in BOOLEAN /\ w.status \in Unfinished \cup Finished
      /\ w.source \in Sites /\ w.target \in Sites /\ w.policy \in Policies
      /\ w.epoch \in Nat /\ w.failover \in Nat /\ w.targetEpoch \in Nat
      /\ w.failback \in Nat /\ w.returnEpoch \in Nat
    BY <1>3 DEF DrillType
<1>6. w \in DrillType
    BY <1>4, <1>5 DEF DrillType
<1> QED
    BY <1>3, <1>6 DEF w

LEMMA ProjectStep ==
    ASSUME CycleInv, NEW p \in Pollers, Project(p)
    PROVE  CycleInv'
<1> DEFINE d == poller[p].drill
           loaded == poller[p].row
           sync == Synchronized(loaded, requests)
           new == Written(drills[d], loaded, sync)
<1>1. /\ poller[p] # NotLoaded /\ Free(d)
      /\ drills' = [drills EXCEPT ![d] = new]
      /\ poller' = [poller EXCEPT ![p] = NotLoaded]
      /\ UNCHANGED <<lease, requests, policy, cancel>>
    BY DEF Project
<1>2. d \in 1 .. Len(drills) /\ loaded.live /\ Earlier(loaded, drills[d])
    BY <1>1 DEF CycleInv, PollersFit
<1>3. loaded \in DrillType
    BY <1>1 DEF CycleInv, ContinuityTypes, NotLoaded
<1>4. d \in DOMAIN drills
    BY <1>2, LenProperties DEF CycleInv, ContinuityTypes
<1>5. loaded.failover \in 0 .. Len(requests) /\ loaded.failback \in 0 .. Len(requests)
    BY SMTT(40), <1>2, <1>4, OfDrill, LenProperties DEF Earlier
<1> HIDE DEF d, loaded
<1>6. /\ sync \in DrillType /\ Projected(loaded, sync, requests)
      /\ sync.status = "AWAITING_SIGNOFF" =>
           loaded.status = "AWAITING_SIGNOFF" \/ loaded.returnEpoch = 0
    BY <1>3, <1>4, <1>5, OfDrill, SyncShape
<1> HIDE DEF sync
<1>7. /\ new \in DrillType
      /\ new.live = drills[d].live /\ new.source = drills[d].source
      /\ new.target = drills[d].target /\ new.epoch = drills[d].epoch
      /\ new.policy = drills[d].policy /\ new.failover = drills[d].failover
      /\ new.failback = drills[d].failback
      /\ new.targetEpoch = IF sync.targetEpoch # loaded.targetEpoch
                             THEN sync.targetEpoch ELSE drills[d].targetEpoch
      /\ new.returnEpoch = IF sync.returnEpoch # loaded.returnEpoch
                             THEN sync.returnEpoch ELSE drills[d].returnEpoch
      /\ new.status = IF sync.status # loaded.status THEN sync.status ELSE drills[d].status
    BY <1>3, <1>4, <1>6, OfDrill, WrittenShape DEF Projected
<1> HIDE DEF new
<1>8. /\ loaded.failover # 0 => loaded.failover = drills[d].failover
      /\ loaded.failback # 0 => loaded.failback = drills[d].failback
    BY <1>2 DEF Earlier
<1>9. \/ new.targetEpoch = drills[d].targetEpoch
      \/ /\ drills[d].failover # 0 /\ requests[drills[d].failover].status = "COMPLETED"
         /\ new.targetEpoch = requests[drills[d].failover].targetEpoch
    BY <1>6, <1>7, <1>8 DEF Projected
<1>10. \/ new.returnEpoch = drills[d].returnEpoch
       \/ /\ drills[d].failback # 0 /\ requests[drills[d].failback].status = "COMPLETED"
          /\ new.returnEpoch = requests[drills[d].failback].targetEpoch
    BY <1>6, <1>7, <1>8 DEF Projected
<1>11. \/ new.status = drills[d].status
       \/ new.status \in {"AWAITING_FAILBACK", "FAILED", "CANCELLED"}
       \/ /\ new.status = "AWAITING_SIGNOFF"
          /\ drills[d].failback # 0 /\ requests[drills[d].failback].status = "COMPLETED"
          /\ new.returnEpoch = requests[drills[d].failback].targetEpoch
    <2>1. CASE sync.status = loaded.status
        BY <1>7, <2>1
    <2>2. CASE sync.status \in {"AWAITING_FAILBACK", "FAILED", "CANCELLED"}
        BY <1>7, <2>2
    <2>3. CASE sync.status = "AWAITING_SIGNOFF" /\ sync.status # loaded.status
        <3>1. /\ loaded.failback # 0 /\ requests[loaded.failback].status = "COMPLETED"
              /\ sync.returnEpoch = requests[loaded.failback].targetEpoch
              /\ loaded.returnEpoch = 0
            BY <1>6, <2>3 DEF Projected
        <3>2. loaded.failback \in 1 .. Len(requests)
            BY <1>5, <3>1
        <3>3. requests[loaded.failback] \in RequestType
              /\ requests[loaded.failback].epoch < requests[loaded.failback].targetEpoch
            BY <1>4, <3>1, <3>2, OfDrill, ElementOfSeq
        <3>4. sync.returnEpoch # loaded.returnEpoch
            BY <3>1, <3>3 DEF RequestType
        <3> QED
            BY <1>7, <1>8, <2>3, <3>1, <3>4
    <2> QED
        BY <1>6, <2>1, <2>2, <2>3 DEF Projected
<1>12. Projected(drills[d], new, requests)
    BY <1>7, <1>9, <1>10, <1>11 DEF Projected
<1>13. DrillFits(new, requests)
    BY <1>4, <1>7, <1>12, OfDrill, ProjectedFits
<1>14. Grows(drills[d], new) /\ \A r \in Ids(new) : r \in Ids(drills[d])
    BY <1>7 DEF Grows, Ids
<1>15. RequestsFit'
    BY <1>1 DEF CycleInv, RequestsFit
<1> QED
    BY <1>1, <1>2, <1>4, <1>7, <1>13, <1>14, <1>15, OfDrill, RowStep

-----------------------------------------------------------------------------
(***************************************************************************)
(* Steps that load a row, start a cancellation or add a drill.             *)
(***************************************************************************)

LEMMA LoadStep ==
    ASSUME CycleInv, NEW p \in Pollers, NEW d \in DOMAIN drills, Load(p, d)
    PROVE  CycleInv'
<1> DEFINE item == [drill |-> d, row |-> drills[d]]
<1>1. /\ drills[d].live /\ poller' = [poller EXCEPT ![p] = item]
      /\ UNCHANGED <<lease, requests, drills, policy, cancel>>
    BY DEF Load
<1>2. d \in 1 .. Len(drills) /\ drills[d] \in DrillType
    BY OfDrill
<1>3. d \in Nat \ {0}
    BY <1>2, LenProperties DEF CycleInv, ContinuityTypes
<1>4. item \in [drill: Nat \ {0}, row: DrillType]
    BY <1>2, <1>3
<1>5. item.drill = d /\ item.row = drills[d]
    OBVIOUS
<1> HIDE DEF item
<1>6. ContinuityTypes'
    BY <1>1, <1>4 DEF CycleInv, ContinuityTypes
<1>7. Earlier(item.row, drills[d])
    BY <1>5 DEF Earlier
<1>8. PollersFit'
    <2>1. ASSUME NEW q \in Pollers, poller'[q] # NotLoaded
          PROVE  /\ poller'[q].drill \in 1 .. Len(drills)
                 /\ poller'[q].row.live
                 /\ Earlier(poller'[q].row, drills[poller'[q].drill])
        <3>1. CASE q = p
            <4>1. poller'[q] = item
                BY <1>1, <3>1 DEF CycleInv, ContinuityTypes
            <4> QED
                BY <1>1, <1>2, <1>5, <1>7, <4>1
        <3>2. CASE q # p
            <4>1. poller'[q] = poller[q]
                BY <1>1, <3>2 DEF CycleInv, ContinuityTypes
            <4> QED
                BY <2>1, <4>1 DEF CycleInv, PollersFit
        <3> QED
            BY <3>1, <3>2
    <2> QED
        BY <1>1, <2>1 DEF PollersFit
<1> QED
    BY <1>1, <1>6, <1>8 DEF CycleInv, RequestsFit, OwnRequests, CancelFits

LEMMA CancelStep ==
    ASSUME CycleInv, NEW d \in DOMAIN drills, CancelDrill(d)
    PROVE  CycleInv'
<1>1. /\ cancel' = [drill |-> d, seen |-> requests]
      /\ UNCHANGED <<lease, requests, drills, policy, poller>>
    BY DEF CancelDrill
<1>2. /\ d \in 1 .. Len(drills) /\ d \in Nat \ {0}
      /\ DrillFits(drills[d], requests) /\ Extends(requests, requests)
    BY OfDrill, LenProperties DEF CycleInv, ContinuityTypes
<1>3. ContinuityTypes'
    BY <1>1, <1>2 DEF CycleInv, ContinuityTypes
<1>4. cancel'.drill = d /\ cancel'.seen = requests
    BY <1>1
<1>5. CancelFits'
    BY <1>1, <1>2, <1>4 DEF CancelFits
<1> QED
    BY <1>1, <1>3, <1>5 DEF CycleInv, RequestsFit, OwnRequests, PollersFit

LEMMA CreateStep ==
    ASSUME CycleInv, NEW live \in BOOLEAN, NEW target \in Sites, Create(live, target)
    PROVE  CycleInv'
<1> DEFINE new == [live |-> live, status |-> "DRAFT", source |-> lease.site,
                   target |-> target, epoch |-> lease.epoch, policy |-> policy,
                   failover |-> 0, targetEpoch |-> 0, failback |-> 0, returnEpoch |-> 0]
<1>1. /\ drills' = Append(drills, new)
      /\ UNCHANGED <<lease, requests, policy, poller, cancel>>
    BY DEF Create
<1>2. /\ requests \in Seq(RequestType) /\ drills \in Seq(DrillType)
      /\ lease \in LeaseType /\ policy \in Policies
    BY DEF CycleInv, ContinuityTypes
<1>3. lease.site \in Sites /\ lease.epoch \in Nat
    BY <1>2 DEF LeaseType
<1>4. new \in DrillType
    BY <1>2, <1>3 DEF DrillType, Unfinished
<1>5. /\ new.failover = 0 /\ new.failback = 0 /\ new.targetEpoch = 0
      /\ new.returnEpoch = 0 /\ new.status = "DRAFT"
    OBVIOUS
<1> HIDE DEF new
<1>6. /\ drills' \in Seq(DrillType) /\ Len(drills') = Len(drills) + 1
      /\ \A d \in 1 .. Len(drills) : drills'[d] = drills[d]
      /\ drills'[Len(drills) + 1] = new
      /\ Len(drills) \in Nat /\ Len(requests) \in Nat
    BY <1>1, <1>2, <1>4, AppendProperties, LenProperties
<1>7. ContinuityTypes'
    BY <1>1, <1>6 DEF CycleInv, ContinuityTypes
<1>8. Ids(new) = {} /\ DrillFits(new, requests)
    BY <1>5, <1>6 DEF Ids, DrillFits
<1>9. ASSUME NEW d \in 1 .. Len(drills')
      PROVE  /\ DrillFits(drills'[d], requests)
             /\ \A r \in Ids(drills'[d]) : d <= Len(drills) /\ r \in Ids(drills[d])
    <2>1. CASE d = Len(drills) + 1
        BY <1>6, <1>8, <2>1
    <2>2. CASE d # Len(drills) + 1
        <3>1. d \in 1 .. Len(drills) /\ d <= Len(drills)
            BY <1>6, <2>2
        <3> QED
            BY <1>6, <3>1 DEF CycleInv
    <2> QED
        BY <2>1, <2>2
<1>10. \A d \in 1 .. Len(drills) : Len(requests) + 1 \notin Ids(drills[d])
    BY <1>6 DEF CycleInv, DrillFits, Ids
<1>11. NewIds
    <2>1. \A d \in 1 .. Len(drills') : Len(requests) + 1 \notin Ids(drills'[d])
        <3>1. ASSUME NEW d \in 1 .. Len(drills'), Len(requests) + 1 \in Ids(drills'[d])
              PROVE  FALSE
            <4>1. d <= Len(drills) /\ Len(requests) + 1 \in Ids(drills[d])
                BY <1>9, <3>1
            <4>2. d \in 1 .. Len(drills)
                BY <1>6, <4>1
            <4> QED
                BY <1>10, <4>1, <4>2
        <3> QED
            BY <3>1
    <2> QED
        BY <1>9, <2>1 DEF NewIds
<1>12. \A d \in 1 .. Len(drills) : Grows(drills[d], drills'[d])
    BY <1>6 DEF Grows
<1>13. cancel # NoCancel => drills'[cancel.drill] = drills[cancel.drill]
    BY <1>6 DEF CycleInv, CancelFits
<1>14. Len(drills) <= Len(drills') /\ RequestsFit' /\ Extends(requests, requests')
    BY <1>1, <1>2, <1>6, ExtendsItself DEF CycleInv, RequestsFit
<1> HIDE DEF NewIds
<1> QED
    BY <1>1, <1>7, <1>9, <1>11, <1>12, <1>13, <1>14, CycleStep

LEMMA PolicyStep ==
    ASSUME CycleInv, NEW next \in Policies, UpdatePolicy(next)
    PROVE  CycleInv'
<1> DEFINE over(d) == [drills[d] EXCEPT !.status = "INVALIDATED"]
           open == {d \in DOMAIN drills : drills[d].status \in Unfinished}
           row(d) == IF d \in open /\ next # policy THEN over(d) ELSE drills[d]
<1>1. /\ \A d \in open : Free(d)
      /\ drills' = [d \in DOMAIN drills |-> row(d)] /\ policy' = next
      /\ UNCHANGED <<lease, requests, poller, cancel>>
    BY DEF UpdatePolicy
<1>2. /\ requests \in Seq(RequestType) /\ drills \in Seq(DrillType)
      /\ Len(drills) \in Nat /\ Len(requests) \in Nat /\ DOMAIN drills = 1 .. Len(drills)
    BY LenProperties DEF CycleInv, ContinuityTypes
<1>3. ASSUME NEW d \in 1 .. Len(drills)
      PROVE  /\ row(d) \in DrillType /\ DrillFits(row(d), requests)
             /\ Grows(drills[d], row(d)) /\ Ids(row(d)) = Ids(drills[d])
    <2>1. drills[d] \in DrillType /\ DrillFits(drills[d], requests)
        BY <1>2, OfDrill
    <2>2. /\ over(d) \in DrillType /\ over(d).status = "INVALIDATED"
          /\ over(d).failover = drills[d].failover /\ over(d).failback = drills[d].failback
          /\ over(d).targetEpoch = drills[d].targetEpoch
          /\ over(d).returnEpoch = drills[d].returnEpoch
          /\ over(d).live = drills[d].live /\ over(d).epoch = drills[d].epoch
          /\ over(d).source = drills[d].source /\ over(d).target = drills[d].target
        BY <2>1 DEF DrillType, Finished
    <2> HIDE DEF over
    <2>3. DrillFits(over(d), requests)
        BY <2>1, <2>2 DEF DrillFits
    <2> QED
        BY <2>1, <2>2, <2>3 DEF Grows, Ids
<1>4. \A d \in 1 .. Len(drills) : d \in open \/ row(d) = drills[d]
    OBVIOUS
<1> HIDE DEF row
<1>5. /\ drills' = [d \in 1 .. Len(drills) |-> row(d)]
      /\ \A d \in 1 .. Len(drills) : drills'[d] = row(d)
    BY <1>1, <1>2
<1>6. drills' \in Seq(DrillType) /\ Len(drills') = Len(drills)
    BY <1>2, <1>3, <1>5
<1>7. ContinuityTypes'
    BY <1>1, <1>6 DEF CycleInv, ContinuityTypes
<1>8. NewIds
    <2>1. \A d \in 1 .. Len(drills) : Len(requests) + 1 \notin Ids(drills[d])
        BY <1>2 DEF CycleInv, DrillFits, Ids
    <2>2. \A d \in 1 .. Len(drills) : d <= Len(drills) /\ Ids(drills'[d]) = Ids(drills[d])
        BY <1>2, <1>3, <1>5
    <2> QED
        BY <1>6, <2>1, <2>2 DEF NewIds
<1>9. cancel # NoCancel => drills'[cancel.drill] = drills[cancel.drill]
    <2>1. SUFFICES ASSUME cancel # NoCancel PROVE drills'[cancel.drill] = drills[cancel.drill]
        OBVIOUS
    <2>2. cancel.drill \in 1 .. Len(drills)
        BY <2>1 DEF CycleInv, CancelFits
    <2>3. cancel.drill \notin open
        BY <1>1 DEF Free
    <2> QED
        BY <1>4, <1>5, <2>2, <2>3
<1>10. \A d \in 1 .. Len(drills') : DrillFits(drills'[d], requests')
    BY <1>1, <1>3, <1>5, <1>6
<1>11. \A d \in 1 .. Len(drills) : Grows(drills[d], drills'[d])
    BY <1>3, <1>5
<1>12. Len(drills) <= Len(drills') /\ RequestsFit' /\ Extends(requests, requests')
    BY <1>1, <1>2, <1>6, ExtendsItself DEF CycleInv, RequestsFit
<1> HIDE DEF NewIds
<1> QED
    BY <1>1, <1>7, <1>8, <1>9, <1>10, <1>11, <1>12, CycleStep

-----------------------------------------------------------------------------
(***************************************************************************)
(* The cancellation that got the lease's row.                              *)
(***************************************************************************)

\* What there is to show of its writes.
LEMMA CancelledRow ==
    ASSUME CycleInv, NEW d \in 1 .. Len(drills), NEW new \in DrillType,
           drills' = [drills EXCEPT ![d] = new],
           lease' \in LeaseType, requests' \in Seq(RequestType), RequestsFit',
           Len(requests') = Len(requests),
           DrillFits(new, requests'),
           \A e \in 1 .. Len(drills) : e # d => DrillFits(drills[e], requests'),
           Grows(drills[d], new), \A r \in Ids(new) : r \in Ids(drills[d]),
           cancel' = NoCancel, UNCHANGED <<policy, poller>>
    PROVE  CycleInv'
<1>1. /\ requests \in Seq(RequestType) /\ drills \in Seq(DrillType)
      /\ Len(drills) \in Nat /\ Len(requests) \in Nat
    BY LenProperties DEF CycleInv, ContinuityTypes
<1>2. /\ drills' \in Seq(DrillType) /\ Len(drills') = Len(drills)
      /\ \A e \in 1 .. Len(drills) : drills'[e] = IF e = d THEN new ELSE drills[e]
    BY <1>1, ExceptSeq
<1>3. ContinuityTypes'
    BY <1>2 DEF CycleInv, ContinuityTypes
<1>4. \A e \in 1 .. Len(drills') : DrillFits(drills'[e], requests')
    BY <1>2
<1>5. \A e \in 1 .. Len(drills) : Grows(drills[e], drills'[e])
    BY <1>2 DEF Grows
<1>6. NewIds
    <2>1. \A e \in 1 .. Len(drills) : Len(requests) + 1 \notin Ids(drills[e])
        BY <1>1 DEF CycleInv, DrillFits, Ids
    <2>2. \A e \in 1 .. Len(drills) : e <= Len(drills) /\ \A r \in Ids(drills'[e]) : r \in Ids(drills[e])
        BY <1>1, <1>2
    <2> QED
        BY <1>2, <2>1, <2>2 DEF NewIds
<1>7. Len(drills) <= Len(drills') /\ \A p \in Pollers : poller'[p] \in {NotLoaded, poller[p]}
    BY <1>1, <1>2
<1> HIDE DEF NewIds
<1> QED
    BY <1>3, <1>4, <1>5, <1>6, <1>7, CycleStep

LEMMA CancelLockedStep == CycleInv /\ CancelLocked => CycleInv'
<1> SUFFICES ASSUME CycleInv, CancelLocked PROVE CycleInv'
    OBVIOUS
<1> DEFINE d == cancel.drill
           seen == cancel.seen
           row == Synchronized(drills[d], seen)
           new == [row EXCEPT !.status = "CANCELLED"]
           open == StillOpen(row, seen)
<1>1. /\ cancel # NoCancel /\ cancel' = NoCancel /\ UNCHANGED <<policy, poller>>
      /\ \/ UNCHANGED <<lease, requests, drills>>
         \/ /\ ~OnStandby(row) /\ drills' = [drills EXCEPT ![d] = new]
            /\ \/ open = {} /\ UNCHANGED <<lease, requests>>
               \/ \E r \in open : WithoutRequest(r)
    BY DEF CancelLocked
<1>2. /\ d \in 1 .. Len(drills) /\ DrillFits(drills[d], seen) /\ Extends(seen, requests)
      /\ seen \in Seq(RequestType) /\ drills \in Seq(DrillType)
    BY <1>1 DEF CycleInv, CancelFits, ContinuityTypes
<1>3. d \in DOMAIN drills
    BY <1>2, LenProperties
<1>4. /\ requests \in Seq(RequestType) /\ lease \in LeaseType
      /\ drills[d] \in DrillType /\ DrillFits(drills[d], requests)
    BY <1>3, OfDrill
<1>5. drills[d].failover \in 0 .. Len(seen) /\ drills[d].failback \in 0 .. Len(seen)
    BY <1>2 DEF DrillFits
<1> HIDE DEF d, seen
<1>6. row \in DrillType /\ Projected(drills[d], row, seen)
    BY <1>2, <1>4, <1>5, SyncShape
<1> HIDE DEF row
<1>7. \A r \in 1 .. Len(requests) :
        requests[r].status = "COMPLETED" => requests[r].epoch < requests[r].targetEpoch
    BY DEF CycleInv, RequestsFit
<1>8. DrillFits(row, requests)
    BY <1>2, <1>4, <1>5, <1>6, <1>7, ProjectedFits
<1>9. DrillFits(row, seen)
    <2>1. ASSUME NEW r \in 1 .. Len(seen), seen[r].status = "COMPLETED"
          PROVE  seen[r].epoch < seen[r].targetEpoch
        <3>1. requests[r] = seen[r] /\ Len(seen) <= Len(requests)
            BY <1>2, <2>1 DEF Extends
        <3>2. r \in 1 .. Len(requests)
            BY <1>2, <1>4, <3>1, LenProperties
        <3> QED
            BY <1>7, <2>1, <3>1, <3>2
    <2> QED
        BY <1>2, <1>4, <1>5, <1>6, <2>1, ExtendsItself, ProjectedFits
<1>10. /\ new \in DrillType /\ new.status = "CANCELLED"
       /\ new.failover = row.failover /\ new.failback = row.failback
       /\ new.targetEpoch = row.targetEpoch /\ new.returnEpoch = row.returnEpoch
       /\ new.live = row.live /\ new.epoch = row.epoch
       /\ new.source = row.source /\ new.target = row.target
    BY <1>6 DEF DrillType, Finished
<1> HIDE DEF new
<1>11. Grows(drills[d], new) /\ \A r \in Ids(new) : r \in Ids(drills[d])
    BY <1>6, <1>10 DEF Projected, Grows, Ids
<1>12. CASE UNCHANGED <<lease, requests, drills>>
    BY <1>1, <1>12 DEF CycleInv, ContinuityTypes, RequestsFit, OwnRequests, PollersFit,
       CancelFits
<1>13. CASE drills' = [drills EXCEPT ![d] = new] /\ UNCHANGED <<lease, requests>>
    <2>1. DrillFits(new, requests)
        BY <1>8, <1>10 DEF DrillFits
    <2>2. RequestsFit'
        BY <1>13 DEF CycleInv, RequestsFit
    <2>3. \A e \in 1 .. Len(drills) : DrillFits(drills[e], requests)
        BY DEF CycleInv
    <2> QED
        BY <1>1, <1>2, <1>4, <1>10, <1>11, <1>13, <2>1, <2>2, <2>3, CancelledRow
<1>14. ASSUME ~OnStandby(row), drills' = [drills EXCEPT ![d] = new],
              NEW r \in open, WithoutRequest(r)
       PROVE  CycleInv'
    <2>1. r \in {row.failover, row.failback} \ {0} /\ seen[r].status = "REQUESTED"
        BY <1>14 DEF StillOpen
    <2>2. /\ r = row.failover /\ row.targetEpoch = 0
          /\ row.failback = 0 /\ row.returnEpoch = 0
        BY <1>9, <1>14, <2>1 DEF DrillFits, OnStandby
    <2>3. r \in 1 .. Len(requests)
        BY <1>8, <2>1, <2>2, <1>4, LenProperties DEF DrillFits
    <2> DEFINE item == [requests[r] EXCEPT !.status = "CANCELLED"]
    <2>4. requests' = [requests EXCEPT ![r] = item] /\ lease' \in {lease, Undrained(lease)}
        BY <1>14 DEF WithoutRequest
    <2>5. lease' \in LeaseType /\ lease'.epoch = lease.epoch
        BY <1>4, <2>4, LeaseOperations, EpochGrows
    <2>6. requests[r] \in RequestType
        BY <1>4, <2>3, ElementOfSeq
    <2>7. /\ item \in RequestType /\ item.epoch = requests[r].epoch
          /\ item.target = requests[r].target /\ item.status = "CANCELLED"
          /\ item.targetEpoch = requests[r].targetEpoch
        BY <2>6 DEF RequestType
    <2> HIDE DEF item
    <2>8. /\ requests' \in Seq(RequestType) /\ Len(requests') = Len(requests)
          /\ \A q \in 1 .. Len(requests) : requests'[q] = IF q = r THEN item ELSE requests[q]
        BY <1>4, <2>3, <2>4, <2>7, ExceptSeq
    <2>9. RequestsFit'
        BY <2>5, <2>7, <2>8 DEF CycleInv, RequestsFit
    <2>10. DrillFits(new, requests')
        BY <1>8, <1>10, <2>2, <2>3, <2>7, <2>8 DEF DrillFits
    <2>11. r \in Ids(drills[d])
        BY <1>6, <2>1, <2>2 DEF Projected, Ids
    <2>12. ASSUME NEW e \in 1 .. Len(drills), e # d
           PROVE  DrillFits(drills[e], requests')
        <3>1. DrillFits(drills[e], requests)
            BY DEF CycleInv
        <3>2. r \notin Ids(drills[e])
            BY <1>2, <2>11, <2>12 DEF CycleInv, OwnRequests
        <3>3. /\ drills[e].failover # 0 => drills[e].failover \in 1 .. Len(requests)
              /\ drills[e].failback # 0 => drills[e].failback \in 1 .. Len(requests)
            BY <1>4, <3>1, LenProperties DEF DrillFits
        <3>4. /\ drills[e].failover # 0 =>
                    requests'[drills[e].failover] = requests[drills[e].failover]
              /\ drills[e].failback # 0 =>
                    requests'[drills[e].failback] = requests[drills[e].failback]
            BY <2>8, <3>2, <3>3 DEF Ids
        <3> QED
            BY <2>8, <3>1, <3>4 DEF DrillFits
    <2> QED
        BY <1>1, <1>2, <1>10, <1>11, <1>14, <2>5, <2>8, <2>9, <2>10, <2>12, CancelledRow
<1> QED
    BY <1>1, <1>12, <1>13, <1>14

-----------------------------------------------------------------------------
(***************************************************************************)
(* The theorems.                                                           *)
(***************************************************************************)

LEMMA StepCycle == CycleInv /\ [Next]_vars => CycleInv'
<1> SUFFICES ASSUME CycleInv, [Next]_vars PROVE CycleInv'
    OBVIOUS
<1>1. CASE LeaseMoves
    BY <1>1, LeaseSteps
<1>2. CASE RequestMoves
    BY <1>2, RequestSteps
<1>3. CASE DrillMoves
    BY <1>3, CreateStep, StartSteps, FailbackStep, SignOffStep, CancelStep,
       CancelLockedStep, PolicyStep DEF DrillMoves
<1>4. CASE Polls
    BY <1>4, LoadStep, ProjectStep DEF Polls
<1>5. CASE UNCHANGED vars
    BY <1>5 DEF vars, CycleInv, ContinuityTypes, RequestsFit, OwnRequests, PollersFit,
       CancelFits
<1> QED
    BY <1>1, <1>2, <1>3, <1>4, <1>5 DEF Next

\* The strengthening holds in every reachable state.
THEOREM CycleInvariant == Spec => []CycleInv
    BY InitCycle, StepCycle, PTL DEF Spec

\* Whatever the operations and the stale pollers write (app/services/continuity.py),
\* every row keeps its columns' types and refers to requests that exist.
THEOREM ContinuityTypeCorrect == Spec => []ContinuityTypeOK
<1>1. CycleInv => ContinuityTypeOK
    <2> SUFFICES ASSUME CycleInv PROVE ContinuityTypeOK
        OBVIOUS
    <2>1. /\ lease \in LeaseType /\ policy \in Policies
          /\ requests \in Seq(RequestType) /\ drills \in Seq(DrillType)
          /\ Len(drills) \in Nat
        BY LenProperties DEF CycleInv, ContinuityTypes
    <2>2. \A r \in DOMAIN requests : requests[r] \in RequestType
        BY <2>1, ElementOfSeq, LenProperties
    <2>3. \A d \in DOMAIN drills :
            /\ drills[d] \in DrillType
            /\ {drills[d].failover, drills[d].failback} \subseteq 0 .. Len(requests)
        BY OfDrill
    <2>4. \A p \in Pollers : poller[p].drill \in 0 .. Len(drills)
        BY <2>1 DEF CycleInv, PollersFit, NotLoaded
    <2>5. cancel.drill \in 0 .. Len(drills)
        BY <2>1 DEF CycleInv, CancelFits, NoCancel
    <2> QED
        BY <2>1, <2>2, <2>3, <2>4, <2>5 DEF ContinuityTypeOK
<1> QED
    BY <1>1, CycleInvariant, PTL

\* A drill's row (app/services/continuity.py synchronize_drill) and its two failover
\* requests tell one story, and a live drill is accepted only after its failover and,
\* at the epoch that one gave, its failback.
THEOREM DrillTellsOneCycle == Spec => []DrillIsOneCycle
<1>1. CycleInv => DrillIsOneCycle
    <2> SUFFICES ASSUME CycleInv, NEW d \in DOMAIN drills, drills[d].live
                 PROVE  LET row == drills[d]
                            there == row.failover
                            back == row.failback
                        IN
                        /\ there # 0 => /\ requests[there].epoch = row.epoch
                                        /\ requests[there].target = row.target
                        /\ row.targetEpoch # 0 => /\ Completed(there)
                              /\ requests[there].targetEpoch = row.targetEpoch
                        /\ back # 0 => /\ requests[back].epoch = row.targetEpoch
                                       /\ requests[back].target = row.source
                        /\ row.returnEpoch # 0 => /\ Completed(back)
                              /\ requests[back].targetEpoch = row.returnEpoch
                        /\ row.status = "PASSED" => row.epoch < row.targetEpoch
                                                    /\ row.targetEpoch < row.returnEpoch
        BY DEF DrillIsOneCycle
    <2> DEFINE row == drills[d]
               there == row.failover
               back == row.failback
    <2>1. DrillFits(row, requests)
        BY OfDrill
    <2>2. row.status = "PASSED" => row.epoch < row.targetEpoch
                                   /\ row.targetEpoch < row.returnEpoch
        <3> SUFFICES ASSUME row.status = "PASSED"
                     PROVE  row.epoch < row.targetEpoch /\ row.targetEpoch < row.returnEpoch
            OBVIOUS
        <3>1. row.returnEpoch # 0 /\ back # 0 /\ row.targetEpoch # 0 /\ there # 0
            BY <2>1 DEF DrillFits
        <3>2. there \in 1 .. Len(requests) /\ back \in 1 .. Len(requests)
            BY <3>1, OfDrill
        <3>3. /\ requests[there].epoch < requests[there].targetEpoch
              /\ requests[back].epoch < requests[back].targetEpoch
            BY <2>1, <3>1, <3>2, OfDrill DEF DrillFits
        <3> QED
            BY <2>1, <3>1, <3>3 DEF DrillFits
    <2> QED
        BY <2>1, <2>2 DEF DrillFits, Completed
<1> QED
    BY <1>1, CycleInvariant, PTL

-----------------------------------------------------------------------------
(***************************************************************************)
(* What a cancellation leaves.  The hard case is a request that was        *)
(* approved while the cancellation of its drill waited for the lease.      *)
(***************************************************************************)

UnderWay(row) == row.live /\ row.status \in {"RUNNING", "AWAITING_FAILBACK"}

\* A request that was cancelled after it had been approved ended its drill.
OverFits(row, rs) ==
    LET there == row.failover IN
    /\ UnderWay(row) => there # 0
    /\ there # 0 /\ rs[there].status = "CANCELLED" /\ rs[there].targetEpoch # 0
         => row.status = "CANCELLED"

OpenUnused ==
    \A r \in 1 .. Len(requests) :
        requests[r].status = "REQUESTED" => requests[r].targetEpoch = 0

\* What a poller knows of the failover, its drill knows.
PollersWait ==
    \A p \in Pollers : poller[p] # NotLoaded =>
        /\ UnderWay(poller[p].row) /\ poller[p].row.failover # 0
        /\ poller[p].row.targetEpoch # 0 => drills[poller[p].drill].targetEpoch # 0

UndoneInv ==
    /\ CycleInv
    /\ OpenUnused
    /\ \A d \in 1 .. Len(drills) : OverFits(drills[d], requests)
    /\ PollersWait

\* No approved request becomes a cancelled one.
KeepsApproved(rs, rt) ==
    /\ Len(rs) <= Len(rt)
    /\ \A r \in 1 .. Len(rs) : rt[r].status = "CANCELLED" /\ rt[r].targetEpoch # 0
          => rs[r].status = "CANCELLED" /\ rs[r].targetEpoch # 0

LEMMA OverLater ==
    ASSUME NEW row, NEW rs, NEW rt, row.failover \in 0 .. Len(rs), Len(rs) \in Nat,
           OverFits(row, rs), KeepsApproved(rs, rt)
    PROVE  OverFits(row, rt)
<1>1. row.failover # 0 => row.failover \in 1 .. Len(rs)
    OBVIOUS
<1> QED
    BY <1>1 DEF OverFits, KeepsApproved

\* Pollers that hold what they held before.
LEMMA PollersLater ==
    ASSUME CycleInv, PollersWait,
           \A p \in Pollers : poller'[p] \in {NotLoaded, poller[p]},
           \A d \in 1 .. Len(drills) :
              drills[d].targetEpoch # 0 => drills'[d].targetEpoch # 0
    PROVE  PollersWait'
<1>1. ASSUME NEW p \in Pollers, poller'[p] # NotLoaded
      PROVE  /\ UnderWay(poller'[p].row) /\ poller'[p].row.failover # 0
             /\ poller'[p].row.targetEpoch # 0 => drills'[poller'[p].drill].targetEpoch # 0
    <2>1. poller'[p] = poller[p]
        BY <1>1
    <2>2. poller[p].drill \in 1 .. Len(drills)
        BY <1>1, <2>1 DEF CycleInv, PollersFit
    <2> QED
        BY <1>1, <2>1, <2>2 DEF PollersWait
<1> QED
    BY <1>1 DEF PollersWait

\* Steps that leave the drills alone.
LEMMA UndoneOutside ==
    ASSUME UndoneInv, CycleInv', OpenUnused', KeepsApproved(requests, requests'),
           UNCHANGED <<drills, poller>>
    PROVE  UndoneInv'
<1>1. ASSUME NEW d \in 1 .. Len(drills)
      PROVE  OverFits(drills[d], requests')
    <2>1. /\ drills[d].failover \in 0 .. Len(requests) /\ Len(requests) \in Nat
          /\ OverFits(drills[d], requests)
        BY LenProperties DEF UndoneInv, CycleInv, ContinuityTypes, DrillFits
    <2> QED
        BY <2>1, OverLater
<1>2. PollersWait'
    BY PollersLater DEF UndoneInv
<1> QED
    BY <1>1, <1>2 DEF UndoneInv

\* Steps that write one drill's row.
LEMMA UndoneRow ==
    ASSUME UndoneInv, CycleInv', NEW d \in 1 .. Len(drills), NEW new,
           drills' = [drills EXCEPT ![d] = new],
           OpenUnused', KeepsApproved(requests, requests'), OverFits(new, requests'),
           drills[d].targetEpoch # 0 => new.targetEpoch # 0,
           \A p \in Pollers : poller'[p] \in {NotLoaded, poller[p]}
    PROVE  UndoneInv'
<1>1. drills \in Seq(DrillType) /\ requests \in Seq(RequestType)
    BY DEF UndoneInv, CycleInv, ContinuityTypes
<1>2. /\ Len(drills') = Len(drills)
      /\ \A e \in 1 .. Len(drills) : drills'[e] = IF e = d THEN new ELSE drills[e]
    BY <1>1, LenProperties
<1>3. ASSUME NEW e \in 1 .. Len(drills), e # d
      PROVE  OverFits(drills[e], requests')
    <2>1. /\ drills[e].failover \in 0 .. Len(requests) /\ Len(requests) \in Nat
          /\ OverFits(drills[e], requests)
        BY <1>1, LenProperties DEF UndoneInv, CycleInv, DrillFits
    <2> QED
        BY <2>1, OverLater
<1>4. \A e \in 1 .. Len(drills') : OverFits(drills'[e], requests')
    BY <1>2, <1>3
<1>5. PollersWait'
    BY <1>2, PollersLater DEF UndoneInv
<1> QED
    BY <1>4, <1>5 DEF UndoneInv

LEMMA KeepsSame ==
    ASSUME NEW rs \in Seq(RequestType)
    PROVE  KeepsApproved(rs, rs)
BY LenProperties DEF KeepsApproved

\* Asking for a failover.
LEMMA UnusedAppends ==
    ASSUME UndoneInv, NEW target \in Sites, RequestFailover(target)
    PROVE  /\ OpenUnused' /\ KeepsApproved(requests, requests')
           /\ Len(requests') = Len(requests) + 1 /\ Len(requests) \in Nat
           /\ requests'[Len(requests')].status = "REQUESTED"
<1>1. requests \in Seq(RequestType) /\ lease \in LeaseType
    BY DEF UndoneInv, CycleInv, ContinuityTypes
<1>2. NewRequest(target) \in RequestType
    BY <1>1 DEF NewRequest, RequestType, LeaseType
<1>3. /\ Len(requests') = Len(requests) + 1
      /\ \A r \in 1 .. Len(requests) : requests'[r] = requests[r]
      /\ requests'[Len(requests) + 1] = NewRequest(target)
      /\ Len(requests) \in Nat
    BY <1>1, <1>2, AppendProperties, LenProperties DEF RequestFailover
<1>4. NewRequest(target).status = "REQUESTED" /\ NewRequest(target).targetEpoch = 0
    BY DEF NewRequest
<1>5. OpenUnused'
    <2>1. ASSUME NEW r \in 1 .. Len(requests'), requests'[r].status = "REQUESTED"
          PROVE  requests'[r].targetEpoch = 0
        <3>1. r \in 1 .. Len(requests) \/ r = Len(requests) + 1
            BY <1>3
        <3> QED
            BY <1>3, <1>4, <2>1, <3>1 DEF UndoneInv, OpenUnused
    <2> QED
        BY <2>1 DEF OpenUnused
<1>6. KeepsApproved(requests, requests')
    BY <1>3 DEF KeepsApproved
<1> QED
    BY <1>3, <1>4, <1>5, <1>6

\* Settling a request that is open.
LEMMA UnusedSettles ==
    ASSUME UndoneInv, NEW r \in DOMAIN requests, Approve(r) \/ CancelRequest(r)
    PROVE  OpenUnused' /\ KeepsApproved(requests, requests')
<1>1. /\ requests \in Seq(RequestType) /\ r \in 1 .. Len(requests)
      /\ requests[r] \in RequestType /\ requests[r].status = "REQUESTED"
    BY ElementOfSeq, LenProperties
       DEF UndoneInv, CycleInv, ContinuityTypes, Approve, CancelRequest
<1>2. PICK item : /\ requests' = [requests EXCEPT ![r] = item]
                  /\ item.status # "REQUESTED"
                  /\ item.status = "CANCELLED" => item.targetEpoch = requests[r].targetEpoch
    <2>1. CASE Approve(r)
        <3> DEFINE item == [requests[r] EXCEPT !.status = "COMPLETED",
                                               !.targetEpoch = lease.epoch + 1]
        <3>1. requests' = [requests EXCEPT ![r] = item]
            BY <2>1 DEF Approve
        <3>2. item.status = "COMPLETED"
            BY <1>1 DEF RequestType
        <3> QED
            BY <3>1, <3>2
    <2>2. CASE CancelRequest(r)
        <3> DEFINE item == [requests[r] EXCEPT !.status = "CANCELLED"]
        <3>1. requests' = [requests EXCEPT ![r] = item]
            BY <2>2 DEF CancelRequest, WithoutRequest
        <3>2. item.status = "CANCELLED" /\ item.targetEpoch = requests[r].targetEpoch
            BY <1>1 DEF RequestType
        <3> QED
            BY <3>1, <3>2
    <2> QED
        BY <2>1, <2>2
<1>3. /\ Len(requests') = Len(requests) /\ Len(requests) \in Nat
      /\ \A q \in 1 .. Len(requests) : requests'[q] = IF q = r THEN item ELSE requests[q]
    BY <1>1, <1>2, LenProperties
<1>4. OpenUnused'
    BY <1>2, <1>3 DEF UndoneInv, OpenUnused
<1>5. KeepsApproved(requests, requests')
    <2>1. requests[r].targetEpoch = 0
        BY <1>1 DEF UndoneInv, OpenUnused
    <2> QED
        BY <1>2, <1>3, <2>1 DEF KeepsApproved
<1> QED
    BY <1>4, <1>5

\* What synchronize_drill makes of the status of a live row.
LEMMA SyncStatus ==
    ASSUME NEW row \in DrillType, NEW seen \in Seq(RequestType),
           row.failover \in 0 .. Len(seen), row.failback \in 0 .. Len(seen)
    PROVE  LET new == Synchronized(row, seen) IN
           /\ row.status \in Finished => new = row
           /\ new.status = "AWAITING_FAILBACK" /\ row.status # "AWAITING_FAILBACK"
                => row.failover # 0
           /\ row.live /\ row.status \notin Finished /\ row.failover # 0
              /\ row.targetEpoch = 0 /\ seen[row.failover].status = "CANCELLED"
                => new.status = "CANCELLED"
           /\ new.status = "CANCELLED" /\ row.status # "CANCELLED" =>
                \/ /\ row.failover # 0 /\ row.targetEpoch = 0
                   /\ seen[row.failover].status = "CANCELLED"
                \/ row.failback # 0 /\ seen[row.failback].status = "CANCELLED"
           /\ row.live /\ new.status \notin Finished /\ row.failover # 0
              /\ new.targetEpoch = 0 => seen[row.failover].status = "REQUESTED"
<1> DEFINE first == Failover(row, seen)
           last == Failback(first, seen)
           new == Synchronized(row, seen)
<1>1. /\ row.failover # 0 => seen[row.failover] \in RequestType
      /\ row.failback # 0 => seen[row.failback] \in RequestType
    BY ElementOfSeq
<1>2. /\ first \in DrillType /\ first.failback = row.failback
      /\ first.failover = row.failover /\ first.returnEpoch = row.returnEpoch
    BY FailoverShape DEF Projected
<1>3. row.failover # 0 /\ row.targetEpoch = 0 =>
        LET item == seen[row.failover] IN
        /\ item.status = "COMPLETED" =>
             \/ first.status = "AWAITING_FAILBACK" /\ first.targetEpoch # 0
             \/ first.status = "FAILED"
        /\ item.status = "CANCELLED" => first.status = "CANCELLED"
        /\ item.status = "REQUESTED" => first = row
    BY SMTT(40), <1>1 DEF Failover, AfterFailover, Agrees, DrillType, RequestType
<1>4. row.failover = 0 \/ row.targetEpoch # 0 => first = row
    BY DEF Failover
<1>5. /\ last.targetEpoch = first.targetEpoch
      /\ last.status = first.status \/ last.status \in {"AWAITING_SIGNOFF", "FAILED", "CANCELLED"}
      /\ last.status = "CANCELLED" /\ first.status # "CANCELLED" =>
           first.failback # 0 /\ seen[first.failback].status = "CANCELLED"
    BY <1>1, <1>2 DEF Failback, AfterFailback, DrillType, RequestType
<1>6. \/ (~row.live \/ row.status \in Finished) /\ new = row
      \/ /\ row.live /\ row.status \notin Finished /\ first.status \in Finished
         /\ new = first
      \/ /\ row.live /\ row.status \notin Finished /\ first.status \notin Finished
         /\ new = last
    BY DEF Synchronized
<1>7. \A status \in {"AWAITING_FAILBACK", "AWAITING_SIGNOFF"} : status \notin Finished
    BY DEF Finished
<1>8. {"FAILED", "CANCELLED"} \subseteq Finished
    BY DEF Finished
<1>9. row.failover # 0 => seen[row.failover].status \in {"REQUESTED", "COMPLETED", "CANCELLED"}
    BY <1>1 DEF RequestType
<1> HIDE DEF first, last, new
<1>10. row.status \in Finished => new = row
    BY <1>6
<1>11. new.status = "AWAITING_FAILBACK" /\ row.status # "AWAITING_FAILBACK" => row.failover # 0
    BY <1>4, <1>5, <1>6
<1>12. row.live /\ row.status \notin Finished /\ row.failover # 0
       /\ row.targetEpoch = 0 /\ seen[row.failover].status = "CANCELLED"
         => new.status = "CANCELLED"
    BY <1>3, <1>6, <1>8
<1>13. new.status = "CANCELLED" /\ row.status # "CANCELLED" =>
         \/ /\ row.failover # 0 /\ row.targetEpoch = 0
            /\ seen[row.failover].status = "CANCELLED"
         \/ row.failback # 0 /\ seen[row.failback].status = "CANCELLED"
    BY <1>2, <1>3, <1>4, <1>5, <1>6, <1>9
<1>14. row.live /\ new.status \notin Finished /\ row.failover # 0
       /\ new.targetEpoch = 0 => seen[row.failover].status = "REQUESTED"
    BY <1>3, <1>4, <1>5, <1>6, <1>8, <1>9
<1> QED
    BY <1>10, <1>11, <1>12, <1>13, <1>14 DEF new

\* A projection loses no target epoch.
LEMMA ProjectedTarget ==
    ASSUME NEW row \in DrillType, NEW new \in DrillType, NEW seen \in Seq(RequestType),
           row.failover \in 0 .. Len(seen), Projected(row, new, seen),
           \A r \in 1 .. Len(seen) : seen[r].status = "COMPLETED" =>
              seen[r].epoch < seen[r].targetEpoch,
           row.targetEpoch # 0
    PROVE  new.targetEpoch # 0
<1>1. CASE new.targetEpoch = row.targetEpoch
    BY <1>1
<1>2. CASE /\ row.failover # 0 /\ seen[row.failover].status = "COMPLETED"
           /\ new.targetEpoch = seen[row.failover].targetEpoch
    <2>1. seen[row.failover] \in RequestType
          /\ seen[row.failover].epoch < seen[row.failover].targetEpoch
        BY <1>2, ElementOfSeq
    <2> QED
        BY <1>2, <2>1 DEF RequestType
<1> QED
    BY <1>1, <1>2 DEF Projected

\* The row that the operations synchronize first.
LEMMA SynchronizedOver ==
    ASSUME UndoneInv, NEW d \in DOMAIN drills
    PROVE  LET row == Synchronized(drills[d], requests) IN
           /\ d \in 1 .. Len(drills) /\ requests \in Seq(RequestType)
           /\ row \in DrillType /\ row.failover = drills[d].failover
           /\ OverFits(row, requests)
           /\ drills[d].targetEpoch # 0 => row.targetEpoch # 0
<1> DEFINE row == Synchronized(drills[d], requests)
<1>1. /\ CycleInv /\ d \in 1 .. Len(drills) /\ drills[d] \in DrillType
      /\ requests \in Seq(RequestType)
      /\ drills[d].failover \in 0 .. Len(requests)
      /\ drills[d].failback \in 0 .. Len(requests)
      /\ \A r \in 1 .. Len(requests) : requests[r].status = "COMPLETED" =>
           requests[r].epoch < requests[r].targetEpoch
    BY OfDrill DEF UndoneInv
<1>2. OverFits(drills[d], requests)
    BY <1>1 DEF UndoneInv
<1>3. row \in DrillType /\ Projected(drills[d], row, requests)
    BY <1>1, OfSynchronized
<1>4. /\ drills[d].status \in Finished => row = drills[d]
      /\ row.status = "AWAITING_FAILBACK" /\ drills[d].status # "AWAITING_FAILBACK"
           => drills[d].failover # 0
    BY <1>1, SyncStatus
<1> HIDE DEF row
<1>5. row.live = drills[d].live /\ row.failover = drills[d].failover
      /\ (row.status = drills[d].status
          \/ row.status \in {"AWAITING_FAILBACK", "FAILED", "CANCELLED", "AWAITING_SIGNOFF"})
    BY <1>3 DEF Projected
<1>6. OverFits(row, requests)
    BY <1>2, <1>4, <1>5 DEF OverFits, UnderWay, Finished
<1>7. drills[d].targetEpoch # 0 => row.targetEpoch # 0
    BY <1>1, <1>3, ProjectedTarget
<1> QED
    BY <1>1, <1>3, <1>5, <1>6, <1>7 DEF row

\* What the invariant says of one drill, beside its row's shape.
LEMMA OverDrill ==
    ASSUME UndoneInv, NEW d \in DOMAIN drills
    PROVE  /\ CycleInv /\ d \in 1 .. Len(drills) /\ drills[d] \in DrillType
           /\ OverFits(drills[d], requests) /\ requests \in Seq(RequestType)
           /\ KeepsApproved(requests, requests)
           /\ drills[d].failover \in 0 .. Len(requests)
BY OfDrill, KeepsSame DEF UndoneInv

LEMMA UndoneStart ==
    ASSUME UndoneInv, CycleInv', NEW d \in DOMAIN drills,
           StartSimulation(d) \/ StartLive(d)
    PROVE  UndoneInv'
<1>1. drills[d].status = "DRAFT" /\ DrillFits(drills[d], requests) /\ CycleInv
    BY OverDrill, OfDrill DEF StartSimulation, StartLive, MayStart
<1>2. drills[d].failover = 0 /\ drills[d].targetEpoch = 0
    BY <1>1 DEF DrillFits
<1>3. CASE StartSimulation(d)
    <2> DEFINE new == [drills[d] EXCEPT !.status = "AWAITING_SIGNOFF"]
    <2>1. drills' = [drills EXCEPT ![d] = new] /\ requests' = requests /\ poller' = poller
        BY <1>3 DEF StartSimulation
    <2>2. OverFits(new, requests')
        BY <1>2, OverDrill DEF OverFits, UnderWay, DrillType
    <2>3. OpenUnused'
        BY <2>1 DEF UndoneInv, OpenUnused
    <2> HIDE DEF new
    <2> QED
        BY <1>2, <2>1, <2>2, <2>3, OverDrill, UndoneRow
<1>4. CASE StartLive(d)
    <2> DEFINE new == [drills[d] EXCEPT !.status = "RUNNING", !.failover = Len(requests')]
    <2>1. /\ drills' = [drills EXCEPT ![d] = new] /\ poller' = poller
          /\ RequestFailover(drills[d].target)
        BY <1>4 DEF StartLive
    <2>2. drills[d].target \in Sites
        BY OverDrill DEF DrillType
    <2>3. /\ OpenUnused' /\ KeepsApproved(requests, requests')
          /\ Len(requests') = Len(requests) + 1 /\ Len(requests) \in Nat
          /\ requests'[Len(requests')].status = "REQUESTED"
        BY <2>1, <2>2, UnusedAppends
    <2>4. new.failover = Len(requests') /\ new.failover # 0
        BY <2>3, OverDrill DEF DrillType
    <2>5. OverFits(new, requests')
        BY <2>3, <2>4 DEF OverFits
    <2> HIDE DEF new
    <2> QED
        BY <1>2, <2>1, <2>3, <2>5, OverDrill, UndoneRow
<1> QED
    BY <1>3, <1>4

LEMMA UndoneFailback ==
    ASSUME UndoneInv, CycleInv', NEW d \in DOMAIN drills, RequestFailback(d)
    PROVE  UndoneInv'
<1> DEFINE row == Synchronized(drills[d], requests)
           new == [row EXCEPT !.status = "RUNNING", !.failback = Len(requests')]
<1>1. /\ drills' = [drills EXCEPT ![d] = new] /\ poller' = poller /\ row.live
      /\ row.status = "AWAITING_FAILBACK" /\ RequestFailover(row.source)
    BY DEF RequestFailback
<1>2. /\ row \in DrillType /\ OverFits(row, requests) /\ row.failover = drills[d].failover
      /\ drills[d].targetEpoch # 0 => row.targetEpoch # 0
    BY SynchronizedOver
<1> HIDE DEF row
<1>3. row.source \in Sites
    BY <1>2 DEF DrillType
<1>4. OpenUnused' /\ KeepsApproved(requests, requests')
    BY <1>1, <1>3, UnusedAppends
<1>5. new.failover = row.failover /\ new.targetEpoch = row.targetEpoch
    BY <1>2 DEF DrillType
<1>6. OverFits(row, requests')
    BY <1>2, <1>4, OverDrill, OverLater, LenProperties
<1>7. OverFits(new, requests')
    BY <1>1, <1>2, <1>5, <1>6 DEF OverFits, UnderWay
<1> HIDE DEF new
<1> QED
    BY <1>1, <1>2, <1>4, <1>5, <1>7, OverDrill, UndoneRow

LEMMA UndoneSignOff ==
    ASSUME UndoneInv, CycleInv', NEW d \in DOMAIN drills,
           NEW verdict \in {"PASSED", "FAILED"}, SignOff(d, verdict)
    PROVE  UndoneInv'
<1> DEFINE row == Synchronized(drills[d], requests)
           new == [row EXCEPT !.status = verdict]
<1>1. /\ drills' = [drills EXCEPT ![d] = new] /\ poller' = poller
      /\ row.status = "AWAITING_SIGNOFF" /\ requests' = requests
    BY DEF SignOff
<1>2. /\ row \in DrillType /\ OverFits(row, requests)
      /\ drills[d].targetEpoch # 0 => row.targetEpoch # 0
    BY SynchronizedOver
<1> HIDE DEF row
<1>3. /\ new.failover = row.failover /\ new.targetEpoch = row.targetEpoch
      /\ new.status \in {"PASSED", "FAILED"}
    BY <1>2 DEF DrillType
<1> HIDE DEF new
<1>4. OverFits(new, requests')
    BY <1>1, <1>2, <1>3 DEF OverFits, UnderWay
<1>5. OpenUnused'
    BY <1>1 DEF UndoneInv, OpenUnused
<1> QED
    BY <1>1, <1>2, <1>3, <1>4, <1>5, OverDrill, UndoneRow

LEMMA UndoneCreate ==
    ASSUME UndoneInv, CycleInv', NEW live \in BOOLEAN, NEW target \in Sites,
           Create(live, target)
    PROVE  UndoneInv'
<1> DEFINE new == [live |-> live, status |-> "DRAFT", source |-> lease.site,
                   target |-> target, epoch |-> lease.epoch, policy |-> policy,
                   failover |-> 0, targetEpoch |-> 0, failback |-> 0, returnEpoch |-> 0]
<1>1. drills' = Append(drills, new) /\ UNCHANGED <<requests, poller>>
    BY DEF Create
<1>2. new.failover = 0 /\ new.status = "DRAFT"
    OBVIOUS
<1>3. OverFits(new, requests)
    BY <1>2 DEF OverFits, UnderWay
<1> HIDE DEF new
<1>4. drills \in Seq(DrillType) /\ Len(drills) \in Nat
    BY LenProperties DEF UndoneInv, CycleInv, ContinuityTypes
<1>5. /\ Len(drills') = Len(drills) + 1
      /\ \A d \in 1 .. Len(drills) : drills'[d] = drills[d]
      /\ drills'[Len(drills) + 1] = new
    BY <1>1, <1>4
<1>6. ASSUME NEW d \in 1 .. Len(drills')
      PROVE  OverFits(drills'[d], requests')
    <2>1. d \in 1 .. Len(drills) \/ d = Len(drills) + 1
        BY <1>4, <1>5
    <2> QED
        BY <1>1, <1>3, <1>5, <2>1 DEF UndoneInv
<1>7. PollersWait'
    BY <1>1, <1>5, PollersLater DEF UndoneInv
<1>8. OpenUnused'
    BY <1>1 DEF UndoneInv, OpenUnused
<1> QED
    BY <1>6, <1>7, <1>8 DEF UndoneInv

LEMMA UndonePolicy ==
    ASSUME UndoneInv, CycleInv', NEW next \in Policies, UpdatePolicy(next)
    PROVE  UndoneInv'
<1> DEFINE over(d) == [drills[d] EXCEPT !.status = "INVALIDATED"]
           open == {d \in DOMAIN drills : drills[d].status \in Unfinished}
<1>1. /\ drills' = [d \in DOMAIN drills |->
                      IF d \in open /\ next # policy THEN over(d) ELSE drills[d]]
      /\ UNCHANGED <<requests, poller>>
    BY DEF UpdatePolicy
<1>2. drills \in Seq(DrillType) /\ DOMAIN drills = 1 .. Len(drills) /\ Len(drills) \in Nat
    BY LenProperties DEF UndoneInv, CycleInv, ContinuityTypes
<1>3. ASSUME NEW d \in 1 .. Len(drills)
      PROVE  /\ OverFits(drills'[d], requests)
             /\ drills[d].targetEpoch # 0 => drills'[d].targetEpoch # 0
    <2>1. drills[d] \in DrillType /\ OverFits(drills[d], requests)
        BY <1>2, OverDrill
    <2>2. CASE d \in open /\ next # policy
        <3>1. /\ over(d).status = "INVALIDATED" /\ over(d).failover = drills[d].failover
              /\ over(d).targetEpoch = drills[d].targetEpoch
              /\ drills[d].status # "CANCELLED"
            BY <2>1, <2>2 DEF DrillType, Unfinished
        <3>2. drills'[d] = over(d)
            BY <1>1, <1>2, <2>2
        <3> HIDE DEF over
        <3> QED
            BY <2>1, <3>1, <3>2 DEF OverFits, UnderWay
    <2>3. CASE ~(d \in open /\ next # policy)
        <3>1. drills'[d] = drills[d]
            BY <1>1, <1>2, <2>3
        <3> QED
            BY <2>1, <3>1
    <2> QED
        BY <2>2, <2>3
<1>4. Len(drills') = Len(drills)
    BY <1>1, <1>2, LenProperties DEF CycleInv, ContinuityTypes
<1>5. PollersWait'
    BY <1>1, <1>3, PollersLater DEF UndoneInv
<1>6. OpenUnused'
    BY <1>1 DEF UndoneInv, OpenUnused
<1> QED
    BY <1>1, <1>3, <1>4, <1>5, <1>6 DEF UndoneInv

LEMMA UndoneLoad ==
    ASSUME UndoneInv, CycleInv', NEW p \in Pollers, NEW d \in DOMAIN drills, Load(p, d)
    PROVE  UndoneInv'
<1> DEFINE item == [drill |-> d, row |-> drills[d]]
<1>1. /\ UnderWay(drills[d]) /\ poller' = [poller EXCEPT ![p] = item]
      /\ UNCHANGED <<requests, drills>>
    BY DEF Load, UnderWay
<1>2. drills[d].failover # 0
    BY <1>1, OverDrill DEF OverFits
<1>3. item.drill = d /\ item.row = drills[d]
    OBVIOUS
<1> HIDE DEF item
<1>4. \A q \in Pollers : poller'[q] = IF q = p THEN item ELSE poller[q]
    BY <1>1 DEF UndoneInv, CycleInv, ContinuityTypes
<1>5. PollersWait'
    <2>1. ASSUME NEW q \in Pollers, poller'[q] # NotLoaded
          PROVE  /\ UnderWay(poller'[q].row) /\ poller'[q].row.failover # 0
                 /\ poller'[q].row.targetEpoch # 0 => drills[poller'[q].drill].targetEpoch # 0
        <3>1. CASE q = p
            BY <1>1, <1>2, <1>3, <1>4, <3>1
        <3>2. CASE q # p
            BY <1>4, <2>1, <3>2 DEF UndoneInv, PollersWait
        <3> QED
            BY <3>1, <3>2
    <2> QED
        BY <1>1, <2>1 DEF PollersWait
<1> QED
    BY <1>1, <1>5 DEF UndoneInv, OpenUnused

\* What a poller writes: it never revives a drill whose approved request was cancelled,
\* and it cancels a drill only for a request that is.
LEMMA ProjectWrites ==
    ASSUME UndoneInv, NEW p \in Pollers, Project(p)
    PROVE  LET d == poller[p].drill
               row == poller[p].row
               new == Written(drills[d], row, Synchronized(row, requests))
           IN
           /\ d \in 1 .. Len(drills) /\ d \in DOMAIN drills
           /\ drills' = [drills EXCEPT ![d] = new]
           /\ OverFits(new, requests)
           /\ drills[d].targetEpoch # 0 => new.targetEpoch # 0
           /\ new.status = "CANCELLED" /\ drills[d].status # "CANCELLED" =>
                \/ /\ drills[d].failover # 0
                   /\ requests[drills[d].failover].status = "CANCELLED"
                   /\ requests[drills[d].failover].targetEpoch = 0
                \/ /\ drills[d].failback # 0
                   /\ requests[drills[d].failback].status = "CANCELLED"
<1> DEFINE d == poller[p].drill
           loaded == poller[p].row
           sync == Synchronized(loaded, requests)
           new == Written(drills[d], loaded, sync)
<1>1. poller[p] # NotLoaded /\ drills' = [drills EXCEPT ![d] = new]
    BY DEF Project
<1>2. /\ d \in 1 .. Len(drills) /\ loaded.live /\ Earlier(loaded, drills[d])
      /\ UnderWay(loaded) /\ loaded.failover # 0
      /\ loaded.targetEpoch # 0 => drills[d].targetEpoch # 0
    BY <1>1 DEF UndoneInv, CycleInv, PollersFit, PollersWait
<1>3. loaded \in DrillType
    BY <1>1 DEF UndoneInv, CycleInv, ContinuityTypes, NotLoaded
<1>4. d \in DOMAIN drills
    BY <1>2, LenProperties DEF UndoneInv, CycleInv, ContinuityTypes
<1>5. /\ drills[d] \in DrillType /\ DrillFits(drills[d], requests)
      /\ OverFits(drills[d], requests) /\ requests \in Seq(RequestType)
      /\ \A r \in 1 .. Len(requests) : requests[r].status = "COMPLETED" =>
           requests[r].epoch < requests[r].targetEpoch
    BY SMTT(40), <1>4, OverDrill, OfDrill
<1>6. loaded.failover \in 0 .. Len(requests) /\ loaded.failback \in 0 .. Len(requests)
    BY SMTT(40), <1>2, <1>5, LenProperties DEF Earlier, DrillFits
<1> HIDE DEF d, loaded
<1>7. /\ sync \in DrillType /\ Projected(loaded, sync, requests)
      /\ loaded.targetEpoch = 0 /\ requests[loaded.failover].status = "CANCELLED"
         => sync.status = "CANCELLED"
      /\ sync.status = "CANCELLED" =>
           \/ /\ loaded.targetEpoch = 0 /\ requests[loaded.failover].status = "CANCELLED"
           \/ loaded.failback # 0 /\ requests[loaded.failback].status = "CANCELLED"
    <2>1. loaded.status \notin Finished /\ loaded.status # "CANCELLED"
        BY <1>2 DEF UnderWay, Finished
    <2> QED
        BY <1>2, <1>3, <1>5, <1>6, <2>1, SyncShape, SyncStatus
<1> HIDE DEF sync
<1>8. /\ new.live = drills[d].live /\ new.failover = drills[d].failover
      /\ new.targetEpoch = IF sync.targetEpoch # loaded.targetEpoch
                             THEN sync.targetEpoch ELSE drills[d].targetEpoch
      /\ new.status = IF sync.status # loaded.status THEN sync.status ELSE drills[d].status
    BY <1>3, <1>5, <1>7, WrittenShape DEF Projected
<1> HIDE DEF new
<1>9. /\ loaded.failover = drills[d].failover
      /\ loaded.failback # 0 => loaded.failback = drills[d].failback
    BY <1>2 DEF Earlier
<1>10. drills[d].targetEpoch # 0 => new.targetEpoch # 0
    <2>1. CASE sync.targetEpoch = loaded.targetEpoch
        BY <1>8, <2>1
    <2>2. CASE sync.targetEpoch # loaded.targetEpoch
        <3>1. /\ loaded.failover \in 1 .. Len(requests)
              /\ requests[loaded.failover].status = "COMPLETED"
              /\ sync.targetEpoch = requests[loaded.failover].targetEpoch
            BY <1>6, <1>7, <2>2 DEF Projected
        <3>2. requests[loaded.failover] \in RequestType
              /\ requests[loaded.failover].epoch < requests[loaded.failover].targetEpoch
            BY <1>5, <3>1, ElementOfSeq
        <3> QED
            BY <1>8, <2>2, <3>1, <3>2 DEF RequestType
    <2> QED
        BY <2>1, <2>2
<1>11. OverFits(new, requests)
    <2>1. requests[new.failover].status = "CANCELLED" /\ requests[new.failover].targetEpoch # 0
            => new.status = "CANCELLED"
        <3> SUFFICES ASSUME requests[new.failover].status = "CANCELLED",
                            requests[new.failover].targetEpoch # 0
                     PROVE  new.status = "CANCELLED"
            OBVIOUS
        <3>1. drills[d].status = "CANCELLED" /\ drills[d].targetEpoch = 0
            BY <1>2, <1>5, <1>8, <1>9 DEF OverFits, DrillFits
        <3>2. sync.status = "CANCELLED"
            BY <1>2, <1>7, <1>8, <1>9, <3>1
        <3> QED
            BY <1>8, <3>1, <3>2
    <2> QED
        BY <1>2, <1>8, <1>9, <2>1 DEF OverFits
<1>12. new.status = "CANCELLED" /\ drills[d].status # "CANCELLED" =>
         \/ /\ drills[d].failover # 0
            /\ requests[drills[d].failover].status = "CANCELLED"
            /\ requests[drills[d].failover].targetEpoch = 0
         \/ /\ drills[d].failback # 0
            /\ requests[drills[d].failback].status = "CANCELLED"
    BY <1>2, <1>5, <1>7, <1>8, <1>9 DEF OverFits
<1> QED
    BY <1>1, <1>2, <1>4, <1>10, <1>11, <1>12 DEF d, loaded, sync, new

LEMMA UndoneProject ==
    ASSUME UndoneInv, CycleInv', NEW p \in Pollers, Project(p)
    PROVE  UndoneInv'
<1> DEFINE d == poller[p].drill
           new == Written(drills[d], poller[p].row, Synchronized(poller[p].row, requests))
<1>1. /\ d \in 1 .. Len(drills) /\ d \in DOMAIN drills
      /\ drills' = [drills EXCEPT ![d] = new] /\ OverFits(new, requests)
      /\ drills[d].targetEpoch # 0 => new.targetEpoch # 0
    BY ProjectWrites
<1>2. poller' = [poller EXCEPT ![p] = NotLoaded] /\ requests' = requests
    BY DEF Project
<1>3. \A q \in Pollers : poller'[q] \in {NotLoaded, poller[q]}
    BY <1>2 DEF UndoneInv, CycleInv, ContinuityTypes
<1>4. OpenUnused'
    BY <1>2 DEF UndoneInv, OpenUnused
<1> HIDE DEF d, new
<1> QED
    BY <1>1, <1>2, <1>3, <1>4, OverDrill, UndoneRow

\* What the cancellation leaves: the drill's requests are settled, and the lease is
\* not at its standby unless a failback was asked for.
LEMMA CancelWrites ==
    ASSUME UndoneInv, CancelLocked, ~UNCHANGED <<lease, requests, drills>>
    PROVE  LET d == cancel.drill IN
           /\ d \in 1 .. Len(drills)
           /\ \E new \in DrillType :
                /\ drills' = [drills EXCEPT ![d] = new] /\ new.status = "CANCELLED"
                /\ drills[d].targetEpoch # 0 => new.targetEpoch # 0
           /\ \A r \in Ids(drills[d]) :
                r \in 1 .. Len(requests) /\ requests'[r].status # "REQUESTED"
           /\ drills[d].failover # 0 /\ drills[d].failback = 0 =>
                lease'.site # drills[d].target
           /\ \/ requests' = requests
              \/ \E r \in Ids(drills[d]) :
                   requests' = [requests EXCEPT ![r].status = "CANCELLED"]
<1> DEFINE d == cancel.drill
           seen == cancel.seen
           row == Synchronized(drills[d], seen)
           new == [row EXCEPT !.status = "CANCELLED"]
           open == StillOpen(row, seen)
<1>1. /\ cancel # NoCancel /\ ~OnStandby(row) /\ row.status \in Unfinished
      /\ drills' = [drills EXCEPT ![d] = new]
      /\ \/ open = {} /\ UNCHANGED <<lease, requests>>
         \/ \E r \in open : WithoutRequest(r)
    BY DEF CancelLocked
<1>2. /\ d \in 1 .. Len(drills) /\ DrillFits(drills[d], seen) /\ Extends(seen, requests)
      /\ seen \in Seq(RequestType) /\ drills \in Seq(DrillType)
    BY <1>1 DEF UndoneInv, CycleInv, CancelFits, ContinuityTypes
<1>3. d \in DOMAIN drills
    BY <1>2, LenProperties
<1>4. /\ requests \in Seq(RequestType) /\ drills[d] \in DrillType
      /\ DrillFits(drills[d], requests)
      /\ \A r \in 1 .. Len(requests) : requests[r].status = "COMPLETED" =>
           requests[r].epoch < requests[r].targetEpoch
    BY <1>3, OverDrill, OfDrill
<1>5. /\ drills[d].failover \in 0 .. Len(seen) /\ drills[d].failback \in 0 .. Len(seen)
      /\ Len(seen) \in Nat /\ Len(requests) \in Nat /\ Len(seen) <= Len(requests)
    BY <1>2, <1>4, LenProperties DEF DrillFits, Extends
<1> HIDE DEF d, seen
<1>6. /\ row \in DrillType /\ Projected(drills[d], row, seen)
      /\ drills[d].live /\ row.status \notin Finished /\ drills[d].failover # 0
         /\ row.targetEpoch = 0 => seen[drills[d].failover].status = "REQUESTED"
    BY <1>2, <1>4, <1>5, SyncShape, SyncStatus
<1>7. row.status \notin Finished
    BY <1>1 DEF Unfinished, Finished
<1> HIDE DEF row
<1>8. DrillFits(row, requests)
    BY <1>2, <1>4, <1>5, <1>6, ProjectedFits
<1>9. \A r \in 1 .. Len(seen) : seen[r].status = "COMPLETED" =>
        seen[r].epoch < seen[r].targetEpoch
    <2>1. \A r \in 1 .. Len(seen) : r \in 1 .. Len(requests)
        BY <1>5
    <2>2. \A r \in 1 .. Len(seen) : seen[r].status # "REQUESTED" => requests[r] = seen[r]
        BY <1>2 DEF Extends
    <2>3. \A r \in 1 .. Len(seen) : seen[r].status = "COMPLETED" => requests[r] = seen[r]
        BY <2>2
    <2> QED
        BY <1>4, <2>1, <2>3
<1>10. DrillFits(row, seen)
    BY <1>2, <1>4, <1>5, <1>6, <1>9, ExtendsItself, ProjectedFits
<1>11. /\ row.live = drills[d].live /\ row.failover = drills[d].failover
       /\ row.failback = drills[d].failback /\ row.target = drills[d].target
    BY <1>6 DEF Projected
<1>12. drills[d].targetEpoch # 0 => row.targetEpoch # 0
    BY <1>2, <1>4, <1>5, <1>6, <1>9, ProjectedTarget
<1>13. /\ new \in DrillType /\ new.status = "CANCELLED"
       /\ new.targetEpoch = row.targetEpoch
    BY <1>6 DEF DrillType, Finished
<1> HIDE DEF new
<1>14. Ids(row) = Ids(drills[d])
    BY <1>11 DEF Ids
<1>15. \A r \in Ids(row) : r \in 1 .. Len(seen) /\ r \in 1 .. Len(requests)
    BY <1>5, <1>11 DEF Ids
<1>16. row.failover # 0 => row.live
    BY <1>8 DEF DrillFits
<1>17. row.failback # 0 => row.targetEpoch # 0 /\ row.failover # 0
    BY <1>8 DEF DrillFits
\* Either the failover is known to be done, or it is the request that was still open.
<1>18. \/ /\ row.targetEpoch # 0 /\ row.returnEpoch # 0 /\ open = {}
          /\ \A r \in Ids(row) : requests[r].status = "COMPLETED"
       \/ /\ row.failback = 0 /\ row.targetEpoch = 0 /\ lease.site # row.target
          /\ row.failover # 0 => open = {row.failover}
          /\ row.failover = 0 => open = {}
       \/ row.failover = 0 /\ row.failback = 0 /\ open = {}
    <2>1. CASE row.failover = 0
        BY <1>17, <2>1 DEF StillOpen
    <2>2. CASE row.failover # 0 /\ row.returnEpoch # 0
        <3>1. row.targetEpoch # 0 /\ row.failback # 0
            BY <1>8, <2>2 DEF DrillFits
        <3>2. seen[row.failover].status = "COMPLETED" /\ seen[row.failback].status = "COMPLETED"
            BY <1>10, <2>2, <3>1 DEF DrillFits
        <3>3. open = {}
            BY <3>2 DEF StillOpen
        <3>4. \A r \in Ids(row) : requests[r].status = "COMPLETED"
            BY <1>8, <2>2, <3>1 DEF DrillFits, Ids
        <3> QED
            BY <2>2, <3>1, <3>3, <3>4
    <2>3. CASE row.failover # 0 /\ row.returnEpoch = 0
        <3>1. row.targetEpoch = 0 /\ lease.site # row.target
            BY <1>1, <1>16, <2>3 DEF OnStandby
        <3>2. row.failback = 0
            BY <1>17, <3>1
        <3>3. seen[row.failover].status = "REQUESTED"
            BY <1>6, <1>7, <1>11, <1>16, <2>3, <3>1
        <3>4. open = {row.failover}
            BY <2>3, <3>2, <3>3 DEF StillOpen
        <3> QED
            BY <2>3, <3>1, <3>2, <3>4
    <2> QED
        BY <2>1, <2>2, <2>3
<1> HIDE DEF open
<1>19. CASE open = {} /\ UNCHANGED <<lease, requests>>
    <2>1. \A r \in Ids(drills[d]) :
            r \in 1 .. Len(requests) /\ requests'[r].status # "REQUESTED"
        <3>1. ASSUME NEW r \in Ids(row)
              PROVE  requests[r].status # "REQUESTED"
            BY <1>18, <1>19 DEF Ids
        <3> QED
            BY <1>14, <1>15, <1>19, <3>1
    <2>2. drills[d].failover # 0 /\ drills[d].failback = 0 => lease'.site # drills[d].target
        BY <1>8, <1>11, <1>18, <1>19 DEF DrillFits
    <2> QED
        BY <1>1, <1>2, <1>12, <1>13, <1>19, <2>1, <2>2 DEF d
<1>20. ASSUME NEW r \in open, WithoutRequest(r)
       PROVE  /\ r \in Ids(drills[d])
              /\ requests' = [requests EXCEPT ![r].status = "CANCELLED"]
              /\ \A q \in Ids(drills[d]) :
                   q \in 1 .. Len(requests) /\ requests'[q].status # "REQUESTED"
              /\ lease'.site # drills[d].target
    <2>1. /\ r = row.failover /\ r # 0 /\ row.failback = 0 /\ lease.site # row.target
        BY <1>18, <1>20
    <2>2. Ids(row) = {r}
        BY <2>1 DEF Ids
    <2>3. /\ requests' = [requests EXCEPT ![r].status = "CANCELLED"]
          /\ lease' \in {lease, Undrained(lease)}
        BY <1>20 DEF WithoutRequest
    <2>4. r \in 1 .. Len(requests) /\ requests[r] \in RequestType
        BY <1>4, <1>15, <2>2, ElementOfSeq
    <2>5. requests'[r].status = "CANCELLED"
        BY <1>4, <2>3, <2>4, LenProperties DEF RequestType
    <2>6. lease \in LeaseType
        BY DEF UndoneInv, CycleInv, ContinuityTypes
    <2>7. lease'.site = lease.site
        BY <2>3, <2>6 DEF Undrained, LeaseType
    <2> QED
        BY <1>11, <1>14, <2>1, <2>2, <2>3, <2>4, <2>5, <2>7
<1>21. CASE \E r \in open : WithoutRequest(r)
    <2> PICK r \in open : WithoutRequest(r)
        BY <1>21
    <2>1. /\ r \in Ids(drills[d])
          /\ requests' = [requests EXCEPT ![r].status = "CANCELLED"]
          /\ \A q \in Ids(drills[d]) :
               q \in 1 .. Len(requests) /\ requests'[q].status # "REQUESTED"
          /\ lease'.site # drills[d].target
        BY <1>20
    <2> QED
        BY <1>1, <1>2, <1>12, <1>13, <2>1 DEF d
<1> QED
    BY <1>1, <1>19, <1>21

LEMMA UndoneCancelLocked ==
    ASSUME UndoneInv, CycleInv', CancelLocked
    PROVE  UndoneInv'
<1>1. poller' = poller
    BY DEF CancelLocked
<1>2. CASE UNCHANGED <<lease, requests, drills>>
    BY <1>1, <1>2 DEF UndoneInv, OpenUnused, PollersWait
<1>3. CASE ~UNCHANGED <<lease, requests, drills>>
    <2> DEFINE d == cancel.drill
    <2>1. /\ d \in 1 .. Len(drills)
          /\ \A r \in Ids(drills[d]) : r \in 1 .. Len(requests)
          /\ \/ requests' = requests
             \/ \E r \in Ids(drills[d]) :
                  requests' = [requests EXCEPT ![r].status = "CANCELLED"]
        BY <1>3, CancelWrites
    <2>2. PICK new \in DrillType :
                /\ drills' = [drills EXCEPT ![d] = new] /\ new.status = "CANCELLED"
                /\ drills[d].targetEpoch # 0 => new.targetEpoch # 0
        BY <1>3, CancelWrites
    <2> HIDE DEF d
    <2>3. /\ requests \in Seq(RequestType) /\ drills \in Seq(DrillType)
          /\ Len(requests) \in Nat /\ Len(drills) \in Nat
        BY LenProperties DEF UndoneInv, CycleInv, ContinuityTypes
    <2>4. /\ Len(drills') = Len(drills)
          /\ \A e \in 1 .. Len(drills) : drills'[e] = IF e = d THEN new ELSE drills[e]
        BY <2>1, <2>2, <2>3, LenProperties
    <2>5. /\ Len(requests') = Len(requests)
          /\ \A q \in 1 .. Len(requests) :
               \/ requests'[q] = requests[q]
               \/ q \in Ids(drills[d]) /\ requests'[q].status = "CANCELLED"
        <3>1. CASE requests' = requests
            BY <3>1
        <3>2. CASE \E r \in Ids(drills[d]) :
                     requests' = [requests EXCEPT ![r].status = "CANCELLED"]
            <4>1. PICK r \in Ids(drills[d]) :
                         requests' = [requests EXCEPT ![r].status = "CANCELLED"]
                BY <3>2
            <4>2. r \in 1 .. Len(requests) /\ requests[r] \in RequestType
                BY <2>1, <2>3, ElementOfSeq
            <4> QED
                BY <2>3, <4>1, <4>2, LenProperties DEF RequestType
        <3> QED
            BY <2>1, <3>1, <3>2
    <2>6. OpenUnused'
        BY <2>5 DEF UndoneInv, OpenUnused
    <2>7. ASSUME NEW e \in 1 .. Len(drills), e # d
          PROVE  OverFits(drills[e], requests')
        <3>1. OverFits(drills[e], requests) /\ drills[e].failover \in 0 .. Len(requests)
            BY DEF UndoneInv, CycleInv, DrillFits
        <3>2. drills[e].failover # 0 => drills[e].failover \notin Ids(drills[d])
            BY <2>1, <2>7 DEF UndoneInv, CycleInv, OwnRequests, Ids
        <3>3. drills[e].failover # 0 =>
                requests'[drills[e].failover] = requests[drills[e].failover]
            BY <2>3, <2>5, <3>1, <3>2
        <3> QED
            BY <3>1, <3>3 DEF OverFits
    <2>8. OverFits(new, requests')
        BY <2>2 DEF OverFits, UnderWay
    <2>9. \A e \in 1 .. Len(drills') : OverFits(drills'[e], requests')
        BY <2>4, <2>7, <2>8
    <2>10. PollersWait'
        BY <1>1, <2>2, <2>4, PollersLater DEF UndoneInv
    <2> QED
        BY <2>6, <2>9, <2>10 DEF UndoneInv
<1> QED
    BY <1>2, <1>3

LEMMA StepUndone == UndoneInv /\ [Next]_vars => UndoneInv'
<1> SUFFICES ASSUME UndoneInv, [Next]_vars PROVE UndoneInv'
    OBVIOUS
<1>1. CycleInv'
    BY StepCycle DEF UndoneInv
<1>2. requests \in Seq(RequestType) /\ KeepsApproved(requests, requests)
    BY KeepsSame DEF UndoneInv, CycleInv, ContinuityTypes
<1>3. CASE LeaseMoves
    <2>1. UNCHANGED <<requests, drills, poller>>
        BY <1>3 DEF LeaseMoves, LeaseExpires, Reconcile, WorkerClaims
    <2>2. OpenUnused'
        BY <2>1 DEF UndoneInv, OpenUnused
    <2> QED
        BY <1>1, <1>2, <2>1, <2>2, UndoneOutside
<1>4. ASSUME NEW s \in Sites, RequestByHand(s) PROVE UndoneInv'
    BY <1>1, <1>4, UnusedAppends, UndoneOutside DEF RequestByHand
<1>5. ASSUME NEW r \in DOMAIN requests, Approve(r) \/ CancelRequest(r) PROVE UndoneInv'
    <2>1. UNCHANGED <<drills, poller>>
        BY <1>5 DEF Approve, CancelRequest
    <2> QED
        BY <1>1, <1>5, <2>1, UnusedSettles, UndoneOutside
<1>6. ASSUME NEW d \in DOMAIN drills, CancelDrill(d) PROVE UndoneInv'
    <2>1. UNCHANGED <<requests, drills, poller>>
        BY <1>6 DEF CancelDrill
    <2>2. OpenUnused'
        BY <2>1 DEF UndoneInv, OpenUnused
    <2> QED
        BY <1>1, <1>2, <2>1, <2>2, UndoneOutside
<1>7. CASE DrillMoves
    BY <1>1, <1>6, <1>7, UndoneCreate, UndoneStart, UndoneFailback, UndoneSignOff,
       UndoneCancelLocked, UndonePolicy DEF DrillMoves
<1>8. CASE Polls
    BY <1>1, <1>8, UndoneLoad, UndoneProject DEF Polls
<1>9. CASE UNCHANGED vars
    BY <1>1, <1>9 DEF vars, UndoneInv, OpenUnused, PollersWait
<1> QED
    BY <1>3, <1>4, <1>5, <1>7, <1>8, <1>9 DEF Next, RequestMoves

\* No cancellation (cancel_drill of app/services/continuity.py, or a poller that finds a
\* request cancelled) leaves a request of its drill open, nor the lease at the standby
\* that the drill moved it to, unless a failback was asked for; not even when the
\* failover was approved while the cancellation waited for the lease's row.
THEOREM CancellationIsClean == Spec => CancelledLeavesNothing
<1>1. Init => UndoneInv
    BY InitCycle, EmptySeq DEF Init, UndoneInv, OpenUnused, PollersWait
<1>2. UndoneInv /\ [Next]_vars =>
        [\A d \in DOMAIN drills :
         drills'[d].status = "CANCELLED" /\ drills[d].status # "CANCELLED" =>
           LET there == drills[d].failover
               back == drills[d].failback
           IN
           /\ \A r \in {there, back} \ {0} : requests'[r].status # "REQUESTED"
           /\ there # 0 /\ back = 0 =>
                requests'[there].targetEpoch = 0 \/ lease'.site # drills[d].target
        ]_vars
    <2> SUFFICES ASSUME UndoneInv, Next, NEW d \in DOMAIN drills,
                        drills'[d].status = "CANCELLED", drills[d].status # "CANCELLED"
                 PROVE  /\ \A r \in Ids(drills[d]) : requests'[r].status # "REQUESTED"
                        /\ drills[d].failover # 0 /\ drills[d].failback = 0 =>
                             \/ requests'[drills[d].failover].targetEpoch = 0
                             \/ lease'.site # drills[d].target
        BY DEF Ids
    <2>1. /\ CycleInv /\ d \in 1 .. Len(drills) /\ drills[d] \in DrillType
          /\ drills \in Seq(DrillType) /\ DrillFits(drills[d], requests)
        BY OverDrill, OfDrill DEF CycleInv, ContinuityTypes
    <2>2. CASE \E p \in Pollers : Project(p)
        <3> PICK p \in Pollers : Project(p)
            BY <2>2
        <3> DEFINE e == poller[p].drill
                   new == Written(drills[e], poller[p].row, Synchronized(poller[p].row, requests))
        <3>1. drills' = [drills EXCEPT ![e] = new] /\ requests' = requests
            BY DEF Project
        <3>2. e = d
            BY <2>1, <3>1
        <3>3. drills'[d] = new
            BY <2>1, <3>1, <3>2
        <3>4. \/ /\ drills[d].failover # 0
                 /\ requests[drills[d].failover].status = "CANCELLED"
                 /\ requests[drills[d].failover].targetEpoch = 0
              \/ /\ drills[d].failback # 0
                 /\ requests[drills[d].failback].status = "CANCELLED"
            BY <3>2, <3>3, ProjectWrites
        <3> HIDE DEF e, new
        <3>5. drills[d].failback # 0 =>
                drills[d].failover # 0 /\ requests[drills[d].failover].status = "COMPLETED"
            BY <2>1 DEF DrillFits
        <3> QED
            BY <3>1, <3>4, <3>5 DEF Ids
    <2>3. CASE CancelLocked
        <3>1. ~UNCHANGED <<lease, requests, drills>>
            OBVIOUS
        <3>2. cancel.drill \in 1 .. Len(drills)
              /\ \E new \in DrillType : drills' = [drills EXCEPT ![cancel.drill] = new]
            BY <2>3, <3>1, CancelWrites
        <3>3. cancel.drill = d
            BY <2>1, <3>2
        <3> QED
            BY <2>3, <3>1, <3>3, CancelWrites
    <2>4. CASE \E e \in DOMAIN drills : StartSimulation(e) \/ StartLive(e)
        <3>1. \E e \in DOMAIN drills : \E new :
                drills' = [drills EXCEPT ![e] = new] /\ new.status # "CANCELLED"
            <4> PICK e \in DOMAIN drills : StartSimulation(e) \/ StartLive(e)
                BY <2>4
            <4> DEFINE a == [drills[e] EXCEPT !.status = "AWAITING_SIGNOFF"]
                       b == [drills[e] EXCEPT !.status = "RUNNING", !.failover = Len(requests')]
            <4>1. drills' = [drills EXCEPT ![e] = a] \/ drills' = [drills EXCEPT ![e] = b]
                BY DEF StartSimulation, StartLive
            <4>2. a.status # "CANCELLED" /\ b.status # "CANCELLED"
                BY OverDrill DEF DrillType
            <4> QED
                BY <4>1, <4>2
        <3> QED
            BY <2>1, <3>1
    <2>5. CASE \E e \in DOMAIN drills :
                 RequestFailback(e) \/ \E verdict \in {"PASSED", "FAILED"} : SignOff(e, verdict)
        <3>1. \E e \in DOMAIN drills : \E new :
                drills' = [drills EXCEPT ![e] = new] /\ new.status # "CANCELLED"
            <4> PICK e \in DOMAIN drills :
                  RequestFailback(e) \/ \E verdict \in {"PASSED", "FAILED"} : SignOff(e, verdict)
                BY <2>5
            <4> DEFINE row == Synchronized(drills[e], requests)
                       a == [row EXCEPT !.status = "RUNNING", !.failback = Len(requests')]
                       b(verdict) == [row EXCEPT !.status = verdict]
            <4>1. \/ drills' = [drills EXCEPT ![e] = a]
                  \/ \E verdict \in {"PASSED", "FAILED"} : drills' = [drills EXCEPT ![e] = b(verdict)]
                BY DEF RequestFailback, SignOff
            <4>2. row \in DrillType
                BY SynchronizedOver
            <4> HIDE DEF row
            <4>3. a.status # "CANCELLED"
                  /\ \A verdict \in {"PASSED", "FAILED"} : b(verdict).status # "CANCELLED"
                BY <4>2 DEF DrillType
            <4> QED
                BY <4>1, <4>3
        <3> QED
            BY <2>1, <3>1
    <2>6. CASE \E live \in BOOLEAN, s \in Sites : Create(live, s)
        <3>1. PICK new : drills' = Append(drills, new)
            BY <2>6 DEF Create
        <3> QED
            BY <2>1, <3>1, LenProperties
    <2>7. CASE \E next \in Policies : UpdatePolicy(next)
        <3> PICK next \in Policies : UpdatePolicy(next)
            BY <2>7
        <3>1. drills'[d] \in {drills[d], [drills[d] EXCEPT !.status = "INVALIDATED"]}
            BY DEF UpdatePolicy
        <3> QED
            BY <2>1, <3>1 DEF DrillType
    <2>8. CASE drills' = drills
        BY <2>8
    <2>9. CASE LeaseMoves \/ RequestMoves
        <3>1. LeaseMoves => drills' = drills
            BY DEF LeaseMoves, LeaseExpires, Reconcile, WorkerClaims
        <3>2. \A s \in Sites : RequestByHand(s) => drills' = drills
            BY DEF RequestByHand
        <3>3. \A r \in DOMAIN requests : Approve(r) \/ CancelRequest(r) => drills' = drills
            BY DEF Approve, CancelRequest
        <3> QED
            BY <2>8, <2>9, <3>1, <3>2, <3>3 DEF RequestMoves
    <2>10. CASE \E e \in DOMAIN drills : CancelDrill(e)
        BY <2>10, <2>8 DEF CancelDrill
    <2>11. CASE \E p \in Pollers, e \in DOMAIN drills : Load(p, e)
        BY <2>11, <2>8 DEF Load
    <2> QED
        BY <2>2, <2>3, <2>4, <2>5, <2>6, <2>7, <2>9, <2>10, <2>11
           DEF Next, DrillMoves, Polls
<1> QED
    BY <1>1, <1>2, StepUndone, PTL DEF Spec, CancelledLeavesNothing
=============================================================================
