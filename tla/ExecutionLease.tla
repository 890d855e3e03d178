--------------------------- MODULE ExecutionLease ---------------------------
(***************************************************************************)
(* The execution lease of one organisation (app/services/execution.py):    *)
(* the row that says which site is active, which worker holds it, and the  *)
(* fencing epoch.  This module has no state; it defines the lease record   *)
(* and what each database operation of the code does to it.                *)
(*                                                                         *)
(* Time is abstracted to one bit per timestamp comparison the code makes:  *)
(* `live' is  lease_expires_at > now,  `renewed' is  last_renewed_at is    *)
(* not None.                                                               *)
(***************************************************************************)
EXTENDS Integers

CONSTANTS
    Workers,      \* worker processes, named by hostname:pid
    Sites,        \* execution sites, named by site_key
    SiteOf,       \* the site each worker is configured for
    PrimarySite,  \* settings.execution_primary_site_key
    None          \* SQL NULL

ASSUME LeaseAssumption ==
    /\ PrimarySite \in Sites
    /\ SiteOf \in [Workers -> Sites]
    /\ None \notin Workers

LeaseType ==
    [site: Sites, holder: Workers \cup {None}, epoch: Nat \ {0},
     status: {"ACTIVE", "DRAINING"}, live: BOOLEAN, renewed: BOOLEAN]

\* The row as get_or_create_execution_lease inserts it at the first heartbeat.
NewLease ==
    [site |-> PrimarySite, holder |-> None, epoch |-> 1,
     status |-> "ACTIVE", live |-> FALSE, renewed |-> FALSE]

HeldByAnother(l, w) == l.holder # None /\ l.live /\ l.holder # w

\* claim_delivery_lease grants the lease to w.
MayClaim(l, w) ==
    /\ l.status = "ACTIVE"
    /\ l.site = SiteOf[w]
    /\ ~HeldByAnother(l, w)

\* Mutant: only the holder's own late renewal counts, a takeover does not.
ClaimRaisesEpochOnRenewal(l, w) == l.holder = w /\ ~l.live

\* A takeover of a lease that was ever held, and a renewal after expiry, start
\* a new epoch; a timely renewal by the holder keeps it.
ClaimRaisesEpoch(l, w) ==
    IF l.holder = w THEN ~l.live ELSE l.holder # None \/ l.renewed

Claimed(l, w) ==
    [l EXCEPT !.holder = w, !.live = TRUE, !.renewed = TRUE,
              !.epoch = IF ClaimRaisesEpoch(l, w) THEN @ + 1 ELSE @]

\* The lease rows renew_owned_leases selects, and what it writes to them.
OwnedBy(l, w) ==
    /\ l.site = SiteOf[w]
    /\ l.holder = w
    /\ l.status = "ACTIVE"

Renewed(l) == [l EXCEPT !.live = TRUE, !.renewed = TRUE]

\* The comparisons of lock_delivery_fence, on the lease object it is given.
FencePasses(l, w, epoch) ==
    /\ l.status = "ACTIVE"
    /\ l.site = SiteOf[w]
    /\ l.holder = w
    /\ l.epoch = epoch
    /\ l.live

Expired(l) == [l EXCEPT !.live = FALSE]

Draining(l) == [l EXCEPT !.status = "DRAINING"]

Undrained(l) == [l EXCEPT !.status = "ACTIVE"]

\* approve_failover hands the lease to the target site, to no worker yet.
HandedTo(l, site) ==
    [l EXCEPT !.site = site, !.holder = None, !.epoch = @ + 1,
              !.status = "ACTIVE", !.live = FALSE, !.renewed = FALSE]

\* invalidate_reconciled_delivery_fence: reconciling the result of an attempt
\* that still names the current holder and epoch retires that epoch.
Retired(l, holder, epoch) ==
    IF l.holder = holder /\ l.epoch = epoch
      THEN [l EXCEPT !.holder = None, !.epoch = @ + 1,
                     !.live = FALSE, !.renewed = FALSE]
      ELSE l
=============================================================================
