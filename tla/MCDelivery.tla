----------------------------- MODULE MCDelivery -----------------------------
(***************************************************************************)
(* Instances of Delivery for TLC.                                          *)
(***************************************************************************)
EXTENDS DeliveryInvariants, TLC

CONSTANTS w1, w2, main, standby

\* Two workers of one site compete for the lease.
OneSite == w1 :> main @@ w2 :> main

\* One worker on each of two sites.
TwoSites == w1 :> main @@ w2 :> standby

=============================================================================
