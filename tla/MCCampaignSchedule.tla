------------------------- MODULE MCCampaignSchedule -------------------------
(***************************************************************************)
(* Instance of CampaignSchedule for TLC: one text that is sent once, two   *)
(* versions of one that is sent daily.                                     *)
(***************************************************************************)
EXTENDS CampaignSchedule, TLC

CONSTANTS once, daily, daily2

MCPlanOf ==
    (once :> [daily |-> FALSE, at |-> 1, end |-> 0]) @@
    (daily :> [daily |-> TRUE, at |-> 0, end |-> MaxTime]) @@
    (daily2 :> [daily |-> TRUE, at |-> 0, end |-> MaxTime])
=============================================================================
