---------------------------- MODULE MCCouponSync ----------------------------
(***************************************************************************)
(* Small instances of CouponSync for TLC.                                  *)
(***************************************************************************)
EXTENDS CouponSync, TLC

CONSTANTS i1, c1, d1

\* One influencer in one campaign.
MCInfluencerOf == [d \in Discounts |-> i1]
MCCampaignOf   == [d \in Discounts |-> c1]

=============================================================================
