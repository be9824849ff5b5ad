----------------------------- MODULE MCLedger ------------------------------
(***************************************************************************)
(* Small instances of Ledger for TLC.  Amounts are cents.                  *)
(***************************************************************************)
EXTENDS Dashboard, TLC

CONSTANTS i1, i2, c1, c2, brand, k1, k2

\* Code k1 is influencer i1's in campaign c1, k2 is i2's in c2.
MCInfluencerOf == (k1 :> i1) @@ (k2 :> i2)
MCCampaignOf   == (k1 :> c1) @@ (k2 :> c2)

\* Both codes in one campaign.
MCOneCampaignOf == (k1 :> c1) @@ (k2 :> c1)

\* One influencer, one code.
MCSoleInfluencerOf == k1 :> i1
MCSoleCampaignOf   == k1 :> c1

MCBrandOf == [c \in Campaigns |-> brand]
MCMinimumAmount == brand :> 10

MCCommissionBase == [c \in Campaigns |-> IF c = c1 THEN 10 ELSE 20]

\* No tiers; and two programs, of which one lists its tiers out of order and the
\* other calls the first level by another name.
MCNoTiers == <<>>
MCTwoTiers == <<[name |-> "Plata", level |-> 2, threshold |-> 200, percent |-> 20],
                [name |-> "Bronce", level |-> 1, threshold |-> 0, percent |-> 10]>>
MCRaised == <<[name |-> "Inicial", level |-> 1, threshold |-> 0, percent |-> 15],
              [name |-> "Plata", level |-> 2, threshold |-> 100, percent |-> 20]>>
MCTierNames == {Base, "Inicial", "Bronce", "Plata"}

MCNoPrograms == {MCNoTiers}
MCInitialNoTiers == [c \in Campaigns |-> MCNoTiers]
MCPrograms == {MCTwoTiers, MCRaised}
MCInitialTwoTiers == [c \in Campaigns |-> MCTwoTiers]

=============================================================================
