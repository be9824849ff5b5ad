------------------------------ MODULE MCPlatform ------------------------------
(***************************************************************************)
(* Small instances of Platform for TLC.                                    *)
(***************************************************************************)
EXTENDS Platform

CONSTANTS
  run1, call1, call2, ops, finance, o1, o2, s1, s2, hair, skin,
  i1, i2, c1, c2, account1, account2, phone, b1, b2, u1, u2, change1, change2

\* Nobody is configured for finance; the others have recipients.
MCMailConfigs ==
  {[enabled |-> TRUE, recipients |-> [g \in Groups |-> IF g = "finance" THEN {} ELSE {finance}]]}

\* Every basis with two scopes by item, and one scope by category.
MCCampaignForms ==
  [basis : {"pre_tax", "post_tax"}, scopeType : {"sku"}, scope : {{}, {s1}}]
    \cup [basis : {"pre_tax"}, scopeType : {"category"}, scope : {{hair}}]

\* Two lines of two items in two categories; a discount may exceed the price.
MCOrderForms ==
  [lines : {<<a, b>> :
     a \in [sku : {s1}, category : {skin}, quantity : {1, 2}, price : {10}, discount : {Absent, 3}],
     b \in [sku : {s2}, category : {hair}, quantity : {1}, price : {10}, discount : {Absent, 15}]},
   tax : {2}, shipping : {1}]
MCPayloadForms ==
  [discounts : {"item", "definition"}, charges : {"fields", "totals", "none"},
   eligible : {Absent, 5}]

\* Two influencers whose identifiers begin alike; a brand with and one without policy.
MCShortOf == (c1 :> "CAMP") @@ (c2 :> "OTHR") @@ (i1 :> "INFL") @@ (i2 :> "INFL")
MCBrandOf == (c1 :> b1) @@ (c2 :> b2)

=============================================================================
