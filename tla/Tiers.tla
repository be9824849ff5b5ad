------------------------------- MODULE Tiers -------------------------------
(***************************************************************************)
(* Tier programs: which percent an influencer earns in a campaign, and how *)
(* an evaluation of the confirmed sales moves influencers between tiers.   *)
(***************************************************************************)
EXTENDS LedgerState

\* resolveDefaultTierSnapshot: the tier of the lowest threshold, the first one
\* listed when several have it; a campaign without tiers pays its base percent.
ResolveDefaultTier(c) ==
  LET program == programs[c] IN
  IF program = <<>>
  THEN [name |-> Base, level |-> 0, threshold |-> 0, percent |-> CommissionBase[c]]
  ELSE LET lowest == CHOOSE k \in DOMAIN program :
                       \A j \in DOMAIN program :
                         \/ program[k].threshold < program[j].threshold
                         \/ /\ program[k].threshold = program[j].threshold
                            /\ k <= j
       IN program[lowest]

\* resolveTierForSales: of the tiers whose threshold the sales reach, the one of
\* the highest threshold (the last one listed when several have it, the sort
\* being stable); the default tier when the sales reach none.
ResolveTierForSales(c, sales) ==
  LET program == programs[c]
      reached == {k \in DOMAIN program : program[k].threshold <= sales} IN
  IF reached = {}
  THEN ResolveDefaultTier(c)
  ELSE LET highest == CHOOSE k \in reached :
                        \A j \in reached :
                          \/ program[k].threshold > program[j].threshold
                          \/ /\ program[k].threshold = program[j].threshold
                             /\ k >= j
       IN program[highest]

\* Mutant of ConfirmedSales: reverted and estimated sales count too.
ConfirmedSales_AnyState(c, i, start, end) ==
  Total([o \in OrderIds |->
           IF /\ commissions[o].state # "NONE"
              /\ CampaignOf[orders[o].code] = c
              /\ OwnerOf(o) = i
              /\ start <= commissions[o].confirmedAt
              /\ commissions[o].confirmedAt <= end
           THEN commissions[o].eligible
           ELSE 0],
        OrderCount)

\* calculateConfirmedSalesVolume: both ends of the window are inside it.
ConfirmedSales(c, i, start, end) ==
  Total([o \in OrderIds |->
           IF /\ commissions[o].state = "CONFIRMED"
              /\ CampaignOf[orders[o].code] = c
              /\ OwnerOf(o) = i
              /\ start <= commissions[o].confirmedAt
              /\ commissions[o].confirmedAt <= end
           THEN commissions[o].eligible
           ELSE 0],
        OrderCount)

----------------------------------------------------------------------------
\* Mutant of EnsureTierAssignment: an existing assignment is created anew.
EnsureTierAssignment_Renewed(c, i) ==
  LET default == ResolveDefaultTier(c) IN
  [enrolled |-> TRUE, level |-> default.level, percent |-> default.percent,
   windowStart |-> now,
   history |-> <<[name |-> default.name, level |-> default.level,
                  percent |-> default.percent, from |-> now, to |-> Open]>>]

\* ensureTierAssignment: the assignment, created with the default tier when the
\* influencer has none in the campaign.
EnsureTierAssignment(c, i) ==
  IF tiers[<<c, i>>].enrolled
  THEN tiers[<<c, i>>]
  ELSE LET default == ResolveDefaultTier(c) IN
       [enrolled |-> TRUE, level |-> default.level, percent |-> default.percent,
        windowStart |-> now,
        history |-> <<[name |-> default.name, level |-> default.level,
                       percent |-> default.percent, from |-> now, to |-> Open]>>]

\* assignInfluencerToCampaign
AssignInfluencerToCampaign(c, i) ==
  /\ <<c, i>> \notin assigned
  /\ assigned' = assigned \cup {<<c, i>>}
  /\ tiers' = [tiers EXCEPT ![<<c, i>>] = EnsureTierAssignment(c, i)]
  /\ UNCHANGED <<now, influencerStatus, programs, orderVars, balances, withdrawalVars>>

\* updateInfluencerStatus
UpdateInfluencerStatus(i, status) ==
  /\ influencerStatus' = [influencerStatus EXCEPT ![i] = status]
  /\ UNCHANGED <<now, assigned, tierVars, orderVars, balances, withdrawalVars>>

\* updateCampaign, as far as the tier program goes: assignments keep the tier
\* they were given.
UpdateCampaignTiers(c, program) ==
  /\ programs' = [programs EXCEPT ![c] = program]
  /\ UNCHANGED <<now, partnerVars, tiers, orderVars, balances, withdrawalVars>>

----------------------------------------------------------------------------
\* Mutant of ClosePeriod: the period that ends is left open.
ClosePeriod_LeftOpen(history, date) == history

\* The last period of a history ends.
ClosePeriod(history, date) ==
  IF history = <<>> THEN history ELSE [history EXCEPT ![Len(history)].to = date]

\* One iteration of evaluateTiers.  An evaluation dated before the window only
\* moves the window back; a tier is replaced when its level differs, whatever
\* its percent and its name.
EvaluatedTier(c, i, date) ==
  LET row  == tiers[<<c, i>>]
      next == ResolveTierForSales(c, ConfirmedSales(c, i, row.windowStart, date))
  IN IF date < row.windowStart \/ next.level = row.level
     THEN [row EXCEPT !.windowStart = date]
     ELSE [row EXCEPT !.level = next.level, !.percent = next.percent,
             !.windowStart = date,
             !.history = Append(ClosePeriod(@, date),
               [name |-> next.name, level |-> next.level, percent |-> next.percent,
                from |-> date, to |-> Open])]

\* evaluateTiers: every assignment, as of a date the caller chooses.
EvaluateTiers(date) ==
  /\ \A pair \in DOMAIN tiers : Len(tiers[pair].history) < HistoryBound
  /\ tiers' = [pair \in DOMAIN tiers |->
                 IF tiers[pair].enrolled
                 THEN EvaluatedTier(pair[1], pair[2], date)
                 ELSE tiers[pair]]
  /\ UNCHANGED <<now, partnerVars, programs, orderVars, balances, withdrawalVars>>

=============================================================================
