------------------------------ MODULE Directory ------------------------------
(***************************************************************************)
(* The master data of the API: influencers with their bank accounts,       *)
(* campaigns with the policies of their brands, and discount codes with    *)
(* the index by which an order's coupon finds its code.                    *)
(*                                                                         *)
(* A code awaits VtexService.syncDiscountCode after it is generated and    *)
(* whenever somebody asks for it; meanwhile other handlers run.  What a    *)
(* request leaves out is Omitted.  All codes have the same prefix.         *)
(***************************************************************************)
EXTENDS Integers, Sequences, FiniteSets

CONSTANTS
  Influencers, BankAccounts, Contacts,
  Campaigns, Brands,
  BrandOf,          \* the brand of a campaign
  SeededBrands,     \* brands whose policy is seeded
  ShortOf,          \* what composeCode keeps of an identifier
  CodeCount         \* bound: codes that are generated

Omitted == "omitted"
CampaignStatuses == {"draft", "active", "paused", "ended"}
CodeStatuses == {"pending", "active", "inactive"}

ASSUME DirectoryConstants ==
  /\ BrandOf \in [Campaigns -> Brands]
  /\ SeededBrands \subseteq Brands
  /\ DOMAIN ShortOf = Campaigns \cup Influencers
  /\ CodeCount \in Nat

VARIABLES
  profiles,         \* influencers, those that are registered
  vault,            \* bankAccountVault
  given,            \* history: the account an influencer gave last
  campaignRows,     \* campaigns, those that are created, by status
  minimums,         \* brandWithdrawalPolicies, and where each comes from
  discountCodes,    \* by the order they were generated in
  codesByCode,      \* discountCodesByCode
  syncing           \* codes whose sync is awaited

profileVars == <<profiles, vault, given>>
campaignVars == <<campaignRows, minimums>>
codeVars == <<discountCodes, codesByCode, syncing>>
directoryVars == <<profileVars, campaignVars, codeVars>>

Texts == {<<ShortOf[c], ShortOf[i]>> : c \in Campaigns, i \in Influencers}
Code == [id : 1..CodeCount, text : Texts, owner : Influencers, status : CodeStatuses]

DirectoryTypeOK ==
  /\ DOMAIN profiles \subseteq Influencers
  /\ \A i \in DOMAIN profiles :
       profiles[i] \in [contact : Contacts \cup {Omitted}, account : BankAccounts \cup {Omitted}]
  /\ {vault, given} \subseteq [Influencers -> BankAccounts \cup {Omitted}]
  /\ DOMAIN campaignRows \subseteq Campaigns
  /\ campaignRows \in [DOMAIN campaignRows -> CampaignStatuses]
  /\ minimums \in [DOMAIN minimums -> {"seed", "campaign"}] /\ DOMAIN minimums \subseteq Brands
  /\ discountCodes \in Seq(Code)
  /\ DOMAIN codesByCode \subseteq Texts
  /\ codesByCode \in [DOMAIN codesByCode -> Code]
  /\ syncing \subseteq 1..CodeCount

DirectoryInit ==
  /\ profiles = <<>>
  /\ vault = [i \in Influencers |-> Omitted]
  /\ given = vault
  /\ campaignRows = <<>>
  /\ minimums = [b \in SeededBrands |-> "seed"]
  /\ discountCodes = <<>>
  /\ codesByCode = <<>>
  /\ syncing = {}

With(table, key, row) == [k \in DOMAIN table \cup {key} |-> IF k = key THEN row ELSE table[k]]

----------------------------------------------------------------------------
(* Influencers. *)

\* persistBankAccount: the encrypted account goes to the vault, a masked one to the
\* row; without an account the vault forgets the one it had.
PersistBankAccount(i, account) == vault' = [vault EXCEPT ![i] = account]

CreateInfluencer(i, contact, account) ==
  /\ i \notin DOMAIN profiles
  /\ profiles' = With(profiles, i, [contact |-> contact, account |-> account])
  /\ PersistBankAccount(i, account)
  /\ given' = [given EXCEPT ![i] = account]
  /\ UNCHANGED <<campaignVars, codeVars>>

\* Mutant of UpdateBankAccount: the vault is told of an update without account, too.
UpdateBankAccount_Always(i, account) == PersistBankAccount(i, account)

UpdateBankAccount(i, account) ==
  IF account = Omitted THEN UNCHANGED vault ELSE PersistBankAccount(i, account)

\* updateInfluencer, updateInfluencerDetails: the service names every field, so that
\* one the request omits is overwritten with undefined.
UpdateInfluencer(i, contact, account) ==
  /\ i \in DOMAIN profiles
  /\ profiles' = [profiles EXCEPT ![i] = [contact |-> contact, account |-> account]]
  /\ UpdateBankAccount(i, account)
  /\ given' = IF account = Omitted THEN given ELSE [given EXCEPT ![i] = account]
  /\ UNCHANGED <<campaignVars, codeVars>>

----------------------------------------------------------------------------
(* Campaigns. *)

\* A brand that has no policy yet gets one without minimum.
CreateCampaign(c, status) ==
  /\ c \notin DOMAIN campaignRows
  /\ campaignRows' = With(campaignRows, c, status)
  /\ minimums' = IF BrandOf[c] \in DOMAIN minimums THEN minimums
                 ELSE With(minimums, BrandOf[c], "campaign")
  /\ UNCHANGED <<profileVars, codeVars>>

\* What the request omits is kept.
UpdateCampaignRow(c, status) ==
  /\ c \in DOMAIN campaignRows
  /\ status # Omitted
  /\ campaignRows' = [campaignRows EXCEPT ![c] = status]
  /\ UNCHANGED <<profileVars, minimums, codeVars>>

----------------------------------------------------------------------------
(* Discount codes. *)

\* composeCode: four characters of the campaign's identifier and four of the
\* influencer's.
ComposeCode(c, i) == <<ShortOf[c], ShortOf[i]>>

\* calculateInitialStatus.
InitialStatus(c) ==
  IF c \in DOMAIN campaignRows /\ campaignRows[c] = "active" THEN "active" ELSE "pending"

\* generate, createDiscountCode: nothing is asked of the influencer, the campaign or
\* the text; the sync of the new code is awaited.
GenerateCode(c, i) ==
  LET code == [id |-> Len(discountCodes) + 1, text |-> ComposeCode(c, i), owner |-> i,
               status |-> InitialStatus(c)]
  IN
  /\ Len(discountCodes) < CodeCount
  /\ discountCodes' = Append(discountCodes, code)
  /\ codesByCode' = With(codesByCode, code.text, code)
  /\ syncing' = syncing \cup {code.id}
  /\ UNCHANGED <<profileVars, campaignVars>>

\* codes/:id/sync.
SyncCode(id) ==
  /\ syncing' = syncing \cup {id}
  /\ UNCHANGED <<profileVars, campaignVars, discountCodes, codesByCode>>

\* Mutant of UpdateDiscountCode: the index keeps the code it had.
UpdateDiscountCode_NoIndex(code) ==
  /\ discountCodes' = [discountCodes EXCEPT ![code.id] = code]
  /\ UNCHANGED codesByCode

\* updateDiscountCode: a new object takes the code's place in both tables.
UpdateDiscountCode(code) ==
  /\ discountCodes' = [discountCodes EXCEPT ![code.id] = code]
  /\ codesByCode' = With(codesByCode, code.text, code)

\* applyCouponResponse writes on the code as it is by then ...
SyncSucceeds(id, status) ==
  /\ id \in syncing
  /\ syncing' = syncing \ {id}
  /\ UpdateDiscountCode([discountCodes[id] EXCEPT !.status = status])
  /\ UNCHANGED <<profileVars, campaignVars>>

\* ... or VTEX failed: the code stays as it was generated.
SyncFails(id) ==
  /\ id \in syncing
  /\ syncing' = syncing \ {id}
  /\ UNCHANGED <<profileVars, campaignVars, discountCodes, codesByCode>>

ProfileStep ==
  \/ \E i \in Influencers, contact \in Contacts, account \in BankAccounts \cup {Omitted} :
       CreateInfluencer(i, contact, account)
  \/ \E i \in Influencers, contact \in Contacts \cup {Omitted},
        account \in BankAccounts \cup {Omitted} : UpdateInfluencer(i, contact, account)

CatalogueStep ==
  \/ \E c \in Campaigns, status \in CampaignStatuses : CreateCampaign(c, status)
  \/ \E c \in Campaigns, status \in CampaignStatuses \cup {Omitted} : UpdateCampaignRow(c, status)
  \/ \E c \in Campaigns, i \in Influencers : GenerateCode(c, i)
  \/ \E id \in DOMAIN discountCodes : SyncCode(id)
  \/ \E id \in syncing, status \in CodeStatuses : SyncSucceeds(id, status)
  \/ \E id \in syncing : SyncFails(id)

----------------------------------------------------------------------------

\* Every code's text leads to a code that has this text, as it is now and never as
\* it was before a sync: to the code itself, then, unless another one has the same
\* text (createDiscountCode, updateDiscountCode, composeCode).
CodesLeadToTheirRows ==
  /\ \A n \in DOMAIN discountCodes : discountCodes[n].text \in DOMAIN codesByCode
  /\ \A text \in DOMAIN codesByCode :
       /\ codesByCode[text].text = text
       /\ codesByCode[text] = discountCodes[codesByCode[text].id]

\* The vault holds the account an influencer gave last, whatever updates have left
\* out of the row since, and what the row shows of an account is of that one
\* (persistBankAccount, updateInfluencerDetails).
AccountsSurviveUpdates ==
  /\ vault = given
  /\ \A i \in DOMAIN profiles : profiles[i].account \in {Omitted, vault[i]}

=============================================================================
