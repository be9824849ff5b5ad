--------------------------- MODULE PlatformProofs ---------------------------
(***************************************************************************)
(* Theorems about the parts around the ledger, for every value of their    *)
(* constants: any influencers, campaigns, codes, people, orders, calls and *)
(* credentials.                                                            *)
(*                                                                         *)
(* Each part has an inductive invariant of its own.  A step of Platform is *)
(* a step of one part, which leaves the variables of the others alone.     *)
(***************************************************************************)
EXTENDS Platform, SumProofs

----------------------------------------------------------------------------
(* The master data. *)

\* A code is found in the table at the place its identifier names: the index would
\* otherwise be renewed for one code while another one changes.
DirectoryInv ==
  /\ DirectoryTypeOK
  /\ Len(discountCodes) <= CodeCount
  /\ \A n \in DOMAIN discountCodes : discountCodes[n].id = n
  /\ syncing \subseteq DOMAIN discountCodes
  /\ \A text \in DOMAIN codesByCode : codesByCode[text].id \in DOMAIN discountCodes
  /\ CodesLeadToTheirRows
  /\ AccountsSurviveUpdates

LEMMA DirectoryInitInv == DirectoryInit => DirectoryInv
<1> SUFFICES ASSUME DirectoryInit PROVE DirectoryInv
  OBVIOUS
<1>1. /\ profiles = <<>> /\ campaignRows = <<>> /\ codesByCode = <<>> /\ discountCodes = <<>>
      /\ \A x : x \notin DOMAIN profiles /\ x \notin DOMAIN campaignRows
                /\ x \notin DOMAIN codesByCode /\ x \notin DOMAIN discountCodes
  BY DEF DirectoryInit
<1>2. DirectoryTypeOK
  <2>1. /\ discountCodes \in Seq(Code)
        /\ campaignRows \in [DOMAIN campaignRows -> CampaignStatuses]
        /\ codesByCode \in [DOMAIN codesByCode -> Code]
    BY <1>1
  <2>2. minimums \in [DOMAIN minimums -> {"seed", "campaign"}] /\ DOMAIN minimums \subseteq Brands
    BY DirectoryConstants DEF DirectoryInit
  <2>3. {vault, given} \subseteq [Influencers -> BankAccounts \cup {Omitted}]
    BY DEF DirectoryInit
  <2>4. QED
    BY <1>1, <2>1, <2>2, <2>3 DEF DirectoryInit, DirectoryTypeOK
<1>3. Len(discountCodes) <= CodeCount
  BY <1>1, DirectoryConstants
<1>4. CodesLeadToTheirRows /\ AccountsSurviveUpdates
  BY <1>1 DEF CodesLeadToTheirRows, AccountsSurviveUpdates, DirectoryInit
<1>5. QED
  BY <1>1, <1>2, <1>3, <1>4 DEF DirectoryInv, DirectoryInit

\* Accounts: only what is given reaches the vault.
LEMMA ProfileStepInv ==
  ASSUME DirectoryInv, ProfileStep
  PROVE  DirectoryInv'
<1>1. UNCHANGED <<campaignVars, codeVars>>
  BY DEF ProfileStep, CreateInfluencer, UpdateInfluencer
<1>2. PICK i \in Influencers, contact \in Contacts \cup {Omitted},
           account \in BankAccounts \cup {Omitted} :
             CreateInfluencer(i, contact, account) \/ UpdateInfluencer(i, contact, account)
  BY DEF ProfileStep
<1> DEFINE row == [contact |-> contact, account |-> account]
<1>3. row \in [contact : Contacts \cup {Omitted}, account : BankAccounts \cup {Omitted}]
  OBVIOUS
<1> HIDE DEF row
<1>4. /\ DOMAIN profiles' = DOMAIN profiles \cup {i}
      /\ profiles'[i] = row
      /\ \A j \in DOMAIN profiles : j # i => profiles'[j] = profiles[j]
  <2>1. CASE CreateInfluencer(i, contact, account)
    <3>1. profiles' = With(profiles, i, row)
      BY <2>1 DEF CreateInfluencer, row
    <3>2. QED
      BY <3>1 DEF With
  <2>2. CASE UpdateInfluencer(i, contact, account)
    BY <2>2 DEF UpdateInfluencer, row
  <2>3. QED
    BY <1>2, <2>1, <2>2
<1>5. /\ vault = given
      /\ vault \in [Influencers -> BankAccounts \cup {Omitted}]
      /\ \A j \in DOMAIN profiles : profiles[j].account \in {Omitted, vault[j]}
  BY DEF DirectoryInv, DirectoryTypeOK, AccountsSurviveUpdates
<1>6. /\ vault' = given'
      /\ vault' \in [Influencers -> BankAccounts \cup {Omitted}]
      /\ \A j \in Influencers : j # i => vault'[j] = vault[j]
      /\ account # Omitted => vault'[i] = account
  BY <1>2, <1>5
     DEF CreateInfluencer, UpdateInfluencer, UpdateBankAccount, PersistBankAccount
<1>7. row.account = account
  BY DEF row
<1>8. AccountsSurviveUpdates'
  <2>1. ASSUME NEW j \in DOMAIN profiles'
        PROVE  profiles'[j].account \in {Omitted, vault'[j]}
    BY <1>4, <1>5, <1>6, <1>7 DEF DirectoryInv, DirectoryTypeOK
  <2>2. QED
    BY <1>6, <2>1 DEF AccountsSurviveUpdates
<1>9. DirectoryTypeOK'
  <2>1. DOMAIN profiles' \subseteq Influencers
    BY <1>4 DEF DirectoryInv, DirectoryTypeOK
  <2>2. \A j \in DOMAIN profiles' :
          profiles'[j] \in [contact : Contacts \cup {Omitted}, account : BankAccounts \cup {Omitted}]
    BY <1>3, <1>4 DEF DirectoryInv, DirectoryTypeOK
  <2>3. QED
    BY <1>1, <1>6, <2>1, <2>2
       DEF DirectoryInv, DirectoryTypeOK, campaignVars, codeVars
<1>10. QED
  BY <1>1, <1>8, <1>9 DEF DirectoryInv, CodesLeadToTheirRows, codeVars

\* Codes: what the index is told is what the table holds by then.
LEMMA CatalogueStepInv ==
  ASSUME DirectoryInv, CatalogueStep
  PROVE  DirectoryInv'
<1>1. UNCHANGED profileVars
  BY DEF CatalogueStep, CreateCampaign, UpdateCampaignRow, GenerateCode, SyncCode, SyncSucceeds,
         SyncFails
<1>2. /\ vault' = given'
      /\ \A i \in DOMAIN profiles' : profiles'[i].account \in {Omitted, vault'[i]}
  BY <1>1 DEF DirectoryInv, AccountsSurviveUpdates, profileVars
<1>3. ASSUME UNCHANGED codeVars,
             DOMAIN campaignRows' \subseteq Campaigns,
             campaignRows' \in [DOMAIN campaignRows' -> CampaignStatuses],
             minimums' \in [DOMAIN minimums' -> {"seed", "campaign"}],
             DOMAIN minimums' \subseteq Brands
      PROVE  DirectoryInv'
  BY <1>1, <1>2, <1>3
     DEF DirectoryInv, DirectoryTypeOK, CodesLeadToTheirRows, AccountsSurviveUpdates, profileVars,
         codeVars
<1>4. ASSUME NEW c \in Campaigns, NEW status \in CampaignStatuses, CreateCampaign(c, status)
      PROVE  DirectoryInv'
  <2>1. /\ DOMAIN campaignRows' \subseteq Campaigns
        /\ campaignRows' \in [DOMAIN campaignRows' -> CampaignStatuses]
    BY <1>4 DEF CreateCampaign, With, DirectoryInv, DirectoryTypeOK
  <2>2. BrandOf[c] \in Brands
    BY DirectoryConstants
  <2>3. /\ minimums' \in [DOMAIN minimums' -> {"seed", "campaign"}]
        /\ DOMAIN minimums' \subseteq Brands
    BY <1>4, <2>2 DEF CreateCampaign, With, DirectoryInv, DirectoryTypeOK
  <2>4. QED
    BY <1>3, <1>4, <2>1, <2>3 DEF CreateCampaign
<1>5. ASSUME NEW c \in Campaigns, NEW status \in CampaignStatuses \cup {Omitted},
             UpdateCampaignRow(c, status)
      PROVE  DirectoryInv'
  <2>1. /\ DOMAIN campaignRows' \subseteq Campaigns
        /\ campaignRows' \in [DOMAIN campaignRows' -> CampaignStatuses]
    BY <1>5 DEF UpdateCampaignRow, DirectoryInv, DirectoryTypeOK
  <2>2. QED
    BY <1>3, <1>5, <2>1 DEF UpdateCampaignRow, DirectoryInv, DirectoryTypeOK
<1>6. ASSUME UNCHANGED <<campaignVars, discountCodes, codesByCode>>,
             syncing' \subseteq DOMAIN discountCodes
      PROVE  DirectoryInv'
  <2>1. DOMAIN discountCodes = 1..Len(discountCodes) /\ Len(discountCodes) \in Nat
    BY DEF DirectoryInv, DirectoryTypeOK
  <2>2. syncing' \subseteq 1..CodeCount
    BY <1>6, <2>1, DirectoryConstants DEF DirectoryInv
  <2>3. QED
    BY <1>1, <1>2, <1>6, <2>2
       DEF DirectoryInv, DirectoryTypeOK, CodesLeadToTheirRows, AccountsSurviveUpdates, profileVars,
           campaignVars
<1>7. ASSUME NEW c \in Campaigns, NEW i \in Influencers, GenerateCode(c, i)
      PROVE  DirectoryInv'
  <2> DEFINE n == Len(discountCodes) + 1
             code == [id |-> n, text |-> ComposeCode(c, i), owner |-> i,
                      status |-> InitialStatus(c)]
  <2>1. /\ discountCodes' = Append(discountCodes, code)
        /\ codesByCode' = With(codesByCode, code.text, code)
        /\ syncing' = syncing \cup {n}
        /\ Len(discountCodes) < CodeCount
        /\ UNCHANGED <<profileVars, campaignVars>>
    BY <1>7 DEF GenerateCode
  <2>2. Len(discountCodes) \in Nat /\ discountCodes \in Seq(Code)
    BY DEF DirectoryInv, DirectoryTypeOK
  <2>3. n \in 1..CodeCount /\ n \notin DOMAIN discountCodes
    BY <2>1, <2>2, DirectoryConstants
  <2>4. code \in Code /\ code.id = n
    BY <2>3 DEF Code, Texts, ComposeCode, InitialStatus, CodeStatuses, CampaignStatuses
  <2> HIDE DEF n, code
  <2>5. /\ discountCodes' \in Seq(Code)
        /\ Len(discountCodes') = n
        /\ DOMAIN discountCodes' = DOMAIN discountCodes \cup {n}
        /\ discountCodes'[n] = code
        /\ \A m \in DOMAIN discountCodes : discountCodes'[m] = discountCodes[m]
    BY <2>1, <2>2, <2>4 DEF n
  <2>6. /\ DOMAIN codesByCode' = DOMAIN codesByCode \cup {code.text}
        /\ codesByCode' \in [DOMAIN codesByCode' -> Code]
        /\ codesByCode'[code.text] = code
        /\ \A text \in DOMAIN codesByCode : text # code.text => codesByCode'[text] = codesByCode[text]
    BY <2>1, <2>4 DEF With, DirectoryInv, DirectoryTypeOK
  <2>7. DirectoryTypeOK'
    <3>1. DOMAIN codesByCode' \subseteq Texts
      BY <2>4, <2>6 DEF Code, DirectoryInv, DirectoryTypeOK
    <3>2. syncing' \subseteq 1..CodeCount
      BY <2>1, <2>3 DEF DirectoryInv, DirectoryTypeOK
    <3>3. QED
      BY <2>1, <2>5, <2>6, <3>1, <3>2
         DEF DirectoryInv, DirectoryTypeOK, profileVars, campaignVars
  <2>8. \A m \in DOMAIN discountCodes' : discountCodes'[m].id = m
    BY <2>4, <2>5 DEF DirectoryInv
  <2>9. /\ \A text \in DOMAIN codesByCode' : codesByCode'[text].id \in DOMAIN discountCodes'
        /\ CodesLeadToTheirRows'
    <3>1. ASSUME NEW text \in DOMAIN codesByCode'
          PROVE  /\ codesByCode'[text].id \in DOMAIN discountCodes'
                 /\ codesByCode'[text].text = text
                 /\ codesByCode'[text] = discountCodes'[codesByCode'[text].id]
      <4>1. CASE text = code.text
        BY <2>4, <2>5, <2>6, <4>1
      <4>2. CASE text # code.text
        <5>1. text \in DOMAIN codesByCode /\ codesByCode'[text] = codesByCode[text]
          BY <2>6, <4>2
        <5>2. /\ codesByCode[text].id \in DOMAIN discountCodes
              /\ codesByCode[text].text = text
              /\ codesByCode[text] = discountCodes[codesByCode[text].id]
          BY <5>1 DEF DirectoryInv, CodesLeadToTheirRows
        <5>3. QED
          BY <2>5, <5>1, <5>2
      <4>3. QED
        BY <4>1, <4>2
    <3>2. \A m \in DOMAIN discountCodes' : discountCodes'[m].text \in DOMAIN codesByCode'
      BY <2>5, <2>6 DEF DirectoryInv, CodesLeadToTheirRows
    <3>3. QED
      BY <3>1, <3>2 DEF CodesLeadToTheirRows
  <2>10. Len(discountCodes') <= CodeCount /\ syncing' \subseteq DOMAIN discountCodes'
    BY <2>1, <2>3, <2>5 DEF DirectoryInv
  <2>11. QED
    BY <1>2, <2>7, <2>8, <2>9, <2>10 DEF DirectoryInv, AccountsSurviveUpdates
<1>8. ASSUME NEW id \in syncing, NEW status \in CodeStatuses, SyncSucceeds(id, status)
      PROVE  DirectoryInv'
  <2> DEFINE code == [discountCodes[id] EXCEPT !.status = status]
  <2>1. /\ discountCodes' = [discountCodes EXCEPT ![code.id] = code]
        /\ codesByCode' = With(codesByCode, code.text, code)
        /\ syncing' = syncing \ {id}
        /\ UNCHANGED <<profileVars, campaignVars>>
    BY <1>8 DEF SyncSucceeds, UpdateDiscountCode
  <2>2. /\ id \in DOMAIN discountCodes /\ discountCodes \in Seq(Code)
        /\ discountCodes[id] \in Code /\ discountCodes[id].id = id
    BY DEF DirectoryInv, DirectoryTypeOK
  <2>3. code \in Code /\ code.id = id /\ code.text = discountCodes[id].text
    BY <2>2 DEF Code
  <2> HIDE DEF code
  <2>4. /\ discountCodes' \in Seq(Code)
        /\ Len(discountCodes') = Len(discountCodes)
        /\ DOMAIN discountCodes' = DOMAIN discountCodes
        /\ discountCodes'[id] = code
        /\ \A m \in DOMAIN discountCodes : m # id => discountCodes'[m] = discountCodes[m]
    BY <2>1, <2>2, <2>3
  <2>5. code.text \in DOMAIN codesByCode
    BY <2>2, <2>3 DEF DirectoryInv, CodesLeadToTheirRows
  <2>6. /\ DOMAIN codesByCode' = DOMAIN codesByCode
        /\ codesByCode' \in [DOMAIN codesByCode' -> Code]
        /\ codesByCode'[code.text] = code
        /\ \A text \in DOMAIN codesByCode : text # code.text => codesByCode'[text] = codesByCode[text]
    BY <2>1, <2>3, <2>5 DEF With, DirectoryInv, DirectoryTypeOK
  <2>7. DirectoryTypeOK'
    BY <2>1, <2>4, <2>6 DEF DirectoryInv, DirectoryTypeOK, profileVars, campaignVars
  <2>8. \A m \in DOMAIN discountCodes' : discountCodes'[m].id = m
    BY <2>3, <2>4 DEF DirectoryInv
  <2>9. /\ \A text \in DOMAIN codesByCode' : codesByCode'[text].id \in DOMAIN discountCodes'
        /\ CodesLeadToTheirRows'
    <3>1. ASSUME NEW text \in DOMAIN codesByCode'
          PROVE  /\ codesByCode'[text].id \in DOMAIN discountCodes'
                 /\ codesByCode'[text].text = text
                 /\ codesByCode'[text] = discountCodes'[codesByCode'[text].id]
      <4>1. CASE text = code.text
        BY <2>2, <2>3, <2>4, <2>6, <4>1
      <4>2. CASE text # code.text
        <5>1. text \in DOMAIN codesByCode /\ codesByCode'[text] = codesByCode[text]
          BY <2>6, <4>2
        <5>2. /\ codesByCode[text].id \in DOMAIN discountCodes
              /\ codesByCode[text].text = text
              /\ codesByCode[text] = discountCodes[codesByCode[text].id]
          BY <5>1 DEF DirectoryInv, CodesLeadToTheirRows
        <5>3. codesByCode[text].id # id
          BY <2>3, <4>2, <5>2
        <5>4. QED
          BY <2>4, <5>1, <5>2, <5>3
      <4>3. QED
        BY <4>1, <4>2
    <3>2. \A m \in DOMAIN discountCodes' : discountCodes'[m].text \in DOMAIN codesByCode'
      BY <2>3, <2>4, <2>5, <2>6 DEF DirectoryInv, CodesLeadToTheirRows
    <3>3. QED
      BY <3>1, <3>2 DEF CodesLeadToTheirRows
  <2>10. Len(discountCodes') <= CodeCount /\ syncing' \subseteq DOMAIN discountCodes'
    BY <2>1, <2>4 DEF DirectoryInv
  <2>11. QED
    BY <1>2, <2>7, <2>8, <2>9, <2>10 DEF DirectoryInv, AccountsSurviveUpdates
<1>9. ASSUME NEW id \in DOMAIN discountCodes, SyncCode(id)
      PROVE  DirectoryInv'
  <2>1. syncing \subseteq DOMAIN discountCodes
    BY DEF DirectoryInv
  <2>2. syncing' \subseteq DOMAIN discountCodes /\ UNCHANGED <<campaignVars, discountCodes, codesByCode>>
    BY <1>9, <2>1 DEF SyncCode
  <2>3. QED
    BY <1>6, <2>2
<1>10. ASSUME NEW id \in syncing, SyncFails(id)
       PROVE  DirectoryInv'
  <2>1. syncing \subseteq DOMAIN discountCodes
    BY DEF DirectoryInv
  <2>2. syncing' \subseteq DOMAIN discountCodes /\ UNCHANGED <<campaignVars, discountCodes, codesByCode>>
    BY <1>10, <2>1 DEF SyncFails
  <2>3. QED
    BY <1>6, <2>2
<1>11. QED
  BY <1>4, <1>5, <1>7, <1>8, <1>9, <1>10 DEF CatalogueStep

----------------------------------------------------------------------------
(* Accounts. *)

IsOutChange(c) == changes[c].stage \in {"comparing", "hashing"}

\* What a call has read is the password as it is, until a change of the same user
\* overlaps: then each of the changes knows of the other, and a sign-in of theirs.
OverlapsAreMutual ==
  \A c, d \in Changes :
    c # d /\ IsOutChange(c) /\ IsOutChange(d) /\ changes[c].user = changes[d].user =>
      changes[c].overlap

ChangesAreCurrent ==
  \A c \in Changes :
    /\ IsOutChange(c) /\ ~changes[c].overlap => changes[c].hash = passwords[changes[c].user]
    /\ changes[c].stage = "hashing" => changes[c].currentPassword = changes[c].hash

SigninIsCurrent ==
  signin.stage = "comparing" /\ ~signin.overlap =>
    signin.hash = passwords[signin.user] /\ Changing(signin.user) = {}

AccountsInv == AccountsTypeOK /\ OverlapsAreMutual /\ ChangesAreCurrent /\ SigninIsCurrent

LEMMA AccountsInitInv == AccountsInit => AccountsInv
<1> SUFFICES ASSUME AccountsInit PROVE AccountsInv
  OBVIOUS
<1>1. PICK u \in Users :
        /\ changes = [c \in Changes |->
             [stage |-> "idle", user |-> u, currentPassword |-> SeededPassword,
              newPassword |-> SeededPassword, hash |-> SeededPassword, overlap |-> FALSE]]
        /\ signin = NoSignin(u)
  BY DEF AccountsInit
<1>2. \A c \in Changes : changes[c].stage = "idle"
  BY <1>1
<1>3. signin.stage = "idle" /\ signin \in Signin
  BY <1>1, AccountConstants DEF NoSignin, Signin, Codes
<1>4. changes \in [Changes -> Change]
  BY <1>1, AccountConstants DEF Change
<1>5. AccountsTypeOK
  BY <1>3, <1>4, AccountConstants DEF AccountsInit, AccountsTypeOK
<1>6. QED
  BY <1>2, <1>3, <1>5
     DEF AccountsInv, OverlapsAreMutual, ChangesAreCurrent, SigninIsCurrent, IsOutChange

\* The body of PasswordsAreProven.
ProvenStep ==
  /\ \A u \in Users : passwords'[u] # passwords[u] =>
       \E c \in Changing(u) : changes[c].currentPassword = passwords[u] \/ changes[c].overlap
  /\ signin.stage = "comparing" /\ signin'.stage = "idle" /\ ~signin.overlap =>
       (signin'.accepted <=>
          /\ signin.password = passwords[signin.user]
          /\ signin.user \in TwoFactorUsers => signin.code = "right")

LEMMA StartSigninInv ==
  ASSUME AccountsInv, NEW u \in Users, NEW password \in Passwords, NEW code \in Codes,
         StartSignin(u, password, code)
  PROVE  AccountsInv' /\ ProvenStep
<1> DEFINE call == [stage |-> "comparing", user |-> u, password |-> password, code |-> code,
                    hash |-> passwords[u], accepted |-> FALSE, overlap |-> Changing(u) # {}]
<1>1. call \in Signin
  BY DEF AccountsInv, AccountsTypeOK, Signin
<1>2. /\ signin' = call
      /\ signin.stage = "idle"
      /\ UNCHANGED <<passwords, changes, twoFactorRequired>>
  BY DEF StartSignin
<1>3. /\ call.user = u /\ call.hash = passwords[u]
      /\ ~call.overlap => Changing(u) = {}
  OBVIOUS
<1> HIDE DEF call
<1>4. AccountsTypeOK' /\ OverlapsAreMutual' /\ ChangesAreCurrent'
  BY <1>1, <1>2
     DEF AccountsInv, AccountsTypeOK, OverlapsAreMutual, ChangesAreCurrent, IsOutChange
<1>5. SigninIsCurrent'
  BY <1>2, <1>3 DEF SigninIsCurrent, Changing
<1>6. ProvenStep
  BY <1>2 DEF ProvenStep
<1>7. QED
  BY <1>4, <1>5, <1>6 DEF AccountsInv

LEMMA SigninAnsweredInv ==
  ASSUME AccountsInv, SigninAnswered
  PROVE  AccountsInv' /\ ProvenStep
<1>1. UNCHANGED <<passwords, changes>>
  BY DEF SigninAnswered
<1>2. /\ signin' \in Signin
      /\ signin'.stage = "idle"
      /\ signin'.accepted <=> PasswordMatches(signin) /\ CodeIsValid(signin)
  BY AccountConstants DEF AccountsInv, AccountsTypeOK, SigninAnswered, NoSignin, Signin, Codes
<1>3. twoFactorRequired' \in BOOLEAN
  BY DEF SigninAnswered
<1>4. AccountsTypeOK' /\ OverlapsAreMutual' /\ ChangesAreCurrent' /\ SigninIsCurrent'
  BY <1>1, <1>2, <1>3
     DEF AccountsInv, AccountsTypeOK, OverlapsAreMutual, ChangesAreCurrent, IsOutChange,
         SigninIsCurrent
<1>5. ProvenStep
  BY <1>1, <1>2
     DEF AccountsInv, SigninIsCurrent, ProvenStep, PasswordMatches, CodeIsValid
<1>6. QED
  BY <1>4, <1>5 DEF AccountsInv

LEMMA StartChangeInv ==
  ASSUME AccountsInv, NEW c \in Changes, NEW u \in Users,
         NEW currentPassword \in Passwords, NEW newPassword \in Passwords,
         StartChange(c, u, currentPassword, newPassword)
  PROVE  AccountsInv' /\ ProvenStep
<1> DEFINE call == [stage |-> "comparing", user |-> u, currentPassword |-> currentPassword,
                    newPassword |-> newPassword, hash |-> passwords[u],
                    overlap |-> Changing(u) # {}]
<1> DEFINE beside(d) == [changes[d] EXCEPT !.overlap = @ \/ d \in Changing(u)]
<1>1. /\ call \in Change
      /\ call.stage = "comparing" /\ call.user = u /\ call.hash = passwords[u]
      /\ call.overlap <=> Changing(u) # {}
  BY DEF AccountsInv, AccountsTypeOK, Change
<1>2. ASSUME NEW d \in Changes
      PROVE  /\ beside(d) \in Change
             /\ beside(d).stage = changes[d].stage
             /\ beside(d).user = changes[d].user
             /\ beside(d).currentPassword = changes[d].currentPassword
             /\ beside(d).hash = changes[d].hash
             /\ beside(d).overlap <=> changes[d].overlap \/ d \in Changing(u)
  <2>1. changes[d] \in Change
    BY DEF AccountsInv, AccountsTypeOK
  <2>2. (changes[d].overlap \/ d \in Changing(u)) \in BOOLEAN
    BY <2>1 DEF Change
  <2>3. QED
    BY <2>1, <2>2 DEF Change
<1>3. /\ changes[c].stage = "idle"
      /\ changes' = [d \in Changes |-> IF d = c THEN call ELSE beside(d)]
      /\ UNCHANGED <<passwords, twoFactorRequired>>
  BY DEF StartChange
<1>4. signin' = [signin EXCEPT !.overlap = @ \/ (signin.stage = "comparing" /\ signin.user = u)]
  BY DEF StartChange
<1> HIDE DEF call, beside
<1>5. changes' \in [Changes -> Change] /\ changes'[c] = call
  BY <1>1, <1>2, <1>3
<1>6. \A d \in Changes : d # c => changes'[d] = beside(d)
  BY <1>3
<1>7. /\ signin' \in Signin
      /\ signin'.stage = signin.stage /\ signin'.user = signin.user /\ signin'.hash = signin.hash
      /\ signin'.overlap <=> signin.overlap \/ (signin.stage = "comparing" /\ signin.user = u)
  <2>1. (signin.overlap \/ (signin.stage = "comparing" /\ signin.user = u)) \in BOOLEAN
    BY DEF AccountsInv, AccountsTypeOK, Signin
  <2>2. QED
    BY <1>4, <2>1 DEF AccountsInv, AccountsTypeOK, Signin
<1>8. AccountsTypeOK'
  BY <1>3, <1>5, <1>7 DEF AccountsInv, AccountsTypeOK
<1>9. OverlapsAreMutual'
  <2>1. ASSUME NEW d \in Changes, NEW e \in Changes, d # e,
               IsOutChange(d)', IsOutChange(e)', changes'[d].user = changes'[e].user
        PROVE  changes'[d].overlap
    <3>1. CASE d = c
      <4>1. e \in Changing(u)
        BY <1>1, <1>2, <1>5, <1>6, <2>1, <3>1 DEF IsOutChange, Changing
      <4>2. QED
        BY <1>1, <1>5, <3>1, <4>1
    <3>2. CASE e = c /\ d # c
      <4>1. d \in Changing(u)
        BY <1>1, <1>2, <1>5, <1>6, <2>1, <3>2 DEF IsOutChange, Changing
      <4>2. QED
        BY <1>2, <1>6, <3>2, <4>1
    <3>3. CASE d # c /\ e # c
      <4>1. IsOutChange(d) /\ IsOutChange(e) /\ changes[d].user = changes[e].user
        BY <1>2, <1>6, <2>1, <3>3 DEF IsOutChange
      <4>2. changes[d].overlap
        BY <2>1, <4>1 DEF AccountsInv, OverlapsAreMutual
      <4>3. QED
        BY <1>2, <1>6, <3>3, <4>2
    <3>4. QED
      BY <3>1, <3>2, <3>3
  <2>2. QED
    BY <2>1 DEF OverlapsAreMutual
<1>10. ChangesAreCurrent'
  <2>1. ASSUME NEW d \in Changes
        PROVE  /\ IsOutChange(d)' /\ ~changes'[d].overlap =>
                    changes'[d].hash = passwords'[changes'[d].user]
               /\ changes'[d].stage = "hashing" =>
                    changes'[d].currentPassword = changes'[d].hash
    <3>1. CASE d = c
      BY <1>1, <1>3, <1>5, <3>1
    <3>2. CASE d # c
      BY <1>2, <1>3, <1>6, <3>2 DEF AccountsInv, ChangesAreCurrent, IsOutChange
    <3>3. QED
      BY <3>1, <3>2
  <2>2. QED
    BY <2>1 DEF ChangesAreCurrent
<1>11. SigninIsCurrent'
  <2>1. SUFFICES ASSUME signin'.stage = "comparing", ~signin'.overlap
                 PROVE  /\ signin'.hash = passwords'[signin'.user]
                        /\ \A d \in Changes : ~(IsOutChange(d)' /\ changes'[d].user = signin'.user)
    BY DEF SigninIsCurrent, Changing, IsOutChange
  <2>2. /\ signin.hash = passwords[signin.user]
        /\ Changing(signin.user) = {}
        /\ signin.user # u
    BY <1>7, <2>1 DEF AccountsInv, SigninIsCurrent
  <2>3. \A d \in Changes : ~(IsOutChange(d)' /\ changes'[d].user = signin.user)
    BY <1>1, <1>2, <1>5, <1>6, <2>2 DEF Changing, IsOutChange
  <2>4. QED
    BY <1>3, <1>7, <2>2, <2>3
<1>12. ProvenStep
  BY <1>3, <1>7 DEF ProvenStep
<1>13. QED
  BY <1>8, <1>9, <1>10, <1>11, <1>12 DEF AccountsInv

\* A change goes on, and is out no longer than before.
LEMMA ChangeGoesOnInv ==
  ASSUME AccountsInv, NEW c \in Changes, ChangeCompared(c) \/ ChangeHashed(c)
  PROVE  AccountsInv' /\ ProvenStep
<1>1. PICK stage \in {"hashing", "ended"} :
        /\ changes' = [changes EXCEPT ![c].stage = stage]
        /\ stage = "hashing" => ChangeCompared(c) /\ MayChange(changes[c])
  BY DEF ChangeCompared, ChangeHashed
<1>2. /\ IsOutChange(c)
      /\ UNCHANGED <<signin, twoFactorRequired>>
  BY DEF ChangeCompared, ChangeHashed, IsOutChange
<1> DEFINE call == [changes[c] EXCEPT !.stage = stage]
<1>3. /\ call \in Change
      /\ call.stage = stage
      /\ call.user = changes[c].user
      /\ call.currentPassword = changes[c].currentPassword
      /\ call.hash = changes[c].hash
      /\ call.overlap = changes[c].overlap
  BY DEF AccountsInv, AccountsTypeOK, Change
<1>4. changes' = [changes EXCEPT ![c] = call]
  BY <1>1
<1> HIDE DEF call
<1>5. /\ changes' \in [Changes -> Change]
      /\ changes'[c] = call
      /\ \A d \in Changes : d # c => changes'[d] = changes[d]
  BY <1>3, <1>4 DEF AccountsInv, AccountsTypeOK
<1>6. \A d \in Changes : /\ IsOutChange(d)' => IsOutChange(d)
                         /\ changes'[d].user = changes[d].user
                         /\ changes'[d].hash = changes[d].hash
                         /\ changes'[d].overlap = changes[d].overlap
  BY <1>2, <1>3, <1>5 DEF IsOutChange
<1> DEFINE u == changes[c].user
<1>7. /\ passwords' \in [Users -> Passwords]
      /\ \A v \in Users : v # u => passwords'[v] = passwords[v]
      /\ passwords' # passwords => ChangeHashed(c)
  <2>1. changes[c].newPassword \in Passwords
    BY DEF AccountsInv, AccountsTypeOK, Change
  <2>2. CASE ChangeCompared(c)
    BY <2>2 DEF AccountsInv, AccountsTypeOK, ChangeCompared
  <2>3. CASE ChangeHashed(c)
    BY <2>1, <2>3 DEF AccountsInv, AccountsTypeOK, ChangeHashed
  <2>4. QED
    BY <2>2, <2>3
<1>8. AccountsTypeOK'
  BY <1>2, <1>5, <1>7 DEF AccountsInv, AccountsTypeOK
<1>9. OverlapsAreMutual'
  BY <1>6 DEF AccountsInv, OverlapsAreMutual
<1>10. \A d \in Changes : changes[d].user \in Users
  BY DEF AccountsInv, AccountsTypeOK, Change
<1>11. ChangesAreCurrent'
  <2>1. ASSUME NEW d \in Changes
        PROVE  /\ IsOutChange(d)' /\ ~changes'[d].overlap =>
                    changes'[d].hash = passwords'[changes'[d].user]
               /\ changes'[d].stage = "hashing" =>
                    changes'[d].currentPassword = changes'[d].hash
    <3>1. changes'[d].stage = "hashing" => changes'[d].currentPassword = changes'[d].hash
      <4>1. CASE d = c
        BY <1>1, <1>3, <1>5, <4>1 DEF MayChange
      <4>2. CASE d # c
        BY <1>5, <4>2 DEF AccountsInv, ChangesAreCurrent
      <4>3. QED
        BY <4>1, <4>2
    <3>2. ASSUME IsOutChange(d)', ~changes'[d].overlap
          PROVE  changes'[d].hash = passwords'[changes'[d].user]
      <4>1. changes[d].hash = passwords[changes[d].user] /\ IsOutChange(d) /\ ~changes[d].overlap
        BY <1>6, <3>2 DEF AccountsInv, ChangesAreCurrent
      <4>2. CASE passwords' = passwords
        BY <1>6, <4>1, <4>2
      <4>3. CASE passwords' # passwords
        <5>1. ChangeHashed(c)
          BY <1>7, <4>3
        <5>2. ~IsOutChange(c)'
          BY <5>1 DEF ChangeHashed, IsOutChange, AccountsInv, AccountsTypeOK
        <5>3. d # c
          BY <3>2, <5>2
        <5>4. changes[d].user # u
          BY <1>2, <4>1, <5>3 DEF AccountsInv, OverlapsAreMutual
        <5>5. QED
          BY <1>6, <1>7, <1>10, <4>1, <5>4
      <4>4. QED
        BY <4>2, <4>3
    <3>3. QED
      BY <3>1, <3>2
  <2>2. QED
    BY <2>1 DEF ChangesAreCurrent
<1>12. SigninIsCurrent'
  <2>1. SUFFICES ASSUME signin'.stage = "comparing", ~signin'.overlap
                 PROVE  /\ signin'.hash = passwords'[signin'.user]
                        /\ \A d \in Changes : ~(IsOutChange(d)' /\ changes'[d].user = signin'.user)
    BY DEF SigninIsCurrent, Changing, IsOutChange
  <2>2. signin.hash = passwords[signin.user] /\ Changing(signin.user) = {}
    BY <1>2, <2>1 DEF AccountsInv, SigninIsCurrent
  <2>3. signin.user # u
    BY <1>2, <2>2 DEF Changing, IsOutChange
  <2>4. signin.user \in Users
    BY DEF AccountsInv, AccountsTypeOK, Signin
  <2>5. passwords'[signin.user] = passwords[signin.user]
    BY <1>7, <2>3, <2>4
  <2>6. \A d \in Changes : ~(IsOutChange(d)' /\ changes'[d].user = signin.user)
    BY <1>6, <2>2 DEF Changing, IsOutChange
  <2>7. QED
    BY <1>2, <2>2, <2>5, <2>6
<1>13. ProvenStep
  <2>1. ASSUME NEW v \in Users, passwords'[v] # passwords[v]
        PROVE  \E d \in Changing(v) : changes[d].currentPassword = passwords[v] \/ changes[d].overlap
    <3>1. v = u /\ ChangeHashed(c)
      BY <1>7, <2>1
    <3>2. c \in Changing(v)
      BY <1>2, <3>1 DEF Changing, IsOutChange
    <3>3. changes[c].currentPassword = changes[c].hash
      BY <3>1 DEF ChangeHashed, AccountsInv, ChangesAreCurrent
    <3>4. ~changes[c].overlap => changes[c].hash = passwords[v]
      BY <1>2, <3>1 DEF AccountsInv, ChangesAreCurrent
    <3>5. QED
      BY <3>2, <3>3, <3>4
  <2>2. QED
    BY <1>2, <2>1 DEF ProvenStep
<1>14. QED
  BY <1>8, <1>9, <1>11, <1>12, <1>13 DEF AccountsInv

\* Every step of the accounts keeps the invariant and is proven.
LEMMA AccountsStepInv ==
  ASSUME AccountsInv, AccountsNext
  PROVE  AccountsInv' /\ ProvenStep
BY StartSigninInv, SigninAnsweredInv, StartChangeInv, ChangeGoesOnInv DEF AccountsNext

----------------------------------------------------------------------------
(* Registration: types. *)

FormPage == [terms : Version \cup {NoVersion}, fetched : 0..FaultCount]

RegistrationTypes ==
  /\ RegistrationTypeOK
  /\ sent.stage # "none" => sent.form \in Form
  /\ IsFiniteSet(registered)

LEMMA RegistrationBounds ==
  /\ People \in Nat /\ FaultCount \in Nat /\ VersionCount \in Nat \ {0}
  /\ RegistrationCount \in Nat
  /\ 0 \in 0..FaultCount
  /\ Seeded \in Version /\ NoVersion \notin Version
<1>1. /\ People \in Nat /\ FaultCount \in Nat /\ VersionCount \in Nat \ {0}
      /\ RegistrationCount \in Nat
  BY RegistrationConstants
<1>2. Seeded \in Version /\ NoVersion \notin Version
  BY <1>1 DEF Seeded, NoVersion, Version
<1>3. QED
  BY <1>1, <1>2

LEMMA RegistrationInitTypes == RegistrationInit => RegistrationTypes
<1> SUFFICES ASSUME RegistrationInit PROVE RegistrationTypes
  OBVIOUS
<1>1. versions \in [DOMAIN versions -> BOOLEAN] /\ DOMAIN versions \subseteq Version
  BY RegistrationBounds DEF RegistrationInit
<1>2. RegistrationTypeOK
  BY <1>1, RegistrationBounds DEF RegistrationTypeOK, RegistrationInit, NoRequest
<1>3. QED
  BY <1>2, FS_EmptySet DEF RegistrationTypes, RegistrationInit, NoRequest

LEMMA RegistrationStepTypes ==
  ASSUME RegistrationTypes, RegistrationNext
  PROVE  RegistrationTypes'
<1> DEFINE Sent == [stage : {"none", "out", "made"}, form : Form \cup {NoForm}]
<1>1. /\ page \in FormPage /\ sent \in Sent
      /\ DOMAIN versions \subseteq Version
      /\ versions \in [DOMAIN versions -> BOOLEAN]
      /\ boots \in 0..FaultCount
      /\ registered \subseteq [form : Form, number : 1..RegistrationCount]
      /\ sent.stage # "none" => sent.form \in Form
      /\ IsFiniteSet(registered)
  BY DEF RegistrationTypes, RegistrationTypeOK, FormPage
\* It is enough to know the variables one by one.
<1>2. ASSUME /\ page' \in FormPage /\ sent' \in Sent
             /\ DOMAIN versions' \subseteq Version
             /\ versions' \in [DOMAIN versions' -> BOOLEAN]
             /\ boots' \in 0..FaultCount
             /\ registered' \subseteq [form : Form, number : 1..RegistrationCount]
             /\ sent'.stage # "none" => sent'.form \in Form
             /\ IsFiniteSet(registered')
      PROVE  RegistrationTypes'
  BY <1>2 DEF RegistrationTypes, RegistrationTypeOK, FormPage
<1>3. CASE PublishPolicyVersion
  <2> DEFINE version == <<boots, Cardinality(DOMAIN versions) + 1>>
  <2>1. version \in Version /\ versions' = PublishedVersions(version)
    BY <1>3 DEF PublishPolicyVersion
  <2> HIDE DEF version
  <2>2. DOMAIN versions' \subseteq Version /\ versions' \in [DOMAIN versions' -> BOOLEAN]
    BY <1>1, <2>1 DEF PublishedVersions
  <2>3. QED
    BY <1>1, <1>2, <1>3, <2>2 DEF PublishPolicyVersion
<1>4. CASE FetchPolicies
  <2>1. PICK v \in ActiveVersions : page' = [terms |-> v, fetched |-> boots]
    BY <1>4 DEF FetchPolicies
  <2>2. page' \in FormPage
    BY <1>1, <2>1 DEF FormPage, ActiveVersions
  <2>3. QED
    BY <1>1, <1>2, <1>4, <2>2 DEF FetchPolicies
<1>5. CASE RestartApi
  <2>1. boots' \in 0..FaultCount
    BY <1>1, <1>5, RegistrationBounds DEF RestartApi
  <2>2. DOMAIN versions' \subseteq Version /\ versions' \in [DOMAIN versions' -> BOOLEAN]
    BY <1>5, RegistrationBounds DEF RestartApi
  <2>3. sent' \in Sent /\ sent'.stage = "none" /\ IsFiniteSet(registered')
    BY <1>5, FS_EmptySet DEF RestartApi, NoRequest
  <2>4. QED
    BY <1>1, <1>2, <1>5, <2>1, <2>2, <2>3 DEF RestartApi
<1>6. ASSUME NEW person \in 1..People, Submit(person)
      PROVE  RegistrationTypes'
  <2>1. [person |-> person, terms |-> page.terms, fetched |-> page.fetched] \in Form
    BY <1>1, <1>6 DEF Submit, Form, FormPage
  <2>2. sent' \in Sent /\ sent'.form \in Form
    BY <1>6, <2>1 DEF Submit
  <2>3. QED
    BY <1>1, <1>2, <1>6, <2>2 DEF Submit
<1>7. CASE RegistrationEnds
  <2>1. sent' \in Sent /\ sent'.stage = "none"
    BY <1>7 DEF RegistrationEnds, NoRequest
  <2>2. QED
    BY <1>1, <1>2, <1>7, <2>1 DEF RegistrationEnds
<1>8. CASE RegisterPublicInfluencer
  <2> DEFINE row == [form |-> sent.form, number |-> Cardinality(registered) + 1]
  <2>1. registered' = registered \cup {row} /\ Cardinality(registered) < RegistrationCount
    BY <1>8 DEF RegisterPublicInfluencer
  <2>2. sent.form \in Form
    BY <1>1, <1>8 DEF RegisterPublicInfluencer
  <2>3. Cardinality(registered) + 1 \in 1..RegistrationCount
    BY <1>1, <2>1, FS_CardinalityType, RegistrationBounds
  <2>4. row \in [form : Form, number : 1..RegistrationCount]
    BY <2>2, <2>3
  <2> HIDE DEF row
  <2>5. IsFiniteSet(registered')
    BY <1>1, <2>1, FS_AddElement
  <2>6. sent' \in Sent /\ sent'.form = sent.form
    BY <1>1, <1>8 DEF RegisterPublicInfluencer
  <2>7. QED
    BY <1>1, <1>2, <1>8, <2>1, <2>2, <2>4, <2>5, <2>6 DEF RegisterPublicInfluencer
<1>9. QED
  BY <1>3, <1>4, <1>5, <1>6, <1>7, <1>8 DEF RegistrationNext

----------------------------------------------------------------------------
(* Registration: terms. *)

TermsAreKnown(form) ==
  form.fetched <= boots /\ (form.fetched = boots => form.terms \in DOMAIN versions)

\* One version is active, and what was fetched since the API last started is known to
\* it: on the page, in what it sends, and in what was registered.
TermsInv ==
  /\ \E v \in DOMAIN versions : ActiveVersions = {v}
  /\ page.terms # NoVersion => TermsAreKnown(page)
  /\ sent.stage # "none" => TermsAreKnown(sent.form)
  /\ \A row \in registered : TermsAreKnown(row.form)

LEMMA RegistrationInitTerms == RegistrationInit => TermsInv
<1> SUFFICES ASSUME RegistrationInit PROVE TermsInv
  OBVIOUS
<1>1. ActiveVersions = {Seeded} /\ Seeded \in DOMAIN versions
  BY DEF RegistrationInit, ActiveVersions
<1>2. page.terms = NoVersion /\ sent.stage = "none" /\ registered = {}
  BY DEF RegistrationInit, NoRequest
<1>3. QED
  BY <1>1, <1>2 DEF TermsInv

LEMMA RegistrationStepTerms ==
  ASSUME RegistrationTypes, TermsInv, RegistrationNext
  PROVE  TermsInv'
<1>1. /\ boots \in Nat /\ page.fetched \in Nat
      /\ sent \in [stage : {"none", "out", "made"}, form : Form \cup {NoForm}]
      /\ \A row \in registered : row.form.fetched \in Nat
  BY DEF RegistrationTypes, RegistrationTypeOK, Form
<1>2. CASE PublishPolicyVersion
  <2> DEFINE version == <<boots, Cardinality(DOMAIN versions) + 1>>
  <2>1. versions' = PublishedVersions(version) /\ UNCHANGED <<boots, registered, page, sent>>
    BY <1>2 DEF PublishPolicyVersion
  <2> HIDE DEF version
  <2>2. /\ DOMAIN versions' = DOMAIN versions \cup {version}
        /\ \A v \in DOMAIN versions' : versions'[v] <=> v = version
    BY <2>1 DEF PublishedVersions
  <2>3. ActiveVersions' = {version}
    BY <2>2 DEF ActiveVersions
  <2>4. QED
    BY <2>1, <2>2, <2>3 DEF TermsInv, TermsAreKnown
<1>3. CASE FetchPolicies
  <2>1. PICK v \in ActiveVersions : page' = [terms |-> v, fetched |-> boots]
    BY <1>3 DEF FetchPolicies
  <2>2. UNCHANGED <<versions, boots, registered, sent>>
    BY <1>3 DEF FetchPolicies
  <2>3. TermsAreKnown(page)'
    BY <1>1, <2>1, <2>2 DEF TermsAreKnown, ActiveVersions
  <2>4. QED
    BY <2>2, <2>3 DEF TermsInv, TermsAreKnown, ActiveVersions
<1>4. CASE RestartApi
  <2>1. ActiveVersions' = {Seeded} /\ Seeded \in DOMAIN versions'
    BY <1>4 DEF RestartApi, ActiveVersions
  <2>2. page' = page /\ boots' = boots + 1 /\ sent'.stage = "none" /\ registered' = {}
    BY <1>4 DEF RestartApi, NoRequest
  <2>3. page.terms # NoVersion => TermsAreKnown(page)'
    BY <1>1, <2>2 DEF TermsInv, TermsAreKnown
  <2>4. QED
    BY <2>1, <2>2, <2>3 DEF TermsInv
<1>5. ASSUME NEW person \in 1..People, Submit(person)
      PROVE  TermsInv'
  <2>1. /\ UNCHANGED <<versions, boots, registered, page>>
        /\ page.terms # NoVersion
        /\ sent'.form.terms = page.terms /\ sent'.form.fetched = page.fetched
    BY <1>5 DEF Submit
  <2>2. QED
    BY <2>1 DEF TermsInv, TermsAreKnown, ActiveVersions
<1>6. CASE RegisterPublicInfluencer
  <2>1. /\ UNCHANGED <<versions, boots, page>>
        /\ sent.stage # "none" /\ sent'.form = sent.form
    BY <1>1, <1>6 DEF RegisterPublicInfluencer
  <2>2. \A row \in registered' : row \in registered \/ row.form = sent.form
    BY <1>6 DEF RegisterPublicInfluencer
  <2>3. QED
    BY <2>1, <2>2 DEF TermsInv, TermsAreKnown, ActiveVersions
<1>7. CASE RegistrationEnds
  <2>1. UNCHANGED <<versions, boots, registered, page>> /\ sent'.stage = "none"
    BY <1>7 DEF RegistrationEnds, NoRequest
  <2>2. QED
    BY <2>1 DEF TermsInv, TermsAreKnown, ActiveVersions
<1>8. QED
  BY <1>2, <1>3, <1>4, <1>5, <1>6, <1>7 DEF RegistrationNext

RegistrationInv == RegistrationTypes /\ TermsInv

LEMMA RegistrationInitInv == RegistrationInit => RegistrationInv
BY RegistrationInitTypes, RegistrationInitTerms DEF RegistrationInv

LEMMA RegistrationStepInv ==
  ASSUME RegistrationInv, RegistrationNext
  PROVE  RegistrationInv'
BY RegistrationStepTypes, RegistrationStepTerms DEF RegistrationInv

----------------------------------------------------------------------------
(***************************************************************************)
(* The client's credentials.  An undisturbed call tries the credentials in *)
(* turn: those it has come past are no good, and there are at least as     *)
(* many of them as attempts of it were refused.                            *)
(***************************************************************************)

\* The credential n places ahead of place i, and how far p lies behind i.
At(i, n) == IF i + n < PoolSize THEN i + n ELSE i + n - PoolSize
Behind(i, p) == IF p < i THEN i - p ELSE i - p + PoolSize

Good == Accepted \ expired

\* None of the n places behind i is any good.
Passed(i, n) == \A p \in Pool : Behind(i, p) <= n => p \notin Good

CallsAreAlone ==
  \A c, d \in Calls : c # d /\ IsOut(c) /\ IsOut(d) => calls[c].disturbed

\* How many credentials a call has been refused with: one for each attempt before this
\* one, and this one's when the error is being read.
Refused(call) == IF call.phase = "failing" THEN call.attempt + 1 ELSE call.attempt

CredentialsArePassed ==
  \A c \in Calls : IsOut(c) /\ ~calls[c].disturbed =>
    /\ calls[c].phase = "sent" => calls[c].credential = credentialIndex
    /\ Passed(credentialIndex, Refused(calls[c]))

FailuresAreFinal ==
  PoolSize <= MaxRetries + 1 =>
    \A c \in Calls : calls[c].phase = "failed" /\ ~calls[c].disturbed => Good = {}

ClientInv == ClientTypeOK /\ CallsAreAlone /\ CredentialsArePassed /\ FailuresAreFinal

LEMMA PoolIsNotEmpty ==
  /\ PoolSize \in Nat \ {0} /\ MaxRetries \in Nat /\ Accepted \subseteq Pool
  /\ Pool = 0..(PoolSize - 1) /\ 0 \in Pool /\ Pool \subseteq Nat
BY ClientConstants DEF Pool

LEMMA AtIsRemainder ==
  ASSUME NEW i \in Pool, NEW n \in Nat, n <= PoolSize
  PROVE  (i + n) % PoolSize = At(i, n)
<1> DEFINE x == i + n
<1>1. x \in Nat /\ PoolSize \in Nat \ {0} /\ x < PoolSize + PoolSize
  BY PoolIsNotEmpty
<1>2. At(i, n) = IF x < PoolSize THEN x ELSE x - PoolSize
  BY PoolIsNotEmpty DEF At
<1> HIDE DEF x
<1>3. x % PoolSize = IF x < PoolSize THEN x ELSE x - PoolSize
  BY <1>1
<1>4. QED
  BY <1>2, <1>3 DEF x

LEMMA PositionIsAhead ==
  ASSUME credentialIndex \in Pool, NEW n \in Pool
  PROVE  Position(n) = At(credentialIndex, n) /\ Position(n) \in Pool
<1>1. /\ credentialIndex \in Nat /\ n \in Nat /\ PoolSize \in Nat \ {0}
      /\ credentialIndex < PoolSize /\ n < PoolSize
  BY PoolIsNotEmpty
<1>2. Position(n) = At(credentialIndex, n)
  BY <1>1, AtIsRemainder DEF Position
<1>3. QED
  BY <1>1, <1>2, PoolIsNotEmpty DEF At

LEMMA RotationIsAhead ==
  ASSUME credentialIndex \in Pool
  PROVE  RotateCredential = At(credentialIndex, 1) /\ RotateCredential \in Pool
<1>1. /\ credentialIndex \in Nat /\ PoolSize \in Nat \ {0} /\ credentialIndex < PoolSize
  BY PoolIsNotEmpty
<1>2. CASE PoolSize <= 1
  BY <1>1, <1>2, PoolIsNotEmpty DEF RotateCredential, At
<1>3. CASE ~(PoolSize <= 1)
  <2>1. (credentialIndex + 1) % PoolSize = At(credentialIndex, 1)
    BY <1>1, <1>3, AtIsRemainder
  <2>2. QED
    BY <1>1, <1>3, <2>1, PoolIsNotEmpty DEF RotateCredential, At
<1>4. QED
  BY <1>2, <1>3

\* Whoever goes on by k places, past k that are no good, has come past k more.
LEMMA PassedAhead ==
  ASSUME NEW i \in Pool, NEW n \in Nat, NEW k \in 0..PoolSize, Passed(i, n),
         \A m \in 0..(k - 1) : At(i, m) \notin Good
  PROVE  Passed(At(i, k), n + k)
<1> SUFFICES ASSUME NEW p \in Pool, Behind(At(i, k), p) <= n + k PROVE p \notin Good
  BY DEF Passed
<1> DEFINE ahead == IF p < i THEN p - i + PoolSize ELSE p - i
<1>1. /\ i \in Nat /\ p \in Nat /\ PoolSize \in Nat \ {0} /\ k \in Nat /\ k <= PoolSize
      /\ i < PoolSize /\ p < PoolSize
  BY PoolIsNotEmpty
<1>2. /\ ahead \in Nat /\ ahead < PoolSize /\ At(i, ahead) = p
      /\ Behind(i, p) = PoolSize - ahead
  BY <1>1 DEF At, Behind
<1>3. CASE ahead < k
  <2> HIDE DEF ahead
  <2>1. ahead \in 0..(k - 1)
    BY <1>1, <1>2, <1>3
  <2>2. QED
    BY <1>2, <2>1
<1>4. CASE ~(ahead < k)
  <2>1. Behind(At(i, k), p) = Behind(i, p) + k
    BY <1>1, <1>4 DEF At, Behind
  <2>2. Behind(i, p) <= n /\ Behind(i, p) \in Int
    <3>1. Behind(i, p) \in Int
      BY <1>1 DEF Behind
    <3>2. QED
      BY <1>1, <2>1, <3>1
  <2>3. QED
    BY <2>2 DEF Passed
<1>5. QED
  BY <1>3, <1>4

LEMMA PassedFewer ==
  ASSUME NEW i \in Pool, NEW n \in Nat, NEW k \in Nat, Passed(i, n + k)
  PROVE  Passed(i, n)
<1> SUFFICES ASSUME NEW p \in Pool, Behind(i, p) <= n PROVE p \notin Good
  BY DEF Passed
<1>1. Behind(i, p) \in Int
  BY PoolIsNotEmpty DEF Behind
<1>2. Behind(i, p) <= n + k
  BY <1>1
<1>3. QED
  BY <1>2 DEF Passed

\* Whoever has come past as many as there are has found none.
LEMMA AllPassed ==
  ASSUME NEW i \in Pool, NEW n \in Nat, Passed(i, n), PoolSize <= n
  PROVE  Good = {}
<1>1. ASSUME NEW p \in Pool PROVE Behind(i, p) <= n
  BY PoolIsNotEmpty DEF Behind
<1>2. Good \subseteq Pool
  BY PoolIsNotEmpty DEF Good
<1>3. QED
  BY <1>1, <1>2 DEF Passed

\* Of the places that hold a credential that has not expired one comes first.
LEMMA PickedIsFirst ==
  ASSUME ClientTypeOK, ~(Pool \subseteq expired)
  PROVE  \E k \in Pool : /\ Picked = At(credentialIndex, k)
                         /\ Picked \in Pool
                         /\ \A m \in 0..(k - 1) : At(credentialIndex, m) \in expired
<1>1. credentialIndex \in Pool
  BY DEF ClientTypeOK
<1> DEFINE Live == {n \in Pool : Position(n) \notin expired}
<1>2. Live \in SUBSET Nat
  BY PoolIsNotEmpty
<1>3. Live # {}
  <2>1. PICK p \in Pool : p \notin expired
    OBVIOUS
  <2> DEFINE ahead == IF p < credentialIndex THEN p - credentialIndex + PoolSize
                      ELSE p - credentialIndex
  <2>2. ahead \in Pool /\ At(credentialIndex, ahead) = p
    BY <1>1, PoolIsNotEmpty DEF At
  <2> HIDE DEF ahead
  <2>3. Position(ahead) = p
    BY <1>1, <2>2, PositionIsAhead
  <2>4. QED
    BY <2>1, <2>2, <2>3
<1>4. PICK n \in Live : \A m \in Live : n <= m
  <2> HIDE DEF Live
  <2>1. QED
    BY <1>2, <1>3, Least
<1>5. ASSUME NEW m \in 0..(n - 1) PROVE m \in Pool /\ Position(m) \in expired
  <2>1. m \in Pool /\ m \in Nat /\ n \in Nat /\ m < n
    BY <1>5, PoolIsNotEmpty
  <2>2. m \notin Live
    BY <1>4, <2>1
  <2>3. QED
    BY <2>1, <2>2
<1> DEFINE First(k) == /\ Position(k) \notin expired
                       /\ \A m \in 0..(k - 1) : Position(m) \in expired
<1> DEFINE k == CHOOSE k \in Pool : First(k)
<1>6. \E j \in Pool : First(j)
  BY <1>5
<1>7. k \in Pool /\ First(k)
  <2> HIDE DEF First
  <2>1. QED
    BY <1>6
<1>8. Picked = Position(k)
  BY DEF Picked
<1> HIDE DEF k
<1>9. ASSUME NEW m \in 0..(k - 1) PROVE At(credentialIndex, m) \in expired
  <2>1. m \in Pool
    BY <1>7, PoolIsNotEmpty
  <2>2. QED
    BY <1>1, <1>7, <2>1, PositionIsAhead
<1>10. QED
  BY <1>1, <1>7, <1>8, <1>9, PositionIsAhead

LEMMA ClientInitInv == ClientInit => ClientInv
<1> SUFFICES ASSUME ClientInit PROVE ClientInv
  OBVIOUS
<1>1. \A c \in Calls : calls[c].phase = "idle"
  BY DEF ClientInit, NoCall
<1>2. calls \in [Calls -> Call]
  BY PoolIsNotEmpty DEF ClientInit, NoCall, Call
<1>3. ClientTypeOK
  BY <1>2, PoolIsNotEmpty DEF ClientInit, ClientTypeOK
<1>4. QED
  BY <1>1, <1>3 DEF ClientInv, CallsAreAlone, CredentialsArePassed, FailuresAreFinal, IsOut, IsReading

\* Disturbing others leaves everything else of a call as it is.
LEMMA DisturbingKeeps ==
  ASSUME calls \in [Calls -> Call], NEW others, NEW d \in Calls
  PROVE  LET new == Disturbing(others)[d]
         IN  /\ new \in Call
             /\ new.phase = calls[d].phase
             /\ new.attempt = calls[d].attempt
             /\ new.credential = calls[d].credential
             /\ new.disturbed <=> calls[d].disturbed \/ (d \in others /\ IsOut(d))
<1>1. calls[d] \in Call
  OBVIOUS
<1>2. CASE d \in others /\ IsOut(d)
  BY <1>1, <1>2 DEF Disturbing, Call
<1>3. CASE ~(d \in others /\ IsOut(d))
  BY <1>1, <1>3 DEF Disturbing, Call
<1>4. QED
  BY <1>2, <1>3

LEMMA StartedCallInv ==
  ASSUME ClientInv, NEW c \in Calls, calls' = StartedCall(c),
         UNCHANGED <<credentialIndex, expired>>
  PROVE  ClientInv'
<1>1. ClientTypeOK
  BY DEF ClientInv
<1> DEFINE new == [NoCall EXCEPT !.phase = "ready", !.disturbed = \E other \in Calls : IsOut(other)]
<1> DEFINE overlap == \E other \in Calls : IsOut(other)
<1>2. /\ new \in Call /\ new.phase = "ready" /\ new.attempt = 0
      /\ new.disturbed <=> overlap
  <2>1. overlap \in BOOLEAN
    OBVIOUS
  <2>2. new = [NoCall EXCEPT !.phase = "ready", !.disturbed = overlap]
    OBVIOUS
  <2> HIDE DEF overlap, new
  <2>3. /\ new.phase = "ready" /\ new.attempt = 0 /\ new.credential = 0 /\ new.disturbed = overlap
        /\ new = [phase |-> "ready", attempt |-> 0, credential |-> 0, disturbed |-> overlap]
    BY <2>2 DEF NoCall
  <2>4. 0 \in 0..MaxRetries
    BY PoolIsNotEmpty
  <2>5. new \in Call
    BY <2>1, <2>3, <2>4, PoolIsNotEmpty DEF Call
  <2>6. QED
    BY <2>3, <2>5
<1> DEFINE rest == Disturbing(Calls \ {c})
<1>3. calls' = [rest EXCEPT ![c] = new]
  BY DEF StartedCall
<1>4. \A d \in Calls : /\ rest[d] \in Call
                       /\ rest[d].phase = calls[d].phase
                       /\ rest[d].attempt = calls[d].attempt
                       /\ rest[d].credential = calls[d].credential
                       /\ d # c => (rest[d].disturbed <=> calls[d].disturbed \/ IsOut(d))
  BY <1>1, DisturbingKeeps DEF ClientTypeOK
<1>5. DOMAIN rest = Calls
  BY DEF Disturbing
<1> HIDE DEF new, rest
<1>6. /\ calls'[c] = new
      /\ \A d \in Calls : d # c => calls'[d] = rest[d]
      /\ calls' \in [Calls -> Call]
  BY <1>2, <1>3, <1>4, <1>5 DEF Disturbing, rest
<1>7. \A d \in Calls : d # c => /\ IsOut(d)' <=> IsOut(d)
                                /\ IsOut(d)' => calls'[d].disturbed
                                /\ calls'[d].phase = calls[d].phase
                                /\ ~calls'[d].disturbed => ~calls[d].disturbed
  BY <1>4, <1>6 DEF IsOut, IsReading
<1>8. CallsAreAlone'
  BY <1>2, <1>6, <1>7 DEF CallsAreAlone
<1>9. CredentialsArePassed'
  <2>1. Passed(credentialIndex, 0)
    BY <1>1, PoolIsNotEmpty DEF Passed, Behind, ClientTypeOK
  <2>2. Passed(credentialIndex, 0)'
    BY <2>1 DEF Passed, Good
  <2>3. QED
    BY <1>2, <1>6, <1>7, <2>2 DEF CredentialsArePassed, Refused
<1>10. FailuresAreFinal'
  BY <1>2, <1>6, <1>7 DEF ClientInv, FailuresAreFinal, Good
<1>11. QED
  BY <1>1, <1>6, <1>8, <1>9, <1>10 DEF ClientInv, ClientTypeOK

\* An undisturbed call is the only one that is out.
LEMMA UndisturbedIsAlone ==
  ASSUME ClientInv, NEW c \in Calls, IsOut(c), NEW d \in Calls, d # c, IsOut(d)
  PROVE  calls[d].disturbed
BY DEF ClientInv, CallsAreAlone

LEMMA AttemptInv ==
  ASSUME ClientInv, NEW c \in Calls, Attempt(c)
  PROVE  ClientInv'
<1>1. /\ ClientTypeOK /\ calls[c] \in Call /\ calls[c].phase = "ready" /\ IsOut(c)
      /\ expired' = expired
      /\ calls[c].attempt \in Nat
  BY PoolIsNotEmpty DEF ClientInv, ClientTypeOK, Attempt, IsOut, Call
<1>2. CASE Pool \subseteq expired
  <2> DEFINE new == [calls[c] EXCEPT !.phase = "failed"]
  <2>1. new \in Call /\ new.phase = "failed"
    BY <1>1 DEF Call
  <2>2. calls' = [calls EXCEPT ![c] = new] /\ credentialIndex' = credentialIndex
    BY <1>2 DEF Attempt
  <2> HIDE DEF new
  <2>3. /\ calls' \in [Calls -> Call] /\ calls'[c].phase = "failed"
        /\ \A d \in Calls : d # c => calls'[d] = calls[d]
    BY <1>1, <2>1, <2>2 DEF ClientTypeOK
  <2>4. Good' = {}
    BY <1>1, <1>2, PoolIsNotEmpty DEF Good
  <2>5. QED
    BY <1>1, <2>2, <2>3, <2>4
       DEF ClientInv, ClientTypeOK, CallsAreAlone, CredentialsArePassed, FailuresAreFinal, IsOut,
           IsReading, Passed, Refused
<1>3. CASE ~(Pool \subseteq expired)
  <2>1. PICK k \in Pool : /\ Picked = At(credentialIndex, k)
                          /\ Picked \in Pool
                          /\ \A m \in 0..(k - 1) : At(credentialIndex, m) \in expired
    BY <1>1, <1>3, PickedIsFirst
  <2> DEFINE new == [calls[c] EXCEPT !.phase = "sent", !.credential = Picked]
  <2>2. /\ new \in Call /\ new.phase = "sent" /\ new.credential = Picked
        /\ new.attempt = calls[c].attempt /\ new.disturbed = calls[c].disturbed
    BY <1>1, <2>1 DEF Call
  <2>3. calls' = [calls EXCEPT ![c] = new] /\ credentialIndex' = Picked
    BY <1>3 DEF Attempt
  <2> HIDE DEF new
  <2>4. /\ calls' \in [Calls -> Call] /\ calls'[c] = new
        /\ \A d \in Calls : d # c => calls'[d] = calls[d]
    BY <1>1, <2>2, <2>3 DEF ClientTypeOK
  <2>5. CallsAreAlone'
    BY <1>1, <2>2, <2>4 DEF ClientInv, CallsAreAlone, IsOut, IsReading
  <2>6. CredentialsArePassed'
    <3>1. ASSUME NEW d \in Calls, IsOut(d)', ~calls'[d].disturbed
          PROVE  /\ calls'[d].phase = "sent" => calls'[d].credential = credentialIndex'
                 /\ \A p \in Pool : Behind(credentialIndex', p) <= Refused(calls'[d]) => p \notin Good'
      <4>1. d = c
        BY <1>1, <2>4, <3>1, UndisturbedIsAlone DEF IsOut, IsReading
      <4>2. Passed(credentialIndex, calls[c].attempt)
        BY <1>1, <2>2, <2>4, <3>1, <4>1 DEF ClientInv, CredentialsArePassed, Refused
      <4>3. /\ credentialIndex \in Pool /\ k \in 0..PoolSize /\ k \in Nat
            /\ \A m \in 0..(k - 1) : At(credentialIndex, m) \notin Good
        BY <1>1, <2>1, PoolIsNotEmpty DEF ClientTypeOK, Good
      <4>4. Passed(Picked, calls[c].attempt + k)
        BY <1>1, <2>1, <4>2, <4>3, PassedAhead
      <4>5. Passed(Picked, calls[c].attempt)
        BY <1>1, <2>1, <4>3, <4>4, PassedFewer
      <4>6. QED
        BY <1>1, <2>2, <2>3, <2>4, <4>1, <4>5 DEF Passed, Good, Refused
    <3>2. QED
      BY <3>1 DEF CredentialsArePassed, Passed, Refused
  <2>7. FailuresAreFinal'
    BY <1>1, <2>2, <2>4 DEF ClientInv, FailuresAreFinal, Good
  <2>8. QED
    BY <1>1, <2>1, <2>3, <2>4, <2>5, <2>6, <2>7 DEF ClientInv, ClientTypeOK
<1>4. QED
  BY <1>2, <1>3

LEMMA FailedCall ==
  ASSUME NEW call \in Call
  PROVE  /\ Failed(call) \in Call
         /\ Failed(call).disturbed = call.disturbed
         /\ \/ Failed(call).phase = "ready" /\ Failed(call).attempt = call.attempt + 1
            \/ Failed(call).phase = "failed" /\ call.attempt = MaxRetries
         /\ call.attempt \in Nat
<1>1. call.attempt \in 0..MaxRetries /\ MaxRetries \in Nat
  BY PoolIsNotEmpty DEF Call
<1>2. CASE call.attempt < MaxRetries
  <2> DEFINE next == call.attempt + 1
  <2>1. next \in 0..MaxRetries
    BY <1>1, <1>2
  <2>2. Failed(call) = [call EXCEPT !.phase = "ready", !.attempt = next]
    BY <1>2 DEF Failed
  <2> HIDE DEF next
  <2>3. /\ Failed(call) \in Call /\ Failed(call).disturbed = call.disturbed
        /\ Failed(call).phase = "ready" /\ Failed(call).attempt = next
    BY <2>1, <2>2 DEF Call
  <2>4. QED
    BY <1>1, <2>3 DEF next
<1>3. CASE ~(call.attempt < MaxRetries)
  <2>1. Failed(call) = [call EXCEPT !.phase = "failed"] /\ call.attempt = MaxRetries
    BY <1>1, <1>3 DEF Failed
  <2>2. QED
    BY <1>1, <2>1 DEF Call
<1>4. QED
  BY <1>2, <1>3

LEMMA UnauthorisedInv ==
  ASSUME ClientInv, NEW c \in Calls, Unauthorised(c)
  PROVE  ClientInv'
<1>1. /\ ClientTypeOK /\ calls[c] \in Call /\ calls[c].phase = "sent" /\ IsOut(c)
      /\ expired' = expired /\ calls[c].credential \notin Accepted
      /\ credentialIndex \in Pool
  BY DEF ClientInv, ClientTypeOK, Unauthorised, IsOut
<1>2. credentialIndex' = At(credentialIndex, 1) /\ credentialIndex' \in Pool
  BY <1>1, RotationIsAhead DEF Unauthorised
<1> DEFINE rest == Disturbing(Calls \ {c})
<1> DEFINE new == [calls[c] EXCEPT !.phase = "failing"]
<1>3. /\ new \in Call /\ new.disturbed = calls[c].disturbed /\ new.phase = "failing"
      /\ new.attempt = calls[c].attempt
      /\ calls[c].attempt \in Nat
  BY <1>1, PoolIsNotEmpty DEF Call
<1>4. \A d \in Calls : /\ rest[d] \in Call
                       /\ rest[d].phase = calls[d].phase
                       /\ rest[d].attempt = calls[d].attempt
                       /\ rest[d].credential = calls[d].credential
                       /\ rest[d].disturbed <=> calls[d].disturbed \/ (d \in Calls \ {c} /\ IsOut(d))
  BY <1>1, DisturbingKeeps DEF ClientTypeOK
<1>5. rest = [d \in Calls |-> rest[d]] /\ rest[c] = calls[c]
  BY DEF Disturbing
<1>6. calls' = [rest EXCEPT ![c] = new]
  BY <1>5 DEF Unauthorised
<1> HIDE DEF new, rest
<1>7. /\ calls'[c] = new
      /\ \A d \in Calls : d # c => calls'[d] = rest[d]
      /\ calls' \in [Calls -> Call]
  BY <1>3, <1>4, <1>5, <1>6
<1>8. \A d \in Calls : d # c => /\ IsOut(d)' <=> IsOut(d)
                                /\ IsOut(d)' => calls'[d].disturbed
                                /\ calls'[d].phase = calls[d].phase
                                /\ ~calls'[d].disturbed => ~calls[d].disturbed
  BY <1>4, <1>7 DEF IsOut, IsReading
\* An undisturbed call was refused at the index: it has come past one more.
<1>9. ASSUME ~new.disturbed
      PROVE  Passed(At(credentialIndex, 1), calls[c].attempt + 1)
  <2>1. calls[c].credential = credentialIndex /\ Passed(credentialIndex, calls[c].attempt)
    BY <1>1, <1>3, <1>9 DEF ClientInv, CredentialsArePassed, Refused
  <2>2. At(credentialIndex, 0) = credentialIndex
    BY <1>1, PoolIsNotEmpty DEF At
  <2>3. \A m \in 0..(1 - 1) : At(credentialIndex, m) \notin Good
    BY <1>1, <2>1, <2>2 DEF Good
  <2>4. 1 \in 0..PoolSize
    BY PoolIsNotEmpty
  <2>5. QED
    BY <1>1, <1>3, <2>1, <2>3, <2>4, PassedAhead
<1>10. CallsAreAlone'
  <2>1. ASSUME NEW b \in Calls, NEW d \in Calls, b # d, IsOut(b)', IsOut(d)'
        PROVE  calls'[b].disturbed
    <3>1. CASE b = c
      <4>1. calls[c].disturbed
        BY <1>1, <1>8, <2>1, <3>1 DEF ClientInv, CallsAreAlone
      <4>2. QED
        BY <1>3, <1>7, <3>1, <4>1
    <3>2. QED
      BY <1>8, <2>1, <3>1
  <2>2. QED
    BY <2>1 DEF CallsAreAlone
<1>11. CredentialsArePassed'
  <2>1. ASSUME NEW d \in Calls, IsOut(d)', ~calls'[d].disturbed
        PROVE  /\ calls'[d].phase # "sent"
               /\ \A p \in Pool : Behind(credentialIndex', p) <= Refused(calls'[d]) => p \notin Good'
    <3>1. d = c
      BY <1>8, <2>1
    <3>2. Refused(calls'[d]) = calls[c].attempt + 1
      BY <1>3, <1>7, <3>1 DEF Refused
    <3>3. QED
      BY <1>1, <1>2, <1>3, <1>7, <1>9, <2>1, <3>1, <3>2 DEF Passed, Good
  <2>2. QED
    BY <2>1 DEF CredentialsArePassed, Passed, Refused
<1>12. FailuresAreFinal'
  BY <1>1, <1>3, <1>7, <1>8 DEF ClientInv, FailuresAreFinal, Good
<1>13. QED
  BY <1>1, <1>2, <1>7, <1>10, <1>11, <1>12 DEF ClientInv, ClientTypeOK

\* A call that is out, disturbed or has its answer says nothing new of the credentials.
LEMMA SettledCallInv ==
  ASSUME ClientInv, NEW c \in Calls, NEW new \in Call, calls' = [calls EXCEPT ![c] = new],
         IsOut(c), UNCHANGED <<credentialIndex, expired>>,
         \/ new.disturbed
         \/ new.phase = "done"
         \/ /\ calls[c].phase = "sent" /\ new.phase = "reading"
            /\ new.attempt = calls[c].attempt /\ new.disturbed = calls[c].disturbed
  PROVE  ClientInv'
<1>1. /\ calls'[c] = new /\ calls' \in [Calls -> Call]
      /\ \A d \in Calls : d # c => calls'[d] = calls[d]
  BY DEF ClientInv, ClientTypeOK
<1>2. \A d \in Calls : d # c => (IsOut(d)' <=> IsOut(d))
  BY <1>1 DEF IsOut, IsReading
<1>3. CallsAreAlone'
  BY <1>1, <1>2 DEF ClientInv, CallsAreAlone, IsOut, IsReading
<1>4. CredentialsArePassed'
  BY <1>1, <1>2 DEF ClientInv, CredentialsArePassed, IsOut, IsReading, Passed, Good, Refused
<1>5. FailuresAreFinal'
  BY <1>1 DEF ClientInv, FailuresAreFinal, Good
<1>6. QED
  BY <1>1, <1>3, <1>4, <1>5 DEF ClientInv, ClientTypeOK

LEMMA AttemptFailsInv ==
  ASSUME ClientInv, NEW c \in Calls, TimesOut(c) \/ BodyBreaks(c)
  PROVE  ClientInv'
<1> DEFINE new == [Failed(calls[c]) EXCEPT !.disturbed = TRUE]
<1>1. calls[c] \in Call /\ IsOut(c)
  BY DEF ClientInv, ClientTypeOK, TimesOut, BodyBreaks, IsOut, IsReading
<1>2. Failed(calls[c]) \in Call
  BY <1>1, FailedCall
<1>3. new \in Call /\ new.disturbed
  BY <1>2 DEF Call
<1>4. calls' = [calls EXCEPT ![c] = new] /\ UNCHANGED <<credentialIndex, expired>>
  BY DEF TimesOut, BodyBreaks, AttemptFails
<1> HIDE DEF new
<1>5. QED
  BY <1>1, <1>3, <1>4, SettledCallInv

LEMMA AnsweredInv ==
  ASSUME ClientInv, NEW c \in Calls, Answered(c)
  PROVE  ClientInv'
<1> DEFINE new == [calls[c] EXCEPT !.phase = "reading"]
<1>1. calls[c] \in Call /\ IsOut(c) /\ calls[c].phase = "sent"
  BY DEF ClientInv, ClientTypeOK, Answered, IsOut
<1>2. /\ new \in Call /\ new.phase = "reading"
      /\ new.attempt = calls[c].attempt /\ new.disturbed = calls[c].disturbed
  BY <1>1 DEF Call
<1>3. calls' = [calls EXCEPT ![c] = new] /\ UNCHANGED <<credentialIndex, expired>>
  BY DEF Answered
<1> HIDE DEF new
<1>4. QED
  BY <1>1, <1>2, <1>3, SettledCallInv

LEMMA AnsweredWithErrorInv ==
  ASSUME ClientInv, NEW c \in Calls, AnsweredWithError(c)
  PROVE  ClientInv'
<1> DEFINE new == [[calls[c] EXCEPT !.phase = "failing"] EXCEPT !.disturbed = TRUE]
<1>1. calls[c] \in Call /\ IsOut(c) /\ calls \in [Calls -> Call]
  BY DEF ClientInv, ClientTypeOK, AnsweredWithError, IsOut
<1>2. new \in Call /\ new.disturbed
  BY <1>1 DEF Call
<1>3. calls' = [calls EXCEPT ![c] = new] /\ UNCHANGED <<credentialIndex, expired>>
  BY <1>1 DEF AnsweredWithError
<1> HIDE DEF new
<1>4. QED
  BY <1>1, <1>2, <1>3, SettledCallInv

LEMMA BodyIsReadInv ==
  ASSUME ClientInv, NEW c \in Calls, BodyIsRead(c)
  PROVE  ClientInv'
<1> DEFINE new == [calls[c] EXCEPT !.phase = "done"]
<1>1. calls[c] \in Call /\ IsOut(c)
  BY DEF ClientInv, ClientTypeOK, BodyIsRead, IsOut, IsReading
<1>2. new \in Call /\ new.phase = "done"
  BY <1>1 DEF Call
<1>3. calls' = [calls EXCEPT ![c] = new] /\ UNCHANGED <<credentialIndex, expired>>
  BY DEF BodyIsRead
<1> HIDE DEF new
<1>4. QED
  BY <1>1, <1>2, <1>3, SettledCallInv

\* The last attempt of an undisturbed call that was refused has come past every
\* credential.
LEMMA ErrorIsReadInv ==
  ASSUME ClientInv, NEW c \in Calls, ErrorIsRead(c)
  PROVE  ClientInv'
<1> DEFINE new == Failed(calls[c])
<1>1. /\ calls[c] \in Call /\ IsOut(c) /\ calls[c].phase = "failing"
      /\ credentialIndex \in Pool
  BY DEF ClientInv, ClientTypeOK, ErrorIsRead, IsOut, IsReading
<1>2. /\ new \in Call /\ new.disturbed = calls[c].disturbed
      /\ \/ new.phase = "ready" /\ new.attempt = calls[c].attempt + 1
         \/ new.phase = "failed" /\ calls[c].attempt = MaxRetries
      /\ calls[c].attempt \in Nat
  BY <1>1, FailedCall
<1>3. calls' = [calls EXCEPT ![c] = new] /\ UNCHANGED <<credentialIndex, expired>>
  BY DEF ErrorIsRead
<1> HIDE DEF new
<1>4. CASE new.disturbed
  BY <1>1, <1>2, <1>3, <1>4, SettledCallInv
<1>5. CASE ~new.disturbed
  <2>1. /\ calls'[c] = new /\ calls' \in [Calls -> Call]
        /\ \A d \in Calls : d # c => calls'[d] = calls[d]
    BY <1>2, <1>3 DEF ClientInv, ClientTypeOK
  <2>2. \A d \in Calls : d # c => (IsOut(d)' <=> IsOut(d))
    BY <2>1 DEF IsOut, IsReading
  <2>3. CallsAreAlone'
    BY <1>1, <1>2, <2>1, <2>2 DEF ClientInv, CallsAreAlone
  <2>4. Passed(credentialIndex, calls[c].attempt + 1)
    BY <1>1, <1>2, <1>5 DEF ClientInv, CredentialsArePassed, Refused
  <2>5. CredentialsArePassed'
    <3>1. ASSUME NEW d \in Calls, IsOut(d)', ~calls'[d].disturbed
          PROVE  /\ calls'[d].phase = "sent" => calls'[d].credential = credentialIndex
                 /\ Passed(credentialIndex, Refused(calls'[d]))
      <4>1. CASE d = c
        BY <1>2, <2>1, <2>4, <3>1, <4>1 DEF Refused, IsOut, IsReading
      <4>2. CASE d # c
        BY <2>1, <2>2, <3>1, <4>2 DEF ClientInv, CredentialsArePassed
      <4>3. QED
        BY <4>1, <4>2
    <3>2. QED
      BY <1>3, <3>1 DEF CredentialsArePassed, Passed, Good, Refused
  <2>6. FailuresAreFinal'
    <3>1. ASSUME PoolSize <= MaxRetries + 1, NEW d \in Calls, calls'[d].phase = "failed",
                 ~calls'[d].disturbed
          PROVE  Good = {}
      <4>1. CASE d = c
        <5>1. calls[c].attempt = MaxRetries
          BY <1>2, <2>1, <3>1, <4>1
        <5>2. Passed(credentialIndex, MaxRetries + 1) /\ MaxRetries + 1 \in Nat
          BY <2>4, <5>1, PoolIsNotEmpty
        <5>3. QED
          BY <1>1, <3>1, <5>2, AllPassed
      <4>2. CASE d # c
        BY <2>1, <3>1, <4>2 DEF ClientInv, FailuresAreFinal
      <4>3. QED
        BY <4>1, <4>2
    <3>2. QED
      BY <1>3, <3>1 DEF FailuresAreFinal, Good
  <2>7. QED
    BY <1>3, <2>1, <2>3, <2>5, <2>6 DEF ClientInv, ClientTypeOK
<1>6. QED
  BY <1>4, <1>5

\* Every step of the loop and every answer but that of the store.
LEMMA LoopAndAnswersInv ==
  ASSUME ClientInv, NEW c \in Calls, LoopStep(c) \/ AnswerStep(c)
  PROVE  ClientInv'
BY AttemptInv, AttemptFailsInv, UnauthorisedInv, AnsweredWithErrorInv, ErrorIsReadInv, BodyIsReadInv
   DEF LoopStep, AnswerStep

LEMMA CredentialExpiresInv ==
  ASSUME ClientInv, NEW p \in Pool, CredentialExpires(p)
  PROVE  ClientInv'
<1>1. ClientTypeOK /\ credentialIndex' = credentialIndex /\ expired' = expired \cup {p}
  BY DEF ClientInv, CredentialExpires
<1>2. \A d \in Calls : /\ calls'[d] \in Call
                       /\ calls'[d].phase = calls[d].phase
                       /\ calls'[d].disturbed <=> calls[d].disturbed \/ IsOut(d)
  BY <1>1, DisturbingKeeps DEF CredentialExpires, ClientTypeOK
<1>3. calls' = [d \in Calls |-> calls'[d]]
  BY DEF CredentialExpires, Disturbing
<1>4. calls' \in [Calls -> Call]
  BY <1>2, <1>3
<1>5. \A d \in Calls : IsOut(d)' => calls'[d].disturbed
  BY <1>2 DEF IsOut, IsReading
<1>6. CallsAreAlone' /\ CredentialsArePassed'
  BY <1>5 DEF CallsAreAlone, CredentialsArePassed
<1>7. FailuresAreFinal'
  BY <1>1, <1>2 DEF ClientInv, FailuresAreFinal, Good
<1>8. QED
  BY <1>1, <1>4, <1>6, <1>7 DEF ClientInv, ClientTypeOK

LEMMA ClientStays ==
  ASSUME ClientInv, UNCHANGED clientVars
  PROVE  ClientInv'
<1>1. UNCHANGED <<credentialIndex, expired, calls>>
  BY DEF clientVars
<1>2. QED
  BY <1>1 DEF ClientInv, ClientTypeOK, CallsAreAlone, CredentialsArePassed, FailuresAreFinal, IsOut,
              IsReading, Passed, Good, Refused

----------------------------------------------------------------------------
(***************************************************************************)
(* The reconciliation.  A run has no record before the comparison, and is  *)
(* not ended with alarms before its mail is in the outbox.                 *)
(***************************************************************************)

IsMailed(c) == \E mail \in outbox : mail.raiser = c /\ mail.to = Recipients("finance")

MailsFollowRecords ==
  \A c \in Runs :
    /\ runs[c].stage \in {"idle", "asking"} => runs[c].record = NoRecord
    /\ runs[c].stage = "ended" /\ Alarming(runs[c].record) # {} => IsMailed(c)

ReconciliationInv == ReconciliationTypeOK /\ ClientInv /\ MailsFollowRecords

\* What each kind of difference is made of is a set of orders.
LEMMA RecordOfSets ==
  ASSUME NEW mp \in SUBSET Orders, NEW mv \in SUBSET Orders, NEW sm \in SUBSET Orders,
         NEW am \in SUBSET Orders, NEW cm \in SUBSET Orders
  PROVE  [missingInPlatform |-> mp, missingInVtex |-> mv, statusMismatch |-> sm,
          amountMismatch |-> am, couponMismatch |-> cm] \in Record
BY DEF Record, NoRecord

LEMMA NoRecordIsQuiet == NoRecord \in Record /\ Alarming(NoRecord) = {}
<1>1. NoRecord \in Record
  BY RecordOfSets DEF NoRecord
<1>2. QED
  BY <1>1 DEF NoRecord, Alarming

LEMMA ReportIsARecord ==
  ASSUME NEW report
  PROVE  BuildDiscrepancyReport(report) \in Record
<1>1. Known(report) \subseteq Orders /\ Known(orders) \subseteq Orders
  BY DEF Known
<1> DEFINE both == Known(report) \cap Known(orders)
<1>2. both \subseteq Orders
  BY <1>1
<1>3. /\ Known(report) \ Known(orders) \in SUBSET Orders
      /\ Known(orders) \ Known(report) \in SUBSET Orders
      /\ {o \in both : orders[o].status # report[o].status} \in SUBSET Orders
      /\ {o \in both : ~AmountWithinTolerance(orders[o].amount, report[o].amount)}
           \in SUBSET Orders
      /\ both \cap Foreign \in SUBSET Orders
  BY <1>1, <1>2
<1>4. QED
  BY <1>3, RecordOfSets DEF BuildDiscrepancyReport

LEMMA ReconciliationInitInv == ReconciliationInit => ReconciliationInv
<1> SUFFICES ASSUME ReconciliationInit PROVE ReconciliationInv
  OBVIOUS
<1>1. ClientInv
  BY ClientInitInv DEF ReconciliationInit
<1>2. 0 \in Days
  BY ReconciliationConstants DEF Days
<1>3. EmptyReport \in [Orders -> Snapshot]
  BY DEF EmptyReport, NoOrder, Snapshot
<1> DEFINE new == [stage |-> "idle", date |-> 0, report |-> EmptyReport, record |-> NoRecord]
<1>4. new \in Run
  BY <1>2, <1>3, NoRecordIsQuiet DEF Run
<1>5. runs = [c \in Runs |-> new]
  BY DEF ReconciliationInit
<1>6. store \in [Orders -> [status : Statuses \cup {"none"}, amount : OrderTotals \cup {0},
                            day : Days]]
  BY <1>2 DEF ReconciliationInit
<1>7. ReconciliationTypeOK
  BY <1>1, <1>2, <1>3, <1>4, <1>5, <1>6
     DEF ReconciliationInit, ReconciliationTypeOK, AlertTypeOK, AlertInit, ClientInv
<1>8. MailsFollowRecords
  BY <1>5 DEF MailsFollowRecords
<1>9. QED
  BY <1>1, <1>7, <1>8 DEF ReconciliationInv

\* One run goes on.
LEMMA OneRunSteps ==
  ASSUME runs \in [Runs -> Run], NEW c \in Runs, NEW new \in Run, runs' = [runs EXCEPT ![c] = new]
  PROVE  /\ runs' \in [Runs -> Run] /\ runs'[c] = new
         /\ \A d \in Runs : d # c => runs'[d] = runs[d]
OBVIOUS

\* VTEX and its webhooks disturb no run and no call.
LEMMA VtexStepInv ==
  ASSUME ReconciliationInv, VtexStep
  PROVE  ReconciliationInv'
<1>1. ReconciliationTypeOK /\ UNCHANGED <<clientVars, alertVars, runs>>
  BY DEF ReconciliationInv, VtexStep, DayEnds, OrderChanges, WebhookIsLost, HandleOrderWebhook
<1>2. ClientInv'
  BY <1>1, ClientStays DEF ReconciliationInv
<1>3. MailsFollowRecords'
  <2>1. \A c \in Runs : IsMailed(c)' <=> IsMailed(c)
    BY <1>1 DEF IsMailed, Recipients, GlobalRecipients, alertVars
  <2>2. QED
    BY <1>1, <2>1 DEF ReconciliationInv, MailsFollowRecords, Alarming
<1>4. ASSUME DayEnds PROVE ReconciliationTypeOK'
  BY <1>1, <1>2, <1>4, ReconciliationConstants
     DEF DayEnds, ReconciliationTypeOK, ClientInv, AlertTypeOK, alertVars, Days
<1>5. ASSUME NEW o \in Orders, NEW status \in Statuses, NEW amount \in OrderTotals,
             OrderChanges(o, status, amount)
      PROVE  ReconciliationTypeOK'
  <2> DEFINE new == [store[o] EXCEPT !.status = status, !.amount = amount,
                       !.day = IF store[o].status = "none" THEN today ELSE @]
  <2> DEFINE Stored == [status : Statuses \cup {"none"}, amount : OrderTotals \cup {0}, day : Days]
  <2>1. store \in [Orders -> Stored] /\ store[o] \in Stored /\ today \in Days
    BY <1>1 DEF ReconciliationTypeOK
  <2>2. new \in Stored
    BY <2>1
  <2>3. store' = [store EXCEPT ![o] = new]
    BY <1>5, <2>1 DEF OrderChanges
  <2> HIDE DEF new, Stored
  <2>4. store' \in [Orders -> Stored]
    BY <2>1, <2>2, <2>3
  <2>5. webhooks' \subseteq Event
    BY <1>1, <1>5 DEF OrderChanges, ReconciliationTypeOK, Event
  <2>6. QED
    BY <1>1, <1>2, <1>5, <2>4, <2>5
       DEF OrderChanges, ReconciliationTypeOK, ClientInv, AlertTypeOK, alertVars, Stored
<1>6. ASSUME NEW event \in webhooks, WebhookIsLost(event)
      PROVE  ReconciliationTypeOK'
  BY <1>1, <1>2, <1>6 DEF WebhookIsLost, ReconciliationTypeOK, ClientInv, AlertTypeOK, alertVars
<1>7. ASSUME NEW event \in webhooks, NEW again \in BOOLEAN, HandleOrderWebhook(event, again)
      PROVE  ReconciliationTypeOK'
  <2> DEFINE new == [status |-> event.status, amount |-> event.amount]
  <2>1. event \in Event /\ webhooks' \subseteq webhooks
    BY <1>1, <1>7 DEF ReconciliationTypeOK, HandleOrderWebhook
  <2>2. new \in Snapshot /\ event.order \in Orders
    BY <2>1 DEF Event, Snapshot
  <2>3. orders' = [orders EXCEPT ![event.order] = new]
    BY <1>7 DEF HandleOrderWebhook
  <2> HIDE DEF new
  <2>4. orders' \in [Orders -> Snapshot]
    BY <1>1, <2>2, <2>3 DEF ReconciliationTypeOK
  <2>5. QED
    BY <1>1, <1>2, <1>7, <2>1, <2>4
       DEF HandleOrderWebhook, ReconciliationTypeOK, ClientInv, AlertTypeOK, alertVars
<1>8. QED
  BY <1>1, <1>2, <1>3, <1>4, <1>5, <1>6, <1>7 DEF ReconciliationInv, VtexStep

\* A run whose stage and record stay as they are, or that has just begun.
LEMMA RunGoesOnInv ==
  ASSUME ReconciliationInv, ClientInv', UNCHANGED <<alertVars, platform>>,
         NEW c \in Runs, NEW new \in Run, runs' = [runs EXCEPT ![c] = new],
         new.record = runs[c].record,
         \/ new.stage = runs[c].stage
         \/ new.stage = "asking" /\ runs[c].stage = "idle"
         \/ new.stage = "ended" /\ runs[c].stage = "asking"
  PROVE  ReconciliationInv'
<1>1. /\ ReconciliationTypeOK /\ runs \in [Runs -> Run]
      /\ UNCHANGED <<mailConfig, outbox, today, store, webhooks, orders>>
  BY DEF ReconciliationInv, ReconciliationTypeOK, alertVars, platform
<1>2. /\ runs' \in [Runs -> Run] /\ runs'[c] = new
      /\ \A d \in Runs : d # c => runs'[d] = runs[d]
  BY <1>1, OneRunSteps
<1>3. ReconciliationTypeOK'
  BY <1>1, <1>2 DEF ReconciliationTypeOK, ClientInv, AlertTypeOK
<1>4. ASSUME NEW d \in Runs
      PROVE  /\ (runs[d].stage \in {"idle", "asking"} => runs[d].record = NoRecord)'
             /\ (runs[d].stage = "ended" /\ Alarming(runs[d].record) # {} => IsMailed(d))'
  <2>1. IsMailed(d)' <=> IsMailed(d)
    BY <1>1 DEF IsMailed, Recipients, GlobalRecipients
  <2>2. CASE d = c
    BY <1>1, <1>2, <2>1, <2>2, NoRecordIsQuiet DEF ReconciliationInv, MailsFollowRecords, Alarming
  <2>3. CASE d # c
    BY <1>2, <2>1, <2>3 DEF ReconciliationInv, MailsFollowRecords, Alarming
  <2>4. QED
    BY <2>2, <2>3
<1>5. MailsFollowRecords'
  BY <1>4 DEF MailsFollowRecords
<1>6. QED
  BY <1>3, <1>5 DEF ReconciliationInv

LEMMA ReportStepInv ==
  ASSUME ReconciliationInv, NEW c \in Runs, ReportStep(c)
  PROVE  ReconciliationInv'
<1>1. /\ ReconciliationTypeOK /\ ClientInv /\ runs \in [Runs -> Run] /\ runs[c] \in Run
      /\ c \in Calls
  BY ReconciliationConstants DEF ReconciliationInv, ReconciliationTypeOK
<1>2. CASE LoopRuns(c) \/ AnswerRuns(c)
  <2>1. ClientInv'
    BY <1>1, <1>2, LoopAndAnswersInv DEF LoopRuns, AnswerRuns
  <2>2. runs' = [runs EXCEPT ![c] = runs[c]] /\ UNCHANGED <<alertVars, platform>>
    BY <1>1, <1>2 DEF LoopRuns, AnswerRuns
  <2>3. QED
    BY <1>1, <2>1, <2>2, RunGoesOnInv
<1>3. CASE VtexAnswers(c)
  <2>1. ClientInv' /\ UNCHANGED <<alertVars, platform>>
    BY <1>1, <1>3, AnsweredInv DEF VtexAnswers
  <2>2. PICK onPage \in Page(runs[c].date) :
          runs' = [runs EXCEPT ![c].report =
                     [o \in Orders |-> IF o \in onPage
                        THEN [status |-> store[o].status, amount |-> store[o].amount]
                        ELSE NoOrder]]
    BY <1>3 DEF VtexAnswers
  <2> DEFINE answer == [o \in Orders |-> IF o \in onPage
                          THEN [status |-> store[o].status, amount |-> store[o].amount]
                          ELSE NoOrder]
  <2>3. answer \in [Orders -> Snapshot]
    <3>1. ASSUME NEW o \in Orders
          PROVE  [status |-> store[o].status, amount |-> store[o].amount] \in Snapshot
      BY <1>1 DEF ReconciliationTypeOK, Snapshot
    <3>2. NoOrder \in Snapshot
      BY DEF NoOrder, Snapshot
    <3>3. QED
      BY <3>1, <3>2
  <2> DEFINE new == [runs[c] EXCEPT !.report = answer]
  <2>4. runs' = [runs EXCEPT ![c] = new]
    BY <2>2
  <2> HIDE DEF answer
  <2>5. new \in Run /\ new.record = runs[c].record /\ new.stage = runs[c].stage
    BY <1>1, <2>3 DEF Run
  <2> HIDE DEF new
  <2>6. QED
    BY <2>1, <2>4, <2>5, RunGoesOnInv
<1>4. QED
  BY <1>2, <1>3 DEF ReportStep

LEMMA RunDailyReconciliationInv ==
  ASSUME ReconciliationInv, NEW c \in Runs, NEW date \in Days, RunDailyReconciliation(c, date)
  PROVE  ReconciliationInv'
<1>1. /\ ClientInv /\ runs \in [Runs -> Run] /\ runs[c] \in Run /\ c \in Calls
  BY ReconciliationConstants DEF ReconciliationInv, ReconciliationTypeOK
<1>2. ClientInv' /\ UNCHANGED <<alertVars, platform>> /\ runs[c].stage = "idle"
  BY <1>1, StartedCallInv DEF RunDailyReconciliation
<1> DEFINE new == [runs[c] EXCEPT !.stage = "asking", !.date = date]
<1>3. new \in Run /\ new.record = runs[c].record /\ new.stage = "asking"
  BY <1>1 DEF Run
<1>4. runs' = [runs EXCEPT ![c] = new]
  BY <1>1 DEF RunDailyReconciliation
<1> HIDE DEF new
<1>5. QED
  BY <1>2, <1>3, <1>4, RunGoesOnInv

\* The alerts' mail has somebody to go to.
LEMMA FinanceIsReached ==
  ASSUME mailConfig \in MailConfigs
  PROVE  /\ Recipients("finance") \in SUBSET Addresses
         /\ Recipients("finance") # {}
         /\ Recipients("finance") \in {mailConfig.recipients["finance"],
                                       mailConfig.recipients["global"], {DefaultAddress}}
<1>1. mailConfig.recipients \in [Groups -> SUBSET Addresses] /\ DefaultAddress \in Addresses
  BY AlertConstants
<1>2. mailConfig.recipients["finance"] \in SUBSET Addresses
      /\ mailConfig.recipients["global"] \in SUBSET Addresses
  BY <1>1 DEF Groups
<1>3. QED
  BY <1>1, <1>2 DEF Recipients, GlobalRecipients

LEMMA RunStepInv ==
  ASSUME ReconciliationInv, NEW c \in Runs, RunStep(c)
  PROVE  ReconciliationInv'
<1>1. /\ ReconciliationTypeOK /\ ClientInv /\ runs \in [Runs -> Run] /\ runs[c] \in Run
      /\ UNCHANGED clientVars /\ UNCHANGED platform
  BY DEF ReconciliationInv, ReconciliationTypeOK, RunStep, CompareReport, ReportFails, MailAnswered
<1>2. ClientInv'
  BY <1>1, ClientStays
<1>3. CASE CompareReport(c)
  <2> DEFINE record == BuildDiscrepancyReport(runs[c].report)
  <2> DEFINE stage == IF Alarming(record) = {} THEN "ended" ELSE "mailing"
  <2> DEFINE new == [runs[c] EXCEPT !.record = record, !.report = EmptyReport, !.stage = stage]
  <2>1. record \in Record
    BY ReportIsARecord
  <2>2. EmptyReport \in [Orders -> Snapshot]
    BY DEF EmptyReport, NoOrder, Snapshot
  <2>3. runs' = [runs EXCEPT ![c] = new] /\ UNCHANGED <<mailConfig, outbox>>
    BY <1>1, <1>3 DEF CompareReport, alertVars
  <2>4. stage \in {"ended", "mailing"} /\ (stage = "ended" => Alarming(record) = {})
    OBVIOUS
  <2> HIDE DEF record, stage
  <2>5. new \in Run /\ new.record = record /\ new.stage = stage
    BY <1>1, <2>1, <2>2, <2>4 DEF Run
  <2> HIDE DEF new
  <2>6. /\ runs' \in [Runs -> Run] /\ runs'[c] = new
        /\ \A d \in Runs : d # c => runs'[d] = runs[d]
    BY <1>1, <2>3, <2>5, OneRunSteps
  <2>7. \A d \in Runs : IsMailed(d)' <=> IsMailed(d)
    BY <2>3 DEF IsMailed, Recipients, GlobalRecipients
  <2>8. MailsFollowRecords'
    BY <2>4, <2>5, <2>6, <2>7 DEF ReconciliationInv, MailsFollowRecords, Alarming
  <2>9. QED
    BY <1>1, <1>2, <2>3, <2>6, <2>8
       DEF ReconciliationInv, ReconciliationTypeOK, ClientInv, AlertTypeOK, platform
<1>4. CASE ReportFails(c)
  <2> DEFINE new == [[runs[c] EXCEPT !.stage = "ended"] EXCEPT !.report = EmptyReport]
  <2>0. EmptyReport \in [Orders -> Snapshot]
    BY DEF EmptyReport, NoOrder, Snapshot
  <2>1. new \in Run /\ new.record = runs[c].record /\ new.stage = "ended"
    BY <1>1, <2>0 DEF Run
  <2>2. /\ runs' = [runs EXCEPT ![c] = new] /\ UNCHANGED <<alertVars, platform>>
        /\ runs[c].stage = "asking"
    BY <1>1, <1>4 DEF ReportFails
  <2> HIDE DEF new
  <2>3. QED
    BY <1>2, <2>1, <2>2, RunGoesOnInv
<1>5. ASSUME NEW taken \in BOOLEAN, MailAnswered(c, taken)
      PROVE  ReconciliationInv'
  <2> DEFINE new == [runs[c] EXCEPT !.stage = "ended"]
  <2> DEFINE delivered == taken /\ mailConfig.enabled
  <2> DEFINE mail == [raiser |-> c, group |-> "finance", to |-> Recipients("finance"),
                      delivered |-> delivered]
  <2>1. new \in Run /\ new.record = runs[c].record /\ new.stage = "ended"
    BY <1>1 DEF Run
  <2>2. /\ runs' = [runs EXCEPT ![c] = new] /\ mailConfig' = mailConfig
        /\ outbox' = outbox \cup {mail}
    BY <1>1, <1>5 DEF MailAnswered, SendAlert
  <2>3. delivered \in BOOLEAN
    OBVIOUS
  <2> HIDE DEF new, delivered
  <2>4. mail \in [raiser : Runs, group : Groups, to : SUBSET Addresses, delivered : BOOLEAN]
    BY <1>1, <2>3, FinanceIsReached DEF ReconciliationTypeOK, AlertTypeOK, Groups
  <2>5. mail.raiser = c /\ mail.to = Recipients("finance")
    OBVIOUS
  <2> HIDE DEF mail
  <2>6. /\ runs' \in [Runs -> Run] /\ runs'[c] = new
        /\ \A d \in Runs : d # c => runs'[d] = runs[d]
    BY <1>1, <2>1, <2>2, OneRunSteps
  <2>7. \A d \in Runs : IsMailed(d) => IsMailed(d)'
    BY <2>2 DEF IsMailed, Recipients, GlobalRecipients
  <2>8. IsMailed(c)'
    BY <2>2, <2>5 DEF IsMailed, Recipients, GlobalRecipients
  <2>9. MailsFollowRecords'
    BY <2>1, <2>6, <2>7, <2>8 DEF ReconciliationInv, MailsFollowRecords, Alarming
  <2>10. outbox' \subseteq [raiser : Runs, group : Groups, to : SUBSET Addresses,
                            delivered : BOOLEAN]
    BY <1>1, <2>2, <2>4 DEF ReconciliationTypeOK, AlertTypeOK
  <2>11. QED
    BY <1>1, <1>2, <2>2, <2>6, <2>9, <2>10
       DEF ReconciliationInv, ReconciliationTypeOK, ClientInv, AlertTypeOK, platform
<1>6. QED
  BY <1>3, <1>4, <1>5 DEF RunStep

LEMMA ReconciliationStepInv ==
  ASSUME ReconciliationInv, ReconciliationNext
  PROVE  ReconciliationInv'
BY VtexStepInv, RunDailyReconciliationInv, ReportStepInv, RunStepInv DEF ReconciliationNext

LEMMA RequestsStepInv ==
  ASSUME ReconciliationInv, RequestsNext
  PROVE  ReconciliationInv'
<1>1. /\ ReconciliationTypeOK /\ ClientInv
      /\ UNCHANGED <<alertVars, today, store, webhooks, orders, runs>>
  BY DEF ReconciliationInv, RequestsNext
<1>2. ClientInv'
  BY <1>1, StartedCallInv, LoopAndAnswersInv, AnsweredInv, CredentialExpiresInv
     DEF RequestsNext
<1>3. \A c \in Runs : IsMailed(c)' <=> IsMailed(c)
  BY <1>1 DEF IsMailed, Recipients, GlobalRecipients, alertVars
<1>4. MailsFollowRecords'
  BY <1>1, <1>3 DEF ReconciliationInv, MailsFollowRecords, Alarming
<1>5. QED
  BY <1>1, <1>2, <1>4 DEF ReconciliationInv, ReconciliationTypeOK, ClientInv, AlertTypeOK, alertVars

\* The comparison of a complete and current report, order by order.
RecordIsExact(c) ==
  LET report == runs[c].report
      day    == OrdersOf(runs[c].date)
      record == runs'[c].record IN
  /\ runs[c].stage = "asking" /\ runs'[c].stage # "asking" /\ calls[c].phase = "done"
  /\ \A o \in day : report[o] = [status |-> store[o].status, amount |-> store[o].amount]
  => \A o \in day :
       /\ o \in record.missingInPlatform <=> orders[o].status = "none"
       /\ o \notin record.missingInVtex
       /\ o \in record.statusMismatch <=> orders[o].status \notin {"none", store[o].status}
       /\ o \in record.amountMismatch <=>
            /\ orders[o].status # "none"
            /\ \/ 100 * store[o].amount > 101 * orders[o].amount
               \/ 100 * store[o].amount < 99 * orders[o].amount

LEMMA ToleranceIsOnePercent ==
  ASSUME NEW p \in Nat, NEW v \in Nat
  PROVE  ~AmountWithinTolerance(p, v) <=> 100 * v > 101 * p \/ 100 * v < 99 * p
BY DEF AmountWithinTolerance

LEMMA ComparisonIsExact ==
  ASSUME ReconciliationInv, NEW c \in Runs, CompareReport(c)
  PROVE  RecordIsExact(c)
<1> DEFINE report == runs[c].report
<1> DEFINE record == BuildDiscrepancyReport(report)
<1>1. /\ runs \in [Runs -> Run] /\ runs[c] \in Run
      /\ orders \in [Orders -> Snapshot]
      /\ store \in [Orders -> [status : Statuses \cup {"none"}, amount : OrderTotals \cup {0},
                               day : Days]]
  BY DEF ReconciliationInv, ReconciliationTypeOK
<1>2. runs'[c].record = record
  BY <1>1 DEF CompareReport
<1>3. ASSUME NEW o \in OrdersOf(runs[c].date),
             report[o] = [status |-> store[o].status, amount |-> store[o].amount]
      PROVE  /\ o \in record.missingInPlatform <=> orders[o].status = "none"
             /\ o \notin record.missingInVtex
             /\ o \in record.statusMismatch <=> orders[o].status \notin {"none", store[o].status}
             /\ o \in record.amountMismatch <=>
                  /\ orders[o].status # "none"
                  /\ \/ 100 * store[o].amount > 101 * orders[o].amount
                     \/ 100 * store[o].amount < 99 * orders[o].amount
  <2>1. /\ o \in Orders /\ report[o].status = store[o].status /\ report[o].status # "none"
        /\ report[o].amount = store[o].amount
    BY <1>3 DEF OrdersOf, Placed
  <2>2. orders[o].amount \in Nat /\ store[o].amount \in Nat
    <3>1. orders[o] \in Snapshot /\ orders[o].amount \in OrderTotals \cup {0}
      BY <1>1, <2>1 DEF Snapshot
    <3>2. store[o].amount \in OrderTotals \cup {0}
      BY <1>1, <2>1
    <3>3. \A x \in OrderTotals \cup {0} : x \in Nat
      BY ReconciliationConstants
    <3>4. QED
      BY <3>1, <3>2, <3>3
  <2>3. ~AmountWithinTolerance(orders[o].amount, report[o].amount) <=>
           \/ 100 * store[o].amount > 101 * orders[o].amount
           \/ 100 * store[o].amount < 99 * orders[o].amount
    BY <2>1, <2>2, ToleranceIsOnePercent
  <2>4. o \in Known(report) /\ (o \in Known(orders) <=> orders[o].status # "none")
    BY <2>1 DEF Known
  <2> HIDE DEF report
  <2>5. QED
    BY <2>1, <2>3, <2>4 DEF BuildDiscrepancyReport
<1> HIDE DEF record
<1>4. QED
  BY <1>2, <1>3 DEF RecordIsExact

\* Only the comparison ends the asking of a report that has come.
LEMMA RecordsStepExact ==
  ASSUME ReconciliationInv, ReconciliationNext \/ RequestsNext \/ UNCHANGED reconciliationVars,
         NEW c \in Runs, runs[c].stage = "asking", runs'[c].stage # "asking",
         calls[c].phase = "done"
  PROVE  CompareReport(c)
<1>1. runs \in [Runs -> Run] /\ runs[c] \in Run
  BY DEF ReconciliationInv, ReconciliationTypeOK
<1>2. ReconciliationNext /\ ~VtexStep
  BY DEF RequestsNext, VtexStep, DayEnds, OrderChanges, WebhookIsLost, HandleOrderWebhook,
         reconciliationVars
<1>3. ASSUME NEW d \in Runs, NEW date \in Days PROVE ~RunDailyReconciliation(d, date)
  BY <1>1 DEF RunDailyReconciliation
<1>4. ASSUME NEW d \in Runs PROVE ~ReportStep(d)
  <2>1. ASSUME NEW report, runs' = [runs EXCEPT ![d].report = report] PROVE FALSE
    BY <1>1, <2>1
  <2>2. ~LoopRuns(d) /\ ~AnswerRuns(d)
    BY DEF LoopRuns, AnswerRuns
  <2>3. ~VtexAnswers(d)
    BY <2>1 DEF VtexAnswers
  <2>4. QED
    BY <2>2, <2>3 DEF ReportStep
<1>5. ASSUME NEW d \in Runs, RunStep(d) PROVE CompareReport(c)
  <2>1. d = c
    BY <1>1, <1>5 DEF RunStep, CompareReport, ReportFails, MailAnswered
  <2>2. QED
    BY <1>5, <2>1 DEF RunStep, ReportFails, MailAnswered
<1>6. QED
  BY <1>2, <1>3, <1>4, <1>5 DEF ReconciliationNext

----------------------------------------------------------------------------
(* What one part does leaves the others' invariants alone. *)

LEMMA DirectoryStays ==
  ASSUME DirectoryInv, UNCHANGED directoryVars
  PROVE  DirectoryInv'
<1>1. /\ profiles' = profiles /\ vault' = vault /\ given' = given
      /\ campaignRows' = campaignRows /\ minimums' = minimums
      /\ discountCodes' = discountCodes /\ codesByCode' = codesByCode /\ syncing' = syncing
  BY DEF directoryVars, profileVars, campaignVars, codeVars
<1>2. DirectoryTypeOK' /\ CodesLeadToTheirRows' /\ AccountsSurviveUpdates'
  BY <1>1 DEF DirectoryInv, DirectoryTypeOK, CodesLeadToTheirRows, AccountsSurviveUpdates
<1>3. QED
  BY <1>1, <1>2 DEF DirectoryInv

LEMMA AccountsStay ==
  ASSUME AccountsInv, UNCHANGED accountVars
  PROVE  AccountsInv'
<1>1. /\ passwords' = passwords /\ changes' = changes /\ signin' = signin
      /\ twoFactorRequired' = twoFactorRequired
  BY DEF accountVars
<1>2. QED
  BY <1>1 DEF AccountsInv, AccountsTypeOK, OverlapsAreMutual, ChangesAreCurrent, SigninIsCurrent,
              IsOutChange, Changing

LEMMA RegistrationStays ==
  ASSUME RegistrationInv, UNCHANGED registrationVars
  PROVE  RegistrationInv'
<1>1. /\ versions' = versions /\ boots' = boots /\ registered' = registered
      /\ page' = page /\ sent' = sent
  BY DEF registrationVars
<1>2. RegistrationTypes'
  BY <1>1 DEF RegistrationInv, RegistrationTypes, RegistrationTypeOK
<1>3. TermsInv'
  BY <1>1 DEF RegistrationInv, TermsInv, ActiveVersions, TermsAreKnown
<1>4. QED
  BY <1>2, <1>3 DEF RegistrationInv

LEMMA ReconciliationStays ==
  ASSUME ReconciliationInv, UNCHANGED reconciliationVars
  PROVE  ReconciliationInv'
<1>1. UNCHANGED clientVars /\ UNCHANGED <<mailConfig, outbox, today, store, webhooks, orders, runs>>
  BY DEF reconciliationVars, alertVars, platform
<1>2. ClientInv'
  BY <1>1, ClientStays DEF ReconciliationInv
<1>3. \A c \in Runs : IsMailed(c)' <=> IsMailed(c)
  BY <1>1 DEF IsMailed, Recipients, GlobalRecipients
<1>4. MailsFollowRecords'
  BY <1>1, <1>3 DEF ReconciliationInv, MailsFollowRecords, Alarming
<1>5. QED
  BY <1>1, <1>2, <1>4 DEF ReconciliationInv, ReconciliationTypeOK, ClientInv, AlertTypeOK

----------------------------------------------------------------------------
(* The payload of an order. *)

\* What is computed from the event of a payload that is admitted, and says nothing of
\* an eligible amount itself, is what is due for the order.
LEMMA PaidLinesAddUp ==
  ASSUME PayloadNext
  PROVE  EligibleAmountsAreNet'
<1>1. PICK order \in OrderForms, form \in PayloadForms :
             /\ Admitted(PayloadOf(order, form))
             /\ orderRow' = RegisteredOrder(orderRow, EventOf(PayloadOf(order, form)))
             /\ told' = <<order, form>>
             /\ UNCHANGED <<campaign, includeShipping>>
  BY DEF PayloadNext
<1> DEFINE payload == PayloadOf(order, form)
           event == EventOf(payload)
           Lines == DOMAIN order.lines
           InScope(n) ==
             campaign.scope # {} =>
               (IF campaign.scopeType = "sku" THEN order.lines[n].sku
                ELSE order.lines[n].category) \in campaign.scope
           net == [n \in Lines |->
                     IF InScope(n) THEN order.lines[n].quantity * order.lines[n].price
                                          - Or(order.lines[n].discount, 0)
                     ELSE 0]
           charges == (IF campaign.basis = "post_tax" THEN order.tax ELSE 0)
                        + (IF includeShipping THEN order.shipping ELSE 0)
           due == charges + SumFunction(net)
<1> SUFFICES ASSUME form.charges # "none", form.eligible = Absent
             PROVE  orderRow'.eligible = (IF due > 0 THEN due ELSE 0)
  <2>1. told'[1] = order /\ told'[2] = form
    BY <1>1
  <2>2. QED
    BY <1>1, <2>1 DEF EligibleAmountsAreNet
<1>2. /\ {order.tax, order.shipping} \subseteq Int \ {Absent}
      /\ IsFiniteSet(Lines)
      /\ \A n \in Lines : {order.lines[n].quantity, order.lines[n].price,
                           order.lines[n].discount} \subseteq Int
      /\ form.charges \in {"fields", "totals", "none"}
  BY PayloadConstants
<1>3. form.charges = "fields"
  <2>1. CASE form.charges = "totals"
    <3>1. payload.totals = <<[id |-> "Items", value |-> 0],
                             [id |-> "Shipping", value |-> order.shipping],
                             [id |-> "Tax", value |-> order.tax]>>
      BY <2>1 DEF PayloadOf
    <3>2. payload.totals = <<>>
      BY <1>1 DEF Admitted
    <3>3. Len(payload.totals) = 3
      <4> HIDE DEF payload
      <4>1. QED
        BY <3>1
    <3>4. Len(payload.totals) = 0
      <4> HIDE DEF payload
      <4>1. QED
        BY <3>2
    <3>5. QED
      BY <3>3, <3>4
  <2>2. QED
    BY <1>2, <2>1
<1>4. event.tax = order.tax /\ event.shipping = order.shipping /\ event.eligible = Absent
  <2>1. payload.tax = order.tax /\ payload.shipping = order.shipping /\ payload.eligible = Absent
    BY <1>3 DEF PayloadOf
  <2>2. event.tax = payload.tax /\ event.shipping = payload.shipping
    BY <1>2, <2>1 DEF EventOf, Or
  <2>3. event.eligible = payload.eligible
    BY DEF EventOf
  <2>4. QED
    BY <2>1, <2>2, <2>3
<1>5. /\ DOMAIN event.items = Lines
      /\ \A n \in Lines : /\ IsItemEligible(campaign, event.items[n]) <=> InScope(n)
                          /\ LineAmount(event.items[n])
                               = order.lines[n].quantity * order.lines[n].price
                                   - Or(order.lines[n].discount, 0)
  <2>1. /\ DOMAIN payload.items = Lines
        /\ \A n \in Lines : /\ payload.items[n].sku = order.lines[n].sku
                            /\ payload.items[n].category = order.lines[n].category
                            /\ payload.items[n].quantity = order.lines[n].quantity
                            /\ payload.items[n].price = order.lines[n].price
                            /\ payload.items[n].discount =
                                 (IF form.discounts = "item" THEN order.lines[n].discount
                                  ELSE Absent)
                            /\ payload.items[n].definitionDiscount =
                                 (IF form.discounts = "item" THEN Absent
                                  ELSE order.lines[n].discount)
    BY DEF PayloadOf
  <2>2. \A n \in Lines : payload.items[n].definitionDiscount = Absent
    BY <1>1, <2>1 DEF Admitted
  <2>3. \A n \in Lines : payload.items[n].discount = order.lines[n].discount
    BY <2>1, <2>2
  <2>4. /\ DOMAIN event.items = DOMAIN payload.items
        /\ \A n \in DOMAIN payload.items :
             event.items[n] = MergedItem(payload.items[n], NormalizedItem(payload.items[n]))
    BY DEF EventOf
  <2> HIDE DEF payload, event
  <2>5. ASSUME NEW n \in Lines
        PROVE  /\ event.items[n].sku = order.lines[n].sku
               /\ event.items[n].category = order.lines[n].category
               /\ event.items[n].quantity = order.lines[n].quantity
               /\ event.items[n].price = order.lines[n].price
               /\ event.items[n].discount = Or(order.lines[n].discount, 0)
    <3>1. event.items[n] = MergedItem(payload.items[n], NormalizedItem(payload.items[n]))
      BY <2>1, <2>4
    <3>2. /\ event.items[n].sku = payload.items[n].sku
          /\ event.items[n].category = payload.items[n].category
          /\ event.items[n].quantity = payload.items[n].quantity
          /\ event.items[n].price = payload.items[n].price
          /\ event.items[n].discount =
               Or(payload.items[n].discount,
                  ResolveNumber(Or(payload.items[n].discount,
                                   payload.items[n].definitionDiscount)))
      BY <3>1 DEF MergedItem, NormalizedItem
    <3>3. QED
      BY <2>1, <2>2, <2>3, <3>2 DEF Or, ResolveNumber
  <2>6. \A n \in Lines : IsItemEligible(campaign, event.items[n]) <=> InScope(n)
    BY <2>5 DEF IsItemEligible
  <2>7. ASSUME NEW n \in Lines
        PROVE  LineAmount(event.items[n]) = order.lines[n].quantity * order.lines[n].price
                                              - Or(order.lines[n].discount, 0)
    <3>1. order.lines[n].quantity \in Int /\ order.lines[n].price \in Int
      BY <1>2
    <3>2. order.lines[n].price * order.lines[n].quantity
            = order.lines[n].quantity * order.lines[n].price
      BY <3>1
    <3>3. QED
      BY <2>5, <3>2 DEF LineAmount
  <2>8. QED
    BY <2>1, <2>4, <2>6, <2>7
<1> DEFINE amount == [n \in Lines |-> LineAmount(event.items[n])]
           chosen == {n \in Lines : InScope(n)}
<1> HIDE DEF payload, event
<1>6. \A n \in Lines : amount[n] \in Int
  <2>1. ASSUME NEW n \in Lines PROVE LineAmount(event.items[n]) \in Int
    <3>1. /\ order.lines[n].quantity \in Int /\ order.lines[n].price \in Int
          /\ Or(order.lines[n].discount, 0) \in Int
      BY <1>2 DEF Or
    <3>2. order.lines[n].quantity * order.lines[n].price \in Int
      BY <3>1
    <3>3. QED
      BY <1>5, <3>1, <3>2
  <2>2. QED
    BY <2>1
<1>7. net = [n \in Lines |-> IF n \in chosen THEN amount[n] ELSE 0]
  <2>1. \A n \in Lines : net[n] = IF n \in chosen THEN amount[n] ELSE 0
    BY <1>5
  <2>2. QED
    BY <2>1
<1>8. SumFunction(net) = Subtotal(event.items, EligibleLines(campaign, event.items))
  <2>1. EligibleLines(campaign, event.items) = chosen
    BY <1>5 DEF EligibleLines
  <2>2. Subtotal(event.items, chosen) = SumFunctionOnSet(amount, chosen)
    BY <1>5 DEF Subtotal
  <2>3. SumFunction(net) = SumFunctionOnSet(net, Lines)
    BY DEF SumFunction
  <2> HIDE DEF amount, net, chosen
  <2>4. chosen \subseteq Lines
    BY DEF chosen
  <2>5. SumFunctionOnSet([n \in Lines |-> IF n \in chosen THEN amount[n] ELSE 0], Lines)
          = SumFunctionOnSet(amount, chosen)
    BY <1>2, <1>6, <2>4, SumOfSome
  <2>6. QED
    BY <1>7, <2>1, <2>2, <2>3, <2>5
<1>9. SumFunction(net) \in Int
  <2>1. \A n \in Lines : net[n] \in Int
    <3> HIDE DEF amount, net, chosen
    <3>1. QED
      BY <1>6, <1>7
  <2>2. SumFunction(net) = SumFunctionOnSet(net, Lines)
    BY DEF SumFunction
  <2> HIDE DEF net
  <2>3. QED
    BY <1>2, <2>1, <2>2, SumType
<1>10. orderRow'.eligible = EligibleAmount(campaign, event.items, order.tax, order.shipping,
                                           includeShipping)
  BY <1>1, <1>4 DEF RegisteredOrder, Or, event, payload
<1> DEFINE sum == SumFunction(net)
<1>11. EligibleAmount(campaign, event.items, order.tax, order.shipping, includeShipping)
         = MaxOf(sum + (IF campaign.basis = "post_tax" THEN order.tax ELSE 0)
                     + (IF includeShipping THEN order.shipping ELSE 0), 0)
  BY <1>2, <1>8 DEF EligibleAmount, Or
<1>12. sum \in Int /\ order.tax \in Int /\ order.shipping \in Int
  BY <1>2, <1>9
<1>13. due = charges + sum
  OBVIOUS
<1> HIDE DEF sum, due
<1>14. QED
  BY <1>10, <1>11, <1>12, <1>13 DEF MaxOf

----------------------------------------------------------------------------
(* The parts together. *)

Inv ==
  /\ acting \in Parts
  /\ ReconciliationInv
  /\ RegistrationInv
  /\ EligibleAmountsAreNet
  /\ DirectoryInv
  /\ AccountsInv

LEMMA InitInv == Init => Inv
<1> SUFFICES ASSUME Init PROVE Inv
  OBVIOUS
<1>1. EligibleAmountsAreNet
  BY DEF Init, PayloadInit, EligibleAmountsAreNet
<1>2. QED
  BY <1>1, ReconciliationInitInv, RegistrationInitInv, DirectoryInitInv, AccountsInitInv
  DEF Init, Inv

LEMMA StepInv == Inv /\ [Next]_vars => Inv'
<1> SUFFICES ASSUME Inv, [Next]_vars PROVE Inv'
  OBVIOUS
<1>1. /\ acting \in Parts /\ ReconciliationInv /\ RegistrationInv /\ DirectoryInv /\ AccountsInv
  BY DEF Inv
<1>2. acting' = acting
  BY DEF Next, RequestsStep, ReconciliationStep, PayloadStep, RegistrationStep, DirectoryStep,
         AccountsStep, Acts, vars
<1>3. ReconciliationInv'
  <2>1. ReconciliationNext \/ RequestsNext \/ UNCHANGED reconciliationVars
    BY DEF Next, RequestsStep, ReconciliationStep, PayloadStep, RegistrationStep, DirectoryStep,
           AccountsStep, vars
  <2>2. QED
    BY <1>1, <2>1, ReconciliationStepInv, RequestsStepInv, ReconciliationStays
<1>4. RegistrationInv'
  <2>1. RegistrationNext \/ UNCHANGED registrationVars
    BY DEF Next, RequestsStep, ReconciliationStep, PayloadStep, RegistrationStep, DirectoryStep,
           AccountsStep, vars
  <2>2. QED
    BY <1>1, <2>1, RegistrationStepInv, RegistrationStays
<1>5. DirectoryInv'
  <2>1. ProfileStep \/ CatalogueStep \/ UNCHANGED directoryVars
    BY DEF Next, RequestsStep, ReconciliationStep, PayloadStep, RegistrationStep, DirectoryStep,
           AccountsStep, vars
  <2>2. QED
    BY <1>1, <2>1, ProfileStepInv, CatalogueStepInv, DirectoryStays
<1>6. AccountsInv'
  <2>1. AccountsNext \/ UNCHANGED accountVars
    BY DEF Next, RequestsStep, ReconciliationStep, PayloadStep, RegistrationStep, DirectoryStep,
           AccountsStep, vars
  <2>2. QED
    BY <1>1, <2>1, AccountsStepInv, AccountsStay
<1>7. EligibleAmountsAreNet'
  <2>1. PayloadNext \/ UNCHANGED payloadVars
    BY DEF Next, RequestsStep, ReconciliationStep, PayloadStep, RegistrationStep, DirectoryStep,
           AccountsStep, vars
  <2>2. CASE UNCHANGED payloadVars
    BY <2>2 DEF Inv, EligibleAmountsAreNet, payloadVars
  <2>3. QED
    BY <2>1, <2>2, PaidLinesAddUp
<1>8. QED
  BY <1>1, <1>2, <1>3, <1>4, <1>5, <1>6, <1>7 DEF Inv

\* Each part keeps its invariant, whichever of them acts.
THEOREM Invariance == Spec => []Inv
<1>1. QED
  BY InitInv, StepInv, PTL DEF Spec

\* What the parts keep has its type: among it that the credential index stays within the
\* pool (rotateCredential) and attempts within MaxRetries.
THEOREM TypeCorrectness == Spec => []TypeOK
<1>1. Inv => TypeOK
  BY DEF Inv, TypeOK, ReconciliationInv, RegistrationInv, RegistrationTypes, DirectoryInv, AccountsInv
<1>2. QED
  BY <1>1, Invariance, PTL

\* However many credentials there are, whichever are accepted and however many calls
\* run side by side, a call that nothing disturbed fails only when no credential is
\* any good (request, pickCredential, rotateCredential).
THEOREM RotationFindsTheGoodOne == Spec => []UndisturbedCallsSucceed
<1>1. Inv => UndisturbedCallsSucceed
  <2> SUFFICES ASSUME Inv PROVE UndisturbedCallsSucceed
    OBVIOUS
  <2>1. FailuresAreFinal
    BY DEF Inv, ReconciliationInv, ClientInv
  <2>2. ClientTypeOK
    BY DEF Inv, ReconciliationInv, ClientInv
  <2>3. QED
    BY <2>1 DEF FailuresAreFinal, Good, UndisturbedCallsSucceed
<1>2. QED
  BY <1>1, Invariance, PTL

\* Every run that ended with alarms has its mail in the outbox, addressed to somebody
\* (notifyReconciliationAlert, sendAlert, getRecipients).
THEOREM AlertDelivery == Spec => []AlertsReachTheOutbox
<1>1. Inv => AlertsReachTheOutbox
  <2> SUFFICES ASSUME Inv, NEW c \in Runs, runs[c].stage = "ended", Alarming(runs[c].record) # {}
               PROVE  \E mail \in outbox :
                        /\ mail.raiser = c
                        /\ mail.to # {}
                        /\ mail.to \in {mailConfig.recipients["finance"],
                                        mailConfig.recipients["global"], {DefaultAddress}}
    BY DEF AlertsReachTheOutbox
  <2>1. MailsFollowRecords /\ mailConfig \in MailConfigs
    BY DEF Inv, ReconciliationInv, ReconciliationTypeOK, AlertTypeOK
  <2>2. PICK mail \in outbox : mail.raiser = c /\ mail.to = Recipients("finance")
    BY <2>1 DEF MailsFollowRecords, IsMailed
  <2>3. QED
    BY <2>1, <2>2, FinanceIsReached
<1>2. QED
  BY <1>1, Invariance, PTL

\* A comparison of a complete and current report records exactly the differences of
\* more than one per cent, of status and of presence (buildDiscrepancyReport,
\* amountWithinTolerance).
THEOREM RecordsExactness == Spec => RecordsAreExact
<1>1. Inv /\ [Next]_vars => [\A c \in Runs : RecordIsExact(c)]_reconciliationVars
  <2> SUFFICES ASSUME Inv, [Next]_vars, NEW c \in Runs PROVE RecordIsExact(c)
    OBVIOUS
  <2>1. /\ ReconciliationInv
        /\ ReconciliationNext \/ RequestsNext \/ UNCHANGED reconciliationVars
    BY DEF Inv, Next, RequestsStep, ReconciliationStep, PayloadStep, RegistrationStep,
           DirectoryStep, AccountsStep, vars
  <2>2. CASE runs[c].stage = "asking" /\ runs'[c].stage # "asking" /\ calls[c].phase = "done"
    <3>1. CompareReport(c)
      BY <2>1, <2>2, RecordsStepExact
    <3>2. QED
      BY <2>1, <3>1, ComparisonIsExact
  <2>3. CASE ~(runs[c].stage = "asking" /\ runs'[c].stage # "asking" /\ calls[c].phase = "done")
    BY <2>3 DEF RecordIsExact
  <2>4. QED
    BY <2>2, <2>3
<1>2. Spec => [][\A c \in Runs : RecordIsExact(c)]_reconciliationVars
  BY <1>1, Invariance, PTL DEF Spec
<1>3. QED
  BY <1>2 DEF RecordsAreExact, RecordIsExact

\* One version of the terms is active, and a consent that was given since the API
\* started can be certified (publishPolicyVersion, generateConsentCertificate).
THEOREM ConsentCertificates == Spec => []ConsentsCanBeCertified
<1>1. Inv => ConsentsCanBeCertified
  <2> SUFFICES ASSUME Inv PROVE ConsentsCanBeCertified
    OBVIOUS
  <2>1. PICK v : ActiveVersions = {v}
    BY DEF Inv, RegistrationInv, TermsInv
  <2>2. Cardinality(ActiveVersions) = 1
    BY <2>1, FS_Singleton
  <2>3. \A row \in registered : row.form.fetched = boots => CanBeCertified(row, row.form.terms)
    BY DEF Inv, RegistrationInv, TermsInv, TermsAreKnown, CanBeCertified, IsKnownVersion
  <2>4. QED
    BY <2>2, <2>3 DEF ConsentsCanBeCertified
<1>2. QED
  BY <1>1, Invariance, PTL

\* For every scope, basis and configuration, whatever lines, prices and discounts an
\* order has: what is computed from its last complete payload is what the customer pays
\* for the lines in scope, with tax and shipping as the campaign and the configuration
\* say (normalizeItems, handleOrderWebhook, calculateEligibleAmount).
THEOREM NetAmounts == Spec => []EligibleAmountsAreNet
<1>1. Inv => EligibleAmountsAreNet
  BY DEF Inv
<1>2. QED
  BY <1>1, Invariance, PTL

\* Every code's text leads to a code that has this text, as the table has it now and
\* never as it was before a sync (createDiscountCode, updateDiscountCode, composeCode).
THEOREM CodeIndex == Spec => []CodesLeadToTheirRows
<1>1. Inv => CodesLeadToTheirRows
  BY DEF Inv, DirectoryInv
<1>2. QED
  BY <1>1, Invariance, PTL

\* The vault holds the account an influencer gave last, and the row shows that one or
\* none, whatever updates leave out (persistBankAccount, updateInfluencerDetails).
THEOREM AccountSurvival == Spec => []AccountsSurviveUpdates
<1>1. Inv => AccountsSurviveUpdates
  BY DEF Inv, DirectoryInv
<1>2. QED
  BY <1>1, Invariance, PTL

\* A password is replaced only by a call that proved the very password it replaces,
\* unless two changes of it overlapped, and a sign-in beside which no change ran is
\* judged by the password as it is and the second factor (updatePassword, login).
THEOREM PasswordProof == Spec => PasswordsAreProven
<1>1. Inv /\ [Next]_vars => [ProvenStep]_accountVars
  <2>1. [Next]_vars => AccountsNext \/ UNCHANGED accountVars
    BY DEF Next, RequestsStep, ReconciliationStep, PayloadStep, RegistrationStep, DirectoryStep,
           AccountsStep, vars
  <2>2. QED
    BY <2>1, AccountsStepInv DEF Inv
<1>2. Spec => [][ProvenStep]_accountVars
  BY <1>1, Invariance, PTL DEF Spec
<1>3. QED
  BY <1>2 DEF PasswordsAreProven, ProvenStep

=============================================================================
