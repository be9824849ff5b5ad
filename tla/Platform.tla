------------------------------- MODULE Platform -------------------------------
(***************************************************************************)
(* The parts of the platform around its ledger and its coupons, in one     *)
(* specification: the client's requests and the reconciliation that makes  *)
(* them, the payload of an order, the registration of influencers, the     *)
(* master data and the accounts.                                           *)
(*                                                                         *)
(* The parts write no variable of each other, so that the interleavings of *)
(* two of them show nothing that one alone does not; in a behaviour, one   *)
(* part acts and the others stay as they start.                            *)
(***************************************************************************)
EXTENDS Reconciliation, OrderPayload, Registration, Directory, Accounts

CONSTANT Parts    \* parts that may act

AllParts == {"requests", "reconciliation", "orders", "registration", "profiles", "catalogue",
             "accounts"}

ASSUME PlatformConstants == Parts \subseteq AllParts

VARIABLE acting

vars == <<acting, reconciliationVars, payloadVars, registrationVars, directoryVars, accountVars>>

TypeOK ==
  /\ acting \in Parts
  /\ ReconciliationTypeOK
  /\ RegistrationTypeOK
  /\ DirectoryTypeOK
  /\ AccountsTypeOK

\* Of a part that does not act, one initial state will do.
Init ==
  /\ acting \in Parts
  /\ ReconciliationInit /\ PayloadInit /\ RegistrationInit /\ DirectoryInit /\ AccountsInit
  /\ acting # "reconciliation" => mailConfig = CHOOSE config \in MailConfigs : TRUE
  /\ acting # "orders" => campaign = (CHOOSE form \in CampaignForms : TRUE) /\ ~includeShipping
  /\ signin.user = CHOOSE u \in Users : TRUE

----------------------------------------------------------------------------
(* Requests of handlers whose results are not modelled, two at a time. *)

\* request, of anybody but a reconciliation.
RequestsNext ==
  /\ \/ \E c \in Calls \ Runs :
          \/ calls[c].phase = "idle" /\ calls' = StartedCall(c)
             /\ UNCHANGED <<credentialIndex, expired>>
          \/ LoopStep(c)
          \/ AnswerStep(c)
          \/ Answered(c)
     \/ \E p \in Pool : CredentialExpires(p)
  /\ UNCHANGED <<alertVars, today, store, webhooks, orders, runs>>

Acts(part) == acting = part /\ UNCHANGED acting

RequestsStep ==
  /\ Acts("requests")
  /\ RequestsNext
  /\ UNCHANGED <<payloadVars, registrationVars, directoryVars, accountVars>>

ReconciliationStep ==
  /\ Acts("reconciliation")
  /\ ReconciliationNext
  /\ UNCHANGED <<payloadVars, registrationVars, directoryVars, accountVars>>

PayloadStep ==
  /\ Acts("orders")
  /\ PayloadNext
  /\ UNCHANGED <<reconciliationVars, registrationVars, directoryVars, accountVars>>

RegistrationStep ==
  /\ Acts("registration")
  /\ RegistrationNext
  /\ UNCHANGED <<reconciliationVars, payloadVars, directoryVars, accountVars>>

DirectoryStep ==
  /\ \/ Acts("profiles") /\ ProfileStep
     \/ Acts("catalogue") /\ CatalogueStep
  /\ UNCHANGED <<reconciliationVars, payloadVars, registrationVars, accountVars>>

AccountsStep ==
  /\ Acts("accounts")
  /\ AccountsNext
  /\ UNCHANGED <<reconciliationVars, payloadVars, registrationVars, directoryVars>>

Next ==
  \/ RequestsStep
  \/ ReconciliationStep
  \/ PayloadStep
  \/ RegistrationStep
  \/ DirectoryStep
  \/ AccountsStep

Spec == Init /\ [][Next]_vars /\ ReconciliationFairness

=============================================================================
