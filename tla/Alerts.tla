------------------------------- MODULE Alerts -------------------------------
(***************************************************************************)
(* Alert mails: AlertingService over EmailService.  An alert is awaited by *)
(* whoever raises it, and its record goes to the outbox when the transport *)
(* has answered, with or without success.                                  *)
(***************************************************************************)
EXTENDS Integers, FiniteSets

CONSTANTS
  Addresses,
  DefaultAddress,   \* who gets the alerts when nobody is configured
  MailConfigs       \* configurations of the service

Groups == {"global", "finance", "operations"}

ASSUME AlertConstants ==
  /\ DefaultAddress \in Addresses
  /\ MailConfigs \subseteq
       [enabled : BOOLEAN, recipients : [Groups -> SUBSET Addresses]]

VARIABLES
  mailConfig,       \* as the service was started with
  outbox

alertVars == <<mailConfig, outbox>>

AlertTypeOK(Raisers) ==
  /\ mailConfig \in MailConfigs
  /\ outbox \subseteq [raiser : Raisers, group : Groups, to : SUBSET Addresses,
                       delivered : BOOLEAN]

AlertInit == mailConfig \in MailConfigs /\ outbox = {}

\* parseRecipients and the constructor's defaults.
GlobalRecipients ==
  IF mailConfig.recipients["global"] = {} THEN {DefaultAddress}
  ELSE mailConfig.recipients["global"]

\* getRecipients: those of the group, or else those of everything.
Recipients(group) ==
  IF group = "global" \/ mailConfig.recipients[group] = {}
  THEN GlobalRecipients ELSE mailConfig.recipients[group]

\* Mutant of SendAlert: a mail the transport does not take leaves no record.
SendAlert_NoRecord(raiser, group, taken) ==
  /\ outbox' = outbox \cup
       (IF taken /\ mailConfig.enabled
        THEN {[raiser |-> raiser, group |-> group, to |-> Recipients(group), delivered |-> TRUE]}
        ELSE {})
  /\ UNCHANGED mailConfig

\* sendAlert: the record is pushed whatever became of the mail.
SendAlert(raiser, group, taken) ==
  /\ outbox' = outbox \cup
       {[raiser |-> raiser, group |-> group, to |-> Recipients(group),
         delivered |-> taken /\ mailConfig.enabled]}
  /\ UNCHANGED mailConfig

=============================================================================
