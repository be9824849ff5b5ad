----------------------------- MODULE VtexClient -----------------------------
(***************************************************************************)
(* The request loop of VtexClient and its pool of credentials.             *)
(*                                                                         *)
(* All calls share one credential index.  A call awaits the headers of an  *)
(* answer, then its body, and then, most of the time, a delay: other calls *)
(* pick and rotate meanwhile, so that a refused call may rotate away from  *)
(* a credential it never used.  Only the wait for the headers is limited.  *)
(* The store's side of a call is left to the module that uses this one.    *)
(***************************************************************************)
EXTENDS Integers, FiniteSets

CONSTANTS
  Calls,            \* calls of request
  PoolSize,         \* credentials given in the configuration
  Accepted,         \* those that VTEX accepts
  MaxRetries        \* VTEX_MAX_RETRIES

Pool == 0..(PoolSize - 1)

ASSUME ClientConstants ==
  /\ PoolSize \in Nat \ {0}    \* without credentials it works offline
  /\ Accepted \subseteq Pool
  /\ MaxRetries \in Nat

VARIABLES
  credentialIndex,
  expired,          \* credentials whose expiresAt has passed
  calls

clientVars == <<credentialIndex, expired, calls>>

\* A call that is sent waits for the headers of an answer; then it reads the body of
\* what was asked for, or, failing, that of an error.  disturbed is history: another
\* call moved the index, a credential expired or an attempt failed for another reason
\* than its credential.
Call == [phase : {"idle", "ready", "sent", "reading", "failing", "done", "failed"},
         attempt : 0..MaxRetries, credential : Pool, disturbed : BOOLEAN]

ClientTypeOK ==
  /\ credentialIndex \in Pool
  /\ expired \subseteq Pool
  /\ calls \in [Calls -> Call]

NoCall == [phase |-> "idle", attempt |-> 0, credential |-> 0, disturbed |-> FALSE]

ClientInit ==
  /\ credentialIndex = 0
  /\ expired = {}
  /\ calls = [c \in Calls |-> NoCall]

\* The headers of an answer have come, its body has not.
IsReading(c) == calls[c].phase \in {"reading", "failing"}

IsOut(c) == calls[c].phase \in {"ready", "sent"} \/ IsReading(c)

\* Whatever happens to one call disturbs the others that are out.
Disturbing(others) ==
  [c \in Calls |-> IF c \in others /\ IsOut(c)
                   THEN [calls[c] EXCEPT !.disturbed = TRUE] ELSE calls[c]]

\* A call starts.  It is disturbed from the start if others are out.
StartedCall(c) ==
  [Disturbing(Calls \ {c}) EXCEPT ![c] =
     [NoCall EXCEPT !.phase = "ready", !.disturbed = \E other \in Calls : IsOut(other)]]

\* Position k of the search that pickCredential makes from the index on.
Position(k) == (credentialIndex + k) % PoolSize

\* Mutant of Picked: the first credential that is not expired, wherever the index.
Picked_First == CHOOSE p \in Pool \ expired : \A q \in Pool \ expired : p <= q

\* pickCredential: the first credential from the index on that has not expired.
Picked ==
  LET k == CHOOSE n \in Pool : /\ Position(n) \notin expired
                               /\ \A m \in 0..(n - 1) : Position(m) \in expired
  IN Position(k)

\* The next attempt is sent, with the credential the index has come to; when all
\* have expired the call fails at once, outside the loop's try.
Attempt(c) ==
  /\ calls[c].phase = "ready"
  /\ IF Pool \subseteq expired
     THEN /\ calls' = [calls EXCEPT ![c].phase = "failed"]
          /\ UNCHANGED credentialIndex
     ELSE /\ credentialIndex' = Picked
          /\ calls' = [calls EXCEPT ![c].phase = "sent", ![c].credential = Picked]
  /\ UNCHANGED expired

\* Mutant of Failed: attempts are not counted.
Failed_Uncounted(call) == [call EXCEPT !.phase = "ready"]

\* Mutant of Failed: one attempt too many.
Failed_OnceMore(call) ==
  IF call.attempt <= MaxRetries
  THEN [call EXCEPT !.phase = "ready", !.attempt = @ + 1]
  ELSE [call EXCEPT !.phase = "failed"]

\* The call as it is after an attempt that failed.
Failed(call) ==
  IF call.attempt < MaxRetries
  THEN [call EXCEPT !.phase = "ready", !.attempt = @ + 1]
  ELSE [call EXCEPT !.phase = "failed"]

RotateCredential ==
  IF PoolSize <= 1 THEN credentialIndex ELSE (credentialIndex + 1) % PoolSize

\* 401 or 403: the index moves on, from wherever it is by now, and then the body of
\* the error is read.
Unauthorised(c) ==
  /\ calls[c].phase = "sent"
  /\ calls[c].credential \notin Accepted
  /\ credentialIndex' = RotateCredential
  /\ calls' = [Disturbing(Calls \ {c}) EXCEPT ![c].phase = "failing"]
  /\ UNCHANGED expired

\* The headers of any other error.
AnsweredWithError(c) ==
  /\ calls[c].phase = "sent"
  /\ calls' = [calls EXCEPT ![c].phase = "failing", ![c].disturbed = TRUE]
  /\ UNCHANGED <<credentialIndex, expired>>

\* The headers of what was asked for.
Answered(c) ==
  /\ calls[c].phase = "sent"
  /\ calls[c].credential \in Accepted
  /\ calls' = [calls EXCEPT ![c].phase = "reading"]
  /\ UNCHANGED <<credentialIndex, expired>>

\* An attempt fails for another reason than its credential, and is made again.
AttemptFails(c) ==
  /\ calls' = [calls EXCEPT ![c] = [Failed(calls[c]) EXCEPT !.disturbed = TRUE]]
  /\ UNCHANGED <<credentialIndex, expired>>

\* resolveWithTimeout: no headers came in time, or the connection failed.
TimesOut(c) == calls[c].phase = "sent" /\ AttemptFails(c)

\* buildHttpError: the body of an error was read, or could not be.
ErrorIsRead(c) ==
  /\ calls[c].phase = "failing"
  /\ calls' = [calls EXCEPT ![c] = Failed(calls[c])]
  /\ UNCHANGED <<credentialIndex, expired>>

\* parseResponse: the body was read ...
BodyIsRead(c) ==
  /\ calls[c].phase = "reading"
  /\ calls' = [calls EXCEPT ![c].phase = "done"]
  /\ UNCHANGED <<credentialIndex, expired>>

\* ... or broke off, or is not what it should be.
BodyBreaks(c) == calls[c].phase = "reading" /\ AttemptFails(c)

\* VTEX is heard of, in one way or another.
AnswerStep(c) ==
  \/ Unauthorised(c)
  \/ AnsweredWithError(c)
  \/ ErrorIsRead(c)
  \/ BodyIsRead(c)
  \/ BodyBreaks(c)

\* What the client does by itself.
LoopStep(c) == Attempt(c) \/ TimesOut(c)

CredentialExpires(p) ==
  /\ p \notin expired
  /\ expired' = expired \cup {p}
  /\ calls' = Disturbing(Calls)
  /\ UNCHANGED credentialIndex

----------------------------------------------------------------------------

\* A call that nothing disturbed ends with an answer if the pool holds a credential
\* that is accepted and has not expired and there are as many attempts as
\* credentials: rotating and picking come past every one.  Two calls refused at
\* the same time rotate twice, and a refusal of the last attempt is not followed
\* by another.
UndisturbedCallsSucceed ==
  (PoolSize <= MaxRetries + 1 /\ Accepted \ expired # {}) =>
     \A c \in Calls : calls[c].phase = "failed" => calls[c].disturbed

=============================================================================
