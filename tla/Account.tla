------------------------------ MODULE Account ------------------------------
(***************************************************************************)
(* What the ledger promises about the money of an influencer, without      *)
(* saying how: no balances, no reservations, no separate payments.         *)
(*                                                                         *)
(* An owner has earned an amount, which may rise and fall at any time, and *)
(* makes claims on it.  A claim asks for no more than is earned and not    *)
(* yet asked for or settled.  It is granted or refused once, keeps its     *)
(* owner and its amount for good, and is settled at most once, for what it *)
(* asked for, to a tolerance.  Refused and settled claims never change.    *)
(***************************************************************************)
EXTENDS Amounts

CONSTANTS
  Owners,         \* who may earn
  Nobody,         \* the owner of a claim that has not been made
  ClaimCount,     \* how many claims there may be
  AskedAmounts,   \* amounts a claim may ask for
  SettledAmounts, \* amounts a claim may be settled for
  Tolerance       \* by how much the two may differ

VARIABLES
  earned,         \* what each owner has earned
  claims          \* the claims

vars == <<earned, claims>>

Claims == 1..ClaimCount

Unmade == [status |-> "unmade", owner |-> Nobody, asked |-> 0, settled |-> 0]

Init ==
  /\ earned = [i \in Owners |-> 0]
  /\ claims = [k \in Claims |-> Unmade]

\* What the claims of an owner in some statuses come to, by a measure of a claim.
ClaimTotal(i, statuses, Measure(_)) ==
  Total([k \in Claims |->
           IF claims[k].owner = i /\ claims[k].status \in statuses
           THEN Measure(claims[k]) ELSE 0], ClaimCount)

\* What an owner may still ask for.  A settlement may leave the books a tolerance
\* away from what was asked, in the owner's favour too.
Claimable(i) ==
  earned[i]
    - ClaimTotal(i, {"asked", "granted"}, LAMBDA claim : claim.asked)
    - ClaimTotal(i, {"settled"}, LAMBDA claim : claim.settled - Tolerance)

----------------------------------------------------------------------------
\* Sales come in, are confirmed, repriced and canceled: that is no business of
\* claims.
Earn ==
  /\ earned' \in [Owners -> Int]
  /\ UNCHANGED claims

Ask(k, i, amount) ==
  /\ claims[k] = Unmade
  /\ amount > 0
  /\ amount <= Claimable(i)
  /\ claims' = [claims EXCEPT ![k] =
       [status |-> "asked", owner |-> i, asked |-> amount, settled |-> 0]]
  /\ UNCHANGED earned

Grant(k) ==
  /\ claims[k].status = "asked"
  /\ claims' = [claims EXCEPT ![k].status = "granted"]
  /\ UNCHANGED earned

Refuse(k) ==
  /\ claims[k].status = "asked"
  /\ claims' = [claims EXCEPT ![k].status = "refused"]
  /\ UNCHANGED earned

Settle(k, amount) ==
  /\ claims[k].status \in {"asked", "granted"}
  /\ Distance(amount, claims[k].asked) <= Tolerance
  /\ claims' = [claims EXCEPT ![k].status = "settled", ![k].settled = amount]
  /\ UNCHANGED earned

Next ==
  \/ Earn
  \/ \E k \in Claims :
       \/ \E i \in Owners, amount \in AskedAmounts : Ask(k, i, amount)
       \/ Grant(k)
       \/ Refuse(k)
       \/ \E amount \in SettledAmounts : Settle(k, amount)

Spec == Init /\ [][Next]_vars

=============================================================================
