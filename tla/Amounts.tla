------------------------------ MODULE Amounts ------------------------------
(***************************************************************************)
(* Money as the in-memory database handles it.  Every amount the service   *)
(* keeps passes through roundCurrency, so an amount is a whole number of   *)
(* cents and is written here as an integer.                                *)
(***************************************************************************)
EXTENDS Integers

Larger(x, y)  == IF x >= y THEN x ELSE y
Smaller(x, y) == IF x <= y THEN x ELSE y
Distance(x, y) == IF x >= y THEN x - y ELSE y - x

(***************************************************************************)
(* calculateCommissionAmount: percent per cent of an amount, rounded to    *)
(* the cent with halves going up, as Math.round does.  Math.round and \div *)
(* agree on negative arguments too: both round -2.5 to -2.                 *)
(***************************************************************************)
RoundedShare(amount, percent) == (amount * percent + 50) \div 100

(***************************************************************************)
(* The sum f[1] + ... + f[n]: what a loop over the rows of a Map adds up.  *)
(***************************************************************************)
Total(f, n) ==
  LET running[k \in 0..n] == IF k = 0 THEN 0 ELSE running[k - 1] + f[k]
  IN  running[n]

=============================================================================
