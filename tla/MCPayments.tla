----------------------------- MODULE MCPayments -----------------------------
(* Small instances of Payments for TLC, of the same constants as MCLedger's. *)
EXTENDS MCLedger, Payments

=============================================================================
