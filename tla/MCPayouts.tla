----------------------------- MODULE MCPayouts -----------------------------
(* Two payouts, one of them to a bank account, and two tasks at once. *)
EXTENDS Payouts

CONSTANTS b1, p1
=============================================================================
