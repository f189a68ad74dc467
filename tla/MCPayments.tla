----------------------------- MODULE MCPayments -----------------------------
(* Small instances of Payments: two requests, two tasks and transactions of
   the same amount are interchangeable. *)
EXTENDS Payments, TLC

Symmetry == Permutations(Buyer) \cup Permutations(Handler)
              \cup Permutations(Tx \ Underpaid)
=============================================================================
