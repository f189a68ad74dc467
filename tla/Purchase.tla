------------------------------ MODULE Purchase ------------------------------
(***************************************************************************)
(* What paying for one order promises, without providers' answers, retries *)
(* or notifications: transactions collect money, and the order is settled  *)
(* at most once, by one of them.  Payments implements this specification.  *)
(***************************************************************************)
CONSTANTS
  Tx,         \* transactions the buyer may make
  NoTx        \* no transaction

VARIABLES
  collected,  \* transactions that took the amount due
  settledBy   \* the transaction that settled the order, NoTx before

vars == <<collected, settledBy>>

Init == collected = {} /\ settledBy = NoTx

\* The money of transaction x is taken; nothing stops a second one.
Collect(x) ==
  /\ x \notin collected
  /\ collected' = collected \cup {x}
  /\ UNCHANGED settledBy

\* The order is settled, once, by money already taken.
Settle(x) ==
  /\ settledBy = NoTx /\ x \in collected
  /\ settledBy' = x
  /\ UNCHANGED collected

Next == \E x \in Tx : Collect(x) \/ Settle(x)

Spec == Init /\ [][Next]_vars
=============================================================================
