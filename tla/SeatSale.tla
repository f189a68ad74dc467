------------------------------ MODULE SeatSale ------------------------------
(***************************************************************************)
(* What the ticket office promises, without counters, locks, requests or   *)
(* sweeps: a place is handed out at most as many times as it exists, never *)
(* before its order was paid (or is free), and never taken back by the     *)
(* sale itself.  Checkout implements this specification.                   *)
(***************************************************************************)
EXTENDS Naturals, FiniteSets

CONSTANTS
  Order,        \* orders
  TicketType,   \* ticket categories
  Place,        \* the places asked for, one element per seat of an order
  OrderOf,      \* the order a place belongs to
  TypeOf,       \* the category of a place
  Free          \* the orders whose total amount is zero

VARIABLES
  charged,      \* orders whose money has been collected
  holders,      \* orders whose tickets exist
  capacity      \* places that exist, per category

vars == <<charged, holders, capacity>>

Seats(H, t) == {p \in Place : OrderOf[p] \in H /\ TypeOf[p] = t}

WithinCapacity(H, c) == \A t \in TicketType : Cardinality(Seats(H, t)) <= c[t]

Init ==
  /\ charged = {}
  /\ holders = {}
  /\ capacity \in [TicketType -> Nat]

\* The money of a priced order is collected; its tickets come with it, or
\* never (the places are gone and the money has to be given back).
Charge(o) ==
  /\ o \notin Free \cup charged
  /\ charged' = charged \cup {o}
  /\ \/ holders' = holders
     \/ holders' = holders \cup {o} /\ WithinCapacity(holders', capacity)
  /\ UNCHANGED capacity

\* A free order needs no money.
Register(o) ==
  /\ o \in Free \ holders
  /\ holders' = holders \cup {o}
  /\ WithinCapacity(holders', capacity)
  /\ UNCHANGED <<charged, capacity>>

\* The organiser resizes a category, never below what has been handed out.
Resize ==
  /\ capacity' \in [TicketType -> Nat]
  /\ WithinCapacity(holders, capacity')
  /\ UNCHANGED <<charged, holders>>

Next ==
  \/ \E o \in Order : Charge(o) \/ Register(o)
  \/ Resize

Spec == Init /\ [][Next]_vars
=============================================================================
