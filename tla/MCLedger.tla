------------------------------ MODULE MCLedger ------------------------------
(* Two orders of two events: a pays its commission on top, b within its
   price, where the provider keeps one unit as well. *)
EXTENDS Ledger

CONSTANTS a, b, e1, e2

MCEventOf == [o \in {a, b} |-> IF o = a THEN e1 ELSE e2]
MCGross == [o \in {a, b} |-> IF o = a THEN 4 ELSE 3]
MCPlatform == [o \in {a, b} |-> IF o = a THEN 2 ELSE 1]
MCOperator == [o \in {a, b} |-> IF o = a THEN 0 ELSE 1]
MCNoOperator == [o \in {a, b} |-> 0]
MCOnTop == [o \in {a, b} |-> 1]
MCBuyerFee == [o \in {a, b} |-> IF o = a THEN 2 ELSE 0]
=============================================================================
