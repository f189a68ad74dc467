----------------------------- MODULE MCRefunds -----------------------------
(* One paid order of two units and a fee of one, and one free order; two
   requests at once besides the cancellation. *)
EXTENDS Refunds, TLC

CONSTANTS a1, f1

MCPrice == [o \in Order |-> IF o \in Free THEN 0 ELSE 2]
MCFee == [o \in Order |-> IF o \in Free THEN 0 ELSE 1]
=============================================================================
