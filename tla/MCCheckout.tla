----------------------------- MODULE MCCheckout -----------------------------
(* Orders of one place, one of them free in some configurations, compete   *)
(* for the places of one category, with a request in flight besides the    *)
(* sweep.                                                                  *)
EXTENDS Checkout, TLC

CONSTANTS o1, o2, f1, t1, p1, p2, p3, r1, r2

MCOrderOf == [p \in Place |-> (p1 :> o1 @@ p2 :> o2 @@ p3 :> f1)[p]]
MCTypeOf  == [p \in Place |-> t1]
=============================================================================
