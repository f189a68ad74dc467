----------------------------- MODULE MCRequests -----------------------------
(* One order over two categories and one free order, and two requests that *)
(* may work on the same order at once, besides the sweep.                  *)
EXTENDS Checkout, TLC

CONSTANTS o1, f1, t1, t2, p1, p2, p3, r1, r2

MCOrderOf == p1 :> o1 @@ p2 :> o1 @@ p3 :> f1
MCTypeOf  == p1 :> t1 @@ p2 :> t2 @@ p3 :> t1

RequestSymmetry == Permutations(Request)
=============================================================================
