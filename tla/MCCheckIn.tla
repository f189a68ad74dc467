----------------------------- MODULE MCCheckIn -----------------------------
(* One ticket, scanned twice on two devices, and two batches on their
   way at the same time. *)
EXTENDS CheckIn

CONSTANTS t1, d1, d2
=============================================================================
