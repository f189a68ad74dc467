----------------------------- MODULE MCOutbound -----------------------------
(* A confirmation by text message, and a change announced by e-mail and by *)
(* text message.                                                           *)
EXTENDS Outbound

CONSTANTS k1, k2
=============================================================================
