----------------------------- MODULE MCDossier -----------------------------
(* A personal document and one of the organization, two uploads, a moderator
   and two submissions. *)
EXTENDS Dossier

CONSTANTS selfie, rccm, u1, u2, r1, s1, s2
=============================================================================
