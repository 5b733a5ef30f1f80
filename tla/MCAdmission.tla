----------------------------- MODULE MCAdmission -----------------------------
(* Two handlers whose Reserve calls overlap, two tenants, a budget that one  *)
(* large lease nearly fills and a bucket that two requests exhaust.          *)
EXTENDS Admission
=============================================================================
