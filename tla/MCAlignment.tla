----------------------------- MODULE MCAlignment -----------------------------
(* Alignment on small instances.                                           *)
EXTENDS Alignment, TLC
=============================================================================
