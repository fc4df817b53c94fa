-------------------------- MODULE MCModelResidency --------------------------
(* A small instance of ModelResidency for TLC. *)
EXTENDS ModelResidency
=============================================================================
