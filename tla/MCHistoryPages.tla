--------------------------- MODULE MCHistoryPages ---------------------------
(* A small instance of HistoryPages for TLC. *)
EXTENDS HistoryPages

\* A bound: what follows the last page of a walk is not explored.
WalkGoesOn == ~Done /\ pages < MaxPages
=============================================================================
