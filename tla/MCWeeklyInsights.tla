-------------------------- MODULE MCWeeklyInsights --------------------------
(* A small instance of WeeklyInsights for TLC. *)
EXTENDS WeeklyInsights, TLC
=============================================================================
