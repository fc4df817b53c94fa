--------------------------- MODULE MCUsageEvents ---------------------------
(* Small instances of UsageEvents for TLC. *)
EXTENDS UsageEvents
=============================================================================
