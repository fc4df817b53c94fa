------------------------ MODULE MCStreamingSessions ------------------------
(* A small instance of StreamingSessions for TLC. *)
EXTENDS StreamingSessions

OneLength == {1}
=============================================================================
