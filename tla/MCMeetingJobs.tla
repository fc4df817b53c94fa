--------------------------- MODULE MCMeetingJobs ---------------------------
(* Small instances of MeetingJobs for TLC. *)
EXTENDS MeetingJobs, TLC

Symmetry == Permutations(Jobs)

\* A meeting recording, a voice memo in a container, and a `.wav` sent to
\* /transcribe/file; a meeting in a container.
ThreeUploads ==
    {[task |-> "pipeline", req |-> "meeting", ext |-> "wav", valid |-> TRUE],
     [task |-> "source", req |-> "file", ext |-> "media", valid |-> TRUE],
     [task |-> "source", req |-> "file", ext |-> "wav", valid |-> FALSE]}

FourUploads == ThreeUploads \cup
    {[task |-> "source", req |-> "meeting", ext |-> "media", valid |-> TRUE]}

TwoUploads == {u \in ThreeUploads : u.valid}
=============================================================================
