---------------------------- MODULE JobLifecycle ----------------------------
(***************************************************************************)
(* What the job store and its runner promise to a client that polls: the    *)
(* life of a transcription job, whatever the server does behind it.         *)
(* MeetingJobs implements this specification.                               *)
(***************************************************************************)
EXTENDS Naturals

CONSTANT Jobs

VARIABLES state,        \* what GET /transcribe/meeting/{id} reports, or "gone"
          audio,        \* the job's audio is on the server
          transcript,   \* the complete transcript is on the server
          draining      \* the server has had SIGTERM and has not exited

vars == <<state, audio, transcript, draining>>

Rows   == {"pending", "running", "done", "failed"}
States == Rows \cup {"none", "gone"}

Init ==
    /\ state = [j \in Jobs |-> "none"]
    /\ audio \in [Jobs -> BOOLEAN]
    /\ transcript \in [Jobs -> BOOLEAN]
    /\ draining \in BOOLEAN

\* The moves of one job.  Only a draining server may revive a failed job.
Moves ==
    {<<"none", "pending">>, <<"pending", "running">>, <<"running", "done">>,
     <<"pending", "failed">>, <<"running", "failed">>}
    \cup {<<s, "gone">> : s \in Rows}

MayMove(j) ==
    \/ state'[j] = state[j]
    \/ <<state[j], state'[j]>> \in Moves
    \/ draining /\ state[j] = "failed" /\ state'[j] = "running"

\* A waiting job keeps its audio, and is started with it.
KeepsAudio(j) ==
    state'[j] = "pending" \/ (state[j] = "pending" /\ state'[j] = "running")
        => audio'[j]

\* A job becomes done with its transcript in place.
DeliversTranscript(j) ==
    state[j] # "done" /\ state'[j] = "done" => transcript'[j]

OneAtATime ==
    \A j, k \in Jobs : state'[j] = "running" /\ state'[k] = "running" => j = k

Next ==
    /\ state' \in [Jobs -> States]
    /\ audio' \in [Jobs -> BOOLEAN]
    /\ transcript' \in [Jobs -> BOOLEAN]
    /\ draining' \in BOOLEAN
    /\ \A j \in Jobs : MayMove(j) /\ KeepsAudio(j) /\ DeliversTranscript(j)
    /\ OneAtATime

Spec == Init /\ [][Next]_vars
=============================================================================
