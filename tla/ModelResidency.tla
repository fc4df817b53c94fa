--------------------------- MODULE ModelResidency ---------------------------
(***************************************************************************)
(* The meeting models in memory: the executor's one thread, which loads     *)
(* them for the first job (_ensure_models_loaded) and uses them, and the    *)
(* idle-eviction loop, whose evict_if_idle runs in a thread of its own.     *)
(* The two threads share module globals and _load_lock; a step is what one  *)
(* of them does between two points where the other can come in.             *)
(*                                                                          *)
(* Of the runner there is what decides whether the loop sees a job, and of  *)
(* the pipeline which of the models a job needs, and when.                 *)
(***************************************************************************)
EXTENDS Integers

CONSTANT MaxJobs     \* bound: jobs

ASSUME ResidencyAssumption == MaxJobs \in Nat

VARIABLES
    ready,      \* _meeting_models_ready
    loading,    \* _loading_in_flight
    lock,       \* _load_lock: free, or the thread that holds it
    warm,       \* mlx_whisper_loader._loaded
    whisper,    \* ModelHolder.model is there
    pyannote,   \* diarize._pipeline is there
    idle,       \* idle_seconds() has reached the threshold
    pc, mode,   \* the executor's thread, and the mode of its job
    call,       \* the runner's call of transcribe_meeting
    active,     \* meeting_runner.active
    jobs,
    loop,       \* eviction_loop: asleep or awaiting its thread
    evictor,    \* that thread
    robbed      \* a job has found its models gone

flags  == <<ready, loading, lock>>
models == <<warm, whisper, pyannote>>
runner == <<call, active, jobs>>
vars == <<flags, models, idle, pc, mode, runner, loop, evictor, robbed>>

-----------------------------------------------------------------------------
Loads  == {"whisper_load", "pyannote_load", "to_device"}
Works  == {"transcribe", "second_channel", "diarize", "write"}
Modes  == {"file", "in_person", "remote"}
Resets == {"reset_pyannote", "clear_flag"}

\* Between the taking and the giving back of the lock.
JobInside     == pc = "check" \/ pc \in Loads
EvictorInside == evictor = "recheck" \/ evictor \in Resets

\* The types; the lock has one holder, the thread that is inside.
TypeOK ==
    /\ ready \in BOOLEAN /\ loading \in BOOLEAN
    /\ lock \in {"free", "job", "evictor"}
    /\ lock = "job" <=> JobInside
    /\ lock = "evictor" <=> EvictorInside
    /\ warm \in BOOLEAN /\ whisper \in BOOLEAN /\ pyannote \in BOOLEAN
    /\ idle \in BOOLEAN
    /\ pc \in {"none", "ensure", "wait", "check"} \cup Loads \cup Works
    /\ mode \in Modes
    /\ call \in {"none", "queued", "running", "over"}
    /\ active \in BOOLEAN /\ jobs \in 0..MaxJobs
    /\ loop \in {"asleep", "awaiting"}
    /\ evictor \in {"none", "called", "acquire", "recheck", "over"} \cup Resets
    /\ robbed \in BOOLEAN

Init ==
    /\ ready = FALSE /\ loading = FALSE /\ lock = "free"
    /\ warm = FALSE /\ whisper = FALSE /\ pyannote = FALSE
    /\ idle = FALSE
    /\ pc = "none" /\ mode = "file"
    /\ call = "none" /\ active = FALSE /\ jobs = 0
    /\ loop = "asleep" /\ evictor = "none"
    /\ robbed = FALSE

-----------------------------------------------------------------------------
\* The threshold passes since the last job ended, a job running or not.
TimePasses ==
    /\ ~idle
    /\ idle' = TRUE
    /\ UNCHANGED <<flags, models, pc, mode, runner, loop, evictor, robbed>>

\* A job takes its turn; with a source to convert it may end there.
StartJob ==
    /\ ~active /\ jobs < MaxJobs
    /\ active' = TRUE /\ jobs' = jobs + 1
    /\ UNCHANGED <<flags, models, idle, pc, mode, call, loop, evictor, robbed>>

\* _run_pipeline_inner hands transcribe_meeting to the executor and waits for
\* it without a timeout.
Submit ==
    /\ active /\ call = "none"
    /\ call' = "queued"
    /\ UNCHANGED <<flags, models, idle, pc, mode, active, jobs, loop, evictor,
                   robbed>>

\* Before its call, or after the call's end.
Over == call \in {"none", "over"}

EndJob ==
    /\ active /\ Over
    /\ active' = FALSE /\ call' = "none"
    /\ UNCHANGED <<flags, models, idle, pc, mode, jobs, loop, evictor, robbed>>

\* The thread takes the call of a meeting or of a file.
TakeCall ==
    /\ pc = "none" /\ call = "queued"
    /\ call' = "running" /\ pc' = "ensure"
    /\ mode' \in Modes
    /\ UNCHANGED <<flags, models, idle, active, jobs, loop, evictor, robbed>>

-----------------------------------------------------------------------------
\* _ensure_models_loaded: the look at the flag without the lock.
Ensure ==
    /\ pc = "ensure"
    /\ pc' = IF ready THEN "transcribe" ELSE "wait"
    /\ UNCHANGED <<flags, models, idle, mode, runner, loop, evictor, robbed>>

Acquire ==
    /\ pc = "wait"
    /\ lock = "free" /\ lock' = "job"
    /\ pc' = "check"
    /\ UNCHANGED <<ready, loading, models, idle, mode, runner, loop, evictor,
                   robbed>>

\* The second look, under the lock.
Check ==
    /\ pc = "check"
    /\ IF ready
       THEN pc' = "transcribe" /\ lock' = "free" /\ UNCHANGED loading
       ELSE pc' = "whisper_load" /\ loading' = TRUE /\ UNCHANGED lock
    /\ UNCHANGED <<ready, models, idle, mode, runner, loop, evictor, robbed>>

\* A slip for a mutant: only the loader that failed is reset.
DropsOne ==
    /\ pyannote' = pyannote
    /\ warm' = FALSE /\ whisper' = FALSE

\* Both loaders are reset.
DropsAll == warm' = FALSE /\ whisper' = FALSE /\ pyannote' = FALSE

Returns == pc' = "none" /\ call' = "over"

\* A loader raises: what has been loaded is dropped, the job fails.
LoadFails ==
    /\ DropsAll
    /\ loading' = FALSE /\ lock' = "free"
    /\ Returns
    /\ UNCHANGED ready

\* mlx_whisper_loader.load: a no-op when it is warm.
LoadWhisper ==
    /\ pc = "whisper_load"
    /\ \/ /\ warm' = TRUE
          /\ whisper' = (whisper \/ ~warm)
          /\ pc' = "pyannote_load"
          /\ UNCHANGED <<flags, pyannote, call>>
       \/ /\ ~warm
          /\ LoadFails
    /\ UNCHANGED <<idle, mode, active, jobs, loop, evictor, robbed>>

\* diarize.load fetches the pipeline into its global,
LoadPyannote ==
    /\ pc = "pyannote_load"
    /\ \/ /\ pyannote' = TRUE
          /\ pc' = "to_device"
          /\ UNCHANGED <<flags, warm, whisper, call>>
       \/ LoadFails
    /\ UNCHANGED <<idle, mode, active, jobs, loop, evictor, robbed>>

\* and then moves it to the GPU; with that, and the denoiser, which may fail
\* to load as well, the models are ready.
ToDevice ==
    /\ pc = "to_device"
    /\ \/ /\ ready' = TRUE /\ loading' = FALSE /\ lock' = "free"
          /\ pc' = "transcribe"
          /\ UNCHANGED <<models, call>>
       \/ LoadFails
    /\ UNCHANGED <<idle, mode, active, jobs, loop, evictor, robbed>>

-----------------------------------------------------------------------------
\* transcribe_meeting's finally stamps the idle timer, whatever happened.
Ends ==
    /\ Returns
    /\ idle' = FALSE

\* What follows a channel: a file has one and no speakers to tell apart.
Follows ==
    IF mode = "file" THEN "write"
    ELSE IF mode = "remote" /\ pc = "transcribe" THEN "second_channel"
    ELSE "diarize"

\* transcribe_channel: mlx-whisper loads its model when ModelHolder is empty;
\* the audio may not decode, or Whisper fail on it.
Transcribe ==
    /\ pc \in {"transcribe", "second_channel"}
    /\ \/ /\ whisper' = TRUE
          /\ pc' = Follows
          /\ UNCHANGED <<call, idle>>
       \/ /\ whisper' \in {whisper, TRUE}
          /\ Ends
    /\ UNCHANGED <<flags, warm, pyannote, mode, active, jobs, loop, evictor,
                   robbed>>

\* diarize: without its pipeline it raises.
Diarize ==
    /\ pc = "diarize"
    /\ \/ pyannote /\ pc' = "write" /\ UNCHANGED <<call, idle>>
       \/ Ends
    /\ robbed' = (robbed \/ ~pyannote)
    /\ UNCHANGED <<flags, models, mode, active, jobs, loop, evictor>>

Write ==
    /\ pc = "write"
    /\ Ends
    /\ UNCHANGED <<flags, models, mode, active, jobs, loop, evictor, robbed>>

-----------------------------------------------------------------------------
\* eviction_loop wakes: with a job it sleeps on, without it calls the thread.
LoopWakes ==
    /\ loop = "asleep" /\ ~active
    /\ loop' = "awaiting" /\ evictor' = "called"
    /\ UNCHANGED <<flags, models, idle, pc, mode, runner, robbed>>

LoopSleeps ==
    /\ loop = "awaiting" /\ evictor = "over"
    /\ loop' = "asleep" /\ evictor' = "none"
    /\ UNCHANGED <<flags, models, idle, pc, mode, runner, robbed>>

\* The models are there and nothing has used them for long.
Due == ready /\ idle

Look ==
    /\ evictor = "called"
    /\ evictor' = IF Due THEN "acquire" ELSE "over"
    /\ UNCHANGED <<flags, models, idle, pc, mode, runner, loop, robbed>>

TryLock ==
    /\ evictor = "acquire"
    /\ IF lock = "free"
       THEN lock' = "evictor" /\ evictor' = "recheck"
       ELSE evictor' = "over" /\ UNCHANGED lock
    /\ UNCHANGED <<ready, loading, models, idle, pc, mode, runner, loop, robbed>>

\* A slip for a mutant: the early returns keep the lock.
KeepsLock == UNCHANGED lock

Releases == lock' = "free"

\* The looks under the lock; then Whisper's model goes.
Recheck ==
    /\ evictor = "recheck"
    /\ \/ /\ Due /\ ~loading
          /\ warm' = FALSE /\ whisper' = FALSE
          /\ evictor' = "reset_pyannote"
          /\ UNCHANGED lock
       \/ /\ ~(Due /\ ~loading)
          /\ Releases
          /\ evictor' = "over"
          /\ UNCHANGED <<warm, whisper>>
    /\ UNCHANGED <<ready, loading, pyannote, idle, pc, mode, runner, loop, robbed>>

ResetPyannote ==
    /\ evictor = "reset_pyannote"
    /\ pyannote' = FALSE
    /\ evictor' = "clear_flag"
    /\ UNCHANGED <<flags, warm, whisper, idle, pc, mode, runner, loop, robbed>>

ClearFlag ==
    /\ evictor = "clear_flag"
    /\ ready' = FALSE
    /\ Releases
    /\ evictor' = "over"
    /\ UNCHANGED <<loading, models, idle, pc, mode, runner, loop, robbed>>

-----------------------------------------------------------------------------
Thread == Ensure \/ Acquire \/ Check \/ LoadWhisper \/ LoadPyannote
             \/ ToDevice \/ Transcribe \/ Diarize \/ Write
Evict  == Look \/ TryLock \/ Recheck \/ ResetPyannote \/ ClearFlag

Next ==
    \/ TimePasses
    \/ StartJob \/ Submit \/ EndJob \/ TakeCall \/ Thread
    \/ LoopWakes \/ LoopSleeps \/ Evict

Spec == Init /\ [][Next]_vars

\* Both threads run on, the runner too; the loop wakes every minute and the
\* threshold passes.
FairSpec ==
    /\ Spec
    /\ WF_vars(Thread) /\ WF_vars(Evict) /\ WF_vars(TakeCall)
    /\ WF_vars(EndJob) /\ WF_vars(LoopWakes) /\ WF_vars(LoopSleeps)
    /\ WF_vars(TimePasses)

-----------------------------------------------------------------------------
\* Whenever nobody is in the middle of a load or an eviction, the flag that
\* /readyz/meeting reports and the first look of a job trusts tells the truth
\* about pyannote: a load that failed half-way leaves nothing of it behind, an
\* eviction takes the flag along.
ReadyIsLoaded == lock = "free" => (ready <=> pyannote)

\* The loop sees a job, and leaves the models alone, for as long as the thread
\* is in transcribe_meeting.
LoopSeesJob == pc # "none" => active

\* The thread comes back from every call: an eviction that looks at the models
\* and leaves them alone gives _load_lock back, so does a load that fails.
ThreadReturns == pc # "none" ~> pc = "none"

\* When the jobs are over, the models leave the memory: pyannote and the flag.
\* (Whisper may stay: see the README.)
IdleIsEvicted == <>[](pc = "none" /\ call = "none") => <>[](~ready /\ ~pyannote)

\* evict_if_idle: "If models are warm AND no meeting is in flight AND idle
\* exceeds threshold"; "eviction will skip rather than block if a meeting is
\* currently loading or processing".  No job loses its models to an eviction.
NoJobRobbed == ~robbed
=============================================================================
