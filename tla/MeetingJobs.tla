---------------------------- MODULE MeetingJobs ----------------------------
(***************************************************************************)
(* The meeting/file transcription jobs of the WisprAlt server: the JobStore *)
(* rows (SQLite, autocommit), the staged audio and the transcript files on  *)
(* disk, the MeetingRunner tasks on the asyncio loop, its one-slot          *)
(* semaphore, its one-thread executor, the phase watchdog, the SIGTERM      *)
(* handler, crashes, and the start-up recovery.                             *)
(*                                                                          *)
(* The loop runs one task at a time up to its next await, so an action is   *)
(* the code between two awaits.  Two of those stretches make several        *)
(* durable writes; they are cut at the writes (pc "swapping", "cleaning"),  *)
(* so that a crash or a thread-pool route can fall between them, and        *)
(* LoopFree keeps every other loop action out of the cut.                   *)
(***************************************************************************)
EXTENDS Naturals, Sequences, FiniteSets

CONSTANTS Jobs,         \* job ids (uuid4: a row is never created twice)
          NoJob,        \* Python's None, for _active_job_id and the semaphore
          Uploads,      \* the kinds of request clients send
          MaxOutages    \* bound: crashes and SIGTERMs in a behaviour

\* POST /transcribe/meeting takes only a WAV whose header and length check out
\* and runs it as it is ("pipeline"); POST /transcribe/file stores any supported
\* container unread, a `.wav` with a broken header included, and transcodes it.
UploadKinds ==
    {u \in [task : {"pipeline", "source"}, req : {"meeting", "file"},
            ext : {"wav", "media"}, valid : BOOLEAN] :
        /\ u.task = "pipeline" => u.req = "meeting" /\ u.ext = "wav" /\ u.valid
        /\ u.ext = "media" => u.valid}

ASSUME JobsAssumption ==
    NoJob \notin Jobs /\ Uploads \subseteq UploadKinds /\ MaxOutages \in Nat

VARIABLES
    srv,        \* "up" | "stopping" | "exiting" | "off" (a clean exit)
                \* | "down" (a crash) | "starting"
    outages,    \* crashes and SIGTERMs so far
    \* JobStore rows, durable
    status,     \* jobs.status, or why there is no row
    req,        \* jobs.request_mode
    rowCanon,   \* jobs.wav_path names the canonical WAV, no longer the upload
    single,     \* jobs.force_single_channel
    attempts,   \* jobs.attempts
    outDir,     \* jobs.output_dir is not NULL
    \* files, durable
    ext,        \* suffix of the upload: "wav" or any other container
    valid,      \* the upload passes validate_wav_completeness
    upload,     \* the staged upload is on disk
    canon,      \* the canonical WAV of transcode_to_canonical_wav is on disk
    outs,       \* transcript files on disk: "none", "some" or "all" of the four,
                \* or what a removal that did not finish has "left"
    inRoot,     \* they lie under the MEETING_OUTPUT_DIR the server now has
    \* the process, volatile
    task,       \* which coroutine runs the job: "pipeline" or "source"
    pc,         \* where that coroutine (or the request staging it) is
    holder,     \* the task inside `async with self._semaphore`
    waiters,    \* FIFO of the tasks blocked on it
    active,     \* _active_job_id
    fn,         \* the executor call submitted last for the job
    call,       \* its state: "none" "queued" "running" "ok" "err"
    armed       \* a DELETE request has unlinked the outputs, not yet the row

rowVars  == <<status, req, rowCanon, single, attempts, outDir>>
fileVars == <<ext, valid, upload, canon, outs, inRoot>>
taskVars == <<task, pc, holder, waiters, active>>
callVars == <<fn, call>>
vars == <<srv, outages, rowVars, fileVars, taskVars, callVars, armed>>

-----------------------------------------------------------------------------
Live     == {"pending", "running"}
Terminal == {"done", "failed"}
NoRow    == {"none", "deleted", "purged"}

\* Places of a task that hold the semaphore; the first four await the executor.
Awaiting == {"probing", "timing", "decoding", "transcribing"}
Holding  == Awaiting \cup {"swapping", "cleaning"}
InTask   == Holding \cup {"created", "waiting"}

TypeOK ==
    /\ srv \in {"up", "stopping", "exiting", "off", "down", "starting"}
    /\ outages \in 0..MaxOutages
    /\ status \in [Jobs -> Live \cup Terminal \cup NoRow]
    /\ req \in [Jobs -> {"meeting", "file"}]
    /\ rowCanon \in [Jobs -> BOOLEAN]
    /\ single \in [Jobs -> BOOLEAN]
    /\ attempts \in [Jobs -> Nat]
    /\ outDir \in [Jobs -> BOOLEAN]
    /\ ext \in [Jobs -> {"wav", "media"}]
    /\ valid \in [Jobs -> BOOLEAN]
    /\ upload \in [Jobs -> BOOLEAN]
    /\ canon \in [Jobs -> BOOLEAN]
    /\ outs \in [Jobs -> {"none", "some", "all", "left"}]
    /\ inRoot \in [Jobs -> BOOLEAN]
    /\ task \in [Jobs -> {"pipeline", "source"}]
    /\ pc \in [Jobs -> {"idle", "staged", "ended"} \cup InTask]
    /\ holder \in Jobs \cup {NoJob}
    /\ waiters \in Seq(Jobs)
    /\ active \in Jobs \cup {NoJob}
    /\ fn \in [Jobs -> {"none", "probe", "duration", "decode", "transcribe"}]
    /\ call \in [Jobs -> {"none", "queued", "running", "ok", "err"}]
    /\ armed \in [Jobs -> BOOLEAN]

Init ==
    /\ srv = "up" /\ outages = 0
    /\ status = [j \in Jobs |-> "none"]
    /\ req = [j \in Jobs |-> "meeting"]
    /\ rowCanon = [j \in Jobs |-> FALSE]
    /\ single = [j \in Jobs |-> FALSE]
    /\ attempts = [j \in Jobs |-> 0]
    /\ outDir = [j \in Jobs |-> FALSE]
    /\ ext = [j \in Jobs |-> "wav"]
    /\ valid = [j \in Jobs |-> TRUE]
    /\ upload = [j \in Jobs |-> FALSE]
    /\ canon = [j \in Jobs |-> FALSE]
    /\ outs = [j \in Jobs |-> "none"]
    /\ inRoot = [j \in Jobs |-> TRUE]
    /\ task = [j \in Jobs |-> "pipeline"]
    /\ pc = [j \in Jobs |-> "idle"]
    /\ holder = NoJob
    /\ waiters = <<>>
    /\ active = NoJob
    /\ fn = [j \in Jobs |-> "none"]
    /\ call = [j \in Jobs |-> "none"]
    /\ armed = [j \in Jobs |-> FALSE]

-----------------------------------------------------------------------------
\* No task is between two durable writes of one stretch of loop code.
LoopFree == \A k \in Jobs : pc[k] \notin {"swapping", "cleaning"}

\* The loop is running callbacks: also after SIGTERM, until uvicorn returns.
LoopRuns == srv \in {"up", "stopping"} /\ LoopFree

\* asyncio.Semaphore(1).locked(): taken, or about to be handed to a waiter.
Locked == holder # NoJob \/ waiters # <<>>

HasRow(j) == status[j] \notin NoRow

\* An UPDATE ... WHERE id=? changes nothing when the row has been deleted.
SetStatus(j, s) ==
    status' = [status EXCEPT ![j] = IF HasRow(j) THEN s ELSE @]

SetFailedUnlessTerminal(j) ==
    SetStatus(j, IF status[j] \in Terminal THEN status[j] ELSE "failed")

\* UPDATE jobs SET status='running', attempts=attempts+1 WHERE id=?
SetRunning(j) ==
    /\ SetStatus(j, "running")
    /\ attempts' = [attempts EXCEPT ![j] = IF HasRow(j) THEN @ + 1 ELSE @]

\* run_in_executor: the call joins the queue of the single worker thread.
SubmitCall(j, f) ==
    /\ fn' = [fn EXCEPT ![j] = f]
    /\ call' = [call EXCEPT ![j] = "queued"]

\* Mutant: an early return that skips the semaphore's release.
EndTaskKeepsSlot(j) ==
    /\ pc' = [pc EXCEPT ![j] = "ended"]
    /\ active' = NoJob
    /\ UNCHANGED <<task, holder, waiters>>

\* The coroutine returns: it leaves `async with self._semaphore`.
EndTask(j) ==
    /\ pc' = [pc EXCEPT ![j] = "ended"]
    /\ holder' = NoJob
    /\ active' = NoJob
    /\ UNCHANGED <<task, waiters>>

\* Mutant: an exception is taken for a result.
CallOkOrErr(j) == call[j] \in {"ok", "err"}

\* The awaited future holds a result.
CallOk(j) == call[j] = "ok"

\* wait_for cancels the future: a call still queued is withdrawn; one the
\* thread has begun cannot be, and keeps the thread.
Withdraw(j) == call' = [call EXCEPT ![j] = IF @ = "queued" THEN "none" ELSE @]

\* Mutant: an error path forgets src_path.unlink.
DropUploadFileNot(j) == UNCHANGED upload

\* src_path.unlink(missing_ok=True), staging.cleanup
DropUploadFile(j) == upload' = [upload EXCEPT ![j] = FALSE]

\* force_single_channel of the transcribe_meeting call the task will make.
PipelineSingle(j) ==
    IF task[j] = "source" THEN req[j] = "file" ELSE single[j]

\* The file that call reads: the path the coroutine was created with.
PipelineInput(j) == IF task[j] = "source" THEN canon[j] ELSE upload[j]

InputOnDisk(j) ==
    IF fn[j] = "transcribe" THEN PipelineInput(j) ELSE upload[j]

-----------------------------------------------------------------------------
(* Requests: POST /transcribe/meeting and POST /transcribe/file             *)

\* The body has been streamed to the staging directory.
Stage(j) ==
    /\ srv = "up" /\ LoopFree
    /\ pc[j] = "idle"
    /\ \E u \in Uploads :
          /\ task' = [task EXCEPT ![j] = u.task]
          /\ req' = [req EXCEPT ![j] = u.req]
          /\ ext' = [ext EXCEPT ![j] = u.ext]
          /\ valid' = [valid EXCEPT ![j] = u.valid]
    /\ upload' = [upload EXCEPT ![j] = TRUE]
    /\ pc' = [pc EXCEPT ![j] = "staged"]
    /\ UNCHANGED <<srv, outages, status, rowCanon, single, attempts, outDir,
                   canon, outs, inRoot, holder, waiters, active, callVars, armed>>

\* submit_or_429 / submit_source_or_429: nothing between the semaphore check,
\* the INSERT and create_task suspends, so the submit lock is never contended.
\* The new task has not run yet and does not hold the semaphore.
Submit(j) ==
    /\ LoopRuns
    /\ pc[j] = "staged"
    /\ ~Locked
    /\ status' = [status EXCEPT ![j] = "pending"]
    /\ pc' = [pc EXCEPT ![j] = "created"]
    /\ UNCHANGED <<srv, outages, req, rowCanon, single, attempts, outDir,
                   fileVars, task, holder, waiters, active, callVars, armed>>

\* 429 (semaphore taken, or less than 2 GiB of memory): the upload is removed.
Reject(j) ==
    /\ LoopRuns
    /\ pc[j] = "staged"
    /\ DropUploadFile(j)
    /\ pc' = [pc EXCEPT ![j] = "idle"]
    /\ UNCHANGED <<srv, outages, rowVars, ext, valid, canon, outs, inRoot,
                   task, holder, waiters, active, callVars, armed>>

\* store.create raises: a 500, with no row, and the staged upload stays.  The
\* routes catch MeetingInProgressError alone.
SubmitRaises(j) ==
    /\ LoopRuns
    /\ pc[j] = "staged"
    /\ ~Locked
    /\ pc' = [pc EXCEPT ![j] = "ended"]
    /\ UNCHANGED <<srv, outages, rowVars, fileVars, task, holder, waiters,
                   active, callVars, armed>>

-----------------------------------------------------------------------------
(* The runner's coroutines                                                  *)

\* The body of `async with self._semaphore`, up to its first await.
Begin(j) ==
    /\ holder' = j
    /\ active' = j
    /\ SetRunning(j)
    /\ IF task[j] = "source"
       THEN /\ pc' = [pc EXCEPT ![j] = "probing"]
            /\ SubmitCall(j, "probe")
       ELSE /\ pc' = [pc EXCEPT ![j] = "transcribing"]
            /\ SubmitCall(j, "transcribe")
    /\ UNCHANGED <<srv, outages, req, rowCanon, single, outDir, fileVars,
                   task, armed>>

\* Mutant: a coroutine that does not enter the semaphore.
StartTaskUnguarded(j) ==
    /\ LoopRuns
    /\ pc[j] = "created"
    /\ Begin(j)
    /\ UNCHANGED waiters

\* First step of the task: an open semaphore is taken without suspending.
StartTask(j) ==
    /\ LoopRuns
    /\ pc[j] = "created"
    /\ ~Locked
    /\ Begin(j)
    /\ UNCHANGED waiters

BlockTask(j) ==
    /\ LoopRuns
    /\ pc[j] = "created"
    /\ Locked
    /\ pc' = [pc EXCEPT ![j] = "waiting"]
    /\ waiters' = Append(waiters, j)
    /\ UNCHANGED <<srv, outages, rowVars, fileVars, task, holder, active,
                   callVars, armed>>

\* Semaphore.release hands the slot to the waiter that came first.
WakeTask(j) ==
    /\ LoopRuns
    /\ pc[j] = "waiting"
    /\ holder = NoJob
    /\ waiters # <<>> /\ Head(waiters) = j
    /\ Begin(j)
    /\ waiters' = Tail(waiters)

\* _run_source: the channel count has arrived; ask for the duration.
Probed(j) ==
    /\ LoopRuns
    /\ pc[j] = "probing" /\ CallOk(j)
    /\ pc' = [pc EXCEPT ![j] = "timing"]
    /\ SubmitCall(j, "duration")
    /\ UNCHANGED <<srv, outages, rowVars, fileVars, task, holder, waiters,
                   active, armed>>

Timed(j) ==
    /\ LoopRuns
    /\ pc[j] = "timing" /\ CallOk(j)
    /\ pc' = [pc EXCEPT ![j] = "decoding"]
    /\ SubmitCall(j, "decode")
    /\ UNCHANGED <<srv, outages, rowVars, fileVars, task, holder, waiters,
                   active, armed>>

\* update_after_transcode: the row moves to the canonical WAV first ...
Decoded(j) ==
    /\ LoopRuns
    /\ pc[j] = "decoding" /\ CallOk(j)
    /\ rowCanon' = [rowCanon EXCEPT ![j] = @ \/ HasRow(j)]
    /\ single' = [single EXCEPT ![j] = IF HasRow(j) THEN req[j] = "file" ELSE @]
    /\ call' = [call EXCEPT ![j] = "none"]
    /\ pc' = [pc EXCEPT ![j] = "swapping"]
    /\ UNCHANGED <<srv, outages, status, req, attempts, outDir, fileVars,
                   task, holder, waiters, active, fn, armed>>

\* ... then the upload goes, and _run_pipeline_inner begins: it sets the row
\* running a second time and submits the pipeline.
DropUpload(j) ==
    /\ srv \in {"up", "stopping"}
    /\ pc[j] = "swapping"
    /\ DropUploadFile(j)
    /\ active' = j
    /\ SetRunning(j)
    /\ pc' = [pc EXCEPT ![j] = "transcribing"]
    /\ SubmitCall(j, "transcribe")
    /\ UNCHANGED <<srv, outages, req, rowCanon, single, outDir, ext, valid,
                   canon, outs, inRoot, task, holder, waiters, armed>>

\* wait_for expired in _phase: the row fails, the upload is removed and the
\* semaphore is free again, whether or not the thread is.
PhaseTimeout(j) ==
    /\ LoopRuns
    /\ pc[j] \in {"probing", "decoding"}
    /\ call[j] \in {"queued", "running"}
    /\ SetStatus(j, "failed")
    /\ DropUploadFile(j)
    /\ Withdraw(j)
    /\ EndTask(j)
    /\ UNCHANGED <<srv, outages, req, rowCanon, single, attempts, outDir, ext,
                   valid, canon, outs, inRoot, fn, armed>>

\* ffprobe or ffmpeg raised: `except Exception` of _run_source.
SourceFails(j) ==
    /\ LoopRuns
    /\ pc[j] \in {"probing", "timing", "decoding"} /\ call[j] = "err"
    /\ SetFailedUnlessTerminal(j)
    /\ DropUploadFile(j)
    /\ call' = [call EXCEPT ![j] = "none"]
    /\ EndTask(j)
    /\ UNCHANGED <<srv, outages, req, rowCanon, single, attempts, outDir, ext,
                   valid, canon, outs, inRoot, fn, armed>>

\* Mutant: the guard on the status read back is missing.
ResultComesTooLateNever(j) == FALSE

\* `current.status == "failed"` after the executor has returned.
ResultComesTooLate(j) == status[j] = "failed"

\* The transcript is back.  A row that was failed meanwhile keeps its failure
\* and the result is discarded (its files are already written).
PipelineReturns(j) ==
    /\ LoopRuns
    /\ pc[j] = "transcribing" /\ CallOk(j)
    /\ IF ResultComesTooLate(j)
       THEN UNCHANGED <<status, outDir>>
       ELSE /\ SetStatus(j, "done")
            /\ outDir' = [outDir EXCEPT ![j] = @ \/ HasRow(j)]
    /\ call' = [call EXCEPT ![j] = "none"]
    /\ pc' = [pc EXCEPT ![j] = "cleaning"]
    /\ active' = NoJob
    /\ UNCHANGED <<srv, outages, req, rowCanon, single, attempts, fileVars,
                   task, holder, waiters, fn, armed>>

PipelineRaises(j) ==
    /\ LoopRuns
    /\ pc[j] = "transcribing" /\ call[j] = "err"
    /\ SetFailedUnlessTerminal(j)
    /\ call' = [call EXCEPT ![j] = "none"]
    /\ pc' = [pc EXCEPT ![j] = "cleaning"]
    /\ active' = NoJob
    /\ UNCHANGED <<srv, outages, req, rowCanon, single, attempts, outDir,
                   fileVars, task, holder, waiters, fn, armed>>

\* `finally` of _run_pipeline_inner: staging.cleanup(wav_path), then return.
CleanUp(j) ==
    /\ srv \in {"up", "stopping"}
    /\ pc[j] = "cleaning"
    /\ IF task[j] = "source"
       THEN canon' = [canon EXCEPT ![j] = FALSE] /\ UNCHANGED upload
       ELSE DropUploadFile(j) /\ UNCHANGED canon
    /\ EndTask(j)
    /\ UNCHANGED <<srv, outages, rowVars, ext, valid, outs, inRoot, callVars,
                   armed>>

\* _phase_watchdog, alive only inside the pipeline phases of a source job: a
\* phase has taken twice its budget.  Neither the thread nor the semaphore is
\* released.
WatchdogFires(j) ==
    /\ LoopRuns
    /\ task[j] = "source" /\ pc[j] = "transcribing"
    /\ status[j] = "running"
    /\ SetStatus(j, "failed")
    /\ UNCHANGED <<srv, outages, req, rowCanon, single, attempts, outDir,
                   fileVars, taskVars, callVars, armed>>

-----------------------------------------------------------------------------
(* The executor thread: also runs on while the process is exiting           *)

ThreadAlive == srv \in {"up", "stopping", "exiting"}

\* A call whose coroutine is gone delivers its result to nobody.
Deliver(j, r) ==
    call' = [call EXCEPT ![j] = IF pc[j] \in Awaiting THEN r ELSE "none"]

TakeCall(j) ==
    /\ ThreadAlive
    /\ call[j] = "queued"
    /\ \A k \in Jobs : call[k] # "running"
    /\ call' = [call EXCEPT ![j] = "running"]
    /\ UNCHANGED <<srv, outages, rowVars, fileVars, taskVars, fn, armed>>

\* The transcript is written where the settings of this process say.
Write(j, files) ==
    /\ outs' = [outs EXCEPT ![j] = files]
    /\ inRoot' = [inRoot EXCEPT ![j] = TRUE]

\* write_outputs_atomic has published some of the four files, not all.
WriteSome(j) ==
    /\ ThreadAlive
    /\ call[j] = "running" /\ fn[j] = "transcribe"
    /\ outs[j] = "none"
    /\ InputOnDisk(j)
    /\ Write(j, "some")
    /\ UNCHANGED <<srv, outages, rowVars, ext, valid, upload, canon, taskVars,
                   callVars, armed>>

\* Mutant: the .partial file is not renamed.
PublishNothing(j) == UNCHANGED canon

\* os.replace(temp_target, target) at the end of transcode_to_canonical_wav
PublishCanonical(j) ==
    canon' = [canon EXCEPT ![j] = @ \/ fn[j] = "decode"]

\* The call succeeds: a decode has published the canonical WAV, a
\* transcription has written its four files.
CallReturns(j) ==
    /\ ThreadAlive
    /\ call[j] = "running"
    /\ InputOnDisk(j)
    /\ PublishCanonical(j)
    /\ IF fn[j] = "transcribe" THEN Write(j, "all") ELSE UNCHANGED <<outs, inRoot>>
    /\ Deliver(j, "ok")
    /\ UNCHANGED <<srv, outages, rowVars, ext, valid, upload, taskVars, fn,
                   armed>>

CallRaises(j) ==
    /\ ThreadAlive
    /\ call[j] = "running"
    /\ Deliver(j, "err")
    /\ UNCHANGED <<srv, outages, rowVars, fileVars, taskVars, fn, armed>>

-----------------------------------------------------------------------------
(* DELETE /transcribe/meeting/{id} and the daily sweeps (thread pool)       *)

\* delete_meeting reads the row; the files go only if the row it read has an
\* output_dir, and one that cannot be unlinked is only logged.  No status is
\* excluded and the job's task is not told.
DeleteFiles(j) ==
    /\ srv \in {"up", "stopping"}
    /\ HasRow(j) /\ ~armed[j]
    /\ \E rest \in {"none", "left"} :
          outs' = [outs EXCEPT ![j] = IF outDir[j] /\ @ # "none" THEN rest ELSE @]
    /\ armed' = [armed EXCEPT ![j] = TRUE]
    /\ UNCHANGED <<srv, outages, rowVars, ext, valid, upload, canon, inRoot,
                   taskVars, callVars>>

DeleteRow(j) ==
    /\ srv \in {"up", "stopping"}
    /\ armed[j]
    /\ SetStatus(j, "deleted")
    /\ armed' = [armed EXCEPT ![j] = FALSE]
    /\ UNCHANGED <<srv, outages, req, rowCanon, single, attempts, outDir,
                   fileVars, taskVars, callVars>>

\* Mutant: the retention sweep trusts the status alone.
PurgeableByStatus(j) == status[j] \in Terminal

\* list_expired_finished_jobs and is_active (the age is left to chance)
Purgeable(j) == status[j] \in Terminal /\ active # j

\* sweep_old_meetings, for an expired finished row the runner does not call
\* active.  Files in the root go, and then the row.  Files elsewhere stay, and
\* the row goes all the same: its output_dir is outside the root, or it has none
\* and the root, where they are looked for, has moved since.  A file that cannot
\* be removed, or a crash before the rows are deleted, keeps the row for the
\* next sweep.
Purge(j) ==
    /\ srv = "up"
    /\ Purgeable(j)
    /\ \/ /\ outs' = [outs EXCEPT ![j] = IF inRoot[j] THEN "none" ELSE @]
          /\ status' = [status EXCEPT ![j] = "purged"]
       \/ /\ inRoot[j] /\ outs[j] # "none"
          /\ outs' = [outs EXCEPT ![j] = "left"]
          /\ UNCHANGED status
    /\ UNCHANGED <<srv, outages, req, rowCanon, single, attempts, outDir, ext,
                   valid, upload, canon, inRoot, taskVars, callVars, armed>>

\* sweep_old, daily: it globs *.wav and spares the wav_path of pending and
\* running rows.  Only files more than 24 h old go, and no task or request of
\* this process is that old (an assumption, see the README).
DailySweep ==
    /\ srv = "up"
    /\ \E old \in SUBSET {j \in Jobs : /\ pc[j] \in {"idle", "ended"}
                                       /\ call[j] # "running"
                                       /\ status[j] \notin Live} :
          /\ upload' = [j \in Jobs |-> upload[j] /\ ~(j \in old /\ ext[j] = "wav")]
          /\ canon' = [j \in Jobs |-> canon[j] /\ j \notin old]
    /\ UNCHANGED <<srv, outages, rowVars, ext, valid, outs, inRoot, taskVars,
                   callVars, armed>>

-----------------------------------------------------------------------------
(* SIGTERM, crash, restart                                                  *)

\* _sigterm_handler: fail_running_jobs, then uvicorn winds down.  Tasks run on.
Sigterm ==
    /\ srv = "up" /\ LoopFree
    /\ outages < MaxOutages
    /\ srv' = "stopping"
    /\ outages' = outages + 1
    /\ status' = [j \in Jobs |->
                    IF status[j] = "running" THEN "failed" ELSE status[j]]
    /\ UNCHANGED <<req, rowCanon, single, attempts, outDir, fileVars,
                   taskVars, callVars, armed>>

\* uvicorn has answered its requests; asyncio.run cancels every task.  Queued
\* calls are withdrawn, a call being run is left to the thread, and only a
\* task inside _run_pipeline_inner unlinks its input on the way out.
CancelTasks ==
    /\ srv = "stopping" /\ LoopFree
    /\ \A j \in Jobs : pc[j] # "staged" /\ ~armed[j]
    /\ srv' = "exiting"
    /\ upload' = [j \in Jobs |-> upload[j] /\
                    ~(pc[j] = "transcribing" /\ task[j] = "pipeline")]
    /\ canon' = [j \in Jobs |-> canon[j] /\
                    ~(pc[j] = "transcribing" /\ task[j] = "source")]
    /\ pc' = [j \in Jobs |-> IF pc[j] \in InTask THEN "ended" ELSE pc[j]]
    /\ call' = [j \in Jobs |-> IF call[j] = "running" THEN "running" ELSE "none"]
    /\ holder' = NoJob /\ waiters' = <<>> /\ active' = NoJob
    /\ UNCHANGED <<outages, rowVars, ext, valid, outs, inRoot, task, fn, armed>>

\* The process is gone; rows and files stay as they are.
Vanish ==
    /\ pc' = [j \in Jobs |-> IF pc[j] = "idle" THEN "idle" ELSE "ended"]
    /\ call' = [j \in Jobs |-> "none"]
    /\ holder' = NoJob /\ waiters' = <<>> /\ active' = NoJob
    /\ armed' = [j \in Jobs |-> FALSE]
    /\ UNCHANGED <<rowVars, fileVars, task, fn>>

\* The interpreter joins the executor thread, or launchd's ExitTimeOut kills it.
Exit ==
    /\ srv = "exiting"
    /\ srv' = "off"
    /\ Vanish
    /\ UNCHANGED outages

Crash ==
    /\ srv \notin {"off", "down"}
    /\ srv' = "down"
    /\ outages < MaxOutages
    /\ outages' = outages + 1
    /\ Vanish

\* The file the row names; a pending `.wav` row must pass the WAV check again.
RowFile(j)   == IF rowCanon[j] THEN canon[j] ELSE upload[j]
Truncated(j) == status[j] = "pending" /\ ~rowCanon[j] /\ ext[j] = "wav"
                  /\ ~valid[j]

\* Mutant: a crashed job is put back to pending instead of failed.
RecoveredToPending(j) ==
    IF status[j] = "running" THEN "pending" ELSE status[j]

\* Mutant: rows that a dead process left running are not failed.
RecoveredKeepsRunning(j) ==
    IF status[j] = "pending" /\ (~RowFile(j) \/ Truncated(j))
    THEN "failed" ELSE status[j]

\* What recover_orphans makes of row j.
Recovered(j) ==
    IF \/ status[j] = "running"
       \/ status[j] = "pending" /\ (~RowFile(j) \/ Truncated(j))
    THEN "failed" ELSE status[j]

\* recover_orphans (a truncated WAV is unlinked too), then sweep_staging.  The
\* operator may have moved MEETING_OUTPUT_DIR meanwhile.
Recover ==
    /\ srv \in {"off", "down"}
    /\ srv' = "starting"
    /\ status' = [j \in Jobs |-> Recovered(j)]
    /\ \E old \in SUBSET {j \in Jobs : Recovered(j) \notin Live} :
          /\ upload' = [j \in Jobs |-> upload[j] /\ ~Truncated(j)
                                         /\ ~(j \in old /\ ext[j] = "wav")]
          /\ canon' = [j \in Jobs |-> canon[j] /\ j \notin old]
    /\ \E moved \in BOOLEAN :
          inRoot' = [j \in Jobs |-> inRoot[j] /\ (moved => outs[j] = "none")]
    /\ UNCHANGED <<outages, req, rowCanon, single, attempts, outDir, ext,
                   valid, outs, taskVars, callVars, armed>>

\* reenqueue_pending: `.wav` paths go to _run_pipeline, others to _run_source.
Requeued(j) == status[j] = "pending" /\ attempts[j] < 3

ReenqueuePending ==
    /\ srv = "starting"
    /\ srv' = "up"
    /\ status' = [j \in Jobs |->
         IF status[j] = "pending" /\ ~Requeued(j) THEN "failed" ELSE status[j]]
    /\ pc' = [j \in Jobs |-> IF Requeued(j) THEN "created" ELSE pc[j]]
    /\ task' = [j \in Jobs |->
         IF ~Requeued(j) THEN task[j]
         ELSE IF rowCanon[j] \/ ext[j] = "wav" THEN "pipeline" ELSE "source"]
    /\ UNCHANGED <<outages, req, rowCanon, single, attempts, outDir, fileVars,
                   holder, waiters, active, callVars, armed>>

-----------------------------------------------------------------------------
LoopStep(j) ==
    \/ Submit(j) \/ StartTask(j) \/ BlockTask(j) \/ WakeTask(j)
    \/ Probed(j) \/ Timed(j) \/ Decoded(j) \/ DropUpload(j)
    \/ SourceFails(j) \/ PipelineReturns(j) \/ PipelineRaises(j) \/ CleanUp(j)

ThreadStep(j) == TakeCall(j) \/ CallReturns(j) \/ CallRaises(j)

Restart == Recover \/ ReenqueuePending

Next ==
    \/ \E j \in Jobs :
          \/ Stage(j) \/ Reject(j) \/ SubmitRaises(j) \/ LoopStep(j)
          \/ PhaseTimeout(j) \/ WatchdogFires(j)
          \/ ThreadStep(j) \/ WriteSome(j)
          \/ DeleteFiles(j) \/ DeleteRow(j) \/ Purge(j)
    \/ DailySweep
    \/ Sigterm \/ CancelTasks \/ Exit \/ Crash \/ Restart

Spec == Init /\ [][Next]_vars

\* What the code and its host guarantee: the loop runs every ready callback,
\* ffprobe, ffmpeg and the pipeline come back in the end, a stopping process
\* exits, and launchd starts a process that has crashed (KeepAlive with
\* SuccessfulExit false: one that was stopped stays off until it is started).
Fairness ==
    /\ \A j \in Jobs : WF_vars(LoopStep(j) \/ Reject(j)) /\ WF_vars(ThreadStep(j))
    /\ \A j \in Jobs : WF_vars(DeleteRow(j))
    /\ WF_vars(CancelTasks) /\ WF_vars(Exit)
    /\ WF_vars(srv # "off" /\ Restart)

FairSpec == Spec /\ Fairness

-----------------------------------------------------------------------------
(* Safety                                                                   *)

\* An accepted job is not lost while it waits: its row still names its upload,
\* which is on disk, and it has never been started.  So a restart can always
\* run it (recover_orphans fails a pending row only for a broken WAV header),
\* and no job reaches reenqueue_pending with attempts on its record.
PendingIsRunnable ==
    \A j \in Jobs : status[j] = "pending" =>
        upload[j] /\ ~rowCanon[j] /\ attempts[j] = 0

\* At most one row says running, whatever has crashed: pollers and the admin
\* page see one job in progress.
OneRunningRow ==
    \A j, k \in Jobs : status[j] = "running" /\ status[k] = "running" => j = k

\* A row says done only once all four transcript files are on disk, so download
\* never serves what a failing transcription has published; files go missing
\* under a done row (410) only by a removal, and all of them only when a DELETE
\* has removed them, which an outage may have cut short.
DoneHasOutputs ==
    \A j \in Jobs : status[j] = "done" =>
        /\ outDir[j]
        /\ \/ outs[j] \in {"all", "left"}
           \/ outs[j] = "none" /\ (armed[j] \/ outages > 0)

\* The retention sweep leaves a transcript behind the row it deletes only where
\* the root has been moved away from it: a file that resists keeps the row, and
\* is_active protects a row the watchdog failed while its thread writes on.
PurgeClearsRoot ==
    \A j \in Jobs : status[j] = "purged" => outs[j] = "none" \/ ~inRoot[j]

\* Nobody unlinks a file under the executor: while a task awaits a call that
\* has not finished, the file the call reads is on disk.
InputStaysOnDisk ==
    \A j \in Jobs : pc[j] \in Awaiting /\ call[j] \in {"queued", "running"} =>
        InputOnDisk(j)

\* The one-thread executor never serves two live tasks: a call that is waiting
\* or done belongs to the semaphore's holder, and two calls are in the executor
\* only when one of them was abandoned by a phase timeout.
ExecutorServesHolder ==
    \A j \in Jobs :
        /\ call[j] \in {"queued", "ok", "err"} => holder = j
        /\ call[j] = "running" =>
             holder = j \/ (pc[j] = "ended" /\ fn[j] \in {"probe", "decode"})
                        \/ srv = "exiting"

\* Without an outage a job that got its row leaves no upload behind when it has
\* finished, and a canonical WAV only when its decode outlived its phase timeout.
StagingReclaimed ==
    outages = 0 => \A j \in Jobs : pc[j] = "ended" /\ status[j] # "none" =>
        ~upload[j] /\ (canon[j] => fn[j] = "decode")

\* The advisory watchdog, the retention sweep, the DELETE route, the executor's
\* late result and recovery never move a job that is done, nor one that has
\* failed, to another status: only its row may go.  (set_running has no status
\* guard; while the server is stopping it can, see RunningOnlyFromPending.)
KeepsOutcome(j) ==
    /\ status[j] = "done" => status'[j] \in {"done", "deleted", "purged"}
    /\ status[j] = "failed" /\ srv # "stopping" =>
         status'[j] \in {"failed", "deleted", "purged"}

OutcomeIsFinal == [][\A j \in Jobs : KeepsOutcome(j)]_vars

\* The refinement: poll reports status, and both kinds of deletion are "gone".
Lifecycle == INSTANCE JobLifecycle WITH
    state <- [j \in Jobs |->
                IF status[j] \in {"deleted", "purged"} THEN "gone"
                ELSE status[j]],
    audio <- [j \in Jobs |-> upload[j] \/ canon[j]],
    transcript <- [j \in Jobs |-> outs[j] = "all"],
    draining <- srv = "stopping"

\* MeetingJobs implements JobLifecycle.
ImplementsLifecycle == Lifecycle!Spec

(* Liveness, under FairSpec *)

\* A pending job comes to an end, crashes and restarts notwithstanding, unless
\* the server is stopped and left off.
EveryJobSettles ==
    \A j \in Jobs :
        status[j] = "pending" ~> status[j] \in Terminal \cup NoRow \/ srv = "off"

\* A closed gate opens again: 429 is never the answer forever.
GateReopens == Locked ~> ~Locked

-----------------------------------------------------------------------------
(* What the code's comments promise and the code does not keep; each is    *)
(* refuted by the configuration beside it.                                  *)

\* runner.py C8: the submit lock makes check, INSERT and create_task one step,
\* so that a second submission is turned away while a job is accepted.
OneAcceptedJob ==
    outages = 0 =>
        \A j, k \in Jobs : status[j] \in Live /\ status[k] \in Live => j = k

\* set_running: "Transition a job from pending -> running".  A row that SIGTERM
\* failed must not come back.
RunningOnlyFromPending ==
    [][\A j \in Jobs : status[j] \in Terminal => status'[j] # "running"]_vars

\* docs/ADMIN.md, MEETING_JOB_RETENTION_DAYS: the sweep deletes the rows "and
\* their <id>.{txt,srt,vtt,json} output files".
PurgeTakesFiles == \A j \in Jobs : status[j] = "purged" => outs[j] = "none"
=============================================================================
