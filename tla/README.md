# WisprAlt in TLA+

WisprAlt is a self-hosted dictation and meeting-transcription system: a FastAPI
server on a Mac (`server/src/wispralt_server`, Python, one process, one asyncio
loop) and a menu-bar client (`client/WisprAlt`, Swift). This directory holds
the TLA+ modules that model its logic, the TLC configurations that check them on
small instances, and the theorems TLAPS proves about them for every instance.

Paths below are relative to `server/src/wispralt_server` (server) and
`client/WisprAlt` (client).

## 1. The system

### 1.1 Inventory

| Component | State it keeps | Operations | Talks to |
|---|---|---|---|
| **Transcription jobs**: `jobs/store.py`, `jobs/runner.py`, `ops/staging.py`, `ops/background.py`, `routes/meeting.py`, start-up and shutdown in `main.py` | SQLite `jobs` rows, staged audio, transcript files; in memory: one `Semaphore(1)`, a one-thread executor, `_active_job_id` | submit (429 gate), run as "pipeline" or as "source" (probe, duration, decode, pipeline), phase timeout, phase watchdog, DELETE, retention and staging sweeps, SIGTERM, orphan recovery, re-enqueue | pipeline, routes, client polling |
| **Chunked upload**: `routes/transcribe_file.py` | one directory per upload: `meta.json`, numbered parts | init, chunk, finalize (concatenate, submit as a job), 1 h sweep | jobs; client `ChunkedUploader.swift` |
| **Streaming dictation sessions**: `dictate/streaming_session.py`, `routes/dictate_stream.py` | sessions by id: owner, status, one inference task and one result per chunk index | chunk, finalize, abort, TTL sweep, abort at shutdown | Parakeet, Mercury, dictation rows |
| **Dictation delivery**: client `Server/DictationAPI.swift`, `Server/DictationStreamSession.swift`, `Storage/DictationFallbackQueue.swift`; server `routes/dictate.py`, dictation writes of `jobs/store.py` | the take being delivered; the offline queue's files; `dictations` rows with a unique dedup id | the ladder streaming, batch, cloud, offline queue; coordinator that drains the queue | the server, OpenRouter |
| **Model residency**: `meeting/pipeline.py`, `meeting/mlx_whisper_loader.py`, `meeting/diarize.py` | loaded models, flags, last use, lock | load on demand, evict when idle | runner, eviction loop |
| **Speaker merge**: `meeting/merge.py`, `meeting/silence.py` | none | pure functions on segments and turns | pipeline |
| **Authentication**: `auth.py`, `users/cache.py`, `users/store.py`, `routes/admin.py` | LRU/TTL cache of users, `api_keys` rows | lookup, put, invalidate, revoke, break-glass | every route |
| **Usage events**: `usage/queue.py`, `usage/writer.py`, `db.py` | a bounded queue, the drainer's batch, the pool | enqueue (drop oldest), batch, flush, final flush on cancel, pool rebuild | middleware, Postgres |
| **Weekly insights**: `insights/*`, `routes/admin_data.py`, the cron task of `main.py` | `weekly_insights` rows, an asyncio lock | catch-up, weekly fire, the admin's run, the script; loop over users, team pass, upsert | OpenRouter, Postgres |
| **Rate limits**: `middleware/rate_limit.py`, `ratelimit_per_token.py` | rolling windows by key | allow, reject, prune | every route |
| **History pages**: `routes/me.py`, range queries of `jobs/store.py` | the cursors a page carries | keyset pagination over two kinds of row, soft deletion, restoration, TTL sweep | browser |
| **Pending uploads**: client `Storage/PendingUploadsQueue.swift`, `Server/MeetingAPI.swift` | recordings waiting on disk, `attempts.json` | scan, submit, poll, move away | jobs |
| **Fn key**: client `Hotkeys/FNKeyMonitor.swift` | hold timer, press state | down, up, other key, timer | dictation, meeting capture |
| **Capture**: client `Capture/*` | ring buffers, recorder states, VAD | start, tap callback, stop, config change | dictation, pending uploads |
| Local stores, settings, keychain, injection, UI, updates, admin pages, OpenAI-compatible endpoint, Mercury client, telemetry, scripts | see `PROJECT.json` | | |

### 1.2 What is hard about it

* One asyncio loop, one executor thread, one thread pool for synchronous routes
  and one SQLite file are shared by everything. The loop runs a task up to its
  next `await`, so most check-then-act pairs are safe by accident of where the
  awaits are, and stop being safe when the second half runs in another task
  (`submit_or_429`), another thread (`delete_meeting`), or another process life
  (`recover_orphans`).
* A row, a staged file, a canonical file and four transcript files change one
  after the other with no transaction around them, so every crash point matters.
* Timeouts end a wait and not the work: `asyncio.wait_for` around
  `run_in_executor` leaves the thread running.
* The client may repeat anything: requests are retried, queued offline, sent by
  another path, or abandoned without a word to the server.

### 1.3 What makes each component correct

* Jobs: an accepted job is never lost while it waits; one job runs at a time;
  a job that is done has its complete transcript, and stays done; files are not
  unlinked under their reader; nothing is left under the output directory behind
  a row that has expired;
  every job ends and the gate opens again.
* Streaming sessions: the transcript is the concatenation of exactly the chunks
  0..n in order, or an error; after finalize no chunk enters; a session ends
  once and its user gets the slot back.
* Dictation delivery: one take gives at most one row, whichever paths were
  tried, and text is injected at most once; a queued take is delivered or set
  aside, never dropped.
* Chunked upload: a job is created from the complete set of parts and once.
* Model residency: the flag tells the truth, the lock is given back, idle models
  leave the memory.
* Authentication: a revoked token stops working within the TTL and one answer's
  way; an integration key is never taken for a person's; where the break-glass
  key is tried, the operator's opens.
* Usage: the queue keeps the newest events within its bound and keeps moving; an
  event is written at most once; a dead pool is replaced.
* Insights: one run at a time; spending stays near the budget; what is paid for
  is not paid for again; the schedule survives every failure.
* History: walking the pages gives every row once.

## 2. Plan

Each module has an MC module where constants need values, its runs and its
mutants; an abstract specification where a component promises something to
another; a Proofs module where an invariant is worth having for every instance.

| Module | Models | Proofs |
|---|---|---|
| `MeetingJobs`, `JobLifecycle` (abstract) | jobs, section 3 | `MeetingJobsProofs` |
| `StreamingSessions` | streaming dictation, section 4 | `StreamingSessionsProofs` |
| `DictationDelivery` | ladder, queue, rows, section 5 | `DictationDeliveryProofs` |
| `ChunkedUpload` | uploads in parts, section 6 | `ChunkedUploadProofs` |
| `TokenAuth` | tokens, cache, break-glass key, section 7 | `TokenAuthProofs` |
| `UsageEvents` | usage queue and pool, section 8 | `StoredRowsProofs`, part 1 |
| `WeeklyInsights` | the weekly runs, section 9 | `WeeklyInsightsProofs` |
| `HistoryPages` | the transcript archive, section 10 | `StoredRowsProofs`, part 2 |
| `ModelResidency` | the meeting models in memory, section 11 | `ModelResidencyProofs` |

What the plan has left: `StreamedDictation`, the client's session and recorder
composed with `StreamingSessions` (the server alone stores a whole transcript of
the chunks it has seen since it started; that these are all the chunks of the
take rests on the client, which waits for every acknowledgement);
`PendingUploads`, the client's queue of recordings composed with `MeetingJobs`;
`FnKey` and `MeetingCapture`, the client's other state machines.

Every safety property of the passing runs, invariant or action property, and
the refinement of `JobLifecycle` have a theorem, under the assumptions on the
constants that the modules state and those a theorem names. What stays with TLC
is liveness: `UploadEnds`, `DirectoryGoes`, `TakeEnds`, `EntrySettles`,
`EveryJobSettles`, `ThreadReturns`, `IdleIsEvicted`, `SessionEnds`,
`PoolReturns`, `QueueMoves` and `CronReturns` rest on fairness, and so on
ENABLED, which the prover does not handle. The claims of section 12 are
refuted on small instances, and the refuted run has no theorem.

Two of the proofs need induction over finite sets. The library states it for a
predicate, which the provers cannot instantiate; `SubsetInduction` states it for
a set of subsets, from the well-foundedness of the strict subset relation.

A type invariant that is proved is not checked again by a run; nor are
`OutcomeIsFinal`, `StoredStaysStored`, `OneDrainer` and `LoopSeesJob`, which hold
for every instance by their theorems. A violated claim of a document or a comment
has its definition in the module and a configuration beside it; section 12
lists them.

## 3. MeetingJobs

### 3.1 State and actions

| In the module | In the code |
|---|---|
| `status`, `req`, `rowCanon`, `single`, `attempts`, `outDir` | columns of `jobs`; each write is one autocommitted `JobStore._exec` |
| `upload`, `canon`, `outs` | the staged upload, the canonical WAV, the four transcript files (`"left"`: what a removal that did not finish has spared) |
| `inRoot` | those files lie under the `MEETING_OUTPUT_DIR` of the present process |
| `task`, `pc` | the coroutine `_run_pipeline` or `_run_source`, and the await it stands at |
| `holder`, `waiters` | `self._semaphore` and its FIFO of futures |
| `fn`, `call` | the call submitted to the one-thread executor, and its future |
| `active` | `_active_job_id` |
| `armed` | `delete_meeting` between its unlinks and `store.delete` |
| `srv` | the process: serving, stopping after SIGTERM, exiting, off, crashed, starting |

`Stage`, `Submit`, `Reject`, `SubmitRaises` are a POST; `StartTask`, `BlockTask`, `WakeTask` the
semaphore; `Probed`, `Timed`, `Decoded`, `DropUpload`, `PipelineReturns`,
`PipelineRaises`, `SourceFails`, `PhaseTimeout`, `CleanUp` the coroutines from
await to await; `WatchdogFires` the phase watchdog; `TakeCall`, `WriteSome`,
`CallReturns`, `CallRaises` the executor thread; `DeleteFiles`, `DeleteRow`,
`Purge`, `DailySweep` the DELETE route and the sweeps; `Sigterm`, `CancelTasks`,
`Exit`, `Crash`, `Recover`, `ReenqueuePending` the life of the process.

Two stretches of loop code write several durable things in a row (row then
unlink after a decode; row then unlink at the end). They are cut there, so that
a crash or a thread-pool route can fall in between, and `LoopFree` keeps other
loop code out of the cut.

Choices a reader should know:

* Newly created tasks start in any order (asyncio starts them in FIFO order):
  the model has more behaviours than the loop.
* The shutdown path. `_sigterm_handler` looks for `app.state.uvicorn_server`,
  which nothing sets, and raises SIGINT; uvicorn stops gracefully and
  `asyncio.run` cancels the tasks that are left. A SIGTERM before the handler is
  installed is a `Crash`. A clean exit leaves the server `off`: launchd restarts
  only after an unsuccessful exit.
* Age is left to chance in `Purge` and `DailySweep`, except that nothing belonging to
  a live request or task is 24 h old.
* Less than 2 GiB of memory is one more reason for `Reject`.
* `set_cancel_requested` has no caller, so `StagingCancelled` cannot happen and
  is left out. Phase names and chunk counters are left out: they decide only
  when the watchdog fires, which is left to chance.
* A media file staged just before a crash leaves no row and no `.wav` name, so no
  sweep removes it; the model shows it (`StagingReclaimed` speaks of
  behaviours without an outage only). The routes catch `MeetingInProgressError`
  alone: when `store.create` raises anything else (`SubmitRaises`), the staged
  upload stays in the same way, and `StagingReclaimed` speaks of jobs that got
  their row.
* `Purge` is one expired row of `sweep_old_meetings`, with each way it can go
  (`ops/background.py:74-86`). The files lie under the root: all are removed and
  the row goes; or one of them resists, or the process dies before
  `delete_finished_jobs`, and the row is kept with what is left, for the next
  sweep. The files lie elsewhere, because `MEETING_OUTPUT_DIR` has been moved
  since they were written (`Recover` may move it): they stay and the row goes.
  For a done row that is the guard on `output_dir`, which the docstring names; a
  failed row names no directory, so the sweep looks in the root of today and
  finds nothing to remove. `DeleteFiles` may leave files too: that route logs the
  failure and deletes the row.
* A DELETE of a job still being transcribed removes the row, and what its thread
  publishes afterwards stays on disk although `delete_meeting` says it removes
  "all associated output files". The model has these behaviours; no run is spent
  on them.

### 3.2 Runs

| Run | Question | Size |
|---|---|---|
| `jobs_safety` | do rows, files, semaphore and executor stay consistent, and implement `JobLifecycle`? | 2 jobs, four kinds of upload, 1 outage; 0.94 M states |
| `jobs_liveness` | does every job end? | 2 jobs, 2 kinds of upload, 1 outage |

Two jobs are enough to contend for one semaphore and one thread: a third would
only queue behind the second. One outage (`MaxOutages`) allows a crash at every point,
including while stopping or in recovery of nothing; what a second crash could
find is a state that recovery leaves, which is again a state of idle jobs.
Deadlock is not checked: an idle server with every job settled waits.

Fairness (`Fairness`): the loop runs every ready callback (`LoopStep`, or
`Reject` for a request that is refused); the executor's calls come back
(`ffprobe` and `ffmpeg` have timeouts of their own; that the pipeline returns is
assumed); a DELETE in progress goes on; a stopping process exits; launchd starts
a process that crashed. Nothing makes a client submit, the watchdog or a timeout
fire, or an operator start a server that is off.

### 3.3 Theorems (`MeetingJobsProofs`)

All are proved for any set of jobs, any kinds of upload and any number of
outages, from `JobsAssumption` alone.

* `TypeCorrect`: `Spec => []TypeOK`.
* `PendingRunnable`: `Spec => []PendingIsRunnable`. The property is not inductive:
  a row becomes pending in `Submit`, so one must know that what is staged has its upload
  and was never started (`Unsubmitted`, `StagedHasUpload`), and every unlink of an
  upload happens in a task that holds the semaphore, whose row is no longer
  pending (`HoldingIsStarted`). The conjunction `WaitingInv` is inductive
  (`WaitingStep`). A consequence: the re-enqueue path for a canonical `.wav`,
  and the `attempts >= 3` guard, are never reached.
* `OneRunning`: `Spec => []OneRunningRow`. Two running rows are excluded because
  while the loop runs, a running row belongs to the holder of the semaphore
  (`RunningHolds`), the holder is exactly the task at a holding place
  (`SlotIsHeld`), and a task that is cleaning up has settled its row
  (`CleaningIsOver`). `SlotInv` is inductive relative to `WaitingInv`.
* `OutcomesFinal`: `Spec => OutcomeIsFinal`. What a row can say at each place of
  its task (`RowFollowsTask`) is inductive; it excludes every write over a
  settled row except the second `set_running`, and that one is possible only
  while the server is stopping.

The others rest on `JobsInv`, which joins four invariants to these, each with one
lemma for its steps, so that a step is looked at once for each of them.

* `ExecutorForHolder`: `Spec => []ExecutorServesHolder`. `ExecutorInv` says that
  a call in the executor belongs to a task that awaits just this call, unless a
  timeout or the end of the process has given it up, and that no task is left when
  the process is down.
* `InputOnDiskForCall`: `Spec => []InputStaysOnDisk`. `TaskHasInput` follows the
  upload and the canonical WAV through a task: every unlink by a sweep, a DELETE
  or the task itself comes after the call that reads the file.
* `DoneIsComplete`: `Spec => []DoneHasOutputs`. `OutputInv` adds that a
  transcription which has its result has written the four files
  (`ResultHasOutputs`). A done row keeps them until a removal begins; a sweep
  that does not finish leaves some of them under it, and only a DELETE takes them
  all while the row says done.
* `PurgeCompleteInRoot`: `Spec => []PurgeClearsRoot`. Behind a row that the
  retention sweep has deleted nothing is left under the present root, whichever
  removal failed before; `OutputInv` needs that such a job is past its last await,
  with no call left that writes a transcript (`PurgedIsOver`). Files outside the
  root do stay: that they go as well is a claim of section 12.
* `StagingIsReclaimed`: `Spec => []StagingReclaimed`. `CanonIsDecoded` says whose
  canonical WAV can exist, `RowAppears` that only a submission gives a job its row.
* `JobsImplementLifecycle`: `Spec => ImplementsLifecycle`. `EveryRowMoves` says
  what each action can do to a row's status; `LifecycleStep` that with `JobsInv`
  this is a step of `JobLifecycle` or leaves its variables alone. `JobsInv` is needed
  for `OneAtATime`, and to exclude writes over a settled row outside a shutdown.

`SetStatusType`, `SetFailedType` and `SetRunningType` are lemmas on the row
updates. `EveryJobSettles` is model-checked only.

### 3.4 Seen in the model, without a run

* `reenqueue_pending` routes a pending `.wav` upload of `/transcribe/file` to
  `_run_pipeline`, as a meeting recording with diarization, although
  `runner.py:14-15` calls `request_mode` "the source of truth for diarization
  routing" (`PipelineSingle`, `Requeued`).
* A timeout of ffprobe or ffmpeg ends the wait and frees the semaphore while the
  executor's thread keeps running the call, so the next job starts and waits
  behind it, although `runner.py:432-435` says "a hung ffmpeg cannot eat the
  executor forever" (`PhaseTimeout`). That the subprocess has a timeout of its
  own is what `EveryJobSettles` rests on.
* After a crash between the decode and `update_after_transcode` the job is
  failed, because its row says running; `runner.py:447-451` says that
  `recover_orphans` "re-runs the source through ffmpeg" (`Recovered`).

## 4. StreamingSessions

### 4.1 State and actions

| In the module | In the code |
|---|---|
| `status`, `owner`, `length` | `StreamingSession.status`, `owner_api_key_id`, `cumulative_audio_ms`; "none" for an id that is not in `_sessions` |
| `slot`, `audio`, `texts` | `pending_tasks[index]`: the state of the Task, and which audio it transcribes; `partial_texts[index]`: whose text it is |
| `queue` | the work queue of the one-thread Parakeet executor |
| `reading` | chunk requests between `open_or_get` and the end of their body |
| `fin`, `snap`, `tailAt`, `joined` | the finalize handler: the await it stands at, and its locals `pending_snapshot`, `tail_index`, `joined` |
| `rows` | the `dictations` row under the take's dedup id |
| `posted`, `acked` | what clients have sent, and had answered with 202 |

A text is an element of `Takes`: "first" for the chunk first sent under an index,
"again" for a repetition, "tail" for the tail. That is all the properties tell
apart. `OpenChunk`, `AcceptChunk` and `RefuseChunk` are `stream_chunk` before and
after the read of its body; `InferenceDone`, `InferenceFails` and
`DropCancelled` the executor's thread with `_run`; `BeginFinalize`, `AcceptTail`,
`RefuseTail`, `Drained`, `DrainedWithGap`, `DrainFails`, `DrainTimesOut`,
`Insert`, `InsertFails` and `Answer` the finalize from await to await; `Sweep` the
sweeper; `Restart` a shutdown or a crash.

Choices a reader should know:

* `session.lock` and `_store_lock` are never held across an await, so on one
  loop nobody ever finds them taken. A critical section is a part of the
  action it stands in, and the sweeper's test of `lock.locked()` is always false.
* A session swept, aborted or finalized stays registered (`remove` has no
  caller), so its id is answered 410 until a restart.
* `InferenceFails` and `RefuseTail` leave the other Tasks alone; `Sweep` cancels
  all; `DrainTimesOut` cancels those the gather awaits. Cancelled calls stay in
  `queue` until the thread reaches them.
* `Repeats` says whether clients may send an index twice. The client of this
  repository does not: it counts `nextIndex` up and never retries a chunk.
* A session id stands for its take, so `rows` is indexed by session.
* With `Repeats` the later of two inferences for one index wins the text, where
  `docs/API.md:235` says the first arrival does. After a restart the next chunk
  of a lost session opens it anew and is answered 202, where
  `docs/ARCHITECTURE.md:335` says 410; the gap makes its finalize a 409, so
  `PersistedIsWhole` holds all the same. No run is spent on either.
* A session aborted by a refused tail or a failed inference leaves its other
  inferences queued and gives its slot away, so `max_active` does not bound the
  executor's queue; `config.py:90` says it protects the executor "from queue
  depth blow-up". The model has it; no run is spent on it.

### 4.2 Runs

| Run | Question | Size |
|---|---|---|
| `streaming` | is what is stored whole, does a session end, and once, do the caps hold? | 2 sessions of 1 user, 1 slot, 2 chunks and a tail, 1 restart; 0.58 M states |

Two chunks and a tail are the fewest in which a gap has a text on both sides, a
chunk can be overtaken by another, and one of two Tasks can fail. Two sessions
share the executor's queue, so that a session's inferences wait behind another's;
more users, slots and sessions are what `CapsHold` proves. One
restart separates a session's chunks into lost and kept. `Durations` has one
value: with `ChunkCap` and `TotalCap` it lets both refusals for length happen.
Deadlock is not checked: a server without requests waits.

Fairness: the executor's calls come back (`Execute`), the body of a finalize
arrives or its connection ends, the drain ends by one of its four outcomes, the
insert returns or raises, the handler answers, and an active session is swept.
The last holds only when its clients fall silent, because a chunk refreshes
`last_seen`; the run therefore has `Repeats = FALSE`, where each client
has finitely many chunks to send. Nothing makes a client finalize: an abandoned
session ends by the sweep.

### 4.3 Theorems (`StreamingSessionsProofs`)

All are proved for any sessions, users, chunks, caps and restarts.

* `SessionsTypeCorrect`: `Spec => []TypeOK`.
* `CapsHold`: `Spec => []SlotsWithinCap`. `CapInv` adds that finitely many sessions
  occupy a slot; every action but `OpenChunk` keeps or shrinks that set
  (`KeepsSlots`, `CapKept`), and `OpenChunk` adds one when there is room
  (`CapAfterOpening`).
* `PersistedWhole`: `Spec => PersistedIsWhole`, and `EndsOnce`:
  `Spec => SessionEndsOnce`, both when no index is sent twice (`~Repeats`). They
  rest on `HandlerInv`, inductive relative to `TypeOK`, with one lemma for each
  action (`InvOpenChunk` ... `InvRestart`). What it has to know: a queued call
  belongs to the one Task that awaits it (`QueueMatches`), so a late call cannot
  write into a slot that is over; the snapshot is all the chunks, and stays so
  because no chunk is accepted after it (`SnapshotIsChunks`); the tail is the
  last Task (`TailIsLast`); a session aborted under its handler has a failed Task
  which the gather will find, and a session whose texts are joined has no Task
  left that could fail (`AbortIsSeen`); what is joined is whole (`JoinedIsWhole`).

`SessionEnds` is model-checked only. So is whatever happens when indices are
repeated.

## 5. DictationDelivery

### 5.1 State and actions

| In the module | In the code |
|---|---|
| `streamed` | takes whose recorder had a streaming session: `clientDedupId` goes along on every path |
| `phase`, `error`, `text` | where `DictationAPI.transcribe` stands, what it threw, what was injected |
| `wake`, `drain` | a detached Task that calls `drain()`; the one `drainOnce` in flight and what is left of its batch |
| `queue`, `swapped`, `setAside`, `tries`, `old` | the `.json` files, the `.json.tmp` of a rewrite, `failed/`, `retry_count`, entries older than 7 days |
| `calls`, `posts` | finalize and batch requests, and telemetry batches, at the server; nobody may be waiting for them any more |
| `persists` | `app.state.pending_persists` |
| `rows` | the `dictations` rows of these takes: one element for each take and path that inserted one |

`Begin`, `ConnectionFails`, `Refuse`, `Retry`, `CloudAnswers`, `CloudFails` are
the ladder from request to request, with `Rung` for where a failure leads;
`FinalizeServed`, `DictateServed` and `Persist` the server's two routes;
`DrainStart` to `SwapIn` the client's drain from file operation to file
operation; `IngestOne`, `Accept`, `Reject`, `PostErrors` the telemetry route item
by item; `Kill` the end of the client's process and `Restart` of the server's.

Choices a reader should know:

* A request reaches the server or not, and the client waits either way. It may
  give up (`ConnectionFails`) with its request still being served; the answer
  then goes nowhere and the row is written all the same. Which failures count
  as offline is `IsOffline`; whether a timeout was longer than 30 s is left to
  chance.
* `retryOnReset` of `ServerClient.execute` catches `URLError`, and
  `performRequest` throws `ServerError.transport`: that retry never happens and
  is left out.
* A text is words, blank (white space) or empty. The routes skip or refuse the
  latter two in different places: `/transcribe/dictate` stores neither,
  `/finalize` stores any, the telemetry route skips blank items and answers 422 for a batch with
  an empty one, which then uses up the attempts of the entries sent along.
* The order of the queue's files is left out: a batch is any set of up to
  `BatchLimit` entries. Two equal batches at the server are one element of
  `posts`; the second could only find every row there.
* The file operations never fail, except where `WritesFail` says so. A client
  without an API key does not drain and is left out, as are entry files that do
  not parse, which nothing writes, and the break-glass user, who has no rows.
* A rewrite of an entry removes the old file before it moves the new one in
  place. A kill in between leaves a `.json.tmp` that nothing reads, although
  line 419 calls the swap atomic; `EntrySettles` excepts this entry.
* `Restart` is a shutdown that abandoned the persists still pending after 2 s,
  or a crash.

### 5.2 Runs

| Run | Question | Size |
|---|---|---|
| `delivery_ladder` | at most one row for a streamed take? are delivered words always somewhere? does every take end? | 1 take, 2 requests at the server at a time, 1 restart; 29 k states |
| `delivery_batches` | does an entry leave the queue, and only into the history or `failed/`? | 2 takes, batches of 2, 2 attempts, 1 kill, the origin unreachable for dictations; 0.41 M states |

Takes share nothing but the queue and its batches, so one take shows the ladder
with all its late requests: two at a time are enough for a late write of each
path to fall before and after every other. Two entries are the fewest of which
one can be invalid and the other innocent. `MaxCalls = 0` in the batches run means
that no dictation request reaches the origin, so that every take goes to the cloud:
the rows that requests write are the ladder run's question. `MaxAttempts = 2`
stands for 5: a first attempt that is not the last.

Fairness: every wait of the client ends (all its requests have timeouts), a
persist runs, the user comes back to the app again and again (`Foreground`), a
drain in flight goes on. `EntrySettles` needs more: that a drain's request
reaches the server, and its answer the client, again and again (strong
fairness of `DrainStart(TRUE)` and `Settle`). Without it an entry stays until it
is 7 days old, and a drain then sets it aside; the run does not rely on
`Age`, for which no fairness is assumed.
Deadlock is not checked: the client waits for the user.

### 5.3 Theorems (`DictationDeliveryProofs`)

All are proved for any takes, limits, kills and restarts.

* `DeliveryTypeCorrect`: `Spec => []TypeOK`. `tries < MaxAttempts` is not
  inductive alone: `Placed` says where an entry is while the drain works on it,
  and that the one being rewritten has an attempt left.
* `OneRowPerTake`: `Spec => []AtMostOneRow`. `Named` says that no two rows
  share an id, that requests and rows belong to takes that have begun (so a
  take does not become streamed after the fact), and that a text is there
  only after delivery; each insert keeps the ids apart (`InsertKeepsIds`).
* `EntriesAreAccountedFor`: `Spec => EntriesEndWell`, when no write fails
  (`~WritesFail`) and no client's clock is over 5 minutes fast (`Skewed = {}`).
  `Deleted` says that what is being deleted has its row, which holds from the
  2xx on, because rows are never removed.

* `WordsAreTraced`: `Spec => []DeliveredIsTraced`, under the same two
  assumptions. It is inductive together with `Deleted` and `Placed`: an entry
  leaves the queue only for `failed/`, or because its row is there.

`TakeEnds` and `EntrySettles` are model-checked only.

## 6. ChunkedUpload

### 6.1 State and actions

| In the module | In the code |
|---|---|
| `pc`, `at` | where `ChunkedUploader.upload` stands, and the chunk and attempt it waits for |
| `req`, `fh`, `pos` | each request of a chunk: on its way or with its handler; the file the handler has open, and its offset in it |
| `dir` | `staging/chunked/<upload_id>` with its `meta.json` |
| `tmp`, `part`, `data` | the file under each `.part.tmp` and `.part` name, and what the files hold |
| `stale`, `sweeping` | `meta.json` is over 1 h old; `sweep_chunked` between its check and its `rmtree` |
| `fin`, `copied`, `blob`, `out` | the finalize handler, the progress of `_concat_chunks`, what it copied, and the assembled file |

`InitServed` to `Cancel` are the client; `OpenTmp`, `WriteBlock`, `Cut`,
`Publish`, `PublishFails` and `RefuseChunk` the chunk route from await to await;
`BeginConcat` to `Submitted` and `SubmitRaises` the finalize route and its thread; `Age`,
`SweepFinds`, `SweepRemoves` the sweep.

Choices a reader should know:

* A file is an object and its name a link to it, as in the file system: opening
  a name that exists empties the file behind it, whoever else has it open, and a
  rename or an unlink moves the name. A file is named after the request that
  created it. Contents are the set of blocks written; the others are holes.
* A client that gives a request up tells the server nothing it must notice
  soon: through a proxy the handler may read on. It may also be `Cut`.
* `Overtake` says whether a request may reach the server after a later one of
  the same upload. The runs and the theorems take it to be false. With it
  true, `AssembledIsWhole` fails: the first attempt, opened after the second was
  answered, empties and renames a file of the right size with a hole, which
  the check of sizes at finalize cannot see.
* The sweep can take the directory of a live upload: `meta.json` is touched when
  a chunk ends and not while its body is read, so a chunk slower than 1 h, or one
  that ends between the sweep's check and its `rmtree`, loses it, although
  `ops/staging.py:200-202` says that an actively uploading client "never has its
  dir reaped underneath it". The client then gets an error; the properties
  about parts speak of an upload whose directory is there.
* Copying a part and unlinking it is one step: the handler's later cleanup is
  the same wherever a copy fails. `rmtree` is one step.
* Refusals for owner, index, size, disk, memory, or a runner that is busy are
  left to chance. A runner that is busy costs the client all its chunks:
  `OutOfGate` removes them, as the comment R-C says.
* A restart during the concatenation leaves the assembled file, which the
  sweep of staged files removes only when it ends in `.wav`. So does a submission
  that raises anything but the 429 (`SubmitRaises`; `store.create` when SQLite
  fails, for one): `routes/transcribe_file.py:606` catches `MeetingInProgressError`
  alone, the client has a 500, the directory stays until the sweep of 1 h and the
  assembled file for ever unless it ends in `.wav`. `NothingLeftBehind` says that
  there is no third way to strand it, and that a finalize which has taken parts
  and ended otherwise leaves no directory.

### 6.2 Runs

| Run | Question | Size |
|---|---|---|
| `chunked_upload` | is what is submitted whole, is everything cleaned up, does everything end? | 2 chunks, 2 blocks, 1 restart; 57 k states |

Two chunks give an acknowledged one beside one under way; two blocks are the
fewest for a file of the right length with a hole. Attempts are two in the code.
A part can be published with holes (`PublishedIsWhole`, section 12). It stays
harmless for the transcript, by `AssembledWhole`: the retry that was robbed of its name fails with 500
and ends the upload.

Fairness: each wait of the client ends (`Retry`, `GiveUp`: all its requests have
timeouts), a request arrives or is lost, handlers and threads go on, and an
upload without progress grows old while the sweep comes round daily.
Nothing makes a user cancel. Deadlock is not checked: an upload ends.

### 6.3 Theorems (`ChunkedUploadProofs`)

For any number of chunks, blocks and restarts; `StoredStays` and `AssembledWhole`
when no request overtakes a later one (`~Overtake`).

* `UploadTypeCorrect`: `Spec => []TypeOK`.
* `StoredStays`: `Spec => []StoredStaysStored`, and `AssembledWhole`:
  `Spec => []AssembledIsWhole`. Both rest on `UploadInv`, inductive relative to
  `TypeOK`, with a lemma for each action or group of actions. `CurrentHoldsFile`:
  the request the client waits for was the last to empty its file, has written
  all blocks up to its offset, and its name, if it has one, still names that
  file, since earlier requests are no longer on their way and there are no
  later ones. So what it publishes is whole, whoever else writes to it.
  `SentInOrder`: from then on no request of that chunk can be opened, so
  nothing empties the part or takes its place (`AckedIsStored`), and every copy is
  whole (`CopiedIsWhole`).

* `NothingIsLeft`: `Spec => []NothingLeftBehind`, whether requests overtake one
  another or not: only a submission that raised, and a restart, strand the
  assembled file or a directory whose parts were taken. `OutFollowsFinalize` says
  at which places of the finalize route the file exists, which is while parts are
  copied or after the submission raised; each other way out passes a removal or a
  submission.

`UploadEnds` and `DirectoryGoes` are model-checked only.

## 7. TokenAuth

### 7.1 State and actions

| In the module | In the code |
|---|---|
| `users` | the rows of `wispralt.users`: hash, revocation, kind |
| `items` | `TokenCache._items`, in its order, with the age of each entry |
| `at`, `token`, `got`, `wait` | a request at one of the doors: where it stands, what it shows, what Postgres answered, and how long ago |
| `desk` | an admin page between its commit and what it still has to do |
| `env`, `glass` | `WISPRALT_API_KEY` in `.env`; `app.state.break_glass_token_hash` |
| `rot`, `blocked` | a call of `/admin/rotate-key`; the loop's thread waits for `_rotate_lock` |
| `made`, `known`, `gone` | which tokens have been in a row, have been shown to somebody, have ceased to be valid, and how long ago |

`Show`, `Read`, `Resolve`, `Degraded` and `Unanswered` are
`_resolve_token_user` and the doors around it (`require_api_key`, `/admin/login`, `/me/login`); `Mint`, `SetKind`,
`Revoke`, `Rotate` and `Invalidate` the admin's pages from await to await;
`BeginRotation`, `BlockLoop`, `UpdateRow` and `EndRotation` the rotation of the
break-glass key; `Tick` and `Restart` the clock and the process.

Choices a reader should know:

* A token stands for its plaintext and its hash. `Lookup` is one SELECT; its
  answer may be up to `Transit` ticks on its way, which is what a revocation can
  fall into. Roles, labels, cookies and CSRF tokens are left out.
* `login_submit` grants the break-glass key also when Postgres answers "no row",
  `require_api_key` only when Postgres does not answer. `admin.py:141-143` says
  that a failed UPDATE is harmless because the new key is the break-glass key;
  at the API it is not accepted for as long as Postgres answers "no row".
* A lookup that brings no answer ends in one of two ways. There is no pool, or
  it raises a `PostgresError` or an `InterfaceError`: `Degraded`, and the API and
  the admin form try the break-glass key. It raises anything else, as a
  `TimeoutError` of `command_timeout` or an `OSError` of the connection:
  `Unanswered`, a 500 at every door, with the break-glass key not tried
  (`auth.py:182` and `routes/admin_ui.py:154` name two classes; `db.py:98`, in the
  same program, names the other two as well). `BreakGlassOpens` is about the
  first; that the operator gets in whatever keeps Postgres from answering is a
  claim of section 12.
* `set_current_key` has no reader and is left out.

### 7.2 Runs

| Run | Question | Size |
|---|---|---|
| `token_auth` | how long does a dead token work, can an integration key pass for a person's, does the break-glass key open where it is tried? | 2 users, 3 tokens, 1 request, 1 page, 2 rotations, cache of 2, TTL and transit of 1 tick, 1 restart |
| `auth_rotation` | does a rotation end, as C10 says? Refuted: see "findings" | the same, with fairness |

Three tokens let a token be replaced twice; the cache of two evicts. A second
request at the same time could only find the cache as another left it. The two
tokens that are not the first are interchangeable (`FreshSymmetry`).

### 7.3 Theorems (`TokenAuthProofs`)

All are proved for any users, tokens, requests, TTL, transit, rotations and
restarts, and any capacity of the cache.

* `TypeCorrect`: `Spec => []TypeOK`, with the bound on the cache. An entry is taken
  out of the cache's sequence, appended to it again, or trimmed off its head;
  `WithoutIsAmong`, `GetIsAmong` and `PutIsAmong` say that what is left was there
  before or is the one new entry.
* `GlassIsEnv`: `Spec => BreakGlassOpens`. A request that was turned away by a door
  which tried the break-glass key did not show the key of `.env`, outside a
  rotation (`TurnedAwayByServe`). `GlassInv` says that at most one rotation is under way and its new token is the one in `.env`, so that the
  hash in memory is that of `.env` outside a rotation; a crash in the middle is no
  exception, because the start reads `.env` again.
* `KindsAgree`: `Spec => []KeysKeepKind`, and `GoneTokensAreRefused`:
  `Spec => GoneTokensFade`. Both rest on `AuthInv` (`AuthInvariant`). `RowInv`: no
  two rows share a hash, a rotation brings a token that was never in a row, and a
  page that is to set a row's kind has minted its token and not shown it yet. So the
  kind that an answer or an entry of the cache carries is the row's (`KindIs`).
  `AnswerInv` and `EntryInv` bound how long a token can have been gone: an answer on
  its way is no older than `wait`, an entry of age `a` is no staler than
  `a + Transit`, and reading an entry does not make it younger. A request served
  from either has a token gone for at most `Ttl + Transit`.

## 8. UsageEvents

### 8.1 State and actions

| In the module | In the code |
|---|---|
| `queue`, `offered` | `UsageEventQueue._q`; events the middleware has offered |
| `drainer`, `batch` | each drain loop, by the pool it was started with: the await it stands at, and its batch |
| `pools`, `poolGlobal`, `appPool` | every pool made; `db._pool`; `app.state.db_pool` |
| `appDrainer`, `watcher` | `app.state.usage_drainer`; the await `db_watcher_loop` stands at |
| `rows` | how often each event is in `wispralt.usage_events` |
| `postgres`, `phase` | the database; how far lifespan's shutdown has got |

`Offer` is the middleware; `Take`, `Wake`, `BeginFlush`, `EndFlush` and
`FinalFlush` the drain loop; `ProbeFails`, `OldClosed`, `CreateFails`, `Created`
and `Awaited` the watcher's rebuild; `BeginShutdown`, `ShutDrainer`, `ShutPool`
and `Kill` the end.

Choices a reader should know:

* A flush can commit and raise all the same, the answer being lost; it can be
  cancelled before or after its commit.
* `asyncio.wait_for` of Python 3.11 can swallow a cancellation that arrives with
  an event: the loop goes on, and the watcher that awaits its end waits for
  ever. `PoolReturns` therefore has the premise that the watcher is not held up,
  and `WatcherGoesOn` is refuted (section 12).
* When seeding the admin row fails after the pool was published, no drain loop
  is started before the next rebuild; hence the premise of `QueueMoves`.
* The retry of a batch without the events of deleted users is left out: an
  event is a model value.

### 8.2 Run

`usage_events`: three events, a queue and batches of two, two pools, one outage,
a shutdown at any point. Three events fill the queue beyond its bound; two pools
are the fewest for a replacement. Fairness: the loops run, Postgres answers or
the call fails, an outage ends (`Fairness`); nothing makes a shutdown begin.

### 8.3 Theorems (`StoredRowsProofs`, part 1)

For any events, bounds, pools and outages: `UsageTypeCorrect`
(`Spec => []TypeOK`), `EventsSavedOnce` (`Spec => []SavedOnce`) and `DrainsAlone`
(`Spec => []OneDrainer`). An event is in one place only: `UsageInv` says that it
is either not offered, or once in the queue, or once in one batch, or stored,
and that at most one loop is alive; with it, no batch that has been inserted is
tried again (`Remains`). `Gathered` states what `get_nowait` takes and leaves.

## 9. WeeklyInsights

### 9.1 State and actions

| In the module | In the code |
|---|---|
| `now`, `day` | the ISO week in progress; its first 72 hours, the days to Sunday 23:00, its last hour |
| `cron`, `nextFire` | `_weekly_insights_cron`: where it stands, the Sunday it sleeps to |
| `run` | the one run of the server's cron task (or of the script) and of a click: place, week, users left, spending at its start and in it |
| `spawned`, `byHand` | tasks of clicks that have not run yet |
| `person`, `team` | `weekly_insights` by scope: cost, week written, run |
| `srv`, `boots`, `bootAt` | the process |

`CatchUp`, `Fire`, `Click`, `ClickRuns` and `Script` start runs; `Fetch`, `Visit`,
`Answer`, `CloseLoop` and `TeamAnswer` are a run from await to await; `Boot`,
`Stop`, `Interrupt` and `ClockTicks` the rest.

Choices a reader should know:

* The lock is `LockFree`: it is looked at and taken without an await between.
  The script takes no lock. `insights/cron.py:83-84` and `:578` say that nothing
  else runs then; nothing enforces it, and `docs/ARCHITECTURE.md:823-825` offers
  `--manual` without saying so. It is modelled while the server is off, and
  `KeepsRows` and `SpendNearCap` assume it: beside a running server two runs
  could ask for one person's digest, and spend from the same reading of the sum.
* Whether a `Quiet` person has enough transcripts, and what the model answers, is
  left to chance (everybody is quiet in the passing run). Only errors of the
  client's own kind are caught per person; any other exception ends the run
  (`Fails`).
* The money spent on an answer that is no JSON is in no row, and a replaced
  row's cost is gone from the sum: `SpendNearCap` speaks, as the code does, of
  what the rows say.
* `routes/admin_data.py:259-260` and `docs/API.md:693` speak of the week in
  progress; the route takes the last full one. `docs/API.md:695` says that the
  skip of persons with a row prevents double billing; the route passes
  `force=True`, which turns the skip off.
* The documents disagree on what a second run of a week does to a stored digest.
  `insights/cron.py:14-15` says that the person is skipped, which is what the code
  does and `KeepsRows` proves. `docs/API.md:720`, `docs/ADMIN.md:155-157`,
  `docs/ARCHITECTURE.md:821-825`, `insights/cron.py:62-63` and
  `routes/admin_data.py:325-326` say that the Sunday fire, a catch-up or the script
  replaces the row: after a click, the fire for the same week leaves the click's
  digests as they are. `RerunReplaces` states it, and section 12 lists it.

### 9.2 Run

`weekly_insights`: two people, two weeks, a budget of 2 with costs 1 and 2, one
restart, one click or script. Two people are the fewest for a check between
users; the window of the budget is two weeks, so that rows leave it. Fairness:
every await of a run ends, and the loop runs what is ready; nothing is assumed
of the clock, of clicks or of restarts.

### 9.3 Theorems (`WeeklyInsightsProofs`)

For any finite set of people, and any weeks, budget, window, restarts, clicks and
scripts. `InsightsAssumption` says of the costs that one of them is positive and
the largest: `max_tokens` bounds what an answer can cost. An answer may cost
nothing, as one does whose usage OpenRouter leaves out.

* `TypeCorrect`: `Spec => []TypeOK`, and `RowsKept`: `Spec => KeepsRows`: a run that
  is not forced never replaces a digest, against five of the documents' sentences
  (section 12). `KeptInv` says that at most one run is under way (`OneRun`) and that a run
  which awaits an answer is forced or has found no row of that person, and still
  has none, because nobody else writes rows (`Asking`).
* `SpendStaysNearCap`: `Spec => []SpendNearCap`. `SpendOK` adds what each run has
  counted (`Counted`): the rows of the window tell of no more than the run's base
  and its own spending, and it asks only below the budget. So a person's answer
  takes the sum to less than the budget and one answer, the team's answer, which is
  asked for without another look, to less than the budget and two. A week that
  passes, or a row that is replaced, only lowers the sum.

The spending is a sum over rows, the fold `SumFunction` of the community module.
The first part of the module proves, by `SubsetInduction`, that the recursive
function behind it exists, that it does not matter in which order it takes the
elements, and how it changes with one row (`SumWithOne`, `SpentWithPerson`,
`SpentWithTeam`). `CronReturns` is model-checked only.

## 10. HistoryPages

### 10.1 State and actions

| In the module | In the code |
|---|---|
| `made`, `ended`, `swept`, `deleted`, `nextId` | `created_at`, `finished_at`, `transcript_text`, `deleted_at` of dictations and jobs; AUTOINCREMENT |
| `kind`, `cursor`, `more`, `pages`, `shown` | the browser's walk: filter, the two cursors its button carries, the rows appended |
| `there` | rows listed when the walk began and ever since |

`Leg`, `Below`, `Merged` and `NextCursor` are `transcripts_in_range_filtered`;
`Open` and `LoadMore` the route `/me/history`; `Dictate`, `Submit`, `Transcribed`,
`Delete`, `Restore` and `Sweep` what other callers do between two pages.

Choices a reader should know:

* Each caller makes one call of `JobStore` under its lock, so it is one action.
* Dictation ids are integers, which the SQL compares as integers; in the page
  they are texts, and sorted as texts (`RowIdBefore`). A UUID is its rank among
  the jobs and begins with a letter here.
* `created_at` of a dictation can lie in the past: it is the client's when it
  comes from a stream or from the offline queue.
* Rows of one `created_at` come by `row_id` upwards, where
  `docs/ARCHITECTURE.md:1084` says DESC.
* Search and the owner are left out: both are a conjunct of every WHERE.

### 10.2 Run

`history_pages`: dictations 9, 10 and 11 and one meeting, pages of one row, three
ticks, a walk of up to four pages; 1.1 M states. Ids 9 and 10 are the change of
digits the code's comment is about; a page of one row makes every row an edge.
`WalkGoesOn` stops TLC behind the last page of a walk. `NoRowTwice` and
`NoRowSkipped` speak of a walk through one kind; of both kinds together only the
first page is what it should be (`FirstPageIsNewest`): a full leg's cursor passes
rows that the merged page has cut off, and a leg whose cursor is missing begins
at its top again, so a mixed walk loses and repeats rows (section 12).

### 10.3 Theorems (`StoredRowsProofs`, part 2)

For any finite set of jobs, any dictations up to id 99 (the order of ids as texts
is modelled for two digits), page size, range and clock. The specification is
`PagesSpec`, its invariants have names of their own, because one module holds the
proofs of `UsageEvents` and of `HistoryPages`.

* `PagesTypeCorrect`: `PagesSpec => []PagesTypeOK`.
* `RowsShownOnce` and `RowsNotSkipped`: `PagesSpec => []NoRowTwice` and
  `PagesSpec => []NoRowSkipped`. `WalkInv` is inductive. `IdsGrow`: a row that is
  there was stored once, and `RowsMove`: what is stored keeps its `created_at` or
  is gone for good, since ids are not used again. `CursorBetween`: the rows
  shown that are still there are not below the cursor, and the listed rows that
  are missing all are; so the next page holds no row of an earlier one, and a
  leg that is not full holds all that is missing. `PageKeepsLeg` is the step of
  a page: the cursor moves to the leg's last row, and what is below that was
  below the old cursor (`BelowFurther`).
* `NewestFirst`: `PagesSpec => []FirstPageIsNewest`. A row that is not on the page
  was cut off by the merge, or by its leg, whose full `Limit` of newer rows either
  fill the page (`Fills`, a counting argument) or were cut off themselves
  (`NewestShown`).

A leg and a page are the beginning of a sorted set. `Sorted` chooses a sequence
in order; that there is one (`SortExists`) is proved by `SubsetInduction`, that it
holds each element once (`SortedIsOnto`) by counting; `Tops` says what its
beginning holds. The two orders are strict and total (`NewerOrders`,
`PageOrders`), the second with ids as texts (`TextOrders`).

## 11. ModelResidency

### 11.1 State and actions

| In the module | In the code |
|---|---|
| `ready`, `loading`, `lock` | `_meeting_models_ready`, `_loading_in_flight`, `_load_lock` |
| `warm`, `whisper`, `pyannote` | `mlx_whisper_loader._loaded`, `ModelHolder.model`, `diarize._pipeline` |
| `idle` | `idle_seconds()` has reached the threshold |
| `pc`, `mode` | the executor's thread in `transcribe_meeting` |
| `call`, `active`, `jobs` | the runner, as far as the loop sees it |
| `loop`, `evictor` | `eviction_loop`; the thread in `evict_if_idle` |
| `robbed` | a job has found its pipeline gone |

`Ensure` to `ToDevice` are `_ensure_models_loaded` and the loaders, `Transcribe`,
`Diarize` and `Write` a job's use of the models, `Look` to `ClearFlag`
`evict_if_idle`; `LoopWakes` and `LoopSleeps` the loop, the rest the runner and
time. A step is what a thread does between two points where the other can come
in.

Choices a reader should know:

* The loop looks at `active` before it calls its thread; a job can begin in
  between, and the first look at the flag is outside the lock.
* The threshold can pass while a job runs: the timer is stamped at its end.
* mlx-whisper loads its model by itself when `ModelHolder` is empty, so a job
  that raced an eviction can leave Whisper's weights in memory with the flag
  down, and the next eviction returns at once. `IdleIsEvicted` therefore speaks
  of pyannote and the flag.

### 11.2 Run

`model_residency`: three jobs of any mode, any step failing; deadlock is checked.
Two jobs are the fewest for an eviction between a load and a use; the third
shows what the second left. Fairness: both threads, the runner and the loop go
on, and the threshold passes; `IdleIsEvicted` has the premise that jobs cease.

### 11.3 Theorems (`ModelResidencyProofs`)

For any number of jobs: `ResidencyTypeCorrect` (`Spec => []TypeOK`, with the one
holder of the lock), `ReadyTellsTheTruth` (`Spec => []ReadyIsLoaded`) and
`LoopSeesEveryJob` (`Spec => []LoopSeesJob`). `FlagInv` says what a thread inside
the lock knows about the flag, `PyannoteInv` that the flag and pyannote differ
only between the two assignments of a load or an eviction.

## 12. Claims the code does not keep

One is a run of the project (`auth_rotation`, in "findings"). The others have
their definition in the module and a configuration beside it, with which TLC
finds the violation:

| Definition | Configuration | The claim | What happens |
|---|---|---|---|
| `MeetingJobs!OneAcceptedJob` | `MeetingJobsOneAccepted.cfg` | `jobs/runner.py:127-128`: the submit lock makes "the semaphore check, store.create, and asyncio.create_task ... atomic" | the semaphore is taken when the new task first runs; a request that comes before is accepted as well |
| `MeetingJobs!RunningOnlyFromPending` | `MeetingJobsResurrect.cfg` | `jobs/store.py:352`: "Transition a job from pending → running." | the UPDATE has no guard and is run twice: a row that SIGTERM has failed says running again |
| `MeetingJobs!PurgeTakesFiles` | `MeetingJobsRetention.cfg` | `docs/ADMIN.md:391`: the sweep deletes the rows "and their `<id>.{txt,srt,vtt,json}` output files" | files outside the `MEETING_OUTPUT_DIR` of today stay and their row goes. For a done row that is the guard which `ops/background.py:63-65` and `docs/ARCHITECTURE.md:644` describe; no text says it of a failed row, which names no directory |
| `ChunkedUpload!PublishedIsWhole` | `ChunkedUploadPublish.cfg` | `docs/ARCHITECTURE.md:235`: "streamed via request.stream() to chunk-NNNN.part.tmp, then atomically renamed on success" | attempts share the temporary file: a retry empties what the first attempt then renames |
| `DictationDelivery!TunnelDownFallsBack` | `DictationDeliveryTunnel.cfg` | `docs/FALLBACK.md:14-18`: Cloudflare's 502, 522, 523, 524 lead to OpenRouter | `syntheticResponse` always carries `X-Request-Id` (`DictationAPI.swift:341`), so the answer never looks like the tunnel's and the take ends in an error |
| `DictationDelivery!EntriesEndWell` | `DictationDeliveryShortCount.cfg` | `DictationFallbackQueue.swift:273-275`: "inserted < received simply means an earlier drain already landed those rows" | the route answers 2xx although an INSERT raised or an item was skipped, and the client deletes every file of the batch |
| `TokenAuth!RevokedIsRefused` | `TokenAuthRevoke.cfg` | `users/store.py:170-176`: invalidating after the commit "closes the cache-staleness race" | an answer read before the commit is put into the cache after the invalidation |
| `TokenAuth!OperatorGetsIn` | `TokenAuthBreakGlass.cfg` | `auth.py:201-202`: "so the operator never locks themselves out"; `routes/admin_ui.py:165-166` and `tests/test_auth_break_glass.py:4` say the same | a lookup that times out, or loses its connection, raises what neither door catches: a 500, and the break-glass key is not tried |
| `UsageEvents!FlushedAtStop` | `UsageEventsFlush.cfg` | `usage/writer.py:5-6`: "a final flush runs from the CancelledError handler so in-flight events survive" | a cancellation in the middle of a flush loses the batch, and the queue is not flushed |
| `UsageEvents!WatcherGoesOn` | `UsageEventsHeld.cfg` | `ops/background.py:156`: "Probe the Postgres pool every *interval_s*" | the watcher awaits a loop whose cancellation `wait_for` has swallowed |
| `WeeklyInsights!OneTeamRow` | `WeeklyInsightsTeam.cfg` | `jobs/store.py:500-502`: "a Sunday-night re-run for the same week overwrites in place" | the key of a team row holds a NULL, which is never in conflict: a second row is inserted |
| `WeeklyInsights!RerunReplaces` | `WeeklyInsightsRerun.cfg` | `docs/API.md:720`: the Sunday cron "will UPSERT-replace these rows on its next fire"; so say `docs/ADMIN.md:155-157` and `routes/admin_data.py:325-326`; `docs/ARCHITECTURE.md:821-825` and `insights/cron.py:62-63`: "re-runs for the same week are overwrites", those of the script too | a run that is not forced skips everybody who has a row of the week; the upsert never meets one (`KeepsRows`, a theorem). With `Quiet` empty, nobody is left out for another reason |
| `WeeklyInsights!CatchupCoversTheFire` | `WeeklyInsightsCatchup.cfg` | `insights/cron.py:474-475`: "Covers Sunday-22:59 reboots and any 1-2-day server outage that crossed Sunday 23:00" | Sunday's fire is for the week before the one in progress, Monday's catch-up for the one that has just ended: the week of the missed fire is never summarised |
| `HistoryPages!MixedWalkShowsAll` | `HistoryPagesMixed.cfg` | `docs/API.md:526`: "own dictations + meetings + custom file transcriptions in one chronological list" | see section 10.2 |
| `ModelResidency!NoJobRobbed` | `ModelResidencyRobbed.cfg` | `meeting/pipeline.py:178-180`: "eviction will skip rather than block if a meeting is currently loading or processing" | nothing holds the lock while a job processes: a job that began after the loop's look loses pyannote and fails |

Also seen while modelling, without a definition of their own:

* `submit_or_429` and `submit_source_or_429` may raise more than the 429 their
  callers catch: the staged or assembled audio then stays with no row
  (`SubmitRaises` in both modules).
* `insert_dictation_idempotent` ends in `int(row["id"])` on a tuple, a
  `TypeError` after the commit (`jobs/store.py:447-448` says what it returns).
* `recover_orphans` leaves `finished_at` of the rows it fails NULL.
* The client's finalize of an upload times out after 60 s while the server is
  still concatenating and then submits; a user who tries again has two jobs.
* `docs/ARCHITECTURE.md:304` says the streaming sweeper aborts "regardless of
  status"; the code passes over sessions that are being finalized.

## 13. Not modelled

`PROJECT.json` "components" lists every part with its status.

* Next in the plan: the client's pending uploads and job polling, its recorder
  and streaming session, its Fn key monitor and its meeting recorder. They are
  state machines of their own, driven by AVAudioEngine, Core Audio and macOS
  event taps, whose threads and callbacks have to be modelled from their use.
* Rate limits are one counter for each key in one process: nothing interleaves.
  The speaker merge is a pure function with no reference other than its text.
* Views, operating system dialogs, rendering of admin pages, the
  OpenAI-compatible translation layer, health reports and the shell scripts are
  left out for good: they keep no state of their own that another part relies on.
