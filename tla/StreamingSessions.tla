------------------------- MODULE StreamingSessions -------------------------
(***************************************************************************)
(* The server side of streaming dictation: StreamingSessionStore, the two   *)
(* routes /chunk/{index} and /finalize, the one-thread Parakeet executor    *)
(* behind them, the TTL sweeper, and restarts.                              *)
(*                                                                          *)
(* No code awaits anything while it holds `session.lock` or `_store_lock`,  *)
(* so on the one event loop a lock is never found taken: a stretch between  *)
(* two awaits, its critical sections included, is one action.               *)
(***************************************************************************)
EXTENDS Integers, Sequences, FiniteSets

CONSTANTS Sids,         \* session ids the clients mint
          Users,        \* api_key_ids
          NoUser,       \* owner of a session that does not exist
          MaxActive,    \* streaming_max_active
          MaxDepth,     \* streaming_max_queue_depth
          MaxChunks,    \* bound: chunk indices clients use are 0..MaxChunks-1
          Durations,    \* lengths of a chunk or tail, in some unit
          ChunkCap,     \* dictation_max_duration_s less the 30 s for the tail
          TotalCap,     \* dictation_max_duration_s
          Repeats,      \* clients may send an index a second time
          MaxRestarts   \* bound: restarts of the server in a behaviour

ASSUME SessionsAssumption ==
    /\ NoUser \notin Users
    /\ MaxActive \in Nat /\ MaxDepth \in Nat /\ MaxChunks \in Nat
    /\ Durations \subseteq Nat /\ ChunkCap \in Nat /\ TotalCap \in Nat
    /\ Repeats \in BOOLEAN /\ MaxRestarts \in Nat

VARIABLES
    \* the registry, volatile
    status,     \* StreamingSession.status, "none" for an id not registered
    owner,      \* owner_api_key_id
    length,     \* cumulative_audio_ms
    slot,       \* state of the Task in pending_tasks[index]
    audio,      \* which audio that Task transcribes
    texts,      \* partial_texts[index]: whose text it is, "none" for None
    queue,      \* the executor's queue, first in first out
    \* requests being handled, volatile
    reading,    \* chunk requests reading their body: pairs <<sid, index>>
    fin,        \* the await the finalize handler stands at
    snap,       \* pending_snapshot: indices of the tasks it will await
    tailAt,     \* tail_index
    joined,     \* the texts it has joined, not yet stored
    \* durable, and what the clients know
    rows,       \* the dictations row under the take's dedup id
    posted,     \* indices clients have sent
    acked,      \* indices answered 202
    restarts

sessionVars == <<status, owner, length, slot, audio, texts, queue>>
handlerVars == <<reading, fin, snap, tailAt, joined>>
clientVars  == <<rows, posted, acked>>
vars == <<sessionVars, handlerVars, clientVars, restarts>>

-----------------------------------------------------------------------------
Chunks  == 0..(MaxChunks - 1)
Indices == 0..MaxChunks         \* of chunks, and of the tail after them
Takes   == {"first", "again", "tail"}
Tasks   == [sid : Sids, index : Indices, take : Takes]

\* Statuses that count against max_active.
Occupying == {"active", "finalizing"}

\* The finalize handler awaits the body, the gather, and the insert's thread.
Finalizing == {"reading", "draining", "storing", "stored"}

TypeOK ==
    /\ status \in [Sids -> {"none", "finalized", "aborted"} \cup Occupying]
    /\ owner \in [Sids -> Users \cup {NoUser}]
    /\ length \in [Sids -> Nat]
    /\ slot \in [Sids -> [Indices -> {"empty", "pending", "done", "failed", "cancelled"}]]
    /\ audio \in [Sids -> [Indices -> Takes \cup {"none"}]]
    /\ texts \in [Sids -> [Indices -> Takes \cup {"none"}]]
    /\ queue \in Seq(Tasks)
    /\ reading \in SUBSET (Sids \X Chunks)
    /\ fin \in [Sids -> {"none"} \cup Finalizing]
    /\ snap \in [Sids -> SUBSET Indices]
    /\ tailAt \in [Sids -> Indices]
    /\ joined \in [Sids -> Seq(Takes \cup {"none"})]
    /\ rows \in [Sids -> Seq(Takes \cup {"none"})]
    /\ posted \in [Sids -> SUBSET Chunks]
    /\ acked \in [Sids -> SUBSET Chunks]
    /\ restarts \in 0..MaxRestarts

\* A process that has just started: an empty registry, no request.
ForAll(v)  == [s \in Sids |-> v]
ForEach(v) == [s \in Sids |-> [i \in Indices |-> v]]

Init ==
    /\ status = ForAll("none") /\ owner = ForAll(NoUser) /\ length = ForAll(0)
    /\ slot = ForEach("empty") /\ audio = ForEach("none") /\ texts = ForEach("none")
    /\ queue = <<>>
    /\ reading = {}
    /\ fin = ForAll("none") /\ snap = ForAll({}) /\ tailAt = ForAll(0)
    /\ joined = ForAll(<<>>)
    /\ rows = ForAll(<<>>) /\ posted = ForAll({}) /\ acked = ForAll({})
    /\ restarts = 0

-----------------------------------------------------------------------------
\* Per-user single-session: "finalizing" is left out on purpose.
Busy(u) == \E s \in Sids : owner[s] = u /\ status[s] = "active"

\* Mutant: a session being finalized does not count.
FullOfActive == Cardinality({s \in Sids : status[s] = "active"}) >= MaxActive

Full == Cardinality({s \in Sids : status[s] \in Occupying}) >= MaxActive

InFlight(s) == Cardinality({i \in Indices : slot[s][i] = "pending"})

\* enqueue_inference: a new Task takes the slot of the index, and its call
\* joins the executor's queue.  A Task it overwrites keeps running unseen.
Enqueue(s, i, take) ==
    /\ slot' = [slot EXCEPT ![s][i] = "pending"]
    /\ audio' = [audio EXCEPT ![s][i] = take]
    /\ queue' = Append(queue, [sid |-> s, index |-> i, take |-> take])

\* Task.cancel on every unfinished Task of the session at the given indices.
\* The cancelled calls stay in the executor's queue until its thread drops them.
Cancel(s, is) ==
    slot' = [slot EXCEPT ![s] =
               [i \in Indices |-> IF i \in is /\ @[i] = "pending" THEN "cancelled"
                                  ELSE @[i]]]

\* POST /chunk/{index} up to the read of its body: open_or_get.  A denial
\* (owner, user busy, capacity) answers 403, 409 or 503 and changes nothing.
OpenChunk(s, i, u) ==
    /\ <<s, i>> \notin reading
    /\ i \in posted[s] => Repeats /\ audio[s][i] = "first"
    /\ \/ status[s] # "none" /\ owner[s] = u /\ UNCHANGED <<status, owner>>
       \/ /\ status[s] = "none" /\ ~Busy(u) /\ ~Full
          /\ status' = [status EXCEPT ![s] = "active"]
          /\ owner' = [owner EXCEPT ![s] = u]
    /\ reading' = reading \cup {<<s, i>>}
    /\ posted' = [posted EXCEPT ![s] = @ \cup {i}]
    /\ UNCHANGED <<length, slot, audio, texts, queue, fin, snap, tailAt,
                   joined, rows, acked, restarts>>

\* Mutant: the status is not looked at again after the body has been read.
AcceptableAnyStatus(s, d) ==
    InFlight(s) < MaxDepth /\ length[s] + d <= ChunkCap

Acceptable(s, d) ==
    /\ status[s] = "active"
    /\ InFlight(s) < MaxDepth
    /\ length[s] + d <= ChunkCap

\* The body is read: status, depth and length are checked under the lock and
\* the chunk is enqueued before the next await.  Answer 202.
AcceptChunk(s, i) ==
    /\ <<s, i>> \in reading
    /\ \E d \in Durations :
          /\ Acceptable(s, d)
          /\ length' = [length EXCEPT ![s] = @ + d]
    /\ Enqueue(s, i, IF slot[s][i] = "empty" THEN "first" ELSE "again")
    /\ reading' = reading \ {<<s, i>>}
    /\ acked' = [acked EXCEPT ![s] = @ \cup {i}]
    /\ UNCHANGED <<status, owner, texts, fin, snap, tailAt, joined, rows,
                   posted, restarts>>

\* Any 4xx: the body is too large, no audio or corrupt, or a check fails.
RefuseChunk(s, i) ==
    /\ <<s, i>> \in reading
    /\ reading' = reading \ {<<s, i>>}
    /\ UNCHANGED <<sessionVars, fin, snap, tailAt, joined, clientVars, restarts>>

-----------------------------------------------------------------------------
\* The Task of a call is still the one registered under its index.
Current(t) == audio[t.sid][t.index] = t.take

Cancelled(t) == Current(t) /\ slot[t.sid][t.index] = "cancelled"

\* The call at the head returns and _run stores its text.
InferenceDone ==
    /\ queue # <<>>
    /\ LET t == Head(queue) IN
          /\ ~Cancelled(t)
          /\ texts' = [texts EXCEPT ![t.sid][t.index] = t.take]
          /\ slot' = IF Current(t) THEN [slot EXCEPT ![t.sid][t.index] = "done"]
                     ELSE slot
    /\ queue' = Tail(queue)
    /\ UNCHANGED <<status, owner, length, audio, handlerVars, clientVars, restarts>>

\* The call at the head raises: _run marks the session aborted, whatever its
\* status, and leaves its other Tasks alone.
InferenceFails ==
    /\ queue # <<>>
    /\ LET t == Head(queue) IN
          /\ ~Cancelled(t)
          /\ status' = [status EXCEPT ![t.sid] = "aborted"]
          /\ slot' = IF Current(t) THEN [slot EXCEPT ![t.sid][t.index] = "failed"]
                     ELSE slot
    /\ queue' = Tail(queue)
    /\ UNCHANGED <<owner, length, audio, texts, handlerVars, clientVars, restarts>>

\* The executor's thread drops a cancelled call, or nobody wants its result.
DropCancelled ==
    /\ queue # <<>>
    /\ Cancelled(Head(queue))
    /\ queue' = Tail(queue)
    /\ UNCHANGED <<status, owner, length, slot, audio, texts, handlerVars,
                   clientVars, restarts>>

-----------------------------------------------------------------------------
\* The keys of pending_tasks.
SnapshotOf(s) == {i \in Indices : slot[s][i] # "empty"}

\* t is max(is) + 1, or 0 when there is nothing in the snapshot.
TailIndex(t, is) ==
    IF is = {} THEN t = 0 ELSE t - 1 \in is /\ \A k \in is : k < t

\* POST /finalize by the owner, up to the read of the tail's body.  An id that
\* is unknown, another owner's or not active is answered 404, 403 or 410.
BeginFinalize(s) ==
    /\ status[s] = "active"
    /\ status' = [status EXCEPT ![s] = "finalizing"]
    /\ fin' = [fin EXCEPT ![s] = "reading"]
    /\ snap' = [snap EXCEPT ![s] = SnapshotOf(s)]
    /\ \E t \in Indices :
          /\ TailIndex(t, SnapshotOf(s))
          /\ tailAt' = [tailAt EXCEPT ![s] = t]
    /\ UNCHANGED <<owner, length, slot, audio, texts, queue, reading, joined,
                   clientVars, restarts>>

\* The tail is read and within the cap: it is enqueued like a chunk.
AcceptTail(s) ==
    /\ fin[s] = "reading"
    /\ \E d \in Durations :
          /\ length[s] + d <= TotalCap
          /\ length' = [length EXCEPT ![s] = @ + d]
    /\ Enqueue(s, tailAt[s], "tail")
    /\ fin' = [fin EXCEPT ![s] = "draining"]
    /\ UNCHANGED <<status, owner, texts, reading, snap, tailAt, joined,
                   clientVars, restarts>>

\* Mutant: the handler ends without its finally.
EndsAsIs(s) == status[s]

\* The finally of the handler that began the finalize.
AbortedUnlessOver(s) ==
    IF status[s] \in {"finalized", "aborted"} THEN status[s] ELSE "aborted"

GiveUp(s) ==
    /\ status' = [status EXCEPT ![s] = AbortedUnlessOver(s)]
    /\ fin' = [fin EXCEPT ![s] = "none"]

\* 413, 415 or 422 for the tail.
RefuseTail(s) ==
    /\ fin[s] = "reading"
    /\ GiveUp(s)
    /\ UNCHANGED <<owner, length, slot, audio, texts, queue, reading, snap,
                   tailAt, joined, clientVars, restarts>>

Awaited(s) == snap[s] \cup {tailAt[s]}

\* Mutant: the concatenation starts at the first text there is.
WholeFromAnywhere(s) == texts[s][tailAt[s]] # "none"

Whole(s) == \A i \in 0..tailAt[s] : texts[s][i] # "none"

\* gather returns; the texts are joined.  Mercury may rewrite the result.
Drained(s) ==
    /\ fin[s] = "draining"
    /\ \A i \in Awaited(s) : slot[s][i] = "done"
    /\ Whole(s)
    /\ joined' = [joined EXCEPT ![s] = [n \in 1..(tailAt[s] + 1) |-> texts[s][n-1]]]
    /\ fin' = [fin EXCEPT ![s] = "storing"]
    /\ UNCHANGED <<sessionVars, reading, snap, tailAt, clientVars, restarts>>

\* gather returns and a text below the tail is missing: 409.
DrainedWithGap(s) ==
    /\ fin[s] = "draining"
    /\ \A i \in Awaited(s) : slot[s][i] = "done"
    /\ ~Whole(s)
    /\ GiveUp(s)
    /\ UNCHANGED <<owner, length, slot, audio, texts, queue, reading, snap,
                   tailAt, joined, clientVars, restarts>>

\* One of the awaited Tasks has raised: 502.  The others are left running.
DrainFails(s) ==
    /\ fin[s] = "draining"
    /\ \E i \in Awaited(s) : slot[s][i] = "failed"
    /\ GiveUp(s)
    /\ UNCHANGED <<owner, length, slot, audio, texts, queue, reading, snap,
                   tailAt, joined, clientVars, restarts>>

\* finalize_timeout_s has passed: wait_for cancels the gather, the gather what
\* it awaits: 504.
DrainTimesOut(s) ==
    /\ fin[s] = "draining"
    /\ \E i \in Awaited(s) : slot[s][i] = "pending"
    /\ Cancel(s, Awaited(s))
    /\ GiveUp(s)
    /\ UNCHANGED <<owner, length, audio, texts, queue, reading, snap, tailAt,
                   joined, clientVars, restarts>>

\* The insert commits in its thread: ON CONFLICT(client_dedup_id) DO NOTHING.
Insert(s) ==
    /\ fin[s] = "storing"
    /\ rows' = [rows EXCEPT ![s] = IF @ = <<>> THEN joined[s] ELSE @]
    /\ fin' = [fin EXCEPT ![s] = "stored"]
    /\ UNCHANGED <<sessionVars, reading, snap, tailAt, joined, posted, acked, restarts>>

\* The insert raises: 500.
InsertFails(s) ==
    /\ fin[s] = "storing"
    /\ GiveUp(s)
    /\ UNCHANGED <<owner, length, slot, audio, texts, queue, reading, snap,
                   tailAt, joined, clientVars, restarts>>

\* The handler hears of the insert: status "finalized", answer 200.
Answer(s) ==
    /\ fin[s] = "stored"
    /\ status' = [status EXCEPT ![s] = "finalized"]
    /\ fin' = [fin EXCEPT ![s] = "none"]
    /\ UNCHANGED <<owner, length, slot, audio, texts, queue, reading, snap,
                   tailAt, joined, clientVars, restarts>>

-----------------------------------------------------------------------------
\* Mutant: every session that is not over is stale, one being finalized too.
SweepableUnlessOver(s) == status[s] \in Occupying

\* What the sweeper leaves alone; that last_seen is old is left to chance.
Sweepable(s) == status[s] = "active"

Sweep(s) ==
    /\ Sweepable(s)
    /\ status' = [status EXCEPT ![s] = "aborted"]
    /\ Cancel(s, Indices)
    /\ UNCHANGED <<owner, length, audio, texts, queue, handlerVars, clientVars,
                   restarts>>

\* The server crashes, or shuts down as lifespan does, and starts again: only
\* the dictations rows, and what clients remember, are left.
Restart ==
    /\ restarts < MaxRestarts
    /\ restarts' = restarts + 1
    /\ status' = ForAll("none") /\ owner' = ForAll(NoUser) /\ length' = ForAll(0)
    /\ slot' = ForEach("empty") /\ audio' = ForEach("none") /\ texts' = ForEach("none")
    /\ queue' = <<>>
    /\ reading' = {}
    /\ fin' = ForAll("none") /\ snap' = ForAll({}) /\ tailAt' = ForAll(0)
    /\ joined' = ForAll(<<>>)
    /\ UNCHANGED clientVars

-----------------------------------------------------------------------------
Execute == InferenceDone \/ InferenceFails \/ DropCancelled

EndDrain(s) ==
    Drained(s) \/ DrainedWithGap(s) \/ DrainFails(s) \/ DrainTimesOut(s)

Next ==
    \/ \E s \in Sids, i \in Chunks :
          \/ \E u \in Users : OpenChunk(s, i, u)
          \/ AcceptChunk(s, i) \/ RefuseChunk(s, i)
    \/ Execute
    \/ \E s \in Sids :
          \/ BeginFinalize(s) \/ AcceptTail(s) \/ RefuseTail(s)
          \/ EndDrain(s)
          \/ Insert(s) \/ InsertFails(s) \/ Answer(s)
          \/ Sweep(s)
    \/ Restart

\* The loop runs what is ready, bodies arrive or their connection ends, the
\* executor's calls come back, and a session nobody talks to grows stale.  That
\* clients fall silent is Repeats = FALSE: chunks for ever keep a session fresh.
Fairness ==
    /\ WF_vars(Execute)
    /\ \A s \in Sids :
          /\ WF_vars(AcceptTail(s) \/ RefuseTail(s))
          /\ WF_vars(EndDrain(s))
          /\ WF_vars(Insert(s) \/ InsertFails(s))
          /\ WF_vars(Answer(s))
          /\ WF_vars(Sweep(s))

Spec == Init /\ [][Next]_vars
FairSpec == Spec /\ Fairness

-----------------------------------------------------------------------------
\* No more than max_active sessions are open or being finalized, and a user
\* has no more than one open (open_or_get checks and creates in one step; the
\* statuses it counts change in five other places).
SlotsWithinCap ==
    /\ Cardinality({s \in Sids : status[s] \in Occupying}) <= MaxActive
    /\ \A s, r \in Sids :
          status[s] = "active" /\ status[r] = "active" /\ owner[s] = owner[r] => s = r

\* A transcript is stored once, and is then the chunks from the first on, in
\* order, and the tail, with every chunk this process has accepted for the
\* session in it: also when chunks were refused or came before a restart, when
\* the finalize overtakes a chunk, and when inferences fail or are cancelled.
IsWhole(row, is) ==
    LET n == Len(row) IN
       /\ n > 0
       /\ \A k \in 1..(n-1) : row[k] = "first"
       /\ row[n] = "tail"
       /\ \A i \in is : i < n

PersistedIsWhole ==
    [][\A s \in Sids : rows'[s] # rows[s] =>
          rows[s] = <<>> /\ IsWhole(rows'[s], SnapshotOf(s))]_vars

\* A session ends once: after finalized or aborted it never changes status
\* again, except that a restart forgets it (the sweeper, the executor's
\* failures and two finalize handlers all write the status).
SessionEndsOnce ==
    [][\A s \in Sids : status[s] \in {"finalized", "aborted"}
          => status'[s] = status[s] \/ restarts' # restarts]_vars

\* Every session ends, so its user and one of the max_active slots are free
\* again (the finally of stream_finalize, and the sweeper for the abandoned).
SessionEnds ==
    \A s \in Sids : status[s] \in Occupying ~> status[s] \notin Occupying
=============================================================================
