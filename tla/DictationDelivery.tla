------------------------- MODULE DictationDelivery -------------------------
(***************************************************************************)
(* How a recorded take becomes text on the screen and a row in the history: *)
(* the client's ladder (finalize of a streaming session, two attempts at    *)
(* the origin, OpenRouter), the queue of entries the cloud served and its   *)
(* drain, and the three routes of the server that insert `dictations` rows. *)
(*                                                                          *)
(* A request the client gives up may still be running at the server, which  *)
(* then answers nobody. Takes overlap: `dictationStop` leaves dictating     *)
(* before it starts the take's own Task.                                    *)
(***************************************************************************)
EXTENDS Integers, FiniteSets

CONSTANTS Takes,        \* recordings handed to DictationAPI.transcribe
          HasKey,       \* an OpenRouter key is in the keychain
          BatchLimit,   \* DictationFallbackQueue.batchLimit
          MaxAttempts,  \* DictationFallbackQueue.maxAttempts
          Skewed,       \* takes of a client whose clock is over 5 min fast
          WritesFail,   \* an INSERT, or a write to the client's disk, may raise
          MaxCalls,    \* bound: dictation requests the server works on at a time
          MaxKills,     \* bound: times the client is killed
          MaxRestarts   \* bound: times the server restarts

ASSUME DeliveryAssumption ==
    /\ Skewed \subseteq Takes /\ HasKey \in BOOLEAN /\ WritesFail \in BOOLEAN
    /\ BatchLimit \in Nat \ {0} /\ MaxAttempts \in Nat \ {0}
    /\ MaxCalls \in Nat /\ MaxKills \in Nat /\ MaxRestarts \in Nat

VARIABLES
    \* the client
    streamed,   \* takes with a streaming session, whose dedup id they carry
    phase,      \* where transcribe stands
    error,      \* what transcribe threw: the failure of its last attempt
    text,       \* what the user got
    wake,       \* a Task that calls drain() is about to run
    drain,      \* the one drain in flight, and what is left of its batch
    \* the client's disk: one file per take, named after its dedup id
    queue,      \* takes with an <id>.json file
    swapped,    \* takes whose entry is in <id>.json.tmp only
    setAside,   \* takes with a file in failed/
    tries,      \* retry_count
    old,        \* takes whose entry was created more than 7 days ago
    \* the server
    calls,      \* dictation requests being served
    persists,   \* app.state.pending_persists
    posts,      \* telemetry batches being ingested
    rows,       \* the dictations table
    kills, restarts

takeVars   == <<streamed, phase, error, text>>
drainVars  == <<wake, drain>>
diskVars   == <<queue, swapped, setAside, tries, old>>
serverVars == <<calls, persists, posts, rows>>
vars == <<takeVars, drainVars, diskVars, serverVars, kills, restarts>>

-----------------------------------------------------------------------------
Requests  == [take : Takes, attempt : {"finalize", "first", "second"}]
Rows      == [take : Takes, attempt : {"finalize", "first", "second", "cloud"}]
Awaiting  == {"finalize", "first", "second"}
Underway  == Awaiting \cup {"pause", "cloud"}
Failures  == {"offline", "tunnel", "other"}
Filed     == queue \cup swapped

TypeOK ==
    /\ streamed \subseteq Takes
    /\ phase \in [Takes -> Underway \cup {"idle", "delivered", "failed", "killed"}]
    /\ error \in [Takes -> Failures \cup {"none"}]
    /\ text \in [Takes -> {"none", "words", "blank", "empty"}]
    /\ wake \in BOOLEAN
    /\ drain \in [at : {"idle", "posted", "deleting", "bumping", "swapping"},
                  batch : SUBSET Takes]
    /\ queue \subseteq Takes /\ swapped \subseteq Takes /\ setAside \subseteq Takes
    /\ old \subseteq Takes
    /\ tries \in [Takes -> 0..(MaxAttempts - 1)]
    /\ calls \subseteq Requests /\ persists \subseteq Requests
    /\ posts \subseteq SUBSET Takes
    /\ rows \subseteq Rows
    /\ kills \in 0..MaxKills /\ restarts \in 0..MaxRestarts

Init ==
    /\ streamed = {} /\ phase = [t \in Takes |-> "idle"]
    /\ error = [t \in Takes |-> "none"] /\ text = [t \in Takes |-> "none"]
    /\ wake = FALSE /\ drain = [at |-> "idle", batch |-> {}]
    /\ queue = {} /\ swapped = {} /\ setAside = {} /\ old = {}
    /\ tries = [t \in Takes |-> 0]
    /\ calls = {} /\ persists = {} /\ posts = {} /\ rows = {}
    /\ kills = 0 /\ restarts = 0

-----------------------------------------------------------------------------
(* The dictations table.                                                    *)

\* A slip for a mutant: the queue mints an id of its own for every entry.
DedupIdNotQueued(row) ==
    IF row.attempt = "cloud" THEN "entry"
    ELSE IF row.take \in streamed THEN "session" ELSE "null"

\* The client_dedup_id a write carries: the session's on every path of a
\* streamed take; else none on the batch route, a fresh one for the entry.
DedupId(row) ==
    IF row.take \in streamed THEN "session"
    ELSE IF row.attempt = "cloud" THEN "entry" ELSE "null"

\* ON CONFLICT(client_dedup_id) WHERE client_dedup_id IS NOT NULL DO NOTHING
Conflicts(row, other) ==
    /\ row.take = other.take
    /\ DedupId(row) = DedupId(other)
    /\ DedupId(row) # "null"

Insert(row) ==
    rows' = IF \E other \in rows : Conflicts(row, other) THEN rows
            ELSE rows \cup {row}

\* A row stands for the entry of the take, or for the take itself.
HasRow(t) == \E row \in rows : row.take = t

-----------------------------------------------------------------------------
(* The ladder.                                                              *)

\* A request reaches the server, among the others there, or does not; the
\* client waits either way.
Send(t, attempt, others) ==
    /\ phase' = [phase EXCEPT ![t] = attempt]
    /\ \/ calls' = others
       \/ /\ Cardinality(others) < MaxCalls
          /\ calls' = others \cup {[take |-> t, attempt |-> attempt]}

Begin(t) ==
    /\ phase[t] = "idle"
    /\ \/ Send(t, "finalize", calls) /\ streamed' = streamed \cup {t}
       \/ Send(t, "first", calls)    /\ UNCHANGED streamed
    /\ UNCHANGED <<error, text, drainVars, diskVars, persists, posts, rows, kills, restarts>>

\* The text is injected, and two detached Tasks drain the queues.
Deliver(t, said) ==
    /\ phase' = [phase EXCEPT ![t] = "delivered"]
    /\ text' = [text EXCEPT ![t] = said]
    /\ wake' = TRUE

\* The answer to a request nobody waits for any more goes nowhere.
Answer(call, said) ==
    IF phase[call.take] = call.attempt THEN Deliver(call.take, said)
    ELSE UNCHANGED <<phase, text, wake>>

\* /finalize inserts its row before it answers, whatever the text.
FinalizeServed(call, said) ==
    /\ call \in calls /\ call.attempt = "finalize"
    /\ calls' = calls \ {call}
    /\ Insert(call)
    /\ Answer(call, said)
    /\ UNCHANGED <<streamed, error, drain, diskVars, persists, posts, kills, restarts>>

\* /transcribe/dictate answers, and leaves the row to a Task of its own.
DictateServed(call, said) ==
    /\ call \in calls /\ call.attempt # "finalize"
    /\ calls' = calls \ {call}
    /\ persists' = IF said = "words" THEN persists \cup {call} ELSE persists
    /\ Answer(call, said)
    /\ UNCHANGED <<streamed, error, drain, diskVars, posts, rows, kills, restarts>>

Persist(call) ==
    /\ call \in persists
    /\ persists' = persists \ {call}
    /\ \/ Insert(call)
       \/ WritesFail /\ UNCHANGED rows    \* logged, never retried
    /\ UNCHANGED <<takeVars, drainVars, diskVars, calls, posts, kills, restarts>>

\* isOfflineSignature, with what makeAttempt makes of the error: every status
\* becomes a response that carries an X-Request-Id.
IsOffline(failure) == failure = "offline"

\* A slip for a mutant: the second attempt leads where the first does.
RungForEver(attempt, failure) ==
    CASE attempt = "finalize" -> "first"
      [] attempt # "finalize" /\ ~IsOffline(failure) -> "failed"
      [] attempt # "finalize" /\ IsOffline(failure) -> "pause"

\* Where a failed attempt leads: a failed finalize to the batch route, an
\* offline signature to the next rung, anything else to the user.
Rung(attempt, failure) ==
    CASE attempt = "finalize" -> "first"
      [] attempt # "finalize" /\ ~IsOffline(failure) -> "failed"
      [] attempt = "first" /\ IsOffline(failure) -> "pause"
      [] attempt = "second" /\ IsOffline(failure) -> IF HasKey THEN "cloud" ELSE "failed"

AttemptFails(t, failure, others) ==
    LET next == Rung(phase[t], failure)
    IN  /\ IF next \in Awaiting THEN Send(t, next, others)
           ELSE phase' = [phase EXCEPT ![t] = next] /\ calls' = others
        /\ error' = IF next = "failed" THEN [error EXCEPT ![t] = failure] ELSE error

\* No answer: refused, lost, timed out, or Cloudflare answering for the origin.
ConnectionFails(t, failure) ==
    /\ phase[t] \in Awaiting
    /\ AttemptFails(t, failure, calls)
    /\ UNCHANGED <<streamed, text, drainVars, diskVars, persists, posts, rows, kills, restarts>>

\* The origin answers an error: a limit, corrupt audio, a timeout, an exception.
Refuse(call) ==
    /\ call \in calls
    /\ IF phase[call.take] = call.attempt
       THEN AttemptFails(call.take, "other", calls \ {call})
       ELSE calls' = calls \ {call} /\ UNCHANGED <<phase, error>>
    /\ UNCHANGED <<streamed, text, drainVars, diskVars, persists, posts, rows, kills, restarts>>

\* The 5 s between the two attempts are over.
Retry(t) ==
    /\ phase[t] = "pause"
    /\ Send(t, "second", calls)
    /\ UNCHANGED <<streamed, error, text, drainVars, diskVars, persists, posts, rows, kills, restarts>>

\* A slip for a mutant: a streamed take is thought to have its row.
EnqueueUnlessStreamed(t) ==
    queue' = IF t \in streamed THEN queue ELSE queue \cup {t}

Enqueue(t) == queue' = queue \cup {t}

CloudAnswers(t, said) ==
    /\ phase[t] = "cloud"
    /\ \/ Enqueue(t)
       \/ WritesFail /\ UNCHANGED queue    \* logged, the text is delivered
    /\ Deliver(t, said)
    /\ UNCHANGED <<streamed, error, drain, swapped, setAside, tries, old, serverVars, kills, restarts>>

CloudFails(t) ==
    /\ phase[t] = "cloud"
    /\ phase' = [phase EXCEPT ![t] = "failed"]
    /\ error' = [error EXCEPT ![t] = "other"]
    /\ UNCHANGED <<streamed, text, drainVars, diskVars, serverVars, kills, restarts>>

-----------------------------------------------------------------------------
(* The drain of the queue, and the telemetry route.                         *)

\* The app comes to the foreground.
Foreground ==
    /\ ~wake /\ wake' = TRUE
    /\ UNCHANGED <<takeVars, drain, diskVars, serverVars, kills, restarts>>

\* The coordinator: a call that finds a drain in flight only waits for it.
DrainCoalesced ==
    /\ wake /\ drain.at # "idle"
    /\ wake' = FALSE
    /\ UNCHANGED <<takeVars, drain, diskVars, serverVars, kills, restarts>>

\* Up to BatchLimit entries younger than 7 days; the older ones met on the way
\* are set aside, which are all when the files end before the batch is full.
\* Files are looked at oldest first: more than BatchLimit wait for a later
\* drain, and which ones is left open.
DrainStart(reached) ==
    /\ wake /\ drain.at = "idle"
    /\ wake' = FALSE
    /\ \E batch \in SUBSET (queue \ old), stale \in SUBSET (queue \cap old) :
        /\ \/ Cardinality(batch) = BatchLimit
           \/ Cardinality(batch) < BatchLimit /\ batch \cup stale = queue
        /\ queue' = queue \ stale
        /\ setAside' = setAside \cup stale
        /\ IF batch = {} THEN UNCHANGED <<drain, posts>>
           ELSE /\ drain' = [at |-> "posted", batch |-> batch]
                /\ posts' = IF reached THEN posts \cup {batch} ELSE posts
    /\ UNCHANGED <<takeVars, swapped, tries, old, calls, persists, rows, kills, restarts>>

\* CloudDictation demands a text of at least one character, of every item.
Valid(batch) == \A t \in batch : text[t] # "empty"

EntryRow(t) == [take |-> t, attempt |-> "cloud"]
Ingested(t) == \E row \in rows : Conflicts(EntryRow(t), row)

\* The handler's loop skips white space and times in the future.
Kept(t) == text[t] = "words" /\ t \notin Skewed

IngestOne(batch, t) ==
    /\ batch \in posts /\ Valid(batch)
    /\ t \in batch /\ Kept(t) /\ ~Ingested(t)
    /\ Insert(EntryRow(t))
    /\ UNCHANGED <<takeVars, drainVars, diskVars, calls, persists, posts, kills, restarts>>

\* A slip for a mutant: a 4xx ends the batch as a 2xx does.
ReactionToAnyAnswer(verdict) == IF verdict = "error" THEN "idle" ELSE "deleting"

\* What drainOnce does next, by the class of the status.
Reaction(verdict) ==
    CASE verdict = "accepted" -> "deleting"     \* 2xx
      [] verdict = "refused"  -> "bumping"      \* 4xx but 401
      [] verdict = "error"    -> "idle"         \* 401, 5xx

Waits(batch) == drain.at = "posted" /\ drain.batch = batch

Verdict(batch, verdict) ==
    /\ posts' = posts \ {batch}
    /\ IF Waits(batch)
       THEN drain' = [at |-> Reaction(verdict),
                      batch |-> IF verdict = "error" THEN {} ELSE batch]
       ELSE UNCHANGED drain
    /\ UNCHANGED <<takeVars, wake, diskVars, calls, persists, rows, kills, restarts>>

\* 2xx at the end of the loop; an INSERT that raised, or an item skipped, does
\* not change that.
Accept(batch) ==
    /\ batch \in posts /\ Valid(batch)
    /\ \A t \in batch : Kept(t) => Ingested(t) \/ WritesFail
    /\ Verdict(batch, "accepted")

\* 422 for an invalid batch; 403 or 429 for any.
Reject(batch) == batch \in posts /\ Verdict(batch, "refused")

\* 401, or 5xx before the first item.
PostErrors(batch) == batch \in posts /\ Verdict(batch, "error")

\* A transport error: the batch may be ingested all the same.
PostLost ==
    /\ drain.at = "posted"
    /\ drain' = [at |-> "idle", batch |-> {}]
    /\ UNCHANGED <<takeVars, wake, diskVars, serverVars, kills, restarts>>

\* The loops over the batch; their order does not matter.
Remaining(t) == [drain EXCEPT !.batch = @ \ {t}]

DrainDone ==
    /\ drain.at \in {"deleting", "bumping"} /\ drain.batch = {}
    /\ drain' = [drain EXCEPT !.at = "idle"]
    /\ UNCHANGED <<takeVars, wake, diskVars, serverVars, kills, restarts>>

DeleteOne(t) ==
    /\ drain.at = "deleting" /\ t \in drain.batch
    /\ queue' = queue \ {t}
    /\ drain' = Remaining(t)
    /\ UNCHANGED <<takeVars, wake, swapped, setAside, tries, old, serverVars, kills, restarts>>

\* A slip for a mutant: the entry is written back as it was read.
BumpedNot(t) == tries[t]

Bumped(t) == tries[t] + 1

Exhausted(t) == Bumped(t) >= MaxAttempts

GiveUpOne(t) ==
    /\ drain.at = "bumping" /\ t \in drain.batch /\ Exhausted(t)
    /\ queue' = queue \ {t}
    /\ setAside' = setAside \cup {t}
    /\ drain' = Remaining(t)
    /\ UNCHANGED <<takeVars, wake, swapped, tries, old, serverVars, kills, restarts>>

\* writeEntry over an existing file: the temporary one is complete, the old
\* one is removed ...
SwapOut(t) ==
    /\ drain.at = "bumping" /\ t \in drain.batch /\ ~Exhausted(t)
    /\ queue' = queue \ {t}
    /\ swapped' = swapped \cup {t}
    /\ drain' = [drain EXCEPT !.at = "swapping"]
    /\ UNCHANGED <<takeVars, wake, setAside, tries, old, serverVars, kills, restarts>>

\* ... and the temporary one takes its name.
SwapIn(t) ==
    /\ drain.at = "swapping" /\ t \in drain.batch \cap swapped
    /\ queue' = queue \cup {t}
    /\ swapped' = swapped \ {t}
    /\ tries' = [tries EXCEPT ![t] = Bumped(t)]
    /\ drain' = [at |-> "bumping", batch |-> drain.batch \ {t}]
    /\ UNCHANGED <<takeVars, wake, setAside, old, serverVars, kills, restarts>>

-----------------------------------------------------------------------------
(* Time and outages.                                                        *)

Age(t) ==
    /\ t \in Filed \ old
    /\ old' = old \cup {t}
    /\ UNCHANGED <<takeVars, drainVars, queue, swapped, setAside, tries, serverVars, kills, restarts>>

Kill ==
    /\ kills < MaxKills /\ kills' = kills + 1
    /\ phase' = [t \in Takes |-> IF phase[t] \in Underway THEN "killed" ELSE phase[t]]
    /\ wake' = FALSE /\ drain' = [at |-> "idle", batch |-> {}]
    /\ UNCHANGED <<streamed, error, text, diskVars, serverVars, restarts>>

\* Shutdown grants the pending persists 2 s and abandons the rest.
Restart ==
    /\ restarts < MaxRestarts /\ restarts' = restarts + 1
    /\ calls' = {} /\ persists' = {} /\ posts' = {}
    /\ UNCHANGED <<takeVars, drainVars, diskVars, rows, kills>>

-----------------------------------------------------------------------------
CloudStep(t) == CloudFails(t) \/ \E said \in {"words", "blank", "empty"} : CloudAnswers(t, said)
Fails(t)     == \E failure \in Failures : ConnectionFails(t, failure)

TakeStep == \E t \in Takes : Begin(t) \/ Fails(t) \/ Retry(t) \/ CloudStep(t) \/ Age(t)

ServeStep ==
    \/ \E call \in calls, said \in {"words", "blank"} :
          FinalizeServed(call, said) \/ DictateServed(call, said)
    \/ \E call \in calls : Refuse(call)
    \/ \E call \in persists : Persist(call)
    \/ \E batch \in posts : \/ \E t \in batch : IngestOne(batch, t)
                            \/ Accept(batch) \/ Reject(batch) \/ PostErrors(batch)

DrainWork ==
    DrainDone \/ \E t \in drain.batch : DeleteOne(t) \/ GiveUpOne(t) \/ SwapOut(t) \/ SwapIn(t)

DrainStep ==
    \/ Foreground \/ DrainCoalesced \/ PostLost \/ DrainWork
    \/ \E reached \in BOOLEAN : DrainStart(reached)

Next == TakeStep \/ ServeStep \/ DrainStep \/ Kill \/ Restart

Spec == Init /\ [][Next]_vars

\* An answer for the drain that waits.
Settle == \E batch \in posts : Waits(batch) /\ (Accept(batch) \/ Reject(batch))

\* Every wait of the client has a timeout; the user comes back to the app
\* again and again; the server serves what it was sent, and now and then a
\* batch reaches it and its answer the client.
Fairness ==
    /\ \A t \in Takes : WF_vars(Fails(t)) /\ WF_vars(Retry(t)) /\ WF_vars(CloudStep(t))
    /\ WF_vars(\E call \in persists : Persist(call))
    /\ WF_vars(Foreground) /\ WF_vars(DrainCoalesced) /\ WF_vars(DrainWork) /\ WF_vars(PostLost)
    /\ WF_vars(DrainStart(FALSE) \/ DrainStart(TRUE)) /\ SF_vars(DrainStart(TRUE))
    /\ SF_vars(Settle)

FairSpec == Spec /\ Fairness

-----------------------------------------------------------------------------
(* Properties.                                                              *)

\* A streamed take has at most one row, whichever of the finalize, the two
\* batch requests and the queue's entry wrote it, late ones included: the
\* session's id goes along on every path and the partial unique index on it
\* refuses the second (DictationAPI.transcribe, JobStore.insert_*_idempotent).
AtMostOneRow ==
    \A t \in streamed : \A one, other \in rows :
        one.take = t /\ other.take = t => one = other

\* An entry with words leaves the queue's directory only when its take is in
\* the history or its file in failed/: whatever batches are lost, answered
\* late or refused, and wherever the app is killed (drainOnce: entries do not
\* "get silently lost"). It takes writes that succeed and clocks that are right.
EntriesEndWell ==
    [][\A t \in Filed \ Filed' : text[t] = "words" => HasRow(t)' \/ t \in setAside']_vars

\* Words the user got, by whichever rung, are in the history, on their way to
\* it, queued, or set aside, until a restart abandons what was on its way.
DeliveredIsTraced ==
    restarts = 0 => \A t \in Takes : text[t] = "words" =>
        \/ HasRow(t) \/ \E call \in persists : call.take = t
        \/ t \in Filed \/ t \in setAside

\* Every take ends in a text or an error: the ladder has three rungs.
TakeEnds == \A t \in Takes : phase[t] \in Underway ~> phase[t] \in {"delivered", "failed"}

\* No entry stays in the queue for ever, refused batches among others included,
\* unless the app was killed in the middle of rewriting it: drainOnce looks at
\* .json files only, and nothing reads the .tmp file that is left.
EntrySettles ==
    \A t \in Takes :
        t \in Filed ~> t \notin Filed \/ (t \in swapped /\ drain.at = "idle")

\* docs/FALLBACK.md:18: Cloudflare answering 502, 522, 523 or 524 for the
\* origin leads to OpenRouter, not to an error (given a key).
TunnelDownFallsBack == \A t \in Takes : phase[t] = "failed" => error[t] # "tunnel"
=============================================================================
