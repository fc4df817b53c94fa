--------------------------- MODULE ChunkedUpload ---------------------------
(***************************************************************************)
(* One upload of a file over 50 MB: the client sends its chunks one after   *)
(* the other, each with one retry, then a finalize; the server keeps a      *)
(* directory of parts, concatenates them in a thread and hands the file to  *)
(* the job runner; a sweep removes directories without progress for 1 h.    *)
(* Uploads share nothing but the runner's gate (MeetingJobs), so there is   *)
(* one here.                                                                *)
(*                                                                          *)
(* A request the client gave up may still be read by the server. All the    *)
(* requests for one chunk write to one temporary file.                      *)
(***************************************************************************)
EXTENDS Naturals

CONSTANTS ChunkCount,   \* chunk_count of the upload
          BlockCount,   \* writes it takes to store the body of one chunk
          Overtake,     \* a request may reach the server after a later one
          MaxRestarts   \* bound: times the server restarts

ASSUME UploadAssumption ==
    /\ ChunkCount \in Nat \ {0} /\ BlockCount \in Nat \ {0}
    /\ Overtake \in BOOLEAN /\ MaxRestarts \in Nat

Chunks   == 1..ChunkCount
Blocks   == 1..BlockCount
Requests == Chunks \X {1, 2}        \* the attempts to send each chunk
NoFile   == <<0, 0>>
Files    == Requests                \* a file, named after its creator

VARIABLES
    \* the client
    pc,         \* where upload() stands
    at,         \* the chunk and attempt it waits for
    \* the chunk route, for each request
    req, fh, pos,
    \* the upload's directory
    dir,        \* it exists, with its meta.json
    tmp, part,  \* the file under each .part.tmp and .part name
    data,       \* the blocks each file holds; others are holes
    stale,      \* meta.json was last touched over 1 h ago
    sweeping,   \* the sweep has found it stale
    \* the finalize route
    fin,        \* where the handler stands
    copied,     \* parts concatenated so far
    blob,       \* what was copied of each
    out,        \* the assembled file
    restarts

clientVars == <<pc, at>>
chunkVars  == <<req, fh, pos>>
dirVars    == <<dir, tmp, part, data, stale, sweeping>>
finVars    == <<fin, copied, blob, out>>
vars == <<clientVars, chunkVars, dirVars, finVars, restarts>>

TypeOK ==
    /\ pc \in {"start", "uploading", "finalizing", "done", "failed"}
    /\ at \in Requests
    /\ req \in [Requests -> {"unsent", "sent", "streaming", "over"}]
    /\ fh \in [Requests -> Files \cup {NoFile}]
    /\ pos \in [Requests -> 0..BlockCount]
    /\ dir \in BOOLEAN /\ stale \in BOOLEAN /\ sweeping \in BOOLEAN
    /\ tmp \in [Chunks -> Files \cup {NoFile}] /\ part \in [Chunks -> Files \cup {NoFile}]
    /\ data \in [Files -> SUBSET Blocks]
    /\ fin \in {"unsent", "sent", "concat", "raised", "over"}
    /\ copied \in 0..ChunkCount
    /\ blob \in [Chunks -> SUBSET Blocks]
    /\ out \in {"absent", "file", "job"}
    /\ restarts \in 0..MaxRestarts

Init ==
    /\ pc = "start" /\ at = <<1, 1>>
    /\ req = [r \in Requests |-> "unsent"]
    /\ fh = [r \in Requests |-> NoFile] /\ pos = [r \in Requests |-> 0]
    /\ dir = FALSE /\ stale = FALSE /\ sweeping = FALSE
    /\ tmp = [c \in Chunks |-> NoFile] /\ part = [c \in Chunks |-> NoFile]
    /\ data = [f \in Files |-> {}]
    /\ fin = "unsent" /\ copied = 0 /\ blob = [c \in Chunks |-> {}] /\ out = "absent"
    /\ restarts = 0

-----------------------------------------------------------------------------
(* The client.                                                              *)

\* /init makes the directory, and its answer starts the first chunk or is lost.
InitServed ==
    /\ pc = "start"
    /\ dir' = TRUE
    /\ \/ pc' = "uploading" /\ req' = [req EXCEPT ![<<1, 1>>] = "sent"]
       \/ pc' = "failed" /\ UNCHANGED req
    /\ UNCHANGED <<at, fh, pos, tmp, part, data, stale, sweeping, finVars, restarts>>

InitFails ==
    /\ pc = "start" /\ pc' = "failed"
    /\ UNCHANGED <<at, chunkVars, dirVars, finVars, restarts>>

IsLast(c) == c = ChunkCount

\* A slip for a mutant: the answer to either attempt will do.
AwaitsEither(r) == pc = "uploading" /\ at[1] = r[1]

Awaits(r) == pc = "uploading" /\ at = r

\* The next request after chunk c: the next chunk, or the finalize.
Proceed(c, others) ==
    IF IsLast(c)
    THEN /\ pc' = "finalizing" /\ fin' = "sent"
         /\ req' = others /\ UNCHANGED at
    ELSE /\ at' = <<c + 1, 1>>
         /\ req' = [others EXCEPT ![<<c + 1, 1>>] = "sent"]
         /\ UNCHANGED <<pc, fin>>

\* A transport error or the timeout: one retry.
Retry ==
    /\ pc = "uploading" /\ at[2] = 1
    /\ at' = <<at[1], 2>>
    /\ req' = [req EXCEPT ![at'] = "sent"]
    /\ UNCHANGED <<pc, fh, pos, dirVars, finVars, restarts>>

\* A slip for a mutant: the finalize has no timeout.
TimedChunksOnly == pc = "uploading" /\ at[2] = 2

\* The second attempt, or the finalize, fails at the client.
Timed == (pc = "uploading" /\ at[2] = 2) \/ pc = "finalizing"

GiveUp ==
    /\ Timed /\ pc' = "failed"
    /\ UNCHANGED <<at, chunkVars, dirVars, finVars, restarts>>

\* The user cancels: the session is invalidated.
Cancel ==
    /\ pc \in {"uploading", "finalizing"} /\ pc' = "failed"
    /\ UNCHANGED <<at, chunkVars, dirVars, finVars, restarts>>

-----------------------------------------------------------------------------
(* The chunk route.                                                         *)

Earlier(q, r) == q[1] < r[1] \/ (q[1] = r[1] /\ q[2] < r[2])

\* Requests reach the server in the order they were sent, or never.
Reaches(r) ==
    /\ req[r] = "sent"
    /\ Overtake \/ \A q \in Requests : Earlier(q, r) => req[q] # "sent"

Lost(r) ==
    /\ req[r] = "sent"
    /\ req' = [req EXCEPT ![r] = "over"]
    /\ UNCHANGED <<clientVars, fh, pos, dirVars, finVars, restarts>>

\* The handler ends with an error, which the client takes for the end.
Ends(r)   == req' = [req EXCEPT ![r] = "over"]
Answer(r) == pc' = IF Awaits(r) THEN "failed" ELSE pc

\* 404, or 401, 403, 411, 413 and the like.
RefuseChunk(r) ==
    /\ Reaches(r)
    /\ Ends(r) /\ Answer(r)
    /\ UNCHANGED <<at, fh, pos, dirVars, finVars, restarts>>

\* open(target_tmp, "wb"): the file that has the name is emptied, whoever
\* writes to it; else a new one gets it.
OpenTmp(r) ==
    LET c == r[1]
        f == IF tmp[c] = NoFile THEN r ELSE tmp[c]
    IN  /\ Reaches(r) /\ dir
        /\ req' = [req EXCEPT ![r] = "streaming"]
        /\ fh' = [fh EXCEPT ![r] = f]
        /\ tmp' = [tmp EXCEPT ![c] = f]
        /\ data' = [data EXCEPT ![f] = {}]
        /\ UNCHANGED <<clientVars, pos, dir, part, stale, sweeping, finVars, restarts>>

\* Each handler writes at its own offset.
WriteBlock(r) ==
    /\ req[r] = "streaming" /\ pos[r] < BlockCount
    /\ pos' = [pos EXCEPT ![r] = @ + 1]
    /\ data' = [data EXCEPT ![fh[r]] = @ \cup {pos[r] + 1}]
    /\ UNCHANGED <<clientVars, req, fh, dir, tmp, part, stale, sweeping, finVars, restarts>>

\* The connection ends early, a write raises or the length is not the declared
\* one: whatever file has the name is unlinked. Only a client whose connection
\* stands gets an answer.
Cut(r) ==
    /\ req[r] = "streaming"
    /\ tmp' = [tmp EXCEPT ![r[1]] = NoFile]
    /\ Ends(r) /\ (Answer(r) \/ UNCHANGED pc)
    /\ UNCHANGED <<at, fh, pos, dir, part, data, stale, sweeping, finVars, restarts>>

\* All of Content-Length was written: whatever file has the name becomes the
\* part, meta.json is touched and the client goes on.
Publish(r) ==
    /\ req[r] = "streaming" /\ pos[r] = BlockCount /\ tmp[r[1]] # NoFile
    /\ part' = [part EXCEPT ![r[1]] = tmp[r[1]]]
    /\ tmp' = [tmp EXCEPT ![r[1]] = NoFile]
    /\ stale' = FALSE
    /\ IF Awaits(r) THEN Proceed(r[1], [req EXCEPT ![r] = "over"])
       ELSE Ends(r) /\ UNCHANGED <<clientVars, fin>>
    /\ UNCHANGED <<fh, pos, dir, data, sweeping, copied, blob, out, restarts>>

\* The name is gone, with its directory or unlinked by another request.
PublishFails(r) ==
    /\ req[r] = "streaming" /\ pos[r] = BlockCount /\ tmp[r[1]] = NoFile
    /\ Ends(r) /\ Answer(r)
    /\ UNCHANGED <<at, fh, pos, dirVars, finVars, restarts>>

-----------------------------------------------------------------------------
(* The finalize route.                                                      *)

RemoveDir ==
    /\ dir' = FALSE
    /\ tmp' = [c \in Chunks |-> NoFile] /\ part' = [c \in Chunks |-> NoFile]

Answered(outcome) == pc' = IF pc = "finalizing" THEN outcome ELSE pc

\* The files' sizes add up: each has its last block.
SizesMatch == \A c \in Chunks : part[c] # NoFile /\ BlockCount \in data[part[c]]

\* 404, 409, or a gate for the owner, the disk or the memory.
RefuseFinalize ==
    /\ fin = "sent" /\ fin' = "over"
    /\ Answered("failed")
    /\ UNCHANGED <<at, chunkVars, dirVars, copied, blob, out, restarts>>

BeginConcat ==
    /\ fin = "sent" /\ dir /\ SizesMatch
    /\ fin' = "concat"
    /\ out' = "file"
    /\ UNCHANGED <<clientVars, chunkVars, dirVars, copied, blob, restarts>>

\* _concat_chunks, in its thread: copy a part, then unlink it.
CopyPart ==
    LET c == copied + 1
    IN  /\ fin = "concat" /\ copied < ChunkCount /\ part[c] # NoFile
        /\ blob' = [blob EXCEPT ![c] = data[part[c]]]
        /\ part' = [part EXCEPT ![c] = NoFile]
        /\ copied' = c
        /\ UNCHANGED <<clientVars, chunkVars, dir, tmp, data, stale, sweeping, fin, out, restarts>>

ConcatFails ==
    /\ fin = "concat" /\ copied < ChunkCount
    /\ fin' = "over" /\ out' = "absent"
    /\ RemoveDir /\ Answered("failed")
    /\ UNCHANGED <<at, chunkVars, data, stale, sweeping, copied, blob, restarts>>

Complete == \A c \in Chunks : BlockCount \in blob[c]

\* A slip for a mutant: the 429 leaves the file.
OutOfGateKept(accepted) == IF accepted THEN "job" ELSE "file"

OutOfGate(accepted) == IF accepted THEN "job" ELSE "absent"

\* The runner takes the file, or answers 429, which is caught. A file of the
\* wrong size, or one whose meta.json names no mode, is not handed to it.
Submitted(accepted) ==
    LET taken == accepted /\ Complete
    IN  /\ fin = "concat" /\ copied = ChunkCount
        /\ fin' = "over"
        /\ out' = OutOfGate(taken)
        /\ RemoveDir
        /\ Answered(IF taken THEN "done" ELSE "failed")
        /\ UNCHANGED <<at, chunkVars, data, stale, sweeping, copied, blob, restarts>>

\* The submission raises anything but that 429, as store.create does when SQLite
\* fails: nothing catches it, so the client has a 500, no job has the file, and
\* the file and the directory stay.
SubmitRaises ==
    /\ fin = "concat" /\ copied = ChunkCount /\ Complete
    /\ fin' = "raised"
    /\ Answered("failed")
    /\ UNCHANGED <<at, chunkVars, dirVars, copied, blob, out, restarts>>

-----------------------------------------------------------------------------
(* The sweep, in a worker thread, and restarts.                             *)

Age ==
    /\ dir /\ ~stale /\ stale' = TRUE
    /\ UNCHANGED <<clientVars, chunkVars, dir, tmp, part, data, sweeping, finVars, restarts>>

\* A slip for a mutant: directories with parts in them are spared.
SweepableEmpty == dir /\ stale /\ \A c \in Chunks : part[c] = NoFile

Sweepable == dir /\ stale

SweepFinds ==
    /\ ~sweeping /\ Sweepable
    /\ sweeping' = TRUE
    /\ UNCHANGED <<clientVars, chunkVars, dir, tmp, part, data, stale, finVars, restarts>>

SweepRemoves ==
    /\ sweeping /\ sweeping' = FALSE
    /\ RemoveDir
    /\ UNCHANGED <<clientVars, chunkVars, data, stale, finVars, restarts>>

\* The handlers are gone; what they made stays.
Restart ==
    /\ restarts < MaxRestarts /\ restarts' = restarts + 1
    /\ req' = [r \in Requests |-> IF req[r] = "streaming" THEN "over" ELSE req[r]]
    /\ fin' = IF fin \in {"sent", "concat"} THEN "over" ELSE fin
    /\ sweeping' = FALSE
    /\ UNCHANGED <<clientVars, fh, pos, dir, tmp, part, data, stale, copied, blob, out>>

-----------------------------------------------------------------------------
ClientStep == InitServed \/ InitFails \/ Retry \/ GiveUp \/ Cancel

Handle(r) ==
    RefuseChunk(r) \/ OpenTmp(r) \/ WriteBlock(r) \/ Cut(r) \/ Publish(r) \/ PublishFails(r)

Finalize ==
    \/ RefuseFinalize \/ BeginConcat \/ CopyPart \/ ConcatFails
    \/ (\E accepted \in BOOLEAN : Submitted(accepted)) \/ SubmitRaises

SweepStep == Age \/ SweepFinds \/ SweepRemoves

Next ==
    \/ ClientStep \/ Finalize \/ SweepStep \/ Restart
    \/ \E r \in Requests : Lost(r) \/ Handle(r)

Spec == Init /\ [][Next]_vars

\* Every wait of the client has a timeout, handlers and threads go on, and an
\* upload nobody makes progress with grows old; the daily sweep comes round.
Fairness ==
    /\ WF_vars(InitServed \/ InitFails) /\ WF_vars(Retry) /\ WF_vars(GiveUp)
    /\ \A r \in Requests : WF_vars(Lost(r) \/ Handle(r))
    /\ WF_vars(Finalize)
    /\ WF_vars(Age) /\ WF_vars(SweepFinds) /\ WF_vars(SweepRemoves)

FairSpec == Spec /\ Fairness

-----------------------------------------------------------------------------
(* Properties.                                                              *)

Whole(f) == data[f] = Blocks

\* What the runner gets is the file, without a hole: although retries share a
\* temporary file with requests that were given up, only sizes are compared,
\* and a cut request unlinks the name of another (upload_chunk,
\* finalize_chunked).
AssembledIsWhole == out = "job" => \A c \in Chunks : blob[c] = Blocks

\* A chunk the client was told is stored stays stored, and whole, until the
\* concatenation takes it or its directory goes, over restarts and late requests.
StoredStaysStored ==
    dir /\ pc \in {"uploading", "finalizing"} =>
        \A c \in Chunks :
            (pc = "finalizing" \/ c < at[1]) /\ c > copied =>
                part[c] # NoFile /\ Whole(part[c])

\* Only a submission that raised and a restart strand the assembled file: every
\* other way out of finalize_chunked gives it to a job or removes it. One that
\* has taken parts leaves no directory either, in which the rest of them would
\* wait for a finalize that can no longer succeed.
NothingLeftBehind ==
    restarts = 0 =>
        /\ out = "file" => fin \in {"concat", "raised"}
        /\ fin = "over" /\ copied > 0 => ~dir

\* Every upload ends at the client, in a job or an error.
UploadEnds == pc = "start" ~> pc \in {"done", "failed"}

\* Every directory goes, whether finalized, refused, cancelled or abandoned.
DirectoryGoes == dir ~> ~dir

-----------------------------------------------------------------------------
(* What a document says.                                                    *)

\* docs/ARCHITECTURE.md: the body is streamed to chunk-NNNN.part.tmp, "then
\* atomically renamed on success": a part is a whole body.
PublishedIsWhole == \A c \in Chunks : part[c] # NoFile => Whole(part[c])
=============================================================================
