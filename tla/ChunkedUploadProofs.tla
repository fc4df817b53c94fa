------------------------ MODULE ChunkedUploadProofs ------------------------
(***************************************************************************)
(* Proofs about ChunkedUpload, for any number of chunks, blocks and         *)
(* restarts: type correctness, and, when no request overtakes a later one,  *)
(* that stored chunks stay stored and that a job gets the whole file.       *)
(***************************************************************************)
EXTENDS ChunkedUpload, TLAPS

\* The client was told that chunk c is stored.
Acked(c) == c < at[1] \/ fin # "unsent"

\* The client's place and what it has sent. Nothing for an acknowledged chunk
\* is still under way, because requests arrive in order.
SentInOrder ==
    /\ pc = "start" => at = <<1, 1>> /\ fin = "unsent"
    /\ pc \in {"start", "uploading"} => fin = "unsent"
    /\ pc = "finalizing" => fin # "unsent"
    /\ pc = "start" => \A q \in Requests : req[q] = "unsent"
    /\ \A q \in Requests : Earlier(at, q) => req[q] = "unsent"
    /\ \A q \in Requests : req[q] \in {"unsent", "sent"} => pos[q] = 0
    /\ \A q \in Requests : Acked(q[1]) => req[q] # "sent"

\* A file belongs to one chunk, and names exist in the directory only.
FilesOfChunks ==
    /\ \A c \in Chunks : tmp[c] # NoFile => tmp[c][1] = c /\ dir
    /\ \A c \in Chunks : part[c] # NoFile => part[c][1] = c /\ dir
    /\ \A q \in Requests : req[q] = "streaming" => fh[q] \in Files /\ fh[q][1] = q[1]

\* The request the client waits for is the last to have emptied its file.
CurrentHoldsFile ==
    req[at] = "streaming" =>
        /\ \A q \in Requests : Earlier(q, at) => req[q] # "sent"
        /\ 1..pos[at] \subseteq data[fh[at]]
        /\ tmp[at[1]] \in {NoFile, fh[at]}

\* An acknowledged chunk is published whole and has no temporary file.
AckedIsStored ==
    \A c \in Chunks : Acked(c) =>
        /\ tmp[c] = NoFile
        /\ part[c] # NoFile => Whole(part[c])
        /\ dir /\ c > copied => part[c] # NoFile

CopiedIsWhole ==
    /\ \A c \in Chunks : c <= copied => blob[c] = Blocks
    /\ out = "job" => copied = ChunkCount

UploadInv ==
    SentInOrder /\ FilesOfChunks /\ CurrentHoldsFile /\ AckedIsStored /\ CopiedIsWhole

-----------------------------------------------------------------------------
\* Requests are pairs, totally ordered, and none of them is NoFile.
LEMMA RequestFacts ==
    /\ \A q \in Requests : q[1] \in Chunks /\ q[2] \in {1, 2} /\ q = <<q[1], q[2]>>
    /\ \A c \in Chunks : <<c, 1>> \in Requests /\ <<c, 2>> \in Requests
    /\ NoFile \notin Requests
    /\ \A q, r \in Requests : q = r \/ Earlier(q, r) \/ Earlier(r, q)
<1>1. \A q \in Requests : q[1] \in Chunks /\ q[2] \in {1, 2} /\ q = <<q[1], q[2]>>
  BY DEF Requests
<1>2. NoFile \notin Requests
  BY <1>1 DEF NoFile, Chunks
<1>3. \A q, r \in Requests : q = r \/ Earlier(q, r) \/ Earlier(r, q)
  <2> SUFFICES ASSUME NEW q \in Requests, NEW r \in Requests, q[1] = r[1] => q[2] # r[2]
               PROVE  Earlier(q, r) \/ Earlier(r, q)
    BY <1>1
  <2>1. q[1] \in Nat /\ r[1] \in Nat
    BY <1>1, UploadAssumption DEF Chunks
  <2>2. q[2] \in {1, 2} /\ r[2] \in {1, 2}
    BY <1>1
  <2>3. QED
    BY <2>1, <2>2 DEF Earlier
<1>4. QED
  BY <1>1, <1>2, <1>3 DEF Requests

LEMMA TypeInit == Init => TypeOK
<1> SUFFICES ASSUME Init PROVE TypeOK
  OBVIOUS
<1>1. 1 \in Chunks /\ 0 \in 0..ChunkCount /\ 0 \in 0..BlockCount /\ 0 \in 0..MaxRestarts
  BY UploadAssumption DEF Chunks
<1>2. at \in Requests
  BY <1>1, RequestFacts DEF Init
<1>3. pos \in [Requests -> 0..BlockCount] /\ copied \in 0..ChunkCount /\ restarts \in 0..MaxRestarts
  BY <1>1 DEF Init
<1>4. QED
  BY <1>2, <1>3 DEF Init, TypeOK

LEMMA ProceedType ==
    ASSUME TypeOK, NEW c \in Chunks, NEW others, Proceed(c, others),
           others \in [Requests -> {"unsent", "sent", "streaming", "over"}]
    PROVE  /\ pc' \in {"start", "uploading", "finalizing", "done", "failed"}
           /\ at' \in Requests
           /\ req' \in [Requests -> {"unsent", "sent", "streaming", "over"}]
           /\ fin' \in {"unsent", "sent", "concat", "raised", "over"}
<1>1. CASE IsLast(c)
  BY <1>1 DEF Proceed, TypeOK
<1>2. CASE ~IsLast(c)
  <2>1. c + 1 \in Chunks
    BY <1>2, UploadAssumption DEF IsLast, Chunks
  <2>2. QED
    BY <1>2, <2>1, RequestFacts DEF Proceed, TypeOK
<1>3. QED
  BY <1>1, <1>2

LEMMA TypeStep == ASSUME TypeOK, [Next]_vars PROVE TypeOK'
<1> USE DEF TypeOK, clientVars, chunkVars, dirVars, finVars
<1>1. CASE InitServed
  BY <1>1 DEF InitServed
<1>2. CASE InitFails
  BY <1>2 DEF InitFails
<1>3. CASE Retry
  BY <1>3, RequestFacts DEF Retry
<1>4. CASE GiveUp
  BY <1>4 DEF GiveUp
<1>5. CASE Cancel
  BY <1>5 DEF Cancel
<1>6. ASSUME NEW r \in Requests, Lost(r) PROVE TypeOK'
  BY <1>6 DEF Lost
<1>7. ASSUME NEW r \in Requests, RefuseChunk(r) PROVE TypeOK'
  BY <1>7 DEF RefuseChunk, Ends, Answer
<1>8. ASSUME NEW r \in Requests, OpenTmp(r) PROVE TypeOK'
  <2>1. r[1] \in Chunks
    BY RequestFacts
  <2>2. (IF tmp[r[1]] = NoFile THEN r ELSE tmp[r[1]]) \in Files
    BY <2>1 DEF Files
  <2>3. QED
    BY <1>8, <2>1, <2>2 DEF OpenTmp
<1>9. ASSUME NEW r \in Requests, WriteBlock(r) PROVE TypeOK'
  <2>1. pos[r] + 1 \in Blocks /\ pos[r] + 1 \in 0..BlockCount
    BY <1>9, UploadAssumption DEF WriteBlock, Blocks
  <2>2. data' \in [Files -> SUBSET Blocks]
    BY <1>9, <2>1 DEF WriteBlock
  <2>3. pos' \in [Requests -> 0..BlockCount]
    BY <1>9, <2>1 DEF WriteBlock
  <2>4. QED
    BY <1>9, <2>2, <2>3 DEF WriteBlock
<1>10. ASSUME NEW r \in Requests, Cut(r) PROVE TypeOK'
  BY <1>10 DEF Cut, Ends, Answer
<1>11. ASSUME NEW r \in Requests, Publish(r) PROVE TypeOK'
  <2>1. r[1] \in Chunks
    BY RequestFacts
  <2>2. [req EXCEPT ![r] = "over"] \in [Requests -> {"unsent", "sent", "streaming", "over"}]
    OBVIOUS
  <2>3. CASE Awaits(r)
    <3>1. Proceed(r[1], [req EXCEPT ![r] = "over"])
      BY <1>11, <2>3 DEF Publish
    <3>2. QED
      BY <1>11, <2>1, <2>2, <3>1, ProceedType DEF Publish
  <2>4. CASE ~Awaits(r)
    BY <1>11, <2>1, <2>4 DEF Publish, Ends
  <2>5. QED
    BY <2>3, <2>4
<1>12. ASSUME NEW r \in Requests, PublishFails(r) PROVE TypeOK'
  BY <1>12 DEF PublishFails, Ends, Answer
<1>13. CASE RefuseFinalize
  BY <1>13 DEF RefuseFinalize, Answered
<1>14. CASE BeginConcat
  BY <1>14 DEF BeginConcat
<1>15. CASE CopyPart
  <2>1. copied + 1 \in Chunks /\ copied + 1 \in 0..ChunkCount
    BY <1>15, UploadAssumption DEF CopyPart, Chunks
  <2>2. data[part[copied + 1]] \in SUBSET Blocks
    BY <1>15, <2>1 DEF CopyPart
  <2>3. QED
    BY <1>15, <2>1, <2>2 DEF CopyPart
<1>16. CASE ConcatFails
  BY <1>16 DEF ConcatFails, RemoveDir, Answered
<1>17. ASSUME NEW accepted \in BOOLEAN, Submitted(accepted) PROVE TypeOK'
  BY <1>17 DEF Submitted, OutOfGate, RemoveDir, Answered
<1>22. CASE SubmitRaises
  BY <1>22 DEF SubmitRaises, Answered
<1>18. CASE SweepStep
  BY <1>18 DEF SweepStep, Age, SweepFinds, SweepRemoves, RemoveDir
<1>19. CASE Restart
  <2>1. restarts' \in 0..MaxRestarts
    BY <1>19, UploadAssumption DEF Restart
  <2>2. req' \in [Requests -> {"unsent", "sent", "streaming", "over"}]
    BY <1>19 DEF Restart
  <2>3. fin' \in {"unsent", "sent", "concat", "raised", "over"}
    BY <1>19 DEF Restart
  <2>4. QED
    BY <1>19, <2>1, <2>2, <2>3 DEF Restart
<1>20. CASE UNCHANGED vars
  BY <1>20 DEF vars
<1>21. QED
  BY <1>1, <1>2, <1>3, <1>4, <1>5, <1>6, <1>7, <1>8, <1>9, <1>10, <1>11, <1>12,
     <1>13, <1>14, <1>15, <1>16, <1>17, <1>18, <1>19, <1>20, <1>22
     DEF Next, ClientStep, Handle, Finalize

\* Type correctness of the upload, for every number of chunks and blocks.
THEOREM UploadTypeCorrect == Spec => []TypeOK
<1>1. Init => TypeOK
  BY TypeInit
<1>2. TypeOK /\ [Next]_vars => TypeOK'
  BY TypeStep
<1>3. QED
  BY <1>1, <1>2, PTL DEF Spec

-----------------------------------------------------------------------------
\* The invariant, action by action.

LEMMA InvInit == Init => UploadInv
<1> SUFFICES ASSUME Init PROVE UploadInv
  OBVIOUS
<1> USE DEF Init
<1>1. \A c \in Chunks : ~Acked(c)
  BY UploadAssumption DEF Acked, Chunks
<1>2. SentInOrder
  BY <1>1, RequestFacts DEF SentInOrder
<1>3. FilesOfChunks
  BY DEF FilesOfChunks
<1>4. CurrentHoldsFile
  <2>1. 1 \in Chunks
    BY UploadAssumption DEF Chunks
  <2>2. at \in Requests
    BY <2>1, RequestFacts
  <2>3. req[at] = "unsent"
    BY <2>2
  <2>4. QED
    BY <2>3 DEF CurrentHoldsFile
<1>5. AckedIsStored
  BY <1>1 DEF AckedIsStored
<1>6. CopiedIsWhole
  BY DEF CopiedIsWhole, Chunks
<1>7. QED
  BY <1>2, <1>3, <1>4, <1>5, <1>6 DEF UploadInv

\* The client's steps without a new request, and steps of meta.json's age.
LEMMA InvClient ==
    ASSUME TypeOK, UploadInv, UNCHANGED <<at, chunkVars, dir, tmp, part, data, finVars>>,
           pc' = pc \/ pc' \in {"done", "failed"}
    PROVE  UploadInv'
BY DEF UploadInv, SentInOrder, FilesOfChunks, CurrentHoldsFile, AckedIsStored,
       CopiedIsWhole, Acked, Whole, chunkVars, finVars

LEMMA InvInitServed == ASSUME TypeOK, UploadInv, InitServed PROVE UploadInv'
<1> USE DEF InitServed, finVars
<1>1. at = <<1, 1>> /\ at[1] = 1 /\ at \in Requests /\ fin = "unsent"
  BY DEF UploadInv, SentInOrder, TypeOK
<1>2. \A c \in Chunks : ~Acked(c) /\ ~Acked(c)'
  BY <1>1, UploadAssumption DEF Acked, Chunks
<1>3. \A q \in Requests : req[q] = "unsent" /\ req'[q] \in {"unsent", "sent"}
  BY DEF UploadInv, SentInOrder, TypeOK
<1>4. \A q \in Requests : q # at => req'[q] = "unsent"
  BY <1>1, <1>3 DEF TypeOK
<1>5. \A q \in Requests : Earlier(at, q) => q # at
  BY <1>1 DEF Earlier
<1>6. SentInOrder'
  BY <1>1, <1>2, <1>3, <1>4, <1>5, RequestFacts DEF UploadInv, SentInOrder, Earlier
<1>7. FilesOfChunks'
  BY <1>3 DEF UploadInv, FilesOfChunks
<1>8. CurrentHoldsFile'
  BY <1>1, <1>3 DEF CurrentHoldsFile
<1>9. AckedIsStored'
  BY <1>2 DEF AckedIsStored
<1>10. CopiedIsWhole'
  BY DEF UploadInv, CopiedIsWhole
<1>11. QED
  BY <1>6, <1>7, <1>8, <1>9, <1>10 DEF UploadInv

LEMMA InvRetry == ASSUME TypeOK, UploadInv, Retry PROVE UploadInv'
<1> USE DEF Retry, dirVars, finVars
<1>1. at \in Requests /\ at' \in Requests /\ at'[1] = at[1] /\ at' = <<at[1], 2>> /\ at[2] = 1
  BY RequestFacts DEF TypeOK
<1>2. Earlier(at, at') /\ req[at'] = "unsent" /\ fin = "unsent"
  BY <1>1 DEF Earlier, UploadInv, SentInOrder
<1>3. \A q \in Requests : Earlier(at', q) => Earlier(at, q) /\ q # at'
  BY <1>1, RequestFacts, UploadAssumption DEF Earlier, Chunks
<1>4. \A q \in Requests : q # at' => req'[q] = req[q]
  BY <1>1 DEF TypeOK
<1>5. req'[at'] = "sent"
  BY <1>1 DEF TypeOK
<1>6. \A c : Acked(c)' <=> Acked(c)
  BY <1>1 DEF Acked
<1>7. ~Acked(at'[1])
  BY <1>1, <1>2, RequestFacts, UploadAssumption DEF Acked, Chunks
<1>8. SentInOrder'
  BY <1>1, <1>2, <1>3, <1>4, <1>5, <1>6, <1>7 DEF UploadInv, SentInOrder, Earlier
<1>9. FilesOfChunks'
  BY <1>4, <1>5 DEF UploadInv, FilesOfChunks
<1>10. CurrentHoldsFile'
  BY <1>5 DEF CurrentHoldsFile
<1>11. AckedIsStored'
  BY <1>6 DEF UploadInv, AckedIsStored, Whole
<1>12. CopiedIsWhole'
  BY DEF UploadInv, CopiedIsWhole
<1>13. QED
  BY <1>8, <1>9, <1>10, <1>11, <1>12 DEF UploadInv

\* A request ends, and its file's name may go with it.
LEMMA InvEnds ==
    ASSUME TypeOK, UploadInv, NEW r \in Requests, Ends(r), req[r] # "unsent",
           pc' = pc \/ pc' = "failed",
           tmp' = tmp \/ tmp' = [tmp EXCEPT ![r[1]] = NoFile],
           UNCHANGED <<at, fh, pos, dir, part, data, finVars>>
    PROVE  UploadInv'
<1> USE DEF Ends, finVars
<1>1. \A q \in Requests : q # r => req'[q] = req[q]
  BY DEF TypeOK
<1>2. req'[r] = "over"
  BY DEF TypeOK
<1>3. \A c : Acked(c)' <=> Acked(c)
  BY DEF Acked
<1>4. \A c \in Chunks : tmp'[c] = tmp[c] \/ tmp'[c] = NoFile
  BY DEF TypeOK
<1>5. at \in Requests /\ at[1] \in Chunks
  BY RequestFacts DEF TypeOK
<1>6. SentInOrder'
  BY <1>1, <1>2, <1>3 DEF UploadInv, SentInOrder, Earlier
<1>7. FilesOfChunks'
  BY <1>1, <1>2, <1>4 DEF UploadInv, FilesOfChunks
<1>8. CurrentHoldsFile'
  BY <1>1, <1>2, <1>4, <1>5 DEF UploadInv, CurrentHoldsFile, Earlier
<1>9. AckedIsStored'
  BY <1>3, <1>4 DEF UploadInv, AckedIsStored, Whole
<1>10. CopiedIsWhole'
  BY DEF UploadInv, CopiedIsWhole
<1>11. QED
  BY <1>6, <1>7, <1>8, <1>9, <1>10 DEF UploadInv

\* Only here a file loses blocks: no file of an acknowledged chunk, and not
\* that of the request the client waits for, because nothing overtakes.
LEMMA InvOpenTmp ==
    ASSUME TypeOK, UploadInv, ~Overtake, NEW r \in Requests, OpenTmp(r)
    PROVE  UploadInv'
<1> DEFINE f == IF tmp[r[1]] = NoFile THEN r ELSE tmp[r[1]]
<1>1. /\ Reaches(r) /\ dir
      /\ req' = [req EXCEPT ![r] = "streaming"]
      /\ fh' = [fh EXCEPT ![r] = f]
      /\ tmp' = [tmp EXCEPT ![r[1]] = f]
      /\ data' = [data EXCEPT ![f] = {}]
      /\ UNCHANGED <<pc, at, pos, dir, part, fin, copied, blob, out>>
  BY DEF OpenTmp, clientVars, finVars
<1>2. r[1] \in Chunks /\ f \in Files /\ f[1] = r[1]
  BY RequestFacts DEF TypeOK, Files, UploadInv, FilesOfChunks
<1> HIDE DEF f
<1>3. req[r] = "sent" /\ \A q \in Requests : Earlier(q, r) => req[q] # "sent"
  BY <1>1 DEF Reaches
<1>4. ~Acked(r[1]) /\ pos[r] = 0
  BY <1>3 DEF UploadInv, SentInOrder
<1>5. \A c : Acked(c)' <=> Acked(c)
  BY <1>1 DEF Acked
<1>6. /\ \A q \in Requests : q # r => req'[q] = req[q] /\ fh'[q] = fh[q]
      /\ req'[r] = "streaming" /\ fh'[r] = f
  BY <1>1 DEF TypeOK
<1>7. \A c \in Chunks : c # r[1] => tmp'[c] = tmp[c]
  BY <1>1 DEF TypeOK
<1>8. tmp'[r[1]] = f /\ data'[f] = {}
  BY <1>1, <1>2 DEF TypeOK
<1>9. \A g \in Files : g # f => data'[g] = data[g]
  BY <1>1 DEF TypeOK
<1>10. at \in Requests
  BY DEF TypeOK
<1>11. SentInOrder'
  BY <1>1, <1>3, <1>5, <1>6 DEF UploadInv, SentInOrder, Earlier
<1>12. FilesOfChunks'
  <2>1. \A c \in Chunks : tmp'[c] # NoFile => tmp'[c][1] = c /\ dir'
    BY <1>1, <1>2, <1>7, <1>8 DEF UploadInv, FilesOfChunks
  <2>2. \A q \in Requests : req'[q] = "streaming" => fh'[q] \in Files /\ fh'[q][1] = q[1]
    BY <1>2, <1>6 DEF UploadInv, FilesOfChunks
  <2>3. QED
    BY <1>1, <2>1, <2>2 DEF UploadInv, FilesOfChunks
<1>13. CurrentHoldsFile'
  <2>1. CASE r = at
    <3>1. \A q \in Requests : Earlier(q, at) => req'[q] # "sent"
      BY <1>3, <1>6, <2>1
    <3>2. 1..pos[at] = {}
      BY <1>4, <2>1
    <3>3. QED
      BY <1>1, <1>6, <1>8, <2>1, <3>1, <3>2 DEF CurrentHoldsFile, Earlier
  <2>2. CASE r # at
    <3>1. ~Earlier(at, r)
      BY <1>3 DEF UploadInv, SentInOrder
    <3>2. Earlier(r, at)
      BY <1>10, <2>2, <3>1, RequestFacts
    <3>3. req[at] # "streaming"
      BY <1>3, <3>2 DEF UploadInv, CurrentHoldsFile
    <3>4. req'[at] # "streaming"
      BY <1>6, <1>10, <2>2, <3>3
    <3>5. QED
      BY <1>1, <3>4 DEF CurrentHoldsFile
  <2>3. QED
    BY <2>1, <2>2
<1>14. AckedIsStored'
  <2> SUFFICES ASSUME NEW c \in Chunks, Acked(c)
               PROVE  /\ tmp'[c] = NoFile
                      /\ part'[c] # NoFile => Whole(part[c])'
                      /\ dir' /\ c > copied' => part'[c] # NoFile
    BY <1>5 DEF AckedIsStored
  <2>1. c # r[1]
    BY <1>4
  <2>2. tmp'[c] = NoFile
    BY <1>7, <2>1 DEF UploadInv, AckedIsStored
  <2>3. ASSUME part[c] # NoFile PROVE Whole(part[c])'
    <3>1. part[c] \in Files /\ part[c][1] = c
      BY <2>3 DEF TypeOK, UploadInv, FilesOfChunks
    <3>2. part[c] # f
      BY <1>2, <2>1, <3>1
    <3>3. data'[part[c]] = data[part[c]]
      BY <1>9, <3>1, <3>2
    <3>4. Whole(part[c])
      BY <2>3 DEF UploadInv, AckedIsStored
    <3>5. QED
      BY <1>1, <3>3, <3>4 DEF Whole
  <2>4. QED
    BY <1>1, <2>2, <2>3 DEF UploadInv, AckedIsStored
<1>15. CopiedIsWhole'
  BY <1>1 DEF UploadInv, CopiedIsWhole
<1>16. QED
  BY <1>11, <1>12, <1>13, <1>14, <1>15 DEF UploadInv

LEMMA InvWriteBlock ==
    ASSUME TypeOK, UploadInv, NEW r \in Requests, WriteBlock(r)
    PROVE  UploadInv'
<1> USE DEF WriteBlock, clientVars, finVars
<1>1. \A c : Acked(c)' <=> Acked(c)
  BY DEF Acked
<1>2. fh[r] \in Files
  BY DEF UploadInv, FilesOfChunks
<1>3. \A g \in Files : data[g] \subseteq data'[g] /\ data'[g] \subseteq data[g] \cup {pos[r] + 1}
  BY DEF TypeOK
<1>4. pos[r] + 1 \in data'[fh[r]] /\ pos[r] + 1 \in Blocks
  <2>1. pos[r] + 1 \in Blocks
    BY UploadAssumption DEF TypeOK, Blocks
  <2>2. QED
    BY <1>2, <2>1 DEF TypeOK
<1>5. \A q \in Requests : q # r => pos'[q] = pos[q]
  BY DEF TypeOK
<1>6. SentInOrder'
  BY <1>1, <1>5 DEF UploadInv, SentInOrder, Earlier
<1>7. FilesOfChunks'
  BY DEF UploadInv, FilesOfChunks
<1>8. CurrentHoldsFile'
  <2> SUFFICES ASSUME req[at] = "streaming" PROVE 1..pos'[at] \subseteq data'[fh[at]]
    BY DEF UploadInv, CurrentHoldsFile, Earlier
  <2>1. at \in Requests /\ fh[at] \in Files /\ 1..pos[at] \subseteq data[fh[at]]
    BY DEF TypeOK, UploadInv, CurrentHoldsFile, FilesOfChunks
  <2>2. CASE at = r
    <3>1. pos'[at] = pos[at] + 1 /\ pos[at] \in Nat
      BY <2>1, <2>2 DEF TypeOK
    <3>2. 1..pos'[at] \subseteq (1..pos[at]) \cup {pos[at] + 1}
      BY <3>1
    <3>3. QED
      BY <1>3, <1>4, <2>1, <2>2, <3>2
  <2>3. CASE at # r
    BY <1>3, <1>5, <2>1, <2>3
  <2>4. QED
    BY <2>2, <2>3
<1>9. AckedIsStored'
  <2> SUFFICES ASSUME NEW c \in Chunks, Acked(c), part[c] # NoFile PROVE Whole(part[c])'
    BY <1>1 DEF UploadInv, AckedIsStored
  <2>1. part[c] \in Files /\ data[part[c]] = Blocks
    BY DEF UploadInv, AckedIsStored, Whole, TypeOK
  <2>2. data'[part[c]] = Blocks
    BY <1>3, <1>4, <2>1
  <2>3. QED
    BY <2>2 DEF Whole
<1>10. CopiedIsWhole'
  BY DEF UploadInv, CopiedIsWhole
<1>11. QED
  BY <1>6, <1>7, <1>8, <1>9, <1>10 DEF UploadInv

\* What a published name changes, whoever published it: nothing of an
\* acknowledged chunk.
LEMMA PublishedNames ==
    ASSUME TypeOK, UploadInv, NEW r \in Requests, Publish(r)
    PROVE  /\ r[1] \in Chunks /\ ~Acked(r[1])
           /\ part'[r[1]] = tmp[r[1]] /\ tmp'[r[1]] = NoFile
           /\ \A c \in Chunks : c # r[1] => part'[c] = part[c] /\ tmp'[c] = tmp[c]
           /\ UNCHANGED <<fh, pos, dir, data, copied, blob, out>>
<1>1. r[1] \in Chunks
  BY RequestFacts
<1>2. ~Acked(r[1])
  BY <1>1 DEF Publish, UploadInv, AckedIsStored
<1>3. QED
  BY <1>1, <1>2 DEF Publish, TypeOK

\* A late publisher, whom nobody waits for.
LEMMA InvPublishLate ==
    ASSUME TypeOK, UploadInv, NEW r \in Requests, Publish(r), ~Awaits(r)
    PROVE  UploadInv'
<1>1. /\ Ends(r) /\ UNCHANGED <<pc, at, fin>> /\ req[r] = "streaming"
  BY DEF Publish, clientVars
<1>2. \A q \in Requests : q # r => req'[q] = req[q]
  BY <1>1 DEF Ends, TypeOK
<1>3. req'[r] = "over"
  BY <1>1 DEF Ends, TypeOK
<1>4. \A c : Acked(c)' <=> Acked(c)
  BY <1>1 DEF Acked
<1>5. at \in Requests /\ at[1] \in Chunks
  BY RequestFacts DEF TypeOK
<1>6. SentInOrder'
  BY <1>1, <1>2, <1>3, <1>4, PublishedNames DEF UploadInv, SentInOrder, Earlier
<1>7. FilesOfChunks'
  BY <1>2, <1>3, PublishedNames DEF UploadInv, FilesOfChunks
<1>8. CurrentHoldsFile'
  BY <1>1, <1>2, <1>3, <1>5, PublishedNames DEF UploadInv, CurrentHoldsFile, Earlier
<1>9. AckedIsStored'
  BY <1>4, PublishedNames DEF UploadInv, AckedIsStored, Whole
<1>10. CopiedIsWhole'
  BY PublishedNames DEF UploadInv, CopiedIsWhole
<1>11. QED
  BY <1>6, <1>7, <1>8, <1>9, <1>10 DEF UploadInv

\* The awaited publisher wrote every block to the file it publishes, and
\* nothing for its chunk is under way any more.
LEMMA InvPublishAwaited ==
    ASSUME TypeOK, TypeOK', UploadInv, NEW r \in Requests, Publish(r), Awaits(r)
    PROVE  UploadInv'
<1>1. /\ at = r /\ pc = "uploading" /\ fin = "unsent"
      /\ Proceed(r[1], [req EXCEPT ![r] = "over"])
      /\ req[r] = "streaming" /\ pos[r] = BlockCount /\ tmp[r[1]] # NoFile
  BY DEF Publish, Awaits, UploadInv, SentInOrder
<1>2. Whole(tmp[r[1]])
  <2>1. tmp[r[1]] = fh[r] /\ 1..BlockCount \subseteq data[fh[r]] /\ fh[r] \in Files
    BY <1>1 DEF UploadInv, CurrentHoldsFile, FilesOfChunks
  <2>2. QED
    BY <2>1 DEF Whole, Blocks, TypeOK
<1>3. \A q \in Requests : q[1] \in Nat /\ q[2] \in {1, 2}
  BY RequestFacts, UploadAssumption DEF Chunks
<1>4. at' = at \/ (at' = <<r[1] + 1, 1>> /\ fin' = "unsent" /\ pc' = "uploading")
  BY <1>1 DEF Proceed
<1>5. \A q \in Requests : Earlier(at', q) => q # at' /\ Earlier(at, q)
  BY <1>1, <1>3, <1>4 DEF Earlier
<1>6. \A q \in Requests : q # r /\ q # at' => req'[q] = req[q]
  BY <1>1 DEF Proceed, TypeOK
<1>7. req'[r] = "over" /\ (at' # at => req'[at'] = "sent")
  <2>1. at' # at => at'[1] = r[1] + 1 /\ at' # r
    BY <1>1, <1>4
  <2>2. at' \in Requests
    BY DEF TypeOK
  <2>3. QED
    BY <1>1, <1>4, <2>1, <2>2 DEF Proceed, TypeOK
<1>8. \A c \in Chunks : Acked(c)' => Acked(c) \/ c = r[1]
  <2>1. CASE IsLast(r[1])
    BY <1>1, <1>3, <2>1, UploadAssumption DEF Acked, Proceed, IsLast, Chunks
  <2>2. CASE ~IsLast(r[1])
    BY <1>1, <1>3, <2>2, UploadAssumption DEF Acked, Proceed, Chunks
  <2>3. QED
    BY <2>1, <2>2
<1>9. \A q \in Requests : q = at' /\ Acked(q[1])' => q = r
  BY <1>1, <1>3, <1>4 DEF Acked
<1>10. \A q \in Requests : q[1] = r[1] => req'[q] # "sent"
  <2> SUFFICES ASSUME NEW q \in Requests, q[1] = r[1] PROVE req'[q] # "sent"
    OBVIOUS
  <2>1. CASE q = r
    BY <1>7, <2>1
  <2>2. CASE q # r
    <3>1. q # at'
      BY <1>1, <1>3, <1>4, <2>2
    <3>2. req'[q] = req[q]
      BY <1>6, <2>2, <3>1
    <3>3. Earlier(q, at) \/ Earlier(at, q)
      BY <1>1, <2>2, RequestFacts
    <3>4. req[q] # "sent"
      BY <1>1, <3>3 DEF UploadInv, CurrentHoldsFile, SentInOrder
    <3>5. QED
      BY <3>2, <3>4
  <2>3. QED
    BY <2>1, <2>2
<1>11. SentInOrder'
  <2>1. \A q \in Requests : Earlier(at', q) => req'[q] = "unsent"
    <3> SUFFICES ASSUME NEW q \in Requests, Earlier(at', q) PROVE req'[q] = "unsent"
      OBVIOUS
    <3>1. q # at' /\ Earlier(at, q)
      BY <1>5
    <3>2. q # r
      BY <1>1, <1>3, <3>1 DEF Earlier
    <3>3. QED
      BY <1>6, <3>1, <3>2 DEF UploadInv, SentInOrder
  <2>2. \A q \in Requests : Acked(q[1])' => req'[q] # "sent"
    <3> SUFFICES ASSUME NEW q \in Requests, Acked(q[1])' PROVE req'[q] # "sent"
      OBVIOUS
    <3>1. q[1] \in Chunks
      BY RequestFacts
    <3>2. CASE q[1] = r[1]
      BY <1>10, <3>2
    <3>3. CASE q[1] # r[1]
      <4>1. Acked(q[1])
        BY <1>8, <3>1, <3>3
      <4>2. q # r /\ q # at'
        BY <1>9, <3>3
      <4>3. QED
        BY <1>6, <4>1, <4>2 DEF UploadInv, SentInOrder
    <3>4. QED
      BY <3>2, <3>3
  <2>3. \A q \in Requests : req'[q] \in {"unsent", "sent"} => pos'[q] = 0
    <3> SUFFICES ASSUME NEW q \in Requests, req'[q] \in {"unsent", "sent"} PROVE pos[q] = 0
      BY PublishedNames
    <3>1. q # r
      BY <1>7
    <3>2. CASE q = at'
      <4>1. Earlier(at, q)
        BY <1>1, <1>3, <1>4, <3>1, <3>2 DEF Earlier
      <4>2. QED
        BY <4>1 DEF UploadInv, SentInOrder
    <3>3. CASE q # at'
      BY <1>6, <3>1, <3>3 DEF UploadInv, SentInOrder
    <3>4. QED
      BY <3>2, <3>3
  <2>4. /\ pc' # "start" /\ (pc' = "uploading" => fin' = "unsent")
        /\ pc' = "finalizing" => fin' # "unsent"
    BY <1>1 DEF Proceed
  <2>5. QED
    BY <2>1, <2>2, <2>3, <2>4 DEF SentInOrder, Earlier
<1>12. FilesOfChunks'
  <2>1. \A q \in Requests : req'[q] = "streaming" => req[q] = "streaming"
    BY <1>1, <1>6, <1>7
  <2>2. QED
    BY <2>1, PublishedNames DEF UploadInv, FilesOfChunks
<1>13. CurrentHoldsFile'
  BY <1>1, <1>7 DEF CurrentHoldsFile
<1>14. AckedIsStored'
  <2> SUFFICES ASSUME NEW c \in Chunks, Acked(c)'
               PROVE  /\ tmp'[c] = NoFile
                      /\ part'[c] # NoFile => Whole(part'[c])
                      /\ dir /\ c > copied => part'[c] # NoFile
    BY PublishedNames DEF AckedIsStored, Whole
  <2>1. CASE c = r[1]
    BY <1>1, <1>2, <2>1, PublishedNames
  <2>2. CASE c # r[1]
    BY <1>8, <2>2, PublishedNames DEF UploadInv, AckedIsStored
  <2>3. QED
    BY <2>1, <2>2
<1>15. CopiedIsWhole'
  BY PublishedNames DEF UploadInv, CopiedIsWhole
<1>16. QED
  BY <1>11, <1>12, <1>13, <1>14, <1>15 DEF UploadInv

-----------------------------------------------------------------------------
\* The finalize route, the sweep and restarts.

LEMMA AckedWhenFinalizing ==
    ASSUME fin # "unsent" PROVE \A c : Acked(c)
BY DEF Acked

\* The handler of the finalize moves on without touching a part.
LEMMA InvFinMoves ==
    ASSUME TypeOK, UploadInv, fin # "unsent", fin' # "unsent",
           pc' = pc \/ pc' \in {"done", "failed"},
           out' = out \/ out' # "job" \/ copied = ChunkCount,
           UNCHANGED <<at, chunkVars, data, copied, blob>>,
           UNCHANGED <<dir, tmp, part>> \/ RemoveDir
    PROVE  UploadInv'
<1> USE DEF chunkVars
<1>1. \A c : Acked(c) /\ Acked(c)'
  BY DEF Acked
<1>2. SentInOrder'
  BY <1>1 DEF UploadInv, SentInOrder, Earlier
<1>3. /\ dir' => UNCHANGED <<dir, tmp, part>>
      /\ \A c \in Chunks : tmp'[c] = NoFile \/ UNCHANGED <<dir, tmp, part>>
      /\ \A c \in Chunks : part'[c] = NoFile \/ UNCHANGED <<dir, tmp, part>>
  BY DEF RemoveDir
<1>4. FilesOfChunks'
  BY <1>3 DEF UploadInv, FilesOfChunks, TypeOK
<1>5. CurrentHoldsFile'
  BY <1>3, RequestFacts DEF UploadInv, CurrentHoldsFile, TypeOK, Earlier
<1>6. AckedIsStored'
  BY <1>1, <1>3 DEF UploadInv, AckedIsStored, Whole, TypeOK
<1>7. CopiedIsWhole'
  BY DEF UploadInv, CopiedIsWhole
<1>8. QED
  BY <1>2, <1>4, <1>5, <1>6, <1>7 DEF UploadInv

LEMMA InvCopyPart == ASSUME TypeOK, UploadInv, CopyPart PROVE UploadInv'
<1> USE DEF CopyPart, clientVars, chunkVars
<1>1. copied + 1 \in Chunks /\ copied \in Nat /\ copied' = copied + 1
  BY UploadAssumption DEF TypeOK, Chunks
<1>2. \A c : Acked(c) /\ Acked(c)'
  BY DEF Acked
<1>3. data[part[copied + 1]] = Blocks
  BY <1>1, <1>2 DEF UploadInv, AckedIsStored, Whole
<1>4. blob'[copied + 1] = Blocks /\ part'[copied + 1] = NoFile
  BY <1>1, <1>3 DEF TypeOK
<1>5. \A c \in Chunks : c # copied + 1 => blob'[c] = blob[c] /\ part'[c] = part[c]
  BY DEF TypeOK
<1>6. \A c \in Chunks : c \in Nat
  BY UploadAssumption DEF Chunks
<1>7. SentInOrder'
  BY <1>2 DEF UploadInv, SentInOrder, Earlier
<1>8. FilesOfChunks'
  BY <1>4, <1>5 DEF UploadInv, FilesOfChunks
<1>9. CurrentHoldsFile'
  BY DEF UploadInv, CurrentHoldsFile, Earlier
<1>10. AckedIsStored'
  BY <1>1, <1>2, <1>4, <1>5, <1>6 DEF UploadInv, AckedIsStored, Whole
<1>11. CopiedIsWhole'
  <2>1. out # "job"
    BY <1>1, UploadAssumption DEF UploadInv, CopiedIsWhole
  <2>2. \A c \in Chunks : c <= copied' => blob'[c] = Blocks
    BY <1>1, <1>4, <1>5, <1>6 DEF UploadInv, CopiedIsWhole
  <2>3. QED
    BY <2>1, <2>2 DEF CopiedIsWhole
<1>12. QED
  BY <1>7, <1>8, <1>9, <1>10, <1>11 DEF UploadInv

LEMMA InvSweepRemoves == ASSUME TypeOK, UploadInv, SweepRemoves PROVE UploadInv'
<1> USE DEF SweepRemoves, RemoveDir, clientVars, chunkVars, finVars
<1>1. \A c \in Chunks : tmp'[c] = NoFile /\ part'[c] = NoFile
  OBVIOUS
<1>2. \A c : Acked(c)' <=> Acked(c)
  BY DEF Acked
<1>3. SentInOrder'
  BY <1>2 DEF UploadInv, SentInOrder, Earlier
<1>4. FilesOfChunks'
  BY <1>1 DEF UploadInv, FilesOfChunks
<1>5. CurrentHoldsFile'
  BY <1>1, RequestFacts DEF UploadInv, CurrentHoldsFile, TypeOK, Earlier
<1>6. AckedIsStored'
  BY <1>1 DEF AckedIsStored
<1>7. CopiedIsWhole'
  BY DEF UploadInv, CopiedIsWhole
<1>8. QED
  BY <1>3, <1>4, <1>5, <1>6, <1>7 DEF UploadInv

LEMMA InvRestart == ASSUME TypeOK, UploadInv, Restart PROVE UploadInv'
<1> USE DEF Restart, clientVars
<1>1. \A q \in Requests : req'[q] = IF req[q] = "streaming" THEN "over" ELSE req[q]
  BY DEF TypeOK
<1>2. (fin' = "unsent" <=> fin = "unsent") /\ \A c : Acked(c)' <=> Acked(c)
  BY DEF Acked
<1>3. SentInOrder'
  BY <1>1, <1>2 DEF UploadInv, SentInOrder, Earlier
<1>4. FilesOfChunks'
  BY <1>1 DEF UploadInv, FilesOfChunks
<1>5. req'[at'] # "streaming"
  BY <1>1 DEF TypeOK
<1>6. CurrentHoldsFile'
  BY <1>5 DEF CurrentHoldsFile
<1>7. AckedIsStored'
  BY <1>2 DEF UploadInv, AckedIsStored, Whole
<1>8. CopiedIsWhole'
  BY DEF UploadInv, CopiedIsWhole
<1>9. QED
  BY <1>3, <1>4, <1>6, <1>7, <1>8 DEF UploadInv

LEMMA InvStep ==
    ASSUME TypeOK, TypeOK', UploadInv, ~Overtake, [Next]_vars
    PROVE  UploadInv'
<1>1. CASE InitServed
  BY <1>1, InvInitServed
<1>2. CASE InitFails \/ GiveUp \/ Cancel
  BY <1>2, InvClient DEF InitFails, GiveUp, Cancel, dirVars
<1>3. CASE Retry
  BY <1>3, InvRetry
<1>4. ASSUME NEW r \in Requests, Lost(r) PROVE UploadInv'
  BY <1>4, InvEnds DEF Lost, Ends, clientVars, dirVars
<1>5. ASSUME NEW r \in Requests, RefuseChunk(r) PROVE UploadInv'
  BY <1>5, InvEnds DEF RefuseChunk, Reaches, Answer, dirVars
<1>6. ASSUME NEW r \in Requests, OpenTmp(r) PROVE UploadInv'
  BY <1>6, InvOpenTmp
<1>7. ASSUME NEW r \in Requests, WriteBlock(r) PROVE UploadInv'
  BY <1>7, InvWriteBlock
<1>8. ASSUME NEW r \in Requests, Cut(r) PROVE UploadInv'
  BY <1>8, InvEnds DEF Cut, Answer
<1>9. ASSUME NEW r \in Requests, Publish(r) PROVE UploadInv'
  BY <1>9, InvPublishLate, InvPublishAwaited
<1>10. ASSUME NEW r \in Requests, PublishFails(r) PROVE UploadInv'
  BY <1>10, InvEnds DEF PublishFails, Answer, dirVars
<1>11. CASE RefuseFinalize
  BY <1>11, InvFinMoves DEF RefuseFinalize, Answered, dirVars
<1>12. CASE BeginConcat
  BY <1>12, InvFinMoves DEF BeginConcat, clientVars, dirVars
<1>13. CASE CopyPart
  BY <1>13, InvCopyPart
<1>14. CASE ConcatFails
  BY <1>14, InvFinMoves DEF ConcatFails, Answered
<1>15. ASSUME NEW accepted \in BOOLEAN, Submitted(accepted) PROVE UploadInv'
  BY <1>15, InvFinMoves DEF Submitted, Answered
<1>21. CASE SubmitRaises
  BY <1>21, InvFinMoves DEF SubmitRaises, Answered, dirVars
<1>16. CASE Age \/ SweepFinds
  BY <1>16, InvClient DEF Age, SweepFinds, clientVars
<1>17. CASE SweepRemoves
  BY <1>17, InvSweepRemoves
<1>18. CASE Restart
  BY <1>18, InvRestart
<1>19. CASE UNCHANGED vars
  BY <1>19, InvClient DEF vars, clientVars, dirVars
<1>20. QED
  BY <1>1, <1>2, <1>3, <1>4, <1>5, <1>6, <1>7, <1>8, <1>9, <1>10, <1>11, <1>12,
     <1>13, <1>14, <1>15, <1>16, <1>17, <1>18, <1>19, <1>21
     DEF Next, ClientStep, Handle, Finalize, SweepStep

\* A chunk the client was told is stored stays stored, and whole, until it is
\* copied or its directory goes, if requests arrive in order.
THEOREM StoredStays == ASSUME ~Overtake PROVE Spec => []StoredStaysStored
<1>1. Init => TypeOK /\ UploadInv
  BY TypeInit, InvInit
<1>2. TypeOK /\ UploadInv /\ [Next]_vars => (TypeOK /\ UploadInv)'
  BY TypeStep, InvStep
<1>3. TypeOK /\ UploadInv => StoredStaysStored
  BY DEF StoredStaysStored, UploadInv, AckedIsStored, SentInOrder, Acked
<1>4. QED
  BY <1>1, <1>2, <1>3, PTL DEF Spec

\* What the runner gets is the file, without a hole, if requests arrive in
\* order.
THEOREM AssembledWhole == ASSUME ~Overtake PROVE Spec => []AssembledIsWhole
<1>1. Init => TypeOK /\ UploadInv
  BY TypeInit, InvInit
<1>2. TypeOK /\ UploadInv /\ [Next]_vars => (TypeOK /\ UploadInv)'
  BY TypeStep, InvStep
<1>3. TypeOK /\ UploadInv => AssembledIsWhole
  BY UploadAssumption DEF AssembledIsWhole, UploadInv, CopiedIsWhole, Chunks
<1>4. QED
  BY <1>1, <1>2, <1>3, PTL DEF Spec


-----------------------------------------------------------------------------
\* The assembled file follows the finalize handler: it is made when the
\* concatenation begins, and every way out of it hands the file over or
\* unlinks it, but for a submission that raises and a restart.  The directory,
\* once parts have been taken, goes with the handler: nothing makes it anew.
OutFollowsFinalize ==
    /\ pc \in {"start", "uploading"} => fin = "unsent"
    /\ fin \in {"unsent", "sent"} => out = "absent" /\ copied = 0
    /\ fin = "concat" => out = "file"
    /\ fin = "over" => out \in {"job", "absent"} \/ restarts > 0
    /\ fin = "over" /\ copied > 0 => ~dir \/ restarts > 0

LEMMA OutFollowsStep ==
    ASSUME TypeOK, OutFollowsFinalize, [Next]_vars
    PROVE  OutFollowsFinalize'
<1> USE UploadAssumption DEF TypeOK, OutFollowsFinalize
<1>1. ASSUME UNCHANGED <<fin, out, restarts, copied>>, UNCHANGED dir \/ ~dir',
             \/ pc' \in {pc, "done", "failed"}
             \/ pc = "start" /\ pc' = "uploading"
      PROVE  OutFollowsFinalize'
  BY <1>1
<1>2. CASE InitFails \/ Retry \/ GiveUp \/ Cancel
  BY <1>1, <1>2 DEF InitFails, Retry, GiveUp, Cancel, finVars, dirVars
<1>14. CASE InitServed
  BY <1>14 DEF InitServed, finVars
<1>3. ASSUME NEW r \in Requests,
             \/ Lost(r) \/ RefuseChunk(r) \/ OpenTmp(r) \/ WriteBlock(r)
             \/ Cut(r) \/ PublishFails(r)
      PROVE  OutFollowsFinalize'
  BY <1>1, <1>3 DEF Lost, RefuseChunk, OpenTmp, WriteBlock, Cut, PublishFails,
     Answer, clientVars, finVars, dirVars
<1>4. ASSUME NEW r \in Requests, Publish(r) PROVE OutFollowsFinalize'
  <2>1. UNCHANGED <<out, restarts, copied, dir>>
    BY <1>4 DEF Publish
  <2>2. \/ UNCHANGED <<pc, fin>>
        \/ pc = "uploading" /\ pc' = "finalizing" /\ fin' = "sent"
    BY <1>4 DEF Publish, Awaits, Proceed, clientVars
  <2>3. QED
    BY <2>1, <2>2
<1>5. CASE RefuseFinalize
  BY <1>5 DEF RefuseFinalize, Answered, dirVars
<1>6. CASE BeginConcat
  BY <1>6 DEF BeginConcat, clientVars
<1>7. CASE CopyPart
  BY <1>1, <1>7 DEF CopyPart, clientVars
<1>8. CASE ConcatFails
  BY <1>8 DEF ConcatFails, RemoveDir, Answered
<1>9. ASSUME NEW accepted \in BOOLEAN, Submitted(accepted)
      PROVE  OutFollowsFinalize'
  BY <1>9 DEF Submitted, OutOfGate, RemoveDir, Answered
<1>15. CASE SubmitRaises
  BY <1>15 DEF SubmitRaises, Answered
<1>10. CASE SweepStep
  BY <1>1, <1>10 DEF SweepStep, Age, SweepFinds, SweepRemoves, RemoveDir,
     clientVars, finVars
<1>11. CASE Restart
  BY <1>11 DEF Restart, clientVars
<1>12. CASE UNCHANGED vars
  BY <1>1, <1>12 DEF vars, clientVars, finVars, dirVars
<1>13. QED
  BY <1>2, <1>3, <1>4, <1>5, <1>6, <1>7, <1>8, <1>9, <1>10, <1>11, <1>12, <1>14,
     <1>15
     DEF Next, ClientStep, Handle, Finalize

\* Only a submission that raises and a restart strand the assembled file, or
\* leave a directory whose parts have been taken; requests may overtake one
\* another.
THEOREM NothingIsLeft == Spec => []NothingLeftBehind
<1>1. Init => OutFollowsFinalize
  BY DEF Init, OutFollowsFinalize
<1>2. TypeOK /\ OutFollowsFinalize => NothingLeftBehind
  BY UploadAssumption DEF TypeOK, OutFollowsFinalize, NothingLeftBehind
<1>3. QED
  BY <1>1, <1>2, OutFollowsStep, UploadTypeCorrect, PTL DEF Spec
=============================================================================
