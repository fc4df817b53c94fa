---------------------- MODULE StreamingSessionsProofs ----------------------
(* Theorems about StreamingSessions, for any sessions, users and caps.      *)
EXTENDS StreamingSessions, FiniteSetTheorems, TLAPS

\* Type correctness: every variable of the session server keeps its type.
THEOREM SessionsTypeCorrect == Spec => []TypeOK
<1>1. Init => TypeOK
  BY SessionsAssumption DEF Init, TypeOK, ForAll, ForEach, Indices, Chunks, Occupying
<1>2. TypeOK /\ [Next]_vars => TypeOK'
  <2> SUFFICES ASSUME TypeOK, [Next]_vars PROVE TypeOK'
    OBVIOUS
  <2> USE DEF TypeOK, Occupying, Finalizing, sessionVars, handlerVars, clientVars
  <2>1. ASSUME NEW s \in Sids, NEW i \in Chunks, NEW u \in Users, OpenChunk(s, i, u)
        PROVE  TypeOK'
    <3>1. reading' \in SUBSET (Sids \X Chunks) /\ posted' \in [Sids -> SUBSET Chunks]
      BY <2>1 DEF OpenChunk
    <3>2. \/ UNCHANGED <<status, owner>>
          \/ /\ status' = [status EXCEPT ![s] = "active"]
             /\ owner' = [owner EXCEPT ![s] = u]
      BY <2>1 DEF OpenChunk
    <3>3. /\ status' \in [Sids -> {"none", "finalized", "aborted"} \cup Occupying]
          /\ owner' \in [Sids -> Users \cup {NoUser}]
      <4>1. CASE UNCHANGED <<status, owner>>
        BY <4>1
      <4>2. CASE /\ status' = [status EXCEPT ![s] = "active"]
                 /\ owner' = [owner EXCEPT ![s] = u]
        BY <4>2
      <4>3. QED
        BY <3>2, <4>1, <4>2
    <3>4. QED
      BY <2>1, <3>1, <3>3 DEF OpenChunk
  <2>2. ASSUME NEW s \in Sids, NEW i \in Chunks, AcceptChunk(s, i) PROVE TypeOK'
    <3>1. i \in Indices
      BY SessionsAssumption DEF Chunks, Indices
    <3>2. length' \in [Sids -> Nat]
      BY <2>2, SessionsAssumption DEF AcceptChunk
    <3>3. PICK take \in {"first", "again"} : Enqueue(s, i, take)
      BY <2>2 DEF AcceptChunk
    <3>4. /\ slot' \in [Sids -> [Indices -> {"empty", "pending", "done", "failed", "cancelled"}]]
          /\ audio' \in [Sids -> [Indices -> Takes \cup {"none"}]]
          /\ queue' \in Seq(Tasks)
      BY <3>1, <3>3 DEF Enqueue, Tasks, Takes
    <3>5. QED
      BY <2>2, <3>2, <3>4 DEF AcceptChunk
  <2>3. ASSUME NEW s \in Sids, NEW i \in Chunks, RefuseChunk(s, i) PROVE TypeOK'
    BY <2>3 DEF RefuseChunk
  <2>4. ASSUME Execute PROVE TypeOK'
    <3>1. queue # <<>> /\ queue' = Tail(queue)
      BY <2>4 DEF Execute, InferenceDone, InferenceFails, DropCancelled
    <3>2. Head(queue) \in Tasks /\ queue' \in Seq(Tasks)
      BY <3>1
    <3>3. Head(queue).sid \in Sids /\ Head(queue).index \in Indices
          /\ Head(queue).take \in Takes
      BY <3>2 DEF Tasks
    <3>4. CASE InferenceDone
      BY <3>2, <3>3, <3>4 DEF InferenceDone
    <3>5. CASE InferenceFails
      BY <3>2, <3>3, <3>5 DEF InferenceFails
    <3>6. CASE DropCancelled
      BY <3>2, <3>6 DEF DropCancelled
    <3>7. QED
      BY <2>4, <3>4, <3>5, <3>6 DEF Execute
  <2>5. ASSUME NEW s \in Sids, BeginFinalize(s) PROVE TypeOK'
    BY <2>5 DEF BeginFinalize, SnapshotOf
  <2>6. ASSUME NEW s \in Sids, AcceptTail(s) PROVE TypeOK'
    <3>1. length' \in [Sids -> Nat]
      BY <2>6, SessionsAssumption DEF AcceptTail
    <3>2. /\ slot' \in [Sids -> [Indices -> {"empty", "pending", "done", "failed", "cancelled"}]]
          /\ audio' \in [Sids -> [Indices -> Takes \cup {"none"}]]
          /\ queue' \in Seq(Tasks)
      BY <2>6 DEF AcceptTail, Enqueue, Tasks, Takes
    <3>3. QED
      BY <2>6, <3>1, <3>2 DEF AcceptTail
  <2>7. ASSUME NEW s \in Sids, RefuseTail(s) PROVE TypeOK'
    BY <2>7 DEF RefuseTail, GiveUp, AbortedUnlessOver
  <2>8. ASSUME NEW s \in Sids, Drained(s) PROVE TypeOK'
    <3> DEFINE m == tailAt[s] + 1
    <3> HIDE DEF m
    <3>1. m \in Nat /\ \A n \in 1..m : n - 1 \in Indices
      BY SessionsAssumption DEF Indices, m
    <3>2. [n \in 1..m |-> texts[s][n-1]] \in Seq(Takes \cup {"none"})
      BY <3>1
    <3>3. QED
      BY <2>8, <3>2 DEF Drained, m
  <2>9. ASSUME NEW s \in Sids, DrainedWithGap(s) \/ DrainFails(s) \/ InsertFails(s)
        PROVE  TypeOK'
    BY <2>9 DEF DrainedWithGap, DrainFails, InsertFails, GiveUp, AbortedUnlessOver
  <2>10. ASSUME NEW s \in Sids, DrainTimesOut(s) PROVE TypeOK'
    BY <2>10 DEF DrainTimesOut, Cancel, GiveUp, AbortedUnlessOver
  <2>11. ASSUME NEW s \in Sids, Insert(s) \/ Answer(s) PROVE TypeOK'
    <3>1. CASE Insert(s)
      <4>1. rows' \in [Sids -> Seq(Takes \cup {"none"})]
        BY <3>1 DEF Insert
      <4>2. QED
        BY <3>1, <4>1 DEF Insert
    <3>2. CASE Answer(s)
      BY <3>2 DEF Answer
    <3>3. QED
      BY <2>11, <3>1, <3>2
  <2>12. ASSUME NEW s \in Sids, Sweep(s) PROVE TypeOK'
    BY <2>12 DEF Sweep, Cancel
  <2>13. CASE Restart
    BY <2>13, SessionsAssumption DEF Restart, ForAll, ForEach, Indices
  <2>14. CASE UNCHANGED vars
    BY <2>14 DEF vars
  <2>15. QED
    BY <2>1, <2>2, <2>3, <2>4, <2>5, <2>6, <2>7, <2>8, <2>9, <2>10, <2>11,
       <2>12, <2>13, <2>14 DEF Next, EndDrain
<1>3. QED
  BY <1>1, <1>2, PTL DEF Spec

-----------------------------------------------------------------------------
(* The caps.                                                                *)

Occupied == {s \in Sids : status[s] \in Occupying}

CapInv ==
    /\ IsFiniteSet(Occupied)
    /\ SlotsWithinCap

\* No session but one being opened starts to occupy a slot.
KeepsSlots ==
    \A s \in Sids :
       /\ status'[s] \in Occupying => status[s] \in Occupying
       /\ status'[s] = "active" => status[s] = "active" /\ owner'[s] = owner[s]

LEMMA CapKept ==
    ASSUME CapInv, KeepsSlots
    PROVE  CapInv'
<1>1. Occupied' \in SUBSET Occupied
  BY DEF KeepsSlots, Occupied
<1>2. /\ IsFiniteSet(Occupied) /\ Cardinality(Occupied) \in Nat
      /\ Cardinality(Occupied) <= MaxActive
  BY FS_CardinalityType DEF CapInv, SlotsWithinCap, Occupied
<1>3. /\ IsFiniteSet(Occupied') /\ Cardinality(Occupied') \in Nat
      /\ Cardinality(Occupied') <= Cardinality(Occupied)
  BY <1>1, <1>2, FS_Subset, FS_CardinalityType
<1>4. Cardinality(Occupied') <= MaxActive
  BY <1>2, <1>3, SessionsAssumption
<1>5. QED
  BY <1>3, <1>4 DEF CapInv, KeepsSlots, SlotsWithinCap, Occupied

LEMMA CapAfterOpening ==
    ASSUME TypeOK, CapInv, NEW s \in Sids, NEW u \in Users, ~Busy(u), ~Full,
           status[s] = "none",
           status' = [status EXCEPT ![s] = "active"],
           owner' = [owner EXCEPT ![s] = u]
    PROVE  CapInv'
<1>1. Occupied' = Occupied \cup {s} /\ s \notin Occupied
  BY DEF Occupied, Occupying, TypeOK
<1>2. /\ IsFiniteSet(Occupied) /\ Cardinality(Occupied) \in Nat
      /\ Cardinality(Occupied) < MaxActive
  BY FS_CardinalityType, SessionsAssumption DEF CapInv, Full, Occupied
<1>3. /\ IsFiniteSet(Occupied')
      /\ Cardinality(Occupied') = Cardinality(Occupied) + 1
  BY <1>1, <1>2, FS_AddElement
<1>4. Cardinality(Occupied') <= MaxActive
  BY <1>2, <1>3, SessionsAssumption
<1>5. ASSUME NEW r \in Sids, NEW q \in Sids, status'[r] = "active",
             status'[q] = "active", owner'[r] = owner'[q]
      PROVE  r = q
  BY <1>5 DEF CapInv, SlotsWithinCap, Busy, TypeOK
<1>6. QED
  BY <1>3, <1>4, <1>5 DEF CapInv, SlotsWithinCap, Occupied

\* max_active and the one open session per user hold for any number of
\* sessions, users, chunks and restarts.
THEOREM CapsHold == Spec => []SlotsWithinCap
<1>1. Init => CapInv
  <2> SUFFICES ASSUME Init PROVE CapInv
    OBVIOUS
  <2>1. Occupied = {}
    BY DEF Init, ForAll, Occupied, Occupying
  <2>2. IsFiniteSet(Occupied) /\ Cardinality(Occupied) = 0
    BY <2>1, FS_EmptySet
  <2>3. QED
    BY <2>2, SessionsAssumption DEF CapInv, SlotsWithinCap, Occupied, Init, ForAll
<1>2. TypeOK /\ CapInv /\ [Next]_vars => CapInv'
  <2> SUFFICES ASSUME TypeOK, CapInv, [Next]_vars PROVE CapInv'
    OBVIOUS
  <2> USE DEF TypeOK, Occupying, sessionVars, KeepsSlots
  <2>1. ASSUME NEW s \in Sids, NEW i \in Chunks, NEW u \in Users, OpenChunk(s, i, u)
        PROVE  CapInv'
    <3>1. CASE UNCHANGED <<status, owner>>
      <4>1. KeepsSlots
        BY <3>1
      <4>2. QED
        BY <4>1, CapKept
    <3>2. CASE ~UNCHANGED <<status, owner>>
      BY <2>1, <3>2, CapAfterOpening DEF OpenChunk
    <3>3. QED
      BY <3>1, <3>2
  <2>2. ASSUME NEW s \in Sids, NEW i \in Chunks, AcceptChunk(s, i) \/ RefuseChunk(s, i)
        PROVE  KeepsSlots
    BY <2>2 DEF AcceptChunk, RefuseChunk
  <2>3. ASSUME Execute PROVE KeepsSlots
    BY <2>3 DEF Execute, InferenceDone, InferenceFails, DropCancelled
  <2>4. ASSUME NEW s \in Sids, BeginFinalize(s) \/ AcceptTail(s) PROVE KeepsSlots
    BY <2>4 DEF BeginFinalize, AcceptTail
  <2>5. ASSUME NEW s \in Sids, status' = [status EXCEPT ![s] = AbortedUnlessOver(s)],
               UNCHANGED owner
        PROVE  KeepsSlots
    BY <2>5 DEF AbortedUnlessOver
  <2>6. ASSUME NEW s \in Sids, RefuseTail(s) \/ DrainedWithGap(s) \/ DrainFails(s)
                                  \/ DrainTimesOut(s) \/ InsertFails(s)
        PROVE  KeepsSlots
    BY <2>5, <2>6 DEF RefuseTail, DrainedWithGap, DrainFails, DrainTimesOut,
         InsertFails, GiveUp
  <2>7. ASSUME NEW s \in Sids, Drained(s) \/ Insert(s) \/ Answer(s) \/ Sweep(s)
        PROVE  KeepsSlots
    BY <2>7 DEF Drained, Insert, Answer, Sweep
  <2>8. ASSUME Restart PROVE KeepsSlots
    BY <2>8 DEF Restart, ForAll
  <2>9. ASSUME UNCHANGED vars PROVE KeepsSlots
    BY <2>9 DEF vars
  <2>10. QED
    BY <2>1, <2>2, <2>3, <2>4, <2>6, <2>7, <2>8, <2>9, CapKept DEF Next, EndDrain
<1>3. QED
  BY <1>1, <1>2, SessionsTypeCorrect, PTL DEF Spec, CapInv

-----------------------------------------------------------------------------
(* What a finalize handler can rely on, when no client repeats an index.    *)

\* A Task is registered with its audio, and what it wrote is that audio.
SlotsMatch ==
    \A s \in Sids, i \in Indices :
       /\ slot[s][i] = "empty" <=> audio[s][i] = "none"
       /\ audio[s][i] # "again"
       /\ audio[s][i] = "first" => i \in posted[s]
       /\ texts[s][i] \in {"none", audio[s][i]}

\* A chunk being read has an index that no Task has had.
ReadingIsNew ==
    \A s \in Sids, i \in Chunks :
       <<s, i>> \in reading => i \in posted[s] /\ audio[s][i] # "first"

\* Each queued call is that of a registered Task that is not over, and no
\* Task has two.
QueueMatches ==
    /\ \A k \in DOMAIN queue :
          LET t == queue[k] IN
             /\ Current(t)
             /\ slot[t.sid][t.index] \in {"pending", "cancelled"}
    /\ \A k, l \in DOMAIN queue :
          queue[k].sid = queue[l].sid /\ queue[k].index = queue[l].index => k = l

\* A tail is the last Task, of a session whose finalize has begun.
TailIsLast ==
    \A s \in Sids, i \in Indices : audio[s][i] = "tail" =>
       i = tailAt[s] /\ status[s] \notin {"none", "active"} /\ fin[s] # "reading"

\* Only a session whose finalize has begun, and not ended well, has a handler; one that is not
\* registered has no Task.
HandlerNeedsFinalize ==
    \A s \in Sids :
       /\ status[s] \in {"none", "active", "finalized"} => fin[s] = "none"
       /\ status[s] = "none" => \A i \in Indices : audio[s][i] = "none"

\* The handler's snapshot is the session's chunks, all before the tail.
SnapshotIsChunks ==
    \A s \in Sids : fin[s] # "none" =>
       /\ \A i \in Indices : i \in snap[s] <=> audio[s][i] = "first"
       /\ \A i \in snap[s] : i < tailAt[s]
       /\ fin[s] # "reading" => audio[s][tailAt[s]] = "tail"

\* A session aborted under its handler has a failed Task for it to find.
AbortIsSeen ==
    \A s \in Sids :
       /\ fin[s] \in {"reading", "draining"} =>
             \/ status[s] = "finalizing"
             \/ \E i \in Indices : audio[s][i] # "none" /\ slot[s][i] = "failed"
       /\ fin[s] \in {"storing", "stored"} => status[s] = "finalizing"
       /\ fin[s] \in {"storing", "stored"} \/ status[s] = "finalized" =>
             \A i \in Indices : slot[s][i] \notin {"pending", "cancelled"}

\* What has been joined is whole.
JoinedIsWhole ==
    \A s \in Sids : fin[s] \in {"storing", "stored"} =>
       /\ Len(joined[s]) = tailAt[s] + 1
       /\ \A k \in 1..tailAt[s] : joined[s][k] = "first"
       /\ joined[s][tailAt[s] + 1] = "tail"

HandlerInv ==
    /\ SlotsMatch /\ ReadingIsNew /\ QueueMatches /\ TailIsLast
    /\ HandlerNeedsFinalize /\ SnapshotIsChunks /\ AbortIsSeen /\ JoinedIsWhole

LEMMA QueuedTask ==
    ASSUME TypeOK, NEW k \in DOMAIN queue
    PROVE  queue[k].sid \in Sids /\ queue[k].index \in Indices
<1>1. queue[k] \in Tasks
  BY DEF TypeOK
<1>2. QED
  BY <1>1 DEF Tasks

\* Tasks may be cancelled while their calls stay where they are.
LEMMA QueueUnmoved ==
    ASSUME TypeOK, QueueMatches, UNCHANGED <<queue, audio>>,
           \A r \in Sids, n \in Indices :
              slot[r][n] \in {"pending", "cancelled"} =>
                 slot'[r][n] \in {"pending", "cancelled"}
    PROVE  QueueMatches'
  BY QueuedTask DEF QueueMatches, Current

LEMMA QueueAppended ==
    ASSUME TypeOK, QueueMatches, NEW s \in Sids, NEW i \in Indices,
           NEW take \in {"first", "tail"}, Enqueue(s, i, take), slot[s][i] = "empty"
    PROVE  QueueMatches'
<1> DEFINE new == [sid |-> s, index |-> i, take |-> take]
<1>1. /\ DOMAIN queue = 1..Len(queue) /\ Len(queue) \in Nat
      /\ DOMAIN queue' = 1..(Len(queue) + 1)
      /\ \A k \in DOMAIN queue : queue'[k] = queue[k]
      /\ queue'[Len(queue) + 1] = new
  BY DEF TypeOK, Enqueue, Tasks, Takes
<1>2. ASSUME NEW k \in DOMAIN queue
      PROVE  /\ queue'[k] = queue[k] /\ queue[k].sid \in Sids /\ queue[k].index \in Indices
             /\ ~(queue[k].sid = s /\ queue[k].index = i)
  BY <1>1, QueuedTask DEF QueueMatches
<1>3. ASSUME NEW r \in Sids, NEW n \in Indices, ~(r = s /\ n = i)
      PROVE  slot'[r][n] = slot[r][n] /\ audio'[r][n] = audio[r][n]
  BY <1>3 DEF Enqueue, TypeOK
<1>4. slot'[s][i] = "pending" /\ audio'[s][i] = take
  BY DEF Enqueue, TypeOK
<1>5. ASSUME NEW k \in DOMAIN queue'
      PROVE  /\ audio'[queue'[k].sid][queue'[k].index] = queue'[k].take
             /\ slot'[queue'[k].sid][queue'[k].index] \in {"pending", "cancelled"}
  <2>1. CASE k \in DOMAIN queue
    BY <1>2, <1>3, <2>1 DEF QueueMatches, Current
  <2>2. CASE k = Len(queue) + 1
    BY <1>1, <1>4, <2>2
  <2>3. QED
    BY <1>1, <2>1, <2>2
<1>6. ASSUME NEW k \in DOMAIN queue', NEW l \in DOMAIN queue',
             queue'[k].sid = queue'[l].sid, queue'[k].index = queue'[l].index
      PROVE  k = l
  BY <1>1, <1>2, <1>6 DEF QueueMatches
<1>7. QED
  BY <1>5, <1>6 DEF QueueMatches, Current

LEMMA QueuePopped ==
    ASSUME TypeOK, QueueMatches, queue # <<>>, queue' = Tail(queue),
           UNCHANGED audio,
           \A r \in Sids, n \in Indices :
              ~(r = Head(queue).sid /\ n = Head(queue).index) => slot'[r][n] = slot[r][n]
    PROVE  QueueMatches'
<1>1. /\ DOMAIN queue = 1..Len(queue) /\ Len(queue) \in Nat /\ Len(queue) > 0
      /\ Head(queue) = queue[1]
      /\ DOMAIN queue' = 1..(Len(queue) - 1)
      /\ \A k \in DOMAIN queue' : queue'[k] = queue[k+1]
  BY DEF TypeOK
<1>2. ASSUME NEW k \in DOMAIN queue'
      PROVE  /\ k + 1 \in DOMAIN queue /\ queue'[k] = queue[k+1]
             /\ queue[k+1].sid \in Sids /\ queue[k+1].index \in Indices
             /\ slot'[queue[k+1].sid][queue[k+1].index]
                   = slot[queue[k+1].sid][queue[k+1].index]
  <2>1. k + 1 \in DOMAIN queue /\ k + 1 # 1 /\ 1 \in DOMAIN queue
    BY <1>1
  <2>2. ~(queue[k+1].sid = queue[1].sid /\ queue[k+1].index = queue[1].index)
    BY <2>1 DEF QueueMatches
  <2>3. QED
    BY <1>1, <2>1, <2>2, QueuedTask
<1>3. ASSUME NEW k \in DOMAIN queue'
      PROVE  /\ audio'[queue'[k].sid][queue'[k].index] = queue'[k].take
             /\ slot'[queue'[k].sid][queue'[k].index] \in {"pending", "cancelled"}
  BY <1>2 DEF QueueMatches, Current
<1>4. ASSUME NEW k \in DOMAIN queue', NEW l \in DOMAIN queue',
             queue'[k].sid = queue'[l].sid, queue'[k].index = queue'[l].index
      PROVE  k = l
  <2>1. k + 1 = l + 1
    BY <1>2, <1>4 DEF QueueMatches
  <2>2. QED
    BY <1>1, <2>1
<1>5. QED
  BY <1>3, <1>4 DEF QueueMatches, Current

\* The call at the head belongs to a Task that awaits it.
LEMMA HeadIsPending ==
    ASSUME TypeOK, HandlerInv, queue # <<>>
    PROVE  /\ Head(queue).sid \in Sids /\ Head(queue).index \in Indices
           /\ audio[Head(queue).sid][Head(queue).index] = Head(queue).take
           /\ Head(queue).take \in {"first", "tail"}
           /\ slot[Head(queue).sid][Head(queue).index] \in {"pending", "cancelled"}
           /\ Current(Head(queue))
<1>1. 1 \in DOMAIN queue /\ Head(queue) = queue[1]
  BY DEF TypeOK
<1>2. queue[1] \in Tasks
  BY <1>1 DEF TypeOK
<1>3. Head(queue).sid \in Sids /\ Head(queue).index \in Indices
      /\ Head(queue).take \in Takes
  BY <1>1, <1>2 DEF Tasks
<1>4. /\ Current(Head(queue))
      /\ slot[Head(queue).sid][Head(queue).index] \in {"pending", "cancelled"}
  BY <1>1 DEF HandlerInv, QueueMatches
<1>5. QED
  BY <1>3, <1>4 DEF HandlerInv, SlotsMatch, Current, Takes

\* Failures stay where a handler will find them, and a Task starts only where
\* the handler has not yet joined its texts.
LEMMA FailuresStay ==
    ASSUME AbortIsSeen, UNCHANGED status,
           \A r \in Sids :
              \/ fin'[r] = fin[r]
              \/ fin[r] = "reading" /\ fin'[r] = "draining",
           \A r \in Sids, n \in Indices :
              /\ audio[r][n] # "none" => audio'[r][n] # "none"
              /\ audio[r][n] # "none" /\ slot[r][n] = "failed" => slot'[r][n] = "failed"
              /\ slot'[r][n] \in {"pending", "cancelled"} =>
                    \/ slot[r][n] \in {"pending", "cancelled"}
                    \/ fin'[r] = "draining" /\ status[r] # "finalized"
    PROVE  AbortIsSeen'
  BY DEF AbortIsSeen

\* A chunk request opens or finds its session.
LEMMA InvOpenChunk ==
    ASSUME TypeOK, HandlerInv, NEW s \in Sids, NEW i \in Chunks, NEW u \in Users, ~Repeats,
           OpenChunk(s, i, u)
    PROVE  HandlerInv'
<1>1. SlotsMatch'
  BY DEF TypeOK, HandlerInv, SlotsMatch, OpenChunk, Indices, Chunks
<1>2. ReadingIsNew'
  <2>1. i \notin posted[s] /\ i \in Indices
    BY SessionsAssumption DEF OpenChunk, Chunks, Indices
  <2>2. audio[s][i] # "first"
    BY <2>1 DEF HandlerInv, SlotsMatch
  <2>3. QED
    BY <2>2 DEF TypeOK, HandlerInv, ReadingIsNew, OpenChunk
<1>3. QueueMatches'
  BY QueueUnmoved DEF HandlerInv, OpenChunk
<1>4. TailIsLast'
  BY DEF TypeOK, HandlerInv, TailIsLast, OpenChunk, Indices, Chunks
<1>5. HandlerNeedsFinalize'
  BY DEF TypeOK, HandlerInv, HandlerNeedsFinalize, OpenChunk, Indices, Chunks
<1>6. SnapshotIsChunks'
  BY DEF TypeOK, HandlerInv, SnapshotIsChunks, OpenChunk, Indices, Chunks
<1>7. AbortIsSeen'
  BY DEF TypeOK, HandlerInv, AbortIsSeen, OpenChunk, Indices, Chunks
<1>8. JoinedIsWhole'
  BY DEF TypeOK, HandlerInv, JoinedIsWhole, OpenChunk, Indices, Chunks
<1>9. QED
  BY <1>1, <1>2, <1>3, <1>4, <1>5, <1>6, <1>7, <1>8 DEF HandlerInv

\* A chunk is accepted.
LEMMA InvAcceptChunk ==
    ASSUME TypeOK, HandlerInv, NEW s \in Sids, NEW i \in Chunks, ~Repeats, AcceptChunk(s, i)
    PROVE  HandlerInv'
<1>0. /\ i \in Indices /\ status[s] = "active" /\ fin[s] = "none" /\ i \in posted[s]
      /\ audio[s][i] = "none" /\ slot[s][i] = "empty" /\ Enqueue(s, i, "first")
  <2>1. i \in Indices
    BY SessionsAssumption DEF Chunks, Indices
  <2>2. status[s] = "active" /\ fin[s] = "none" /\ i \in posted[s] /\ audio[s][i] # "first"
    BY DEF AcceptChunk, Acceptable, HandlerInv, HandlerNeedsFinalize, ReadingIsNew
  <2>3. audio[s][i] \notin {"again", "tail"}
    BY <2>1, <2>2 DEF HandlerInv, SlotsMatch, TailIsLast
  <2>4. audio[s][i] = "none" /\ slot[s][i] = "empty"
    BY <2>1, <2>2, <2>3 DEF TypeOK, Takes, HandlerInv, SlotsMatch
  <2>5. QED
    BY <2>1, <2>2, <2>4 DEF AcceptChunk
<1>1. SlotsMatch'
  BY <1>0 DEF TypeOK, HandlerInv, SlotsMatch, AcceptChunk, Enqueue
<1>2. ReadingIsNew'
  BY DEF TypeOK, HandlerInv, ReadingIsNew, AcceptChunk, Enqueue, Acceptable, Current
<1>3. QueueMatches'
  BY <1>0, QueueAppended DEF HandlerInv
<1>4. TailIsLast'
  BY DEF TypeOK, HandlerInv, TailIsLast, AcceptChunk, Enqueue, Acceptable, Current
<1>5. HandlerNeedsFinalize'
  BY DEF TypeOK, HandlerInv, HandlerNeedsFinalize, AcceptChunk, Enqueue, Acceptable, Current
<1>6. SnapshotIsChunks'
  BY <1>0 DEF TypeOK, HandlerInv, SnapshotIsChunks, AcceptChunk, Enqueue
<1>7. AbortIsSeen'
  BY <1>0 DEF TypeOK, HandlerInv, AbortIsSeen, AcceptChunk, Enqueue
<1>8. JoinedIsWhole'
  BY DEF TypeOK, HandlerInv, JoinedIsWhole, AcceptChunk, Enqueue, Acceptable, Current
<1>9. QED
  BY <1>1, <1>2, <1>3, <1>4, <1>5, <1>6, <1>7, <1>8 DEF HandlerInv

\* A chunk is refused.
LEMMA InvRefuseChunk ==
    ASSUME TypeOK, HandlerInv, NEW s \in Sids, NEW i \in Chunks, RefuseChunk(s, i)
    PROVE  HandlerInv'
<1>1. SlotsMatch'
  BY DEF TypeOK, HandlerInv, SlotsMatch, RefuseChunk, Current, sessionVars, handlerVars, clientVars
<1>2. ReadingIsNew'
  BY DEF TypeOK, HandlerInv, ReadingIsNew, RefuseChunk, Current, sessionVars, handlerVars, clientVars
<1>3. QueueMatches'
  BY DEF TypeOK, HandlerInv, QueueMatches, RefuseChunk, Current, sessionVars, handlerVars, clientVars
<1>4. TailIsLast'
  BY DEF TypeOK, HandlerInv, TailIsLast, RefuseChunk, Current, sessionVars, handlerVars, clientVars
<1>5. HandlerNeedsFinalize'
  BY DEF TypeOK, HandlerInv, HandlerNeedsFinalize, RefuseChunk, Current, sessionVars, handlerVars, clientVars
<1>6. SnapshotIsChunks'
  BY DEF TypeOK, HandlerInv, SnapshotIsChunks, RefuseChunk, Current, sessionVars, handlerVars, clientVars
<1>7. AbortIsSeen'
  BY DEF TypeOK, HandlerInv, AbortIsSeen, RefuseChunk, Current, sessionVars, handlerVars, clientVars
<1>8. JoinedIsWhole'
  BY DEF TypeOK, HandlerInv, JoinedIsWhole, RefuseChunk, Current, sessionVars, handlerVars, clientVars
<1>9. QED
  BY <1>1, <1>2, <1>3, <1>4, <1>5, <1>6, <1>7, <1>8 DEF HandlerInv

\* An inference returns.
LEMMA InvInferenceDone ==
    ASSUME TypeOK, HandlerInv, InferenceDone
    PROVE  HandlerInv'
<1> DEFINE s == Head(queue).sid
           i == Head(queue).index
<1>0. /\ queue # <<>> /\ s \in Sids /\ i \in Indices
      /\ audio[s][i] = Head(queue).take /\ audio[s][i] \in {"first", "tail"}
      /\ slot[s][i] = "pending"
      /\ slot' = [slot EXCEPT ![s][i] = "done"]
  BY HeadIsPending DEF InferenceDone, Cancelled
<1>1. SlotsMatch'
  <2>1. texts' = [texts EXCEPT ![s][i] = audio[s][i]] /\ UNCHANGED <<audio, posted>>
    BY <1>0 DEF InferenceDone, clientVars
  <2>2. QED
    BY <1>0, <2>1 DEF TypeOK, HandlerInv, SlotsMatch
<1>2. ReadingIsNew'
  BY DEF TypeOK, HandlerInv, ReadingIsNew, InferenceDone, Current, Cancelled, Tasks, sessionVars, handlerVars, clientVars
<1>3. QueueMatches'
  <2>1. \A r \in Sids, n \in Indices : ~(r = s /\ n = i) => slot'[r][n] = slot[r][n]
    BY <1>0 DEF TypeOK
  <2>2. QED
    BY <1>0, <2>1, QueuePopped DEF HandlerInv, InferenceDone, handlerVars
<1>4. TailIsLast'
  BY DEF TypeOK, HandlerInv, TailIsLast, InferenceDone, Current, Cancelled, Tasks, sessionVars, handlerVars, clientVars
<1>5. HandlerNeedsFinalize'
  BY DEF TypeOK, HandlerInv, HandlerNeedsFinalize, InferenceDone, Current, Cancelled, Tasks, sessionVars, handlerVars, clientVars
<1>6. SnapshotIsChunks'
  BY DEF TypeOK, HandlerInv, SnapshotIsChunks, InferenceDone, Current, Cancelled, Tasks, sessionVars, handlerVars, clientVars
<1>7. AbortIsSeen'
  <2>1. UNCHANGED <<status, fin, audio>>
    BY DEF InferenceDone, handlerVars
  <2>2. QED
    BY <1>0, <2>1, FailuresStay DEF TypeOK, HandlerInv
<1>8. JoinedIsWhole'
  BY DEF TypeOK, HandlerInv, JoinedIsWhole, InferenceDone, Current, Cancelled, Tasks, sessionVars, handlerVars, clientVars
<1>9. QED
  BY <1>1, <1>2, <1>3, <1>4, <1>5, <1>6, <1>7, <1>8 DEF HandlerInv

\* An inference raises.
LEMMA InvInferenceFails ==
    ASSUME TypeOK, HandlerInv, InferenceFails
    PROVE  HandlerInv'
<1> DEFINE s == Head(queue).sid
           i == Head(queue).index
<1>0. /\ queue # <<>> /\ s \in Sids /\ i \in Indices
      /\ audio[s][i] = Head(queue).take /\ audio[s][i] \in {"first", "tail"}
      /\ slot[s][i] = "pending"
      /\ slot' = [slot EXCEPT ![s][i] = "failed"]
  BY HeadIsPending DEF InferenceFails, Cancelled
<1>1. SlotsMatch'
  BY <1>0 DEF TypeOK, HandlerInv, SlotsMatch, InferenceFails, clientVars
<1>2. ReadingIsNew'
  BY DEF TypeOK, HandlerInv, ReadingIsNew, InferenceFails, Current, Cancelled, Tasks, sessionVars, handlerVars, clientVars
<1>3. QueueMatches'
  <2>1. \A r \in Sids, n \in Indices : ~(r = s /\ n = i) => slot'[r][n] = slot[r][n]
    BY <1>0 DEF TypeOK
  <2>2. QED
    BY <1>0, <2>1, QueuePopped DEF HandlerInv, InferenceFails, handlerVars
<1>4. TailIsLast'
  BY DEF TypeOK, HandlerInv, TailIsLast, InferenceFails, Current, Cancelled, Tasks, sessionVars, handlerVars, clientVars
<1>5. HandlerNeedsFinalize'
  BY DEF TypeOK, HandlerInv, HandlerNeedsFinalize, InferenceFails, Current, Cancelled, Tasks, sessionVars, handlerVars, clientVars
<1>6. SnapshotIsChunks'
  BY DEF TypeOK, HandlerInv, SnapshotIsChunks, InferenceFails, Current, Cancelled, Tasks, sessionVars, handlerVars, clientVars
<1>7. AbortIsSeen'
  <2>1. UNCHANGED <<fin, audio>> /\ status' = [status EXCEPT ![s] = "aborted"]
    BY DEF InferenceFails, handlerVars
  <2>2. fin[s] \notin {"storing", "stored"} /\ status[s] # "finalized"
    BY <1>0 DEF HandlerInv, AbortIsSeen
  <2>3. QED
    BY <1>0, <2>1, <2>2 DEF TypeOK, HandlerInv, AbortIsSeen
<1>8. JoinedIsWhole'
  BY DEF TypeOK, HandlerInv, JoinedIsWhole, InferenceFails, Current, Cancelled, Tasks, sessionVars, handlerVars, clientVars
<1>9. QED
  BY <1>1, <1>2, <1>3, <1>4, <1>5, <1>6, <1>7, <1>8 DEF HandlerInv

\* The thread drops a cancelled call.
LEMMA InvDropCancelled ==
    ASSUME TypeOK, HandlerInv, DropCancelled
    PROVE  HandlerInv'
<1>1. SlotsMatch'
  BY DEF TypeOK, HandlerInv, SlotsMatch, DropCancelled, Current, Cancelled, Tasks, sessionVars, handlerVars, clientVars
<1>2. ReadingIsNew'
  BY DEF TypeOK, HandlerInv, ReadingIsNew, DropCancelled, Current, Cancelled, Tasks, sessionVars, handlerVars, clientVars
<1>3. QueueMatches'
  BY QueuePopped DEF HandlerInv, DropCancelled, handlerVars
<1>4. TailIsLast'
  BY DEF TypeOK, HandlerInv, TailIsLast, DropCancelled, Current, Cancelled, Tasks, sessionVars, handlerVars, clientVars
<1>5. HandlerNeedsFinalize'
  BY DEF TypeOK, HandlerInv, HandlerNeedsFinalize, DropCancelled, Current, Cancelled, Tasks, sessionVars, handlerVars, clientVars
<1>6. SnapshotIsChunks'
  BY DEF TypeOK, HandlerInv, SnapshotIsChunks, DropCancelled, Current, Cancelled, Tasks, sessionVars, handlerVars, clientVars
<1>7. AbortIsSeen'
  BY DEF TypeOK, HandlerInv, AbortIsSeen, DropCancelled, Current, Cancelled, Tasks, sessionVars, handlerVars, clientVars
<1>8. JoinedIsWhole'
  BY DEF TypeOK, HandlerInv, JoinedIsWhole, DropCancelled, Current, Cancelled, Tasks, sessionVars, handlerVars, clientVars
<1>9. QED
  BY <1>1, <1>2, <1>3, <1>4, <1>5, <1>6, <1>7, <1>8 DEF HandlerInv

\* A finalize begins.
LEMMA InvBeginFinalize ==
    ASSUME TypeOK, HandlerInv, NEW s \in Sids, BeginFinalize(s)
    PROVE  HandlerInv'
<1>1. SlotsMatch'
  BY DEF TypeOK, HandlerInv, SlotsMatch, BeginFinalize, SnapshotOf, TailIndex, Current, Indices, sessionVars, handlerVars, clientVars
<1>2. ReadingIsNew'
  BY DEF TypeOK, HandlerInv, ReadingIsNew, BeginFinalize, SnapshotOf, TailIndex, Current, Indices, sessionVars, handlerVars, clientVars
<1>3. QueueMatches'
  BY DEF TypeOK, HandlerInv, QueueMatches, BeginFinalize, SnapshotOf, TailIndex, Current, Indices, sessionVars, handlerVars, clientVars
<1>4. TailIsLast'
  BY DEF TypeOK, HandlerInv, TailIsLast, BeginFinalize, SnapshotOf, TailIndex, Current, Indices, sessionVars, handlerVars, clientVars
<1>5. HandlerNeedsFinalize'
  BY DEF TypeOK, HandlerInv, HandlerNeedsFinalize, BeginFinalize, SnapshotOf, TailIndex, Current, Indices, sessionVars, handlerVars, clientVars
<1>6. SnapshotIsChunks'
  <2>1. \A i \in Indices : slot[s][i] # "empty" <=> audio[s][i] = "first"
    BY DEF TypeOK, Takes, HandlerInv, SlotsMatch, TailIsLast, BeginFinalize
  <2>2. PICK t \in Indices : TailIndex(t, SnapshotOf(s)) /\ tailAt' = [tailAt EXCEPT ![s] = t]
    BY DEF BeginFinalize
  <2>3. \A i \in SnapshotOf(s) : i < t
    BY <2>2 DEF TailIndex
  <2>4. snap' = [snap EXCEPT ![s] = SnapshotOf(s)] /\ UNCHANGED audio
        /\ fin' = [fin EXCEPT ![s] = "reading"]
    BY DEF BeginFinalize
  <2>5. \A i \in Indices : i \in SnapshotOf(s) <=> audio[s][i] = "first"
    BY <2>1 DEF SnapshotOf
  <2>6. QED
    BY <2>2, <2>3, <2>4, <2>5 DEF TypeOK, HandlerInv, SnapshotIsChunks
<1>7. AbortIsSeen'
  BY DEF TypeOK, HandlerInv, AbortIsSeen, BeginFinalize, SnapshotOf, TailIndex, Current, Indices, sessionVars, handlerVars, clientVars
<1>8. JoinedIsWhole'
  BY DEF TypeOK, HandlerInv, JoinedIsWhole, BeginFinalize, SnapshotOf, TailIndex, Current, Indices, sessionVars, handlerVars, clientVars
<1>9. QED
  BY <1>1, <1>2, <1>3, <1>4, <1>5, <1>6, <1>7, <1>8 DEF HandlerInv

\* The tail is enqueued.
LEMMA InvAcceptTail ==
    ASSUME TypeOK, HandlerInv, NEW s \in Sids, AcceptTail(s)
    PROVE  HandlerInv'
<1> DEFINE i == tailAt[s]
<1>0. /\ i \in Indices /\ fin[s] = "reading" /\ status[s] \notin {"none", "active"}
      /\ audio[s][i] = "none" /\ slot[s][i] = "empty" /\ Enqueue(s, i, "tail")
  <2>1. i \in Indices /\ fin[s] = "reading"
    BY DEF TypeOK, AcceptTail
  <2>2. audio[s][i] # "first"
    BY <2>1, SessionsAssumption DEF HandlerInv, SnapshotIsChunks, Indices
  <2>3. audio[s][i] = "none" /\ slot[s][i] = "empty"
    BY <2>1, <2>2 DEF TypeOK, Takes, HandlerInv, SlotsMatch, TailIsLast
  <2>4. QED
    BY <2>1, <2>3 DEF HandlerInv, HandlerNeedsFinalize, AcceptTail
<1>a. /\ slot' = [slot EXCEPT ![s][i] = "pending"]
      /\ audio' = [audio EXCEPT ![s][i] = "tail"]
      /\ fin' = [fin EXCEPT ![s] = "draining"]
      /\ UNCHANGED <<status, snap, tailAt, texts, posted>>
  BY <1>0 DEF AcceptTail, Enqueue, clientVars
<1>1. SlotsMatch'
  BY <1>0, <1>a DEF TypeOK, HandlerInv, SlotsMatch
<1>2. ReadingIsNew'
  BY DEF TypeOK, HandlerInv, ReadingIsNew, AcceptTail, Enqueue, Current, sessionVars, handlerVars, clientVars
<1>3. QueueMatches'
  BY <1>0, QueueAppended DEF HandlerInv
<1>4. TailIsLast'
  BY <1>0, <1>a DEF TypeOK, HandlerInv, TailIsLast
<1>5. HandlerNeedsFinalize'
  BY DEF TypeOK, HandlerInv, HandlerNeedsFinalize, AcceptTail, Enqueue, Current, sessionVars, handlerVars, clientVars
<1>6. SnapshotIsChunks'
  BY <1>0, <1>a DEF TypeOK, HandlerInv, SnapshotIsChunks
<1>7. AbortIsSeen'
  <2>1. status[s] # "finalized"
    BY <1>0 DEF HandlerInv, HandlerNeedsFinalize
  <2>2. QED
    BY <1>0, <1>a, <2>1, FailuresStay DEF TypeOK, HandlerInv
<1>8. JoinedIsWhole'
  BY DEF TypeOK, HandlerInv, JoinedIsWhole, AcceptTail, Enqueue, Current, sessionVars, handlerVars, clientVars
<1>9. QED
  BY <1>1, <1>2, <1>3, <1>4, <1>5, <1>6, <1>7, <1>8 DEF HandlerInv

\* The handler ends without a transcript.
LEMMA InvGiveUp ==
    ASSUME TypeOK, HandlerInv, NEW s \in Sids, fin[s] # "none", GiveUp(s),
           UNCHANGED <<owner, length, slot, audio, texts, queue, reading, snap,
                       tailAt, joined, clientVars, restarts>>
    PROVE  HandlerInv'
<1>1. SlotsMatch'
  BY DEF TypeOK, HandlerInv, SlotsMatch, GiveUp, AbortedUnlessOver, Current, sessionVars, handlerVars, clientVars
<1>2. ReadingIsNew'
  BY DEF TypeOK, HandlerInv, ReadingIsNew, GiveUp, AbortedUnlessOver, Current, sessionVars, handlerVars, clientVars
<1>3. QueueMatches'
  BY DEF TypeOK, HandlerInv, QueueMatches, GiveUp, AbortedUnlessOver, Current, sessionVars, handlerVars, clientVars
<1>4. TailIsLast'
  BY DEF TypeOK, HandlerInv, TailIsLast, GiveUp, AbortedUnlessOver, Current, sessionVars, handlerVars, clientVars
<1>5. HandlerNeedsFinalize'
  BY DEF TypeOK, HandlerInv, HandlerNeedsFinalize, GiveUp, AbortedUnlessOver, Current, sessionVars, handlerVars, clientVars
<1>6. SnapshotIsChunks'
  BY DEF TypeOK, HandlerInv, SnapshotIsChunks, GiveUp, AbortedUnlessOver, Current, sessionVars, handlerVars, clientVars
<1>7. AbortIsSeen'
  BY DEF TypeOK, HandlerInv, AbortIsSeen, GiveUp, AbortedUnlessOver, Current, sessionVars, handlerVars, clientVars
<1>8. JoinedIsWhole'
  BY DEF TypeOK, HandlerInv, JoinedIsWhole, GiveUp, AbortedUnlessOver, Current, sessionVars, handlerVars, clientVars
<1>9. QED
  BY <1>1, <1>2, <1>3, <1>4, <1>5, <1>6, <1>7, <1>8 DEF HandlerInv

\* The drain times out.
LEMMA InvDrainTimesOut ==
    ASSUME TypeOK, HandlerInv, NEW s \in Sids, DrainTimesOut(s)
    PROVE  HandlerInv'
<1>1. SlotsMatch'
  BY DEF TypeOK, HandlerInv, SlotsMatch, DrainTimesOut, Cancel, GiveUp, AbortedUnlessOver, Current, sessionVars, handlerVars, clientVars
<1>2. ReadingIsNew'
  BY DEF TypeOK, HandlerInv, ReadingIsNew, DrainTimesOut, Cancel, GiveUp, AbortedUnlessOver, Current, sessionVars, handlerVars, clientVars
<1>3. QueueMatches'
  BY QueueUnmoved DEF HandlerInv, TypeOK, DrainTimesOut, Cancel
<1>4. TailIsLast'
  BY DEF TypeOK, HandlerInv, TailIsLast, DrainTimesOut, Cancel, GiveUp, AbortedUnlessOver, Current, sessionVars, handlerVars, clientVars
<1>5. HandlerNeedsFinalize'
  BY DEF TypeOK, HandlerInv, HandlerNeedsFinalize, DrainTimesOut, Cancel, GiveUp, AbortedUnlessOver, Current, sessionVars, handlerVars, clientVars
<1>6. SnapshotIsChunks'
  BY DEF TypeOK, HandlerInv, SnapshotIsChunks, DrainTimesOut, Cancel, GiveUp, AbortedUnlessOver, Current, sessionVars, handlerVars, clientVars
<1>7. AbortIsSeen'
  BY DEF TypeOK, HandlerInv, AbortIsSeen, DrainTimesOut, Cancel, GiveUp, AbortedUnlessOver, Current, sessionVars, handlerVars, clientVars
<1>8. JoinedIsWhole'
  BY DEF TypeOK, HandlerInv, JoinedIsWhole, DrainTimesOut, Cancel, GiveUp, AbortedUnlessOver, Current, sessionVars, handlerVars, clientVars
<1>9. QED
  BY <1>1, <1>2, <1>3, <1>4, <1>5, <1>6, <1>7, <1>8 DEF HandlerInv

\* The texts are joined.
LEMMA InvDrained ==
    ASSUME TypeOK, HandlerInv, NEW s \in Sids, Drained(s)
    PROVE  HandlerInv'
<1>0. /\ fin[s] = "draining" /\ tailAt[s] \in Indices
      /\ \A i \in Indices : audio[s][i] # "none" => slot[s][i] = "done"
      /\ \A i \in Indices : i < tailAt[s] /\ audio[s][i] # "none" => audio[s][i] = "first"
      /\ audio[s][tailAt[s]] = "tail"
  <2>1. fin[s] = "draining" /\ tailAt[s] \in Indices
    BY DEF Drained, TypeOK
  <2>2. audio[s][tailAt[s]] = "tail"
    BY <2>1 DEF HandlerInv, SnapshotIsChunks
  <2>3. \A i \in Indices : audio[s][i] # "none" =>
           \/ audio[s][i] = "first" /\ i \in snap[s]
           \/ audio[s][i] = "tail" /\ i = tailAt[s]
    <3> SUFFICES ASSUME NEW i \in Indices, audio[s][i] # "none"
                 PROVE  \/ audio[s][i] = "first" /\ i \in snap[s]
                        \/ audio[s][i] = "tail" /\ i = tailAt[s]
      OBVIOUS
    <3>1. audio[s][i] \in {"first", "tail"}
      BY DEF TypeOK, Takes, HandlerInv, SlotsMatch
    <3>2. audio[s][i] = "first" => i \in snap[s]
      BY <2>1 DEF HandlerInv, SnapshotIsChunks
    <3>3. audio[s][i] = "tail" => i = tailAt[s]
      BY DEF HandlerInv, TailIsLast
    <3>4. QED
      BY <3>1, <3>2, <3>3
  <2>4. \A i \in Indices : audio[s][i] # "none" => slot[s][i] = "done"
    BY <2>3 DEF Drained, Awaited
  <2>5. QED
    BY <2>1, <2>2, <2>3, <2>4, SessionsAssumption DEF Indices
<1>1. SlotsMatch'
  BY DEF TypeOK, HandlerInv, SlotsMatch, Drained, Awaited, Whole, Current, Indices, sessionVars, handlerVars, clientVars
<1>2. ReadingIsNew'
  BY DEF TypeOK, HandlerInv, ReadingIsNew, Drained, Awaited, Whole, Current, Indices, sessionVars, handlerVars, clientVars
<1>3. QueueMatches'
  BY DEF TypeOK, HandlerInv, QueueMatches, Drained, Awaited, Whole, Current, Indices, sessionVars, handlerVars, clientVars
<1>4. TailIsLast'
  BY DEF TypeOK, HandlerInv, TailIsLast, Drained, Awaited, Whole, Current, Indices, sessionVars, handlerVars, clientVars
<1>5. HandlerNeedsFinalize'
  BY DEF TypeOK, HandlerInv, HandlerNeedsFinalize, Drained, Awaited, Whole, Current, Indices, sessionVars, handlerVars, clientVars
<1>6. SnapshotIsChunks'
  BY DEF TypeOK, HandlerInv, SnapshotIsChunks, Drained, Awaited, Whole, Current, Indices, sessionVars, handlerVars, clientVars
<1>7. AbortIsSeen'
  <2>1. \A i \in Indices : slot[s][i] \in {"empty", "done"}
    BY <1>0 DEF HandlerInv, SlotsMatch
  <2>2. fin' = [fin EXCEPT ![s] = "storing"] /\ UNCHANGED <<status, slot, audio>>
    BY DEF Drained, sessionVars
  <2>3. status[s] = "finalizing"
    BY <1>0, <2>1 DEF HandlerInv, AbortIsSeen
  <2>4. ASSUME NEW r \in Sids, r # s PROVE fin'[r] = fin[r]
    BY <2>2, <2>4 DEF TypeOK
  <2>5. fin'[s] = "storing"
    BY <2>2 DEF TypeOK
  <2>6. QED
    BY <2>1, <2>2, <2>3, <2>4, <2>5 DEF HandlerInv, AbortIsSeen
<1>8. JoinedIsWhole'
  <2> DEFINE m == tailAt[s] + 1
             new == [n \in 1..m |-> texts[s][n-1]]
  <2>1. joined' = [joined EXCEPT ![s] = new] /\ fin' = [fin EXCEPT ![s] = "storing"]
        /\ UNCHANGED tailAt
    BY DEF Drained
  <2>2. m \in Nat /\ tailAt[s] \in 0..MaxChunks /\ MaxChunks \in Nat
    BY SessionsAssumption DEF TypeOK, Indices
  <2>3. \A i \in 0..tailAt[s] : i \in Indices /\ texts[s][i] = audio[s][i] /\ audio[s][i] # "none"
    BY <2>2 DEF Drained, Whole, HandlerInv, SlotsMatch, Indices
  <2>4. \A n \in 1..tailAt[s] : new[n] = "first"
    <3> SUFFICES ASSUME NEW n \in 1..tailAt[s] PROVE new[n] = "first"
      OBVIOUS
    <3>1. n - 1 \in 0..tailAt[s] /\ n - 1 < tailAt[s] /\ n \in 1..m
      BY <2>2
    <3>2. QED
      BY <1>0, <2>3, <3>1
  <2>5. new[m] = "tail"
    <3>1. m \in 1..m /\ m - 1 = tailAt[s] /\ tailAt[s] \in 0..tailAt[s]
      BY <2>2
    <3>2. QED
      BY <1>0, <2>3, <3>1
  <2>6. Len(new) = m
    BY <2>2
  <2> HIDE DEF new
  <2>7. QED
    BY <2>1, <2>4, <2>5, <2>6 DEF TypeOK, HandlerInv, JoinedIsWhole
<1>9. QED
  BY <1>1, <1>2, <1>3, <1>4, <1>5, <1>6, <1>7, <1>8 DEF HandlerInv

\* The row is inserted.
LEMMA InvInsert ==
    ASSUME TypeOK, HandlerInv, NEW s \in Sids, Insert(s)
    PROVE  HandlerInv'
<1>1. SlotsMatch'
  BY DEF TypeOK, HandlerInv, SlotsMatch, Insert, Current, sessionVars, handlerVars, clientVars
<1>2. ReadingIsNew'
  BY DEF TypeOK, HandlerInv, ReadingIsNew, Insert, Current, sessionVars, handlerVars, clientVars
<1>3. QueueMatches'
  BY DEF TypeOK, HandlerInv, QueueMatches, Insert, Current, sessionVars, handlerVars, clientVars
<1>4. TailIsLast'
  BY DEF TypeOK, HandlerInv, TailIsLast, Insert, Current, sessionVars, handlerVars, clientVars
<1>5. HandlerNeedsFinalize'
  BY DEF TypeOK, HandlerInv, HandlerNeedsFinalize, Insert, Current, sessionVars, handlerVars, clientVars
<1>6. SnapshotIsChunks'
  BY DEF TypeOK, HandlerInv, SnapshotIsChunks, Insert, Current, sessionVars, handlerVars, clientVars
<1>7. AbortIsSeen'
  BY DEF TypeOK, HandlerInv, AbortIsSeen, Insert, Current, sessionVars, handlerVars, clientVars
<1>8. JoinedIsWhole'
  BY DEF TypeOK, HandlerInv, JoinedIsWhole, Insert, Current, sessionVars, handlerVars, clientVars
<1>9. QED
  BY <1>1, <1>2, <1>3, <1>4, <1>5, <1>6, <1>7, <1>8 DEF HandlerInv

\* The handler answers.
LEMMA InvAnswer ==
    ASSUME TypeOK, HandlerInv, NEW s \in Sids, Answer(s)
    PROVE  HandlerInv'
<1>1. SlotsMatch'
  BY DEF TypeOK, HandlerInv, SlotsMatch, Answer, Current, sessionVars, handlerVars, clientVars
<1>2. ReadingIsNew'
  BY DEF TypeOK, HandlerInv, ReadingIsNew, Answer, Current, sessionVars, handlerVars, clientVars
<1>3. QueueMatches'
  BY DEF TypeOK, HandlerInv, QueueMatches, Answer, Current, sessionVars, handlerVars, clientVars
<1>4. TailIsLast'
  BY DEF TypeOK, HandlerInv, TailIsLast, Answer, Current, sessionVars, handlerVars, clientVars
<1>5. HandlerNeedsFinalize'
  BY DEF TypeOK, HandlerInv, HandlerNeedsFinalize, Answer, Current, sessionVars, handlerVars, clientVars
<1>6. SnapshotIsChunks'
  BY DEF TypeOK, HandlerInv, SnapshotIsChunks, Answer, Current, sessionVars, handlerVars, clientVars
<1>7. AbortIsSeen'
  BY DEF TypeOK, HandlerInv, AbortIsSeen, Answer, Current, sessionVars, handlerVars, clientVars
<1>8. JoinedIsWhole'
  BY DEF TypeOK, HandlerInv, JoinedIsWhole, Answer, Current, sessionVars, handlerVars, clientVars
<1>9. QED
  BY <1>1, <1>2, <1>3, <1>4, <1>5, <1>6, <1>7, <1>8 DEF HandlerInv

\* The sweeper aborts a session.
LEMMA InvSweep ==
    ASSUME TypeOK, HandlerInv, NEW s \in Sids, Sweep(s)
    PROVE  HandlerInv'
<1>1. SlotsMatch'
  BY DEF TypeOK, HandlerInv, SlotsMatch, Sweep, Sweepable, Cancel, Current, sessionVars, handlerVars, clientVars
<1>2. ReadingIsNew'
  BY DEF TypeOK, HandlerInv, ReadingIsNew, Sweep, Sweepable, Cancel, Current, sessionVars, handlerVars, clientVars
<1>3. QueueMatches'
  BY QueueUnmoved DEF HandlerInv, TypeOK, Sweep, Cancel, handlerVars
<1>4. TailIsLast'
  BY DEF TypeOK, HandlerInv, TailIsLast, Sweep, Sweepable, Cancel, Current, sessionVars, handlerVars, clientVars
<1>5. HandlerNeedsFinalize'
  BY DEF TypeOK, HandlerInv, HandlerNeedsFinalize, Sweep, Sweepable, Cancel, Current, sessionVars, handlerVars, clientVars
<1>6. SnapshotIsChunks'
  BY DEF TypeOK, HandlerInv, SnapshotIsChunks, Sweep, Sweepable, Cancel, Current, sessionVars, handlerVars, clientVars
<1>7. AbortIsSeen'
  BY DEF TypeOK, HandlerInv, AbortIsSeen, Sweep, Sweepable, Cancel, Current, sessionVars, handlerVars, clientVars
<1>8. JoinedIsWhole'
  BY DEF TypeOK, HandlerInv, JoinedIsWhole, Sweep, Sweepable, Cancel, Current, sessionVars, handlerVars, clientVars
<1>9. QED
  BY <1>1, <1>2, <1>3, <1>4, <1>5, <1>6, <1>7, <1>8 DEF HandlerInv

\* The server restarts.
LEMMA InvRestart ==
    ASSUME TypeOK, HandlerInv, Restart
    PROVE  HandlerInv'
<1>1. SlotsMatch'
  BY DEF TypeOK, HandlerInv, SlotsMatch, Restart, ForAll, ForEach, Current, sessionVars, handlerVars, clientVars
<1>2. ReadingIsNew'
  BY DEF TypeOK, HandlerInv, ReadingIsNew, Restart, ForAll, ForEach, Current, sessionVars, handlerVars, clientVars
<1>3. QueueMatches'
  BY DEF TypeOK, HandlerInv, QueueMatches, Restart, ForAll, ForEach, Current, sessionVars, handlerVars, clientVars
<1>4. TailIsLast'
  BY DEF TypeOK, HandlerInv, TailIsLast, Restart, ForAll, ForEach, Current, sessionVars, handlerVars, clientVars
<1>5. HandlerNeedsFinalize'
  BY DEF TypeOK, HandlerInv, HandlerNeedsFinalize, Restart, ForAll, ForEach, Current, sessionVars, handlerVars, clientVars
<1>6. SnapshotIsChunks'
  BY DEF TypeOK, HandlerInv, SnapshotIsChunks, Restart, ForAll, ForEach, Current, sessionVars, handlerVars, clientVars
<1>7. AbortIsSeen'
  BY DEF TypeOK, HandlerInv, AbortIsSeen, Restart, ForAll, ForEach, Current, sessionVars, handlerVars, clientVars
<1>8. JoinedIsWhole'
  BY DEF TypeOK, HandlerInv, JoinedIsWhole, Restart, ForAll, ForEach, Current, sessionVars, handlerVars, clientVars
<1>9. QED
  BY <1>1, <1>2, <1>3, <1>4, <1>5, <1>6, <1>7, <1>8 DEF HandlerInv

-----------------------------------------------------------------------------
LEMMA HandlerInvInitially == Init => HandlerInv
  BY DEF Init, ForAll, ForEach, HandlerInv, SlotsMatch, ReadingIsNew, QueueMatches,
         TailIsLast, HandlerNeedsFinalize, SnapshotIsChunks, AbortIsSeen, JoinedIsWhole

LEMMA HandlerInvKept ==
    ASSUME TypeOK, HandlerInv, ~Repeats, [Next]_vars
    PROVE  HandlerInv'
<1>1. ASSUME NEW s \in Sids, NEW i \in Chunks, NEW u \in Users, OpenChunk(s, i, u)
      PROVE  HandlerInv'
  BY <1>1, InvOpenChunk
<1>2. ASSUME NEW s \in Sids, NEW i \in Chunks, AcceptChunk(s, i) \/ RefuseChunk(s, i)
      PROVE  HandlerInv'
  BY <1>2, InvAcceptChunk, InvRefuseChunk
<1>3. CASE Execute
  BY <1>3, InvInferenceDone, InvInferenceFails, InvDropCancelled DEF Execute
<1>4. ASSUME NEW s \in Sids, BeginFinalize(s) \/ AcceptTail(s) PROVE HandlerInv'
  BY <1>4, InvBeginFinalize, InvAcceptTail
<1>5. ASSUME NEW s \in Sids,
             RefuseTail(s) \/ DrainedWithGap(s) \/ DrainFails(s) \/ InsertFails(s)
      PROVE  HandlerInv'
  BY <1>5, InvGiveUp DEF RefuseTail, DrainedWithGap, DrainFails, InsertFails
<1>6. ASSUME NEW s \in Sids, Drained(s) \/ DrainTimesOut(s) PROVE HandlerInv'
  BY <1>6, InvDrained, InvDrainTimesOut
<1>7. ASSUME NEW s \in Sids, Insert(s) \/ Answer(s) \/ Sweep(s) PROVE HandlerInv'
  BY <1>7, InvInsert, InvAnswer, InvSweep
<1>8. CASE Restart
  BY <1>8, InvRestart
<1>9. CASE UNCHANGED vars
  <2>1. UNCHANGED <<status, slot, audio, texts, queue, reading, fin, snap, tailAt,
                    joined, posted>>
    BY <1>9 DEF vars, sessionVars, handlerVars, clientVars
  <2>2. QED
    BY <2>1 DEF HandlerInv, SlotsMatch, ReadingIsNew, QueueMatches, Current, TailIsLast,
         HandlerNeedsFinalize, SnapshotIsChunks, AbortIsSeen, JoinedIsWhole
<1>10. QED
  BY <1>1, <1>2, <1>3, <1>4, <1>5, <1>6, <1>7, <1>8, <1>9 DEF Next, EndDrain

\* The insert is the one step that changes what is stored.
LEMMA OnlyInsertStores ==
    ASSUME TypeOK, [Next]_vars, NEW s \in Sids, rows'[s] # rows[s]
    PROVE  Insert(s)
<1>1. ~UNCHANGED rows
  OBVIOUS
<1>2. PICK r \in Sids : Insert(r)
  BY <1>1 DEF Next, Execute, EndDrain, vars, clientVars, OpenChunk, AcceptChunk,
       RefuseChunk, InferenceDone, InferenceFails, DropCancelled, BeginFinalize,
       AcceptTail, RefuseTail, Drained, DrainedWithGap, DrainFails, DrainTimesOut,
       InsertFails, Answer, Sweep, Restart
<1>3. r = s
  BY <1>2 DEF Insert, TypeOK
<1>4. QED
  BY <1>2, <1>3

\* What a finalize stores is the accepted chunks in order and the tail, for any
\* number of sessions, chunks, users and restarts, when no index is sent twice.
THEOREM PersistedWhole ==
    ASSUME ~Repeats
    PROVE  Spec => PersistedIsWhole
<1>1. ASSUME TypeOK, HandlerInv, [Next]_vars
      PROVE  [\A s \in Sids : rows'[s] # rows[s] =>
                 rows[s] = <<>> /\ IsWhole(rows'[s], SnapshotOf(s))]_vars
  <2> SUFFICES ASSUME NEW s \in Sids, rows'[s] # rows[s]
               PROVE  rows[s] = <<>> /\ IsWhole(rows'[s], SnapshotOf(s))
    OBVIOUS
  <2>1. Insert(s)
    BY <1>1, OnlyInsertStores
  <2>2. rows[s] = <<>> /\ rows'[s] = joined[s] /\ fin[s] = "storing"
    BY <1>1, <2>1 DEF Insert, TypeOK
  <2>3. /\ Len(joined[s]) = tailAt[s] + 1
        /\ \A k \in 1..tailAt[s] : joined[s][k] = "first"
        /\ joined[s][tailAt[s] + 1] = "tail"
        /\ tailAt[s] \in Nat /\ Indices \subseteq Nat
    BY <1>1, <2>2, SessionsAssumption DEF TypeOK, HandlerInv, JoinedIsWhole, Indices
  <2>4. ASSUME NEW i \in SnapshotOf(s) PROVE i < tailAt[s] + 1
    <3>1. i \in Indices /\ audio[s][i] \in {"first", "tail"}
      BY <1>1, <2>4 DEF SnapshotOf, TypeOK, Takes, HandlerInv, SlotsMatch
    <3>2. CASE audio[s][i] = "first"
      BY <1>1, <2>2, <2>3, <3>1, <3>2 DEF HandlerInv, SnapshotIsChunks
    <3>3. CASE audio[s][i] = "tail"
      BY <1>1, <2>3, <3>1, <3>3 DEF HandlerInv, TailIsLast
    <3>4. QED
      BY <3>1, <3>2, <3>3
  <2>5. QED
    BY <2>2, <2>3, <2>4 DEF IsWhole
<1>2. QED
  BY <1>1, SessionsTypeCorrect, HandlerInvInitially, HandlerInvKept, PTL
     DEF Spec, PersistedIsWhole

\* A session that is finalized or aborted stays so until a restart forgets it,
\* for any number of sessions, chunks and users, when no index is sent twice.
THEOREM EndsOnce ==
    ASSUME ~Repeats
    PROVE  Spec => SessionEndsOnce
<1>1. ASSUME TypeOK, HandlerInv, [Next]_vars
      PROVE  [\A s \in Sids : status[s] \in {"finalized", "aborted"}
                => status'[s] = status[s] \/ restarts' # restarts]_vars
  <2> SUFFICES ASSUME NEW s \in Sids, status[s] \in {"finalized", "aborted"}
               PROVE  status'[s] = status[s] \/ restarts' # restarts
    OBVIOUS
  <2> USE DEF TypeOK
  <2>1. ASSUME NEW r \in Sids, NEW i \in Chunks,
               \/ \E u \in Users : OpenChunk(r, i, u)
               \/ AcceptChunk(r, i) \/ RefuseChunk(r, i)
        PROVE  status'[s] = status[s]
    BY <1>1, <2>1 DEF OpenChunk, AcceptChunk, RefuseChunk, sessionVars
  <2>2. ASSUME InferenceFails PROVE status'[s] = status[s]
    <3>1. /\ Head(queue).sid \in Sids /\ Head(queue).index \in Indices
          /\ slot[Head(queue).sid][Head(queue).index] \in {"pending", "cancelled"}
      BY <1>1, <2>2, HeadIsPending DEF InferenceFails
    <3>2. status[Head(queue).sid] # "finalized"
      BY <1>1, <3>1 DEF HandlerInv, AbortIsSeen
    <3>3. QED
      BY <1>1, <2>2, <3>1, <3>2 DEF InferenceFails
  <2>3. ASSUME InferenceDone \/ DropCancelled PROVE status'[s] = status[s]
    BY <2>3 DEF InferenceDone, DropCancelled
  <2>4. ASSUME NEW r \in Sids, BeginFinalize(r) \/ Sweep(r) PROVE status'[s] = status[s]
    BY <1>1, <2>4 DEF BeginFinalize, Sweep, Sweepable
  <2>5. ASSUME NEW r \in Sids, AcceptTail(r) \/ Drained(r) \/ Insert(r)
        PROVE  status'[s] = status[s]
    BY <2>5 DEF AcceptTail, Drained, Insert, sessionVars
  <2>6. ASSUME NEW r \in Sids,
               status' = [status EXCEPT ![r] = AbortedUnlessOver(r)]
        PROVE  status'[s] = status[s]
    BY <1>1, <2>6 DEF AbortedUnlessOver
  <2>7. ASSUME NEW r \in Sids, RefuseTail(r) \/ DrainedWithGap(r) \/ DrainFails(r)
                                  \/ DrainTimesOut(r) \/ InsertFails(r)
        PROVE  status'[s] = status[s]
    BY <2>6, <2>7 DEF RefuseTail, DrainedWithGap, DrainFails, DrainTimesOut,
         InsertFails, GiveUp
  <2>8. ASSUME NEW r \in Sids, Answer(r) PROVE status'[s] = status[s]
    <3>1. status[r] = "finalizing"
      BY <1>1, <2>8 DEF Answer, HandlerInv, AbortIsSeen
    <3>2. QED
      BY <1>1, <2>8, <3>1 DEF Answer
  <2>9. ASSUME Restart PROVE restarts' # restarts
    BY <1>1, <2>9 DEF Restart
  <2>10. ASSUME UNCHANGED vars PROVE status'[s] = status[s]
    BY <2>10 DEF vars, sessionVars
  <2>11. QED
    BY <1>1, <2>1, <2>2, <2>3, <2>4, <2>5, <2>7, <2>8, <2>9, <2>10
       DEF Next, Execute, EndDrain
<1>2. QED
  BY <1>1, SessionsTypeCorrect, HandlerInvInitially, HandlerInvKept, PTL
     DEF Spec, SessionEndsOnce

=============================================================================
