---------------------- MODULE DictationDeliveryProofs ----------------------
(* Theorems about DictationDelivery, for any takes and bounds.              *)
EXTENDS DictationDelivery, TLAPS

\* Where a failed attempt leads is a place of the ladder, and never to a text.
LEMMA RungType ==
    ASSUME NEW attempt \in Awaiting, NEW failure
    PROVE  Rung(attempt, failure) \in {"first", "failed", "pause", "cloud"}
BY DeliveryAssumption DEF Rung, Awaiting, IsOffline

\* An answer delivers the text or goes nowhere.
LEMMA AnswerType ==
    ASSUME TypeOK, NEW call \in Requests, NEW said \in {"words", "blank"}, Answer(call, said)
    PROVE  /\ phase' \in [Takes -> Underway \cup {"idle", "delivered", "failed", "killed"}]
           /\ text' \in [Takes -> {"none", "words", "blank", "empty"}]
           /\ wake' \in BOOLEAN
<1>1. CASE UNCHANGED <<phase, text, wake>>
  BY <1>1 DEF TypeOK
<1>2. CASE Deliver(call.take, said)
  BY <1>2 DEF TypeOK, Deliver, Requests
<1>3. QED
  BY <1>1, <1>2 DEF Answer

\* Where the entries are: only of delivered takes, in one file each, and those
\* of the batch in the queue, but for the one being rewritten, which has an
\* attempt left.
Placed ==
    /\ \A t \in Filed : phase[t] = "delivered"
    /\ \A t \in queue : t \notin swapped
    /\ drain.at = "idle" => drain.batch = {}
    /\ drain.at # "swapping" => drain.batch \subseteq queue
    /\ drain.at = "swapping" =>
          \A t \in drain.batch :
              \/ t \in queue
              \/ /\ t \in swapped /\ ~Exhausted(t)
                 /\ \A u \in drain.batch \cap swapped : u = t

LEMMA TypeInit == Init => TypeOK /\ Placed
<1> SUFFICES ASSUME Init PROVE TypeOK /\ Placed
  OBVIOUS
<1>1. tries \in [Takes -> 0..(MaxAttempts - 1)] /\ kills \in 0..MaxKills
      /\ restarts \in 0..MaxRestarts
  BY DeliveryAssumption DEF Init
<1>2. TypeOK
  BY <1>1 DEF Init, TypeOK
<1>3. Placed
  BY DEF Init, Placed, Filed
<1>4. QED
  BY <1>2, <1>3

\* Every step keeps the types; that a rewritten entry had an attempt left is
\* why the places of the entries matter.
LEMMA TypeStep == ASSUME TypeOK, Placed, [Next]_vars PROVE TypeOK'
<1> USE DEF TypeOK, takeVars, drainVars, diskVars, serverVars
<1>1. ASSUME NEW t \in Takes, Begin(t) PROVE TypeOK'
  BY <1>1 DEF Begin, Send, Requests, Underway, Awaiting
<1>2. ASSUME NEW t \in Takes, NEW failure \in Failures, ConnectionFails(t, failure) PROVE TypeOK'
  BY <1>2, RungType DEF ConnectionFails, AttemptFails, Send, Requests, Underway, Awaiting, Failures
<1>3. ASSUME NEW t \in Takes, Retry(t) PROVE TypeOK'
  BY <1>3 DEF Retry, Send, Requests, Underway, Awaiting
<1>4. ASSUME NEW t \in Takes, CloudFails(t) PROVE TypeOK'
  BY <1>4 DEF CloudFails, Underway, Failures
<1>5. ASSUME NEW t \in Takes, NEW said \in {"words", "blank", "empty"}, CloudAnswers(t, said) PROVE TypeOK'
  BY <1>5 DEF CloudAnswers, Enqueue, Deliver
<1>6. ASSUME NEW t \in Takes, Age(t) PROVE TypeOK'
  BY <1>6 DEF Age, Filed
<1>7. ASSUME NEW call \in calls, NEW said \in {"words", "blank"}, FinalizeServed(call, said) PROVE TypeOK'
  <2>1. call \in Requests
    OBVIOUS
  <2>2. rows' \subseteq Rows
    BY <1>7, <2>1 DEF FinalizeServed, Insert, Requests, Rows
  <2>3. QED
    BY <1>7, <2>1, <2>2, AnswerType DEF FinalizeServed
<1>8. ASSUME NEW call \in calls, NEW said \in {"words", "blank"}, DictateServed(call, said) PROVE TypeOK'
  <2>1. call \in Requests
    OBVIOUS
  <2>2. persists' \subseteq Requests
    BY <1>8, <2>1 DEF DictateServed
  <2>3. QED
    BY <1>8, <2>1, <2>2, AnswerType DEF DictateServed
<1>9. ASSUME NEW call \in calls, Refuse(call) PROVE TypeOK'
  BY <1>9, RungType DEF Refuse, AttemptFails, Send, Requests, Underway, Awaiting, Failures
<1>10. ASSUME NEW call \in persists, Persist(call) PROVE TypeOK'
  BY <1>10 DEF Persist, Insert, Requests, Rows
<1>11. ASSUME NEW batch \in posts, NEW t \in batch, IngestOne(batch, t) PROVE TypeOK'
  BY <1>11 DEF IngestOne, Insert, EntryRow, Rows
<1>12. ASSUME NEW batch \in posts, Accept(batch) PROVE TypeOK'
  BY <1>12 DEF Accept, Verdict, Reaction, Waits
<1>13. ASSUME NEW batch \in posts, Reject(batch) PROVE TypeOK'
  BY <1>13 DEF Reject, Verdict, Reaction, Waits
<1>14. ASSUME NEW batch \in posts, PostErrors(batch) PROVE TypeOK'
  BY <1>14 DEF PostErrors, Verdict, Reaction, Waits
<1>15. ASSUME Foreground PROVE TypeOK'
  BY <1>15 DEF Foreground
<1>16. ASSUME DrainCoalesced PROVE TypeOK'
  BY <1>16 DEF DrainCoalesced
<1>17. ASSUME PostLost PROVE TypeOK'
  BY <1>17 DEF PostLost
<1>18. ASSUME NEW reached \in BOOLEAN, DrainStart(reached) PROVE TypeOK'
  <2>1. PICK batch \in SUBSET (queue \ old), stale \in SUBSET (queue \cap old) :
           /\ queue' = queue \ stale
           /\ setAside' = setAside \cup stale
           /\ IF batch = {} THEN UNCHANGED <<drain, posts>>
              ELSE /\ drain' = [at |-> "posted", batch |-> batch]
                   /\ posts' = IF reached THEN posts \cup {batch} ELSE posts
    BY <1>18 DEF DrainStart
  <2>2. batch \in SUBSET Takes /\ stale \in SUBSET Takes
    OBVIOUS
  <2>3. posts' \subseteq SUBSET Takes
    BY <2>1, <2>2
  <2>4. drain' \in [at : {"idle", "posted", "deleting", "bumping", "swapping"},
                    batch : SUBSET Takes]
    BY <2>1, <2>2
  <2>5. QED
    BY <1>18, <2>1, <2>2, <2>3, <2>4 DEF DrainStart
<1>19. ASSUME DrainDone PROVE TypeOK'
  BY <1>19 DEF DrainDone
<1>20. ASSUME NEW t \in drain.batch, DeleteOne(t) PROVE TypeOK'
  BY <1>20 DEF DeleteOne, Remaining
<1>21. ASSUME NEW t \in drain.batch, GiveUpOne(t) PROVE TypeOK'
  BY <1>21 DEF GiveUpOne, Remaining
<1>22. ASSUME NEW t \in drain.batch, SwapOut(t) PROVE TypeOK'
  BY <1>22 DEF SwapOut
<1>23. ASSUME NEW t \in drain.batch, SwapIn(t) PROVE TypeOK'
  <2>1. t \in Takes /\ ~Exhausted(t)
    BY <1>23 DEF SwapIn, Placed
  <2>2. Bumped(t) \in 0..(MaxAttempts - 1)
    BY <2>1, DeliveryAssumption DEF Exhausted, Bumped
  <2>3. QED
    BY <1>23, <2>1, <2>2 DEF SwapIn
<1>24. ASSUME Kill PROVE TypeOK'
  <2>1. phase' \in [Takes -> Underway \cup {"idle", "delivered", "failed", "killed"}]
    BY <1>24 DEF Kill, Underway, Awaiting
  <2>2. kills' \in 0..MaxKills
    BY <1>24, DeliveryAssumption DEF Kill
  <2>3. QED
    BY <1>24, <2>1, <2>2 DEF Kill
<1>25. ASSUME Restart PROVE TypeOK'
  BY <1>25, DeliveryAssumption DEF Restart
<1>26. CASE UNCHANGED vars
  BY <1>26 DEF vars
<1>27. QED
  BY <1>1, <1>2, <1>3, <1>4, <1>5, <1>6, <1>7, <1>8, <1>9, <1>10, <1>11,
     <1>12, <1>13, <1>14, <1>15, <1>16, <1>17, <1>18, <1>19, <1>20, <1>21,
     <1>22, <1>23, <1>24, <1>25, <1>26 DEF Next, TakeStep, ServeStep,
     DrainStep, DrainWork,
     CloudStep, Fails

\* Every step keeps the entries in their places.
LEMMA PlacedStep == ASSUME TypeOK, Placed, [Next]_vars PROVE Placed'
<1> USE DEF TypeOK, Placed, Filed, Exhausted, Bumped, takeVars, drainVars, diskVars, serverVars
<1>1. ASSUME NEW t \in Takes, Begin(t) PROVE Placed'
  BY <1>1 DEF Begin, Send
<1>2. ASSUME NEW t \in Takes, NEW failure \in Failures, ConnectionFails(t, failure) PROVE Placed'
  BY <1>2, RungType DEF ConnectionFails, AttemptFails, Send, Awaiting, Requests
<1>3. ASSUME NEW t \in Takes, Retry(t) PROVE Placed'
  BY <1>3 DEF Retry, Send
<1>4. ASSUME NEW t \in Takes, CloudFails(t) PROVE Placed'
  BY <1>4 DEF CloudFails
<1>5. ASSUME NEW t \in Takes, NEW said \in {"words", "blank", "empty"}, CloudAnswers(t, said) PROVE Placed'
  BY <1>5 DEF CloudAnswers, Enqueue, Deliver
<1>6. ASSUME NEW t \in Takes, Age(t) PROVE Placed'
  BY <1>6 DEF Age
<1>7. ASSUME NEW call \in calls, NEW said \in {"words", "blank"}, FinalizeServed(call, said) PROVE Placed'
  BY <1>7 DEF FinalizeServed, Answer, Deliver, Insert, Requests
<1>8. ASSUME NEW call \in calls, NEW said \in {"words", "blank"}, DictateServed(call, said) PROVE Placed'
  BY <1>8 DEF DictateServed, Answer, Deliver, Requests
<1>9. ASSUME NEW call \in calls, Refuse(call) PROVE Placed'
  BY <1>9, RungType DEF Refuse, AttemptFails, Send, Awaiting, Requests
<1>10. ASSUME NEW call \in persists, Persist(call) PROVE Placed'
  BY <1>10 DEF Persist, Insert
<1>11. ASSUME NEW batch \in posts, NEW t \in batch, IngestOne(batch, t) PROVE Placed'
  BY <1>11 DEF IngestOne, Insert, EntryRow
<1>12. ASSUME NEW batch \in posts, Accept(batch) PROVE Placed'
  BY <1>12 DEF Accept, Verdict, Reaction, Waits
<1>13. ASSUME NEW batch \in posts, Reject(batch) PROVE Placed'
  BY <1>13 DEF Reject, Verdict, Reaction, Waits
<1>14. ASSUME NEW batch \in posts, PostErrors(batch) PROVE Placed'
  BY <1>14 DEF PostErrors, Verdict, Reaction, Waits
<1>15. ASSUME Foreground PROVE Placed'
  BY <1>15 DEF Foreground
<1>16. ASSUME DrainCoalesced PROVE Placed'
  BY <1>16 DEF DrainCoalesced
<1>17. ASSUME PostLost PROVE Placed'
  BY <1>17 DEF PostLost
<1>18. ASSUME NEW reached \in BOOLEAN, DrainStart(reached) PROVE Placed'
  <2>1. PICK batch \in SUBSET (queue \ old), stale \in SUBSET (queue \cap old) :
           /\ queue' = queue \ stale
           /\ \/ UNCHANGED drain
              \/ drain' = [at |-> "posted", batch |-> batch]
    BY <1>18 DEF DrainStart
  <2>2. QED
    BY <1>18, <2>1 DEF DrainStart
<1>19. ASSUME DrainDone PROVE Placed'
  BY <1>19 DEF DrainDone
<1>20. ASSUME NEW t \in drain.batch, DeleteOne(t) PROVE Placed'
  BY <1>20 DEF DeleteOne, Remaining
<1>21. ASSUME NEW t \in drain.batch, GiveUpOne(t) PROVE Placed'
  BY <1>21 DEF GiveUpOne, Remaining
<1>22. ASSUME NEW t \in drain.batch, SwapOut(t) PROVE Placed'
  BY <1>22 DEF SwapOut
<1>23. ASSUME NEW t \in drain.batch, SwapIn(t) PROVE Placed'
  BY <1>23 DEF SwapIn
<1>24. ASSUME Kill PROVE Placed'
  BY <1>24 DEF Kill, Underway, Awaiting
<1>25. ASSUME Restart PROVE Placed'
  BY <1>25 DEF Restart
<1>26. CASE UNCHANGED vars
  BY <1>26 DEF vars
<1>27. QED
  BY <1>1, <1>2, <1>3, <1>4, <1>5, <1>6, <1>7, <1>8, <1>9, <1>10, <1>11,
     <1>12, <1>13, <1>14, <1>15, <1>16, <1>17, <1>18, <1>19, <1>20, <1>21,
     <1>22, <1>23, <1>24, <1>25, <1>26 DEF Next, TakeStep, ServeStep,
     DrainStep, DrainWork,
     CloudStep, Fails

\* Rows do not share an id, and stand for takes that have begun, as requests
\* do; a text is there only when it was delivered.
Named ==
    /\ \A one, other \in rows : Conflicts(one, other) => one = other
    /\ \A row \in rows \cup calls \cup persists : phase[row.take] # "idle"
    /\ \A t \in Takes : text[t] # "none" => phase[t] = "delivered"

\* An insert keeps the ids apart: the unique index.
LEMMA InsertKeepsIds ==
    ASSUME \A one, other \in rows : Conflicts(one, other) => one = other,
           NEW row, Insert(row), UNCHANGED streamed
    PROVE  \A one, other \in rows' : Conflicts(one, other)' => one = other
BY DEF Insert, Conflicts, DedupId

\* Every step keeps the ids apart.
LEMMA NamedStep == ASSUME TypeOK, Named, [Next]_vars PROVE Named'
<1> USE DEF TypeOK, Named, Conflicts, DedupId, takeVars, drainVars, diskVars, serverVars
<1>1. ASSUME NEW t \in Takes, Begin(t) PROVE Named'
  BY <1>1 DEF Begin, Send, Requests, Rows
<1>2. ASSUME NEW t \in Takes, NEW failure \in Failures, ConnectionFails(t, failure) PROVE Named'
  <2>1. PICK next \in {"first", "failed", "pause", "cloud"} :
           /\ phase' = [phase EXCEPT ![t] = next]
           /\ \/ calls' = calls
              \/ calls' = calls \cup {[take |-> t, attempt |-> next]}
    BY <1>2, RungType DEF ConnectionFails, AttemptFails, Send
  <2>2. phase[t] \in Awaiting /\ UNCHANGED <<streamed, text, rows, persists>>
    BY <1>2 DEF ConnectionFails
  <2>3. QED
    BY <2>1, <2>2 DEF Awaiting, Requests, Rows
<1>3. ASSUME NEW t \in Takes, Retry(t) PROVE Named'
  BY <1>3 DEF Retry, Send, Requests, Rows
<1>4. ASSUME NEW t \in Takes, CloudFails(t) PROVE Named'
  BY <1>4 DEF CloudFails
<1>5. ASSUME NEW t \in Takes, NEW said \in {"words", "blank", "empty"}, CloudAnswers(t, said) PROVE Named'
  BY <1>5 DEF CloudAnswers, Enqueue, Deliver
<1>6. ASSUME NEW t \in Takes, Age(t) PROVE Named'
  BY <1>6 DEF Age
<1>7. ASSUME NEW call \in calls, NEW said \in {"words", "blank"}, FinalizeServed(call, said) PROVE Named'
  <2>1. /\ call \in Requests /\ call.take \in Takes /\ call.attempt # "idle"
        /\ phase[call.take] # "idle"
    BY DEF Requests
  <2>2. \A one, other \in rows' : Conflicts(one, other)' => one = other
    BY <1>7, InsertKeepsIds DEF FinalizeServed
  <2>3. rows' \subseteq rows \cup {call} /\ calls' \subseteq calls /\ persists' = persists
    BY <1>7 DEF FinalizeServed, Insert
  <2>4. CASE UNCHANGED <<phase, text>>
    BY <2>1, <2>2, <2>3, <2>4
  <2>5. CASE Deliver(call.take, said)
    BY <2>1, <2>2, <2>3, <2>5 DEF Deliver, Requests, Rows
  <2>6. QED
    BY <1>7, <2>4, <2>5 DEF FinalizeServed, Answer
<1>8. ASSUME NEW call \in calls, NEW said \in {"words", "blank"}, DictateServed(call, said) PROVE Named'
  <2>1. call.take \in Takes /\ phase[call.take] # "idle"
    BY DEF Requests
  <2>2. /\ persists' \subseteq persists \cup {call} /\ calls' \subseteq calls
        /\ UNCHANGED <<rows, streamed>>
    BY <1>8 DEF DictateServed
  <2>3. CASE UNCHANGED <<phase, text>>
    BY <2>1, <2>2, <2>3
  <2>4. CASE Deliver(call.take, said)
    BY <2>1, <2>2, <2>4 DEF Deliver, Requests, Rows
  <2>5. QED
    BY <1>8, <2>3, <2>4 DEF DictateServed, Answer
<1>9. ASSUME NEW call \in calls, Refuse(call) PROVE Named'
  <2>1. CASE phase[call.take] # call.attempt
    BY <1>9, <2>1 DEF Refuse
  <2>2. CASE phase[call.take] = call.attempt
    <3>1. call.take \in Takes /\ phase[call.take] \in Awaiting
      BY <2>2 DEF Requests, Awaiting
    <3>2. PICK next \in {"first", "failed", "pause", "cloud"} :
             /\ phase' = [phase EXCEPT ![call.take] = next]
             /\ \/ calls' = calls \ {call}
                \/ calls' = (calls \ {call}) \cup {[take |-> call.take, attempt |-> next]}
      BY <1>9, <2>2, <3>1, RungType DEF Refuse, AttemptFails, Send
    <3>3. UNCHANGED <<streamed, text, rows, persists>>
      BY <1>9 DEF Refuse
    <3>4. QED
      BY <3>1, <3>2, <3>3 DEF Awaiting, Requests, Rows
  <2>3. QED
    BY <2>1, <2>2
<1>10. ASSUME NEW call \in persists, Persist(call) PROVE Named'
  BY <1>10 DEF Persist, Insert, Requests
<1>11. ASSUME NEW batch \in posts, NEW t \in batch, IngestOne(batch, t) PROVE Named'
  BY <1>11 DEF IngestOne, Kept, Insert, EntryRow
<1>12. ASSUME NEW batch \in posts, Accept(batch) PROVE Named'
  BY <1>12 DEF Accept, Verdict, Reaction
<1>13. ASSUME NEW batch \in posts, Reject(batch) PROVE Named'
  BY <1>13 DEF Reject, Verdict, Reaction
<1>14. ASSUME NEW batch \in posts, PostErrors(batch) PROVE Named'
  BY <1>14 DEF PostErrors, Verdict, Reaction
<1>15. ASSUME Foreground PROVE Named'
  BY <1>15 DEF Foreground
<1>16. ASSUME DrainCoalesced PROVE Named'
  BY <1>16 DEF DrainCoalesced
<1>17. ASSUME PostLost PROVE Named'
  BY <1>17 DEF PostLost
<1>18. ASSUME NEW reached \in BOOLEAN, DrainStart(reached) PROVE Named'
  BY <1>18 DEF DrainStart
<1>19. ASSUME DrainDone PROVE Named'
  BY <1>19 DEF DrainDone
<1>20. ASSUME NEW t \in drain.batch, DeleteOne(t) PROVE Named'
  BY <1>20 DEF DeleteOne, Remaining
<1>21. ASSUME NEW t \in drain.batch, GiveUpOne(t) PROVE Named'
  BY <1>21 DEF GiveUpOne, Remaining
<1>22. ASSUME NEW t \in drain.batch, SwapOut(t) PROVE Named'
  BY <1>22 DEF SwapOut
<1>23. ASSUME NEW t \in drain.batch, SwapIn(t) PROVE Named'
  BY <1>23 DEF SwapIn
<1>24. ASSUME Kill PROVE Named'
  BY <1>24 DEF Kill, Underway, Awaiting, Requests, Rows
<1>25. ASSUME Restart PROVE Named'
  BY <1>25 DEF Restart
<1>26. CASE UNCHANGED vars
  BY <1>26 DEF vars
<1>27. QED
  BY <1>1, <1>2, <1>3, <1>4, <1>5, <1>6, <1>7, <1>8, <1>9, <1>10, <1>11,
     <1>12, <1>13, <1>14, <1>15, <1>16, <1>17, <1>18, <1>19, <1>20, <1>21,
     <1>22, <1>23, <1>24, <1>25, <1>26 DEF Next, TakeStep, ServeStep,
     DrainStep, DrainWork,
     CloudStep, Fails

\* What is being deleted has its row, when no write fails and no clock is fast.
Deleted ==
    ~WritesFail /\ Skewed = {} /\ drain.at = "deleting" =>
        \A t \in drain.batch : text[t] = "words" => HasRow(t)

LEMMA DeletedStep == ASSUME TypeOK, Placed, Deleted, [Next]_vars PROVE Deleted'
<1> USE DEF TypeOK, Placed, Filed, Deleted, HasRow, takeVars, drainVars, diskVars, serverVars
<1>1. ASSUME NEW t \in Takes, Begin(t) PROVE Deleted'
  BY <1>1 DEF Begin, Send
<1>2. ASSUME NEW t \in Takes, NEW failure \in Failures, ConnectionFails(t, failure) PROVE Deleted'
  BY <1>2 DEF ConnectionFails, AttemptFails, Send
<1>3. ASSUME NEW t \in Takes, Retry(t) PROVE Deleted'
  BY <1>3 DEF Retry, Send
<1>4. ASSUME NEW t \in Takes, CloudFails(t) PROVE Deleted'
  BY <1>4 DEF CloudFails
<1>5. ASSUME NEW t \in Takes, NEW said \in {"words", "blank", "empty"}, CloudAnswers(t, said) PROVE Deleted'
  BY <1>5 DEF CloudAnswers, Enqueue, Deliver
<1>6. ASSUME NEW t \in Takes, Age(t) PROVE Deleted'
  BY <1>6 DEF Age
<1>7. ASSUME NEW call \in calls, NEW said \in {"words", "blank"}, FinalizeServed(call, said) PROVE Deleted'
  BY <1>7 DEF FinalizeServed, Answer, Deliver, Insert, Requests
<1>8. ASSUME NEW call \in calls, NEW said \in {"words", "blank"}, DictateServed(call, said) PROVE Deleted'
  BY <1>8 DEF DictateServed, Answer, Deliver, Requests
<1>9. ASSUME NEW call \in calls, Refuse(call) PROVE Deleted'
  BY <1>9 DEF Refuse, AttemptFails, Send
<1>10. ASSUME NEW call \in persists, Persist(call) PROVE Deleted'
  BY <1>10 DEF Persist, Insert
<1>11. ASSUME NEW batch \in posts, NEW t \in batch, IngestOne(batch, t) PROVE Deleted'
  BY <1>11 DEF IngestOne, Insert, EntryRow
<1>12. ASSUME NEW batch \in posts, Accept(batch) PROVE Deleted'
  <2>1. CASE Waits(batch)
    <3>1. ~WritesFail /\ Skewed = {} => \A t \in batch : text[t] = "words" => HasRow(t)
      BY <1>12 DEF Accept, Kept, Ingested, Conflicts, EntryRow
    <3>2. drain'.batch = batch /\ UNCHANGED <<text, rows>>
      BY <1>12, <2>1 DEF Accept, Verdict
    <3>3. QED
      BY <3>1, <3>2
  <2>2. CASE ~Waits(batch)
    BY <1>12, <2>2 DEF Accept, Verdict
  <2>3. QED
    BY <2>1, <2>2
<1>13. ASSUME NEW batch \in posts, Reject(batch) PROVE Deleted'
  BY <1>13 DEF Reject, Verdict, Reaction, Waits
<1>14. ASSUME NEW batch \in posts, PostErrors(batch) PROVE Deleted'
  BY <1>14 DEF PostErrors, Verdict, Reaction, Waits
<1>15. ASSUME Foreground PROVE Deleted'
  BY <1>15 DEF Foreground
<1>16. ASSUME DrainCoalesced PROVE Deleted'
  BY <1>16 DEF DrainCoalesced
<1>17. ASSUME PostLost PROVE Deleted'
  BY <1>17 DEF PostLost
<1>18. ASSUME NEW reached \in BOOLEAN, DrainStart(reached) PROVE Deleted'
  BY <1>18 DEF DrainStart
<1>19. ASSUME DrainDone PROVE Deleted'
  BY <1>19 DEF DrainDone
<1>20. ASSUME NEW t \in drain.batch, DeleteOne(t) PROVE Deleted'
  BY <1>20 DEF DeleteOne, Remaining
<1>21. ASSUME NEW t \in drain.batch, GiveUpOne(t) PROVE Deleted'
  BY <1>21 DEF GiveUpOne, Remaining
<1>22. ASSUME NEW t \in drain.batch, SwapOut(t) PROVE Deleted'
  BY <1>22 DEF SwapOut
<1>23. ASSUME NEW t \in drain.batch, SwapIn(t) PROVE Deleted'
  BY <1>23 DEF SwapIn
<1>24. ASSUME Kill PROVE Deleted'
  BY <1>24 DEF Kill
<1>25. ASSUME Restart PROVE Deleted'
  BY <1>25 DEF Restart
<1>26. CASE UNCHANGED vars
  BY <1>26 DEF vars
<1>27. QED
  BY <1>1, <1>2, <1>3, <1>4, <1>5, <1>6, <1>7, <1>8, <1>9, <1>10, <1>11,
     <1>12, <1>13, <1>14, <1>15, <1>16, <1>17, <1>18, <1>19, <1>20, <1>21,
     <1>22, <1>23, <1>24, <1>25, <1>26 DEF Next, TakeStep, ServeStep,
     DrainStep, DrainWork,
     CloudStep, Fails

\* Type correctness: every variable of the delivery keeps its type; above all,
\* no entry outlives its last attempt.
THEOREM DeliveryTypeCorrect == Spec => []TypeOK
<1>1. Spec => [](TypeOK /\ Placed)
  BY TypeInit, TypeStep, PlacedStep, PTL DEF Spec
<1>2. QED
  BY <1>1, PTL

\* A streamed take has at most one row, whichever paths wrote it, late and
\* repeated writes included.
THEOREM OneRowPerTake == Spec => []AtMostOneRow
<1>1. Init => Named
  BY DEF Init, Named
<1>2. TypeOK /\ Named => AtMostOneRow
  BY DEF TypeOK, Named, AtMostOneRow, Conflicts, DedupId
<1>3. Spec => [](TypeOK /\ Placed)
  BY TypeInit, TypeStep, PlacedStep, PTL DEF Spec
<1>4. Spec => []Named
  BY <1>1, <1>3, NamedStep, PTL DEF Spec
<1>5. QED
  BY <1>2, <1>3, <1>4, PTL


\* One step of EntriesEndWell.
LEMMA EntryLeaves ==
    ASSUME ~WritesFail, Skewed = {}, TypeOK, Placed, Deleted, [Next]_vars,
           NEW e \in Filed \ Filed', text[e] = "words"
    PROVE  HasRow(e)' \/ e \in setAside'
<1> USE DEF Filed, takeVars, drainVars, diskVars, serverVars
<1>1. CASE TakeStep
  BY <1>1 DEF TakeStep, Begin, Fails, ConnectionFails, Retry, CloudStep, CloudFails,
     CloudAnswers, Enqueue, Age
<1>2. CASE ServeStep
  BY <1>2 DEF ServeStep, FinalizeServed, DictateServed, Refuse, Persist, IngestOne,
     Accept, Reject, PostErrors, Verdict
<1>3. CASE Foreground \/ DrainCoalesced \/ PostLost \/ DrainDone
  BY <1>3 DEF Foreground, DrainCoalesced, PostLost, DrainDone
<1>4. ASSUME NEW reached \in BOOLEAN, DrainStart(reached)
      PROVE  HasRow(e)' \/ e \in setAside'
  BY <1>4 DEF DrainStart
<1>5. ASSUME NEW t \in drain.batch, DeleteOne(t)
      PROVE  HasRow(e)' \/ e \in setAside'
  BY <1>5 DEF DeleteOne, Deleted, HasRow
<1>6. ASSUME NEW t \in drain.batch, GiveUpOne(t) \/ SwapOut(t) \/ SwapIn(t)
      PROVE  HasRow(e)' \/ e \in setAside'
  BY <1>6 DEF GiveUpOne, SwapOut, SwapIn
<1>7. CASE Kill \/ Restart \/ UNCHANGED vars
  BY <1>7 DEF Kill, Restart, vars
<1>8. QED
  BY <1>1, <1>2, <1>3, <1>4, <1>5, <1>6, <1>7 DEF Next, DrainStep, DrainWork

\* When no write fails and no clock is fast, an entry with words leaves the
\* queue only into the history or into failed/.
THEOREM EntriesAreAccountedFor ==
    ASSUME ~WritesFail, Skewed = {} PROVE Spec => EntriesEndWell
<1>1. Init => Deleted
  BY DEF Init, Deleted
<1>2. Spec => [](TypeOK /\ Placed)
  BY TypeInit, TypeStep, PlacedStep, PTL DEF Spec
<1>3. Spec => []Deleted
  BY <1>1, <1>2, DeletedStep, PTL DEF Spec
<1>4. TypeOK /\ Placed /\ Deleted /\ [Next]_vars =>
        [\A t \in Filed \ Filed' : text[t] = "words" => HasRow(t)' \/ t \in setAside']_vars
  BY EntryLeaves
<1>5. QED
  BY <1>2, <1>3, <1>4, PTL DEF Spec, EntriesEndWell


\* One step of DeliveredIsTraced: a rung that delivers words has written their
\* row, left it to a Task, or queued them; a Task inserts the row, and the drain
\* deletes an entry only when its row is there.
LEMMA TracedStep ==
    ASSUME ~WritesFail, Skewed = {}, TypeOK, Placed, Deleted, DeliveredIsTraced,
           [Next]_vars
    PROVE  DeliveredIsTraced'
<1> USE DeliveryAssumption DEF TypeOK, DeliveredIsTraced, HasRow, Filed,
      takeVars, drainVars, diskVars, serverVars
\* Steps that take nothing away and deliver nothing.
<1>1. ASSUME rows \subseteq rows', persists \subseteq persists',
             Filed \cup setAside \subseteq Filed' \cup setAside',
             \A t \in Takes : text'[t] = "words" => text[t] = "words",
             restarts' = restarts
      PROVE  DeliveredIsTraced'
  BY <1>1
<1>2. ASSUME NEW t \in Takes,
             \/ Begin(t) \/ Fails(t) \/ Retry(t) \/ CloudFails(t) \/ Age(t)
      PROVE  DeliveredIsTraced'
  BY <1>1, <1>2 DEF Begin, Fails, ConnectionFails, Retry, CloudFails, Age
<1>3. ASSUME NEW t \in Takes, NEW said \in {"words", "blank", "empty"},
             CloudAnswers(t, said)
      PROVE  DeliveredIsTraced'
  BY <1>3 DEF CloudAnswers, Enqueue, Deliver
<1>4. ASSUME NEW call \in calls, NEW said \in {"words", "blank"},
             FinalizeServed(call, said)
      PROVE  DeliveredIsTraced'
  <2>1. rows \subseteq rows' /\ \E row \in rows' : row.take = call.take
    BY <1>4 DEF FinalizeServed, Insert, Conflicts
  <2>2. \A t \in Takes \ {call.take} : text'[t] = text[t]
    BY <1>4 DEF FinalizeServed, Answer, Deliver
  <2>3. UNCHANGED <<persists, queue, swapped, setAside, restarts>>
    BY <1>4 DEF FinalizeServed
  <2>4. QED
    BY <2>1, <2>2, <2>3
<1>5. ASSUME NEW call \in calls, NEW said \in {"words", "blank"},
             DictateServed(call, said)
      PROVE  DeliveredIsTraced'
  <2>1. /\ persists \subseteq persists'
        /\ said = "words" => call \in persists'
    BY <1>5 DEF DictateServed
  <2>2. \A t \in Takes : \/ text'[t] = text[t]
                         \/ t = call.take /\ text'[t] = said
    BY <1>5 DEF DictateServed, Answer, Deliver
  <2>3. UNCHANGED <<rows, queue, swapped, setAside, restarts>>
    BY <1>5 DEF DictateServed
  <2>4. QED
    BY <2>1, <2>2, <2>3
<1>6. ASSUME NEW call \in calls, Refuse(call) PROVE DeliveredIsTraced'
  BY <1>1, <1>6 DEF Refuse
<1>7. ASSUME NEW call \in persists, Persist(call) PROVE DeliveredIsTraced'
  <2>1. rows \subseteq rows' /\ \E row \in rows' : row.take = call.take
    BY <1>7 DEF Persist, Insert, Conflicts
  <2>2. persists' = persists \ {call}
        /\ UNCHANGED <<text, queue, swapped, setAside, restarts>>
    BY <1>7 DEF Persist
  <2>3. QED
    BY <2>1, <2>2
<1>8. ASSUME NEW batch \in posts, NEW t \in batch, IngestOne(batch, t)
      PROVE  DeliveredIsTraced'
  BY <1>1, <1>8 DEF IngestOne, Insert
<1>9. ASSUME NEW batch \in posts,
             Accept(batch) \/ Reject(batch) \/ PostErrors(batch)
      PROVE  DeliveredIsTraced'
  BY <1>1, <1>9 DEF Accept, Reject, PostErrors, Verdict
<1>10. CASE Foreground \/ DrainCoalesced \/ PostLost \/ DrainDone
  BY <1>1, <1>10 DEF Foreground, DrainCoalesced, PostLost, DrainDone
<1>11. ASSUME NEW reached \in BOOLEAN, DrainStart(reached)
       PROVE  DeliveredIsTraced'
  BY <1>1, <1>11 DEF DrainStart
<1>12. ASSUME NEW t \in drain.batch, DeleteOne(t) PROVE DeliveredIsTraced'
  <2>1. text[t] = "words" => HasRow(t)
    BY <1>12 DEF DeleteOne, Deleted
  <2>2. queue' = queue \ {t}
        /\ UNCHANGED <<text, rows, persists, swapped, setAside, restarts>>
    BY <1>12 DEF DeleteOne
  <2>3. QED
    BY <2>1, <2>2
<1>13. ASSUME NEW t \in drain.batch, GiveUpOne(t) \/ SwapOut(t) \/ SwapIn(t)
       PROVE  DeliveredIsTraced'
  BY <1>1, <1>13 DEF GiveUpOne, SwapOut, SwapIn
<1>14. CASE Kill
  BY <1>1, <1>14 DEF Kill
<1>15. CASE Restart
  BY <1>15 DEF Restart
<1>16. CASE UNCHANGED vars
  BY <1>1, <1>16 DEF vars
<1>17. QED
  BY <1>2, <1>3, <1>4, <1>5, <1>6, <1>7, <1>8, <1>9, <1>10, <1>11, <1>12,
     <1>13, <1>14, <1>15, <1>16
     DEF Next, TakeStep, CloudStep, ServeStep, DrainStep, DrainWork

\* When no write fails and no clock is fast, words that the user got are in the
\* history, on their way to it, queued or set aside, until the server restarts.
THEOREM WordsAreTraced ==
    ASSUME ~WritesFail, Skewed = {} PROVE Spec => []DeliveredIsTraced
<1>1. Init => Deleted /\ DeliveredIsTraced
  BY DEF Init, Deleted, DeliveredIsTraced
<1>2. Spec => [](TypeOK /\ Placed)
  BY TypeInit, TypeStep, PlacedStep, PTL DEF Spec
<1>3. Spec => []Deleted
  BY <1>1, <1>2, DeletedStep, PTL DEF Spec
<1>4. QED
  BY <1>1, <1>2, <1>3, TracedStep, PTL DEF Spec
=============================================================================
