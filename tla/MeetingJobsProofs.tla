------------------------- MODULE MeetingJobsProofs -------------------------
(* Theorems about MeetingJobs, for any set of jobs and any number of       *)
(* outages.                                                                 *)
EXTENDS MeetingJobs, TLAPS

Status == Live \cup Terminal \cup NoRow

\* The UPDATE helpers write statuses that the type of the column allows.
LEMMA SetStatusType ==
    ASSUME status \in [Jobs -> Status], NEW j \in Jobs, NEW s \in Status,
           SetStatus(j, s)
    PROVE  status' \in [Jobs -> Status]
  BY DEF SetStatus

LEMMA SetFailedType ==
    ASSUME status \in [Jobs -> Status], NEW j \in Jobs,
           SetFailedUnlessTerminal(j)
    PROVE  status' \in [Jobs -> Status]
<1>1. CASE status[j] \in Terminal
  BY <1>1, SetStatusType DEF SetFailedUnlessTerminal, Status
<1>2. CASE status[j] \notin Terminal
  BY <1>2, SetStatusType DEF SetFailedUnlessTerminal, Status, Terminal
<1>3. QED
  BY <1>1, <1>2

LEMMA SetRunningType ==
    ASSUME TypeOK, NEW j \in Jobs, SetRunning(j)
    PROVE  status' \in [Jobs -> Status] /\ attempts' \in [Jobs -> Nat]
<1>1. status' \in [Jobs -> Status]
  BY SetStatusType DEF SetRunning, TypeOK, Status, Live
<1>2. attempts' \in [Jobs -> Nat]
  BY DEF SetRunning, TypeOK
<1>3. QED
  BY <1>1, <1>2

\* Type correctness: every variable of the job server keeps its type.
THEOREM TypeCorrect == Spec => []TypeOK
<1>1. Init => TypeOK
  BY JobsAssumption DEF Init, TypeOK, InTask, Holding, Awaiting, Live, Terminal,
     NoRow
<1>2. TypeOK /\ [Next]_vars => TypeOK'
  <2> SUFFICES ASSUME TypeOK, [Next]_vars PROVE TypeOK'
    OBVIOUS
  <2> USE DEF TypeOK, Status, InTask, Holding, Awaiting, rowVars, fileVars, taskVars,
        callVars
  <2>1. ASSUME NEW j \in Jobs, Stage(j) PROVE TypeOK'
    BY <2>1, JobsAssumption DEF Stage, UploadKinds
  <2>2. ASSUME NEW j \in Jobs, Submit(j) PROVE TypeOK'
    BY <2>2 DEF Submit, Live
  <2>3. ASSUME NEW j \in Jobs, Reject(j) \/ SubmitRaises(j) PROVE TypeOK'
    <3>1. CASE Reject(j)
      BY <3>1 DEF Reject, DropUploadFile
    <3>2. CASE SubmitRaises(j)
      BY <3>2 DEF SubmitRaises
    <3>3. QED
      BY <2>3, <3>1, <3>2
  <2>4. ASSUME NEW j \in Jobs, Begin(j), waiters' \in Seq(Jobs) PROVE TypeOK'
    <3>1. status' \in [Jobs -> Status] /\ attempts' \in [Jobs -> Nat]
      BY <2>4, SetRunningType DEF Begin
    <3>2. /\ pc' \in [Jobs -> {"idle", "staged", "ended"} \cup InTask]
          /\ fn' \in [Jobs ->
                         {"none", "probe", "duration", "decode", "transcribe"}]
          /\ call' \in [Jobs -> {"none", "queued", "running", "ok", "err"}]
      <4>1. PICK p \in InTask, f \in {"probe", "transcribe"} :
              pc' = [pc EXCEPT ![j] = p] /\ SubmitCall(j, f)
        BY <2>4 DEF Begin
      <4>2. QED
        BY <4>1 DEF SubmitCall
    <3>3. QED
      BY <2>4, <3>1, <3>2 DEF Begin
  <2>5. ASSUME NEW j \in Jobs, StartTask(j) PROVE TypeOK'
    BY <2>5, <2>4 DEF StartTask
  <2>6. ASSUME NEW j \in Jobs, BlockTask(j) PROVE TypeOK'
    BY <2>6 DEF BlockTask
  <2>7. ASSUME NEW j \in Jobs, WakeTask(j) PROVE TypeOK'
    BY <2>7, <2>4 DEF WakeTask
  <2>8. ASSUME NEW j \in Jobs, Probed(j) \/ Timed(j) PROVE TypeOK'
    <3>1. CASE Probed(j)
      BY <3>1 DEF Probed, SubmitCall
    <3>2. CASE Timed(j)
      BY <3>2 DEF Timed, SubmitCall
    <3>3. QED
      BY <2>8, <3>1, <3>2
  <2>9. ASSUME NEW j \in Jobs, Decoded(j) PROVE TypeOK'
    BY <2>9 DEF Decoded, HasRow
  <2>10. ASSUME NEW j \in Jobs, DropUpload(j) PROVE TypeOK'
    BY <2>10, SetRunningType DEF DropUpload, SubmitCall, DropUploadFile
  <2>11. ASSUME NEW j \in Jobs, PhaseTimeout(j) PROVE TypeOK'
    BY <2>11, SetStatusType DEF PhaseTimeout, EndTask, Withdraw, DropUploadFile,
       Terminal
  <2>12. ASSUME NEW j \in Jobs, SourceFails(j) PROVE TypeOK'
    BY <2>12, SetFailedType DEF SourceFails, EndTask, DropUploadFile
  <2>13. ASSUME NEW j \in Jobs, PipelineReturns(j) PROVE TypeOK'
    BY <2>13, SetStatusType DEF PipelineReturns, Terminal, HasRow
  <2>14. ASSUME NEW j \in Jobs, PipelineRaises(j) PROVE TypeOK'
    BY <2>14, SetFailedType DEF PipelineRaises
  <2>15. ASSUME NEW j \in Jobs, CleanUp(j) PROVE TypeOK'
    BY <2>15 DEF CleanUp, EndTask, DropUploadFile
  <2>16. ASSUME NEW j \in Jobs, WatchdogFires(j) PROVE TypeOK'
    BY <2>16, SetStatusType DEF WatchdogFires, Terminal
  <2>17. ASSUME NEW j \in Jobs, ThreadStep(j) \/ WriteSome(j) PROVE TypeOK'
    <3>1. CASE TakeCall(j)
      BY <3>1 DEF TakeCall
    <3>2. CASE CallReturns(j)
      <4>1. /\ outs' \in [Jobs -> {"none", "some", "all", "left"}]
            /\ inRoot' \in [Jobs -> BOOLEAN]
        BY <3>2 DEF CallReturns, Write
      <4>2. QED
        BY <3>2, <4>1 DEF CallReturns, Deliver, PublishCanonical
    <3>3. CASE CallRaises(j)
      BY <3>3 DEF CallRaises, Deliver
    <3>4. CASE WriteSome(j)
      BY <3>4 DEF WriteSome, Write
    <3>5. QED
      BY <2>17, <3>1, <3>2, <3>3, <3>4 DEF ThreadStep
  <2>18. ASSUME NEW j \in Jobs, DeleteFiles(j) \/ DeleteRow(j) \/ Purge(j)
         PROVE TypeOK'
    <3>1. CASE DeleteFiles(j)
      BY <3>1 DEF DeleteFiles
    <3>2. CASE DeleteRow(j)
      BY <3>2, SetStatusType DEF DeleteRow, NoRow
    <3>3. CASE Purge(j)
      <4>1. PICK o \in {"none", "some", "all", "left"} : outs' = [outs EXCEPT ![j] = o]
        BY <3>3 DEF Purge
      <4>2. PICK s \in Status : status' = [status EXCEPT ![j] = s]
        BY <3>3 DEF Purge, NoRow
      <4>3. QED
        BY <3>3, <4>1, <4>2 DEF Purge
    <3>4. QED
      BY <2>18, <3>1, <3>2, <3>3
  <2>19. CASE DailySweep
    BY <2>19 DEF DailySweep
  <2>20. CASE Sigterm
    BY <2>20, JobsAssumption DEF Sigterm, Terminal
  <2>21. CASE CancelTasks
    BY <2>21 DEF CancelTasks
  <2>22. CASE Exit \/ Crash
    <3>1. outages' \in 0..MaxOutages
      BY <2>22, JobsAssumption DEF Exit, Crash
    <3>2. Vanish /\ srv' \in {"off", "down"}
      BY <2>22 DEF Exit, Crash
    <3>3. pc' \in [Jobs -> {"idle", "staged", "ended"} \cup InTask]
      BY <3>2 DEF Vanish
    <3>4. /\ waiters' \in Seq(Jobs)
          /\ call' \in [Jobs -> {"none", "queued", "running", "ok", "err"}]
          /\ armed' \in [Jobs -> BOOLEAN]
      BY <3>2 DEF Vanish
    <3>5. QED
      BY <3>1, <3>2, <3>3, <3>4 DEF Vanish
  <2>23. CASE Recover
    BY <2>23 DEF Recover, Recovered, Terminal
  <2>24. CASE ReenqueuePending
    BY <2>24 DEF ReenqueuePending, Terminal
  <2>25. CASE UNCHANGED vars
    BY <2>25 DEF vars
  <2>26. QED
    BY <2>1, <2>2, <2>3, <2>5, <2>6, <2>7, <2>8, <2>9, <2>10, <2>11, <2>12,
       <2>13, <2>14, <2>15, <2>16, <2>17, <2>18, <2>19, <2>20, <2>21, <2>22,
       <2>23, <2>24, <2>25 DEF Next, LoopStep, Restart
<1>3. QED
  BY <1>1, <1>2, PTL DEF Spec

-----------------------------------------------------------------------------
\* The inductive invariant of the waiting jobs.  A row appears once, when its
\* upload has been staged, and is pending only until its task has the
\* semaphore: every unlink of an upload is behind that point, at a place where
\* no row can be pending.
Unsubmitted ==
    \A j \in Jobs : status[j] = "none" => ~rowCanon[j] /\ attempts[j] = 0

StagedHasUpload ==
    \A j \in Jobs : /\ pc[j] \in {"idle", "staged"} => status[j] = "none"
                    /\ pc[j] = "staged" => upload[j] /\ srv \in {"up", "stopping"}

HoldingIsStarted ==
    \A j \in Jobs : pc[j] \in Holding => status[j] # "pending"

WaitingInv ==
    Unsubmitted /\ StagedHasUpload /\ HoldingIsStarted /\ PendingIsRunnable

\* Every step keeps it, a restart included.
LEMMA WaitingStep ==
    ASSUME TypeOK, WaitingInv, [Next]_vars
    PROVE  WaitingInv'
<1> USE DEF TypeOK, Unsubmitted, StagedHasUpload, HoldingIsStarted,
      PendingIsRunnable, WaitingInv, Holding, Awaiting, rowVars, fileVars,
      taskVars, callVars
<1>1. ASSUME NEW j \in Jobs, Stage(j) PROVE WaitingInv'
  BY <1>1 DEF Stage
<1>2. ASSUME NEW j \in Jobs, Submit(j) PROVE WaitingInv'
  BY <1>2 DEF Submit
<1>3. ASSUME NEW j \in Jobs, Reject(j) \/ SubmitRaises(j) PROVE WaitingInv'
  <2>1. CASE Reject(j)
    BY <2>1 DEF Reject, DropUploadFile
  <2>2. CASE SubmitRaises(j)
    BY <2>2 DEF SubmitRaises
  <2>3. QED
    BY <1>3, <2>1, <2>2
<1>4. ASSUME NEW j \in Jobs, Begin(j), pc[j] \in {"created", "waiting"}
      PROVE  WaitingInv'
  <2>1. PICK p \in Holding : pc' = [pc EXCEPT ![j] = p]
    BY <1>4 DEF Begin
  <2>2. /\ status' = [status EXCEPT ![j] = IF HasRow(j) THEN "running" ELSE @]
        /\ attempts' = [attempts EXCEPT ![j] = IF HasRow(j) THEN @ + 1 ELSE @]
        /\ UNCHANGED <<srv, rowCanon, upload>>
    BY <1>4 DEF Begin, SetRunning, SetStatus
  <2>3. QED
    BY <2>1, <2>2 DEF HasRow, NoRow
<1>5. ASSUME NEW j \in Jobs, StartTask(j) \/ WakeTask(j) PROVE WaitingInv'
  BY <1>4, <1>5 DEF StartTask, WakeTask
<1>6. ASSUME NEW j \in Jobs, BlockTask(j) PROVE WaitingInv'
  BY <1>6 DEF BlockTask
<1>7. ASSUME NEW j \in Jobs, Probed(j) \/ Timed(j) PROVE WaitingInv'
  <2>1. PICK p \in Holding : pc' = [pc EXCEPT ![j] = p]
    BY <1>7 DEF Probed, Timed
  <2>2. pc[j] \in Holding /\ UNCHANGED <<srv, status, rowCanon, attempts, upload>>
    BY <1>7 DEF Probed, Timed
  <2>3. QED
    BY <2>1, <2>2
<1>8. ASSUME NEW j \in Jobs, Decoded(j) PROVE WaitingInv'
  BY <1>8 DEF Decoded, HasRow, NoRow
<1>9. ASSUME NEW j \in Jobs, DropUpload(j) PROVE WaitingInv'
  <2>1. /\ pc[j] = "swapping" /\ pc' = [pc EXCEPT ![j] = "transcribing"]
        /\ status' = [status EXCEPT ![j] = IF HasRow(j) THEN "running" ELSE @]
        /\ attempts' = [attempts EXCEPT ![j] = IF HasRow(j) THEN @ + 1 ELSE @]
        /\ upload' = [upload EXCEPT ![j] = FALSE]
        /\ UNCHANGED <<srv, rowCanon>>
    BY <1>9 DEF DropUpload, SetRunning, SetStatus, DropUploadFile
  <2>2. QED
    BY <2>1 DEF HasRow, NoRow
<1>10. ASSUME NEW j \in Jobs, pc[j] \in Holding, NEW s \in Terminal,
              \/ UNCHANGED status
              \/ status' = [status EXCEPT ![j] = IF HasRow(j) THEN s ELSE @],
              \E p \in Holding \cup {"ended"} : pc' = [pc EXCEPT ![j] = p],
              \A k \in Jobs \ {j} : upload'[k] = upload[k],
              UNCHANGED <<srv, rowCanon, attempts>>
       PROVE  WaitingInv'
  <2>1. \A k \in Jobs \ {j} : status'[k] = status[k] /\ pc'[k] = pc[k]
    BY <1>10
  <2>2. /\ status'[j] # "pending"
        /\ status'[j] = "none" => status[j] = "none"
    BY <1>10 DEF HasRow, NoRow, Terminal
  <2>3. pc'[j] \notin {"idle", "staged"}
    BY <1>10
  <2>4. Unsubmitted' /\ HoldingIsStarted'
    BY <1>10, <2>1, <2>2
  <2>5. StagedHasUpload'
    BY <1>10, <2>1, <2>3
  <2>6. PendingIsRunnable'
    BY <1>10, <2>1, <2>2
  <2>7. QED
    BY <2>4, <2>5, <2>6
<1>11. ASSUME NEW j \in Jobs, PhaseTimeout(j) PROVE WaitingInv'
  BY <1>10, <1>11 DEF PhaseTimeout, SetStatus, EndTask, DropUploadFile, Terminal
<1>12. ASSUME NEW j \in Jobs, SourceFails(j) \/ PipelineRaises(j)
       PROVE  WaitingInv'
  <2>1. PICK s \in Terminal :
          status' = [status EXCEPT ![j] = IF HasRow(j) THEN s ELSE @]
    BY <1>12 DEF SourceFails, PipelineRaises, SetFailedUnlessTerminal,
       SetStatus, Terminal
  <2>2. \E p \in Holding \cup {"ended"} : pc' = [pc EXCEPT ![j] = p]
    BY <1>12 DEF SourceFails, PipelineRaises, EndTask
  <2>3. /\ pc[j] \in Holding
        /\ \A k \in Jobs \ {j} : upload'[k] = upload[k]
        /\ UNCHANGED <<srv, rowCanon, attempts>>
    BY <1>12 DEF SourceFails, PipelineRaises, DropUploadFile
  <2>4. QED
    BY <1>10, <2>1, <2>2, <2>3
<1>13. ASSUME NEW j \in Jobs, PipelineReturns(j) PROVE WaitingInv'
  BY <1>10, <1>13 DEF PipelineReturns, SetStatus, Terminal
<1>14. ASSUME NEW j \in Jobs, CleanUp(j) PROVE WaitingInv'
  <2>1. \E p \in Holding \cup {"ended"} : pc' = [pc EXCEPT ![j] = p]
    BY <1>14 DEF CleanUp, EndTask
  <2>2. /\ pc[j] \in Holding
        /\ \A k \in Jobs \ {j} : upload'[k] = upload[k]
        /\ UNCHANGED <<srv, status, rowCanon, attempts>>
    BY <1>14 DEF CleanUp, DropUploadFile
  <2>3. QED
    BY <1>10, <2>1, <2>2 DEF Terminal
<1>15. ASSUME NEW j \in Jobs, WatchdogFires(j) PROVE WaitingInv'
  BY <1>15 DEF WatchdogFires, SetStatus, HasRow, NoRow
<1>16. ASSUME NEW j \in Jobs,
              ThreadStep(j) \/ WriteSome(j) \/ DeleteFiles(j)
       PROVE  WaitingInv'
  <2>1. UNCHANGED <<srv, status, rowCanon, attempts, upload, pc>>
    BY <1>16 DEF ThreadStep, TakeCall, CallReturns, CallRaises, WriteSome,
       DeleteFiles
  <2>2. QED
    BY <2>1
<1>17. ASSUME NEW j \in Jobs, DeleteRow(j) \/ Purge(j) PROVE WaitingInv'
  <2>1. PICK s \in {"deleted", "purged"} :
          status' \in {status, [status EXCEPT ![j] = IF HasRow(j) THEN s ELSE @]}
    BY <1>17 DEF DeleteRow, Purge, Purgeable, SetStatus, HasRow, NoRow,
       Terminal
  <2>2. UNCHANGED <<srv, rowCanon, attempts, upload, pc>>
    BY <1>17 DEF DeleteRow, Purge
  <2>3. QED
    BY <2>1, <2>2 DEF HasRow, NoRow
<1>18. CASE DailySweep
  BY <1>18 DEF DailySweep, Live
<1>19. CASE Sigterm
  BY <1>19 DEF Sigterm
<1>20. CASE CancelTasks
  BY <1>20 DEF CancelTasks, InTask
<1>21. CASE Exit \/ Crash
  <2>1. Vanish
    BY <1>21 DEF Exit, Crash
  <2>2. /\ UNCHANGED <<status, rowCanon, attempts, upload>>
        /\ \A k \in Jobs : /\ pc'[k] \in {"idle", "ended"}
                           /\ pc'[k] = "idle" => pc[k] = "idle"
    BY <2>1 DEF Vanish
  <2>3. QED
    BY <2>2
<1>22. CASE Recover
  <2>1. /\ status' = [k \in Jobs |-> Recovered(k)]
        /\ UNCHANGED <<rowCanon, attempts, pc>>
    BY <1>22 DEF Recover
  <2>2. \A k \in Jobs : /\ Recovered(k) \in {status[k], "failed"}
                        /\ status[k] = "none" => Recovered(k) = "none"
    BY DEF Recovered
  <2>3. \A k \in Jobs : Recovered(k) = "pending" =>
          status[k] = "pending" /\ ~Truncated(k)
    BY DEF Recovered
  <2>4. \A k \in Jobs : Recovered(k) = "pending" => upload'[k] = upload[k]
    BY <1>22, <2>3 DEF Recover, Live
  <2>5. \A k \in Jobs : pc[k] # "staged"
    BY <1>22 DEF Recover
  <2>6. QED
    BY <2>1, <2>2, <2>3, <2>4, <2>5
<1>23. CASE ReenqueuePending
  BY <1>23 DEF ReenqueuePending, Requeued
<1>24. CASE UNCHANGED vars
  BY <1>24 DEF vars
<1>25. QED
  BY <1>1, <1>2, <1>3, <1>5, <1>6, <1>7, <1>8, <1>9, <1>11, <1>12, <1>13,
     <1>14, <1>15, <1>16, <1>17, <1>18, <1>19, <1>20, <1>21, <1>22, <1>23,
     <1>24 DEF Next, LoopStep, Restart

\* No accepted job loses its audio, or is charged an attempt, before it runs:
\* neither the DELETE route, the sweeps, the signal handler, a crash nor
\* recovery touches the upload of a pending row.
THEOREM PendingRunnable == Spec => []PendingIsRunnable
<1>1. Init => WaitingInv
  BY DEF Init, WaitingInv, Unsubmitted, StagedHasUpload, HoldingIsStarted,
     PendingIsRunnable, Holding, Awaiting
<1>2. WaitingInv => PendingIsRunnable
  BY DEF WaitingInv
<1>3. QED
  BY <1>1, <1>2, WaitingStep, TypeCorrect, PTL DEF Spec

-----------------------------------------------------------------------------
\* The inductive invariant of the running row.  While the loop runs, the row
\* of the semaphore's holder is the only one that may say running; after that
\* nobody writes rows until recovery fails what is left.
SlotIsHeld == \A j \in Jobs : pc[j] \in Holding <=> holder = j

RunningHolds ==
    \A j \in Jobs : status[j] = "running" =>
        holder = j \/ srv \in {"exiting", "off", "down"}

CleaningIsOver ==
    \A j \in Jobs : pc[j] = "cleaning" => status[j] # "running"

SlotInv == SlotIsHeld /\ RunningHolds /\ CleaningIsOver /\ OneRunningRow

\* Every step keeps it; a pending job that recovery starts again has no task.
LEMMA SlotStep ==
    ASSUME TypeOK, HoldingIsStarted, SlotInv, [Next]_vars
    PROVE  SlotInv'
<1> USE JobsAssumption
    DEF TypeOK, SlotInv, SlotIsHeld, RunningHolds, CleaningIsOver,
      OneRunningRow, Holding, Awaiting, rowVars, fileVars, taskVars, callVars
\* The steps that leave the semaphore alone.
<1>1. ASSUME NEW j \in Jobs,
             UNCHANGED <<srv, holder>>,
             \E p \in {"idle", "staged", "created", "waiting", "ended"} :
                pc' = [pc EXCEPT ![j] = p],
             pc[j] \notin Holding,
             \E s \in {"none", "pending", "failed"} :
                status' \in {status, [status EXCEPT ![j] = s]}
      PROVE  SlotInv'
  <2>1. \A k \in Jobs : pc'[k] \in Holding <=> pc[k] \in Holding
    BY <1>1
  <2>2. \A k \in Jobs : status'[k] = "running" => status[k] = "running"
    BY <1>1
  <2>3. \A k \in Jobs : pc'[k] = "cleaning" => pc[k] = "cleaning"
    BY <1>1
  <2>4. QED
    BY <1>1, <2>1, <2>2, <2>3
<1>2. ASSUME NEW j \in Jobs,
             \/ Stage(j) \/ Submit(j) \/ Reject(j) \/ SubmitRaises(j)
             \/ BlockTask(j)
      PROVE  SlotInv'
  <2>1. CASE Stage(j)
    BY <1>1, <2>1 DEF Stage
  <2>2. CASE Submit(j)
    BY <1>1, <2>2 DEF Submit
  <2>3. CASE Reject(j) \/ SubmitRaises(j)
    BY <1>1, <2>3 DEF Reject, SubmitRaises
  <2>4. CASE BlockTask(j)
    BY <1>1, <2>4 DEF BlockTask
  <2>5. QED
    BY <1>2, <2>1, <2>2, <2>3, <2>4
\* The steps that take it, or set the row running while they have it.
<1>3. ASSUME NEW j \in Jobs, srv \in {"up", "stopping"},
             holder \in {NoJob, j}, holder' = j, srv' = srv,
             \E p \in Awaiting : pc' = [pc EXCEPT ![j] = p],
             \E s \in NoRow \cup {"running"} : status' = [status EXCEPT ![j] = s]
      PROVE  SlotInv'
  <2>1. \A k \in Jobs \ {j} : /\ pc[k] \notin Holding /\ pc'[k] = pc[k]
                              /\ status'[k] # "running"
    BY <1>3
  <2>2. pc'[j] \in Awaiting
    BY <1>3
  <2>3. QED
    BY <1>3, <2>1, <2>2
<1>4. ASSUME NEW j \in Jobs, Begin(j), holder = NoJob, srv \in {"up", "stopping"}
      PROVE  SlotInv'
  <2>1. \E p \in Awaiting : pc' = [pc EXCEPT ![j] = p]
    BY <1>4 DEF Begin
  <2>2. \E s \in NoRow \cup {"running"} : status' = [status EXCEPT ![j] = s]
    BY <1>4 DEF Begin, SetRunning, SetStatus, HasRow
  <2>3. QED
    BY <1>3, <1>4, <2>1, <2>2 DEF Begin
<1>5. ASSUME NEW j \in Jobs, StartTask(j) \/ WakeTask(j) PROVE SlotInv'
  BY <1>4, <1>5 DEF StartTask, WakeTask, Locked, LoopRuns
<1>6. ASSUME NEW j \in Jobs, DropUpload(j) PROVE SlotInv'
  <2>1. \E s \in NoRow \cup {"running"} : status' = [status EXCEPT ![j] = s]
    BY <1>6 DEF DropUpload, SetRunning, SetStatus, HasRow
  <2>2. \E p \in Awaiting : pc' = [pc EXCEPT ![j] = p]
    BY <1>6 DEF DropUpload
  <2>3. QED
    BY <1>3, <1>6, <2>1, <2>2 DEF DropUpload
\* The steps of its holder that keep it.
<1>7. ASSUME NEW j \in Jobs, pc[j] \in Holding,
             UNCHANGED <<srv, holder>>,
             NEW p \in Holding, pc' = [pc EXCEPT ![j] = p],
             \/ UNCHANGED status /\ p # "cleaning"
             \/ \E s \in NoRow \cup Terminal : status' = [status EXCEPT ![j] = s]
      PROVE  SlotInv'
  <2>1. \A k \in Jobs : pc'[k] \in Holding <=> pc[k] \in Holding
    BY <1>7
  <2>2. \A k \in Jobs : status'[k] = "running" => status[k] = "running"
    BY <1>7 DEF NoRow, Terminal
  <2>3. \A k \in Jobs : pc'[k] = "cleaning" => status'[k] # "running"
    BY <1>7 DEF NoRow, Terminal
  <2>4. QED
    BY <1>7, <2>1, <2>2, <2>3
<1>8. ASSUME NEW j \in Jobs, Probed(j) \/ Timed(j) \/ Decoded(j) PROVE SlotInv'
  <2>1. CASE Probed(j)
    BY <1>7, <2>1 DEF Probed
  <2>2. CASE Timed(j)
    BY <1>7, <2>2 DEF Timed
  <2>3. CASE Decoded(j)
    BY <1>7, <2>3 DEF Decoded
  <2>4. QED
    BY <1>8, <2>1, <2>2, <2>3
<1>9. ASSUME NEW j \in Jobs, PipelineReturns(j) \/ PipelineRaises(j)
      PROVE  SlotInv'
  <2>1. \E s \in NoRow \cup Terminal : status' = [status EXCEPT ![j] = s]
    BY <1>9 DEF PipelineReturns, PipelineRaises, ResultComesTooLate,
       SetFailedUnlessTerminal, SetStatus, HasRow, Terminal
  <2>2. /\ pc[j] \in Holding /\ pc' = [pc EXCEPT ![j] = "cleaning"]
        /\ UNCHANGED <<srv, holder>>
    BY <1>9 DEF PipelineReturns, PipelineRaises
  <2>3. QED
    BY <1>7, <2>1, <2>2
\* The steps that release it.
<1>10. ASSUME NEW j \in Jobs, pc[j] \in Holding, EndTask(j), srv' = srv,
              \/ UNCHANGED status /\ pc[j] = "cleaning"
              \/ \E s \in NoRow \cup Terminal : status' = [status EXCEPT ![j] = s]
       PROVE  SlotInv'
  <2>1. pc' = [pc EXCEPT ![j] = "ended"] /\ holder' = NoJob
    BY <1>10 DEF EndTask
  <2>2. \A k \in Jobs : pc'[k] \notin Holding
    BY <1>10, <2>1
  <2>3. \A k \in Jobs : status'[k] = "running" => status[k] = "running" /\ k # j
    BY <1>10 DEF NoRow, Terminal
  <2>4. QED
    BY <1>10, <2>1, <2>2, <2>3
<1>11. ASSUME NEW j \in Jobs, PhaseTimeout(j) \/ SourceFails(j) PROVE SlotInv'
  <2>1. \E s \in NoRow \cup Terminal : status' = [status EXCEPT ![j] = s]
    BY <1>11 DEF PhaseTimeout, SourceFails, SetFailedUnlessTerminal, SetStatus,
       HasRow, Terminal
  <2>2. QED
    BY <1>10, <1>11, <2>1 DEF PhaseTimeout, SourceFails
<1>12. ASSUME NEW j \in Jobs, CleanUp(j) PROVE SlotInv'
  BY <1>10, <1>12 DEF CleanUp
\* The steps of others: the watchdog, the thread, the routes and the sweeps.
<1>13. ASSUME UNCHANGED <<srv, holder, pc>>,
              \A k \in Jobs : status'[k] = "running" => status[k] = "running"
       PROVE  SlotInv'
  BY <1>13
<1>14. ASSUME NEW j \in Jobs,
              WatchdogFires(j) \/ DeleteFiles(j) \/ DeleteRow(j) \/ Purge(j)
       PROVE  SlotInv'
  BY <1>13, <1>14 DEF WatchdogFires, DeleteFiles, DeleteRow, Purge, SetStatus
<1>15. ASSUME NEW j \in Jobs, ThreadStep(j) \/ WriteSome(j) PROVE SlotInv'
  BY <1>13, <1>15 DEF ThreadStep, TakeCall, CallReturns, CallRaises, WriteSome
<1>16. CASE DailySweep
  BY <1>13, <1>16 DEF DailySweep
<1>17. CASE Sigterm
  BY <1>17 DEF Sigterm
<1>18. CASE CancelTasks
  BY <1>18 DEF CancelTasks, InTask
<1>19. CASE Exit \/ Crash
  <2>1. Vanish /\ srv' \in {"off", "down"}
    BY <1>19 DEF Exit, Crash
  <2>2. \A k \in Jobs : pc'[k] \in {"idle", "ended"}
    BY <2>1 DEF Vanish
  <2>3. QED
    BY <2>1, <2>2 DEF Vanish
<1>20. CASE Recover
  <2>1. \A k \in Jobs : status'[k] # "running"
    BY <1>20 DEF Recover, Recovered
  <2>2. QED
    BY <1>20, <2>1 DEF Recover
<1>21. CASE ReenqueuePending
  <2>1. \A k \in Jobs : pc'[k] \in Holding <=> pc[k] \in Holding
    BY <1>21 DEF ReenqueuePending, Requeued, HoldingIsStarted
  <2>2. \A k \in Jobs : /\ status'[k] = "running" => status[k] = "running"
                        /\ pc'[k] = "cleaning" => pc[k] = "cleaning"
    BY <1>21 DEF ReenqueuePending
  <2>3. QED
    BY <1>21, <2>1, <2>2 DEF ReenqueuePending
<1>22. CASE UNCHANGED vars
  BY <1>22 DEF vars
<1>23. QED
  BY <1>2, <1>5, <1>6, <1>8, <1>9, <1>11, <1>12, <1>14, <1>15, <1>16, <1>17,
     <1>18, <1>19, <1>20, <1>21, <1>22 DEF Next, LoopStep, Restart

\* At most one job says running, over any number of jobs, outages, deletions
\* and abandoned executor calls.
THEOREM OneRunning == Spec => []OneRunningRow
<1>1. Init => WaitingInv /\ SlotInv
  BY JobsAssumption DEF Init, WaitingInv, Unsubmitted, StagedHasUpload,
     HoldingIsStarted, PendingIsRunnable, SlotInv, SlotIsHeld, RunningHolds,
     CleaningIsOver, OneRunningRow, Holding, Awaiting
<1>2. WaitingInv => HoldingIsStarted
  BY DEF WaitingInv
<1>3. SlotInv => OneRunningRow
  BY DEF SlotInv
<1>4. QED
  BY <1>1, <1>2, <1>3, WaitingStep, SlotStep, TypeCorrect, PTL DEF Spec

-----------------------------------------------------------------------------
\* What the row of a job says at each place of its task.  Only SIGTERM fails a
\* row under a task that is still decoding, and then the server is stopping.
RowFollowsTask ==
    \A j \in Jobs :
        /\ pc[j] \in {"created", "waiting"} => status[j] \in {"pending"} \cup NoRow
        /\ pc[j] \in {"probing", "timing", "decoding", "swapping"} =>
             \/ status[j] \in {"running"} \cup NoRow
             \/ status[j] = "failed" /\ srv = "stopping"
        /\ pc[j] = "transcribing" => status[j] \in {"running", "failed"} \cup NoRow
        /\ srv \in {"exiting", "off", "down", "starting"} => pc[j] \notin InTask

Outcomes == \A j \in Jobs : KeepsOutcome(j)

\* The retention sweep takes the row of a job that has ended, or keeps it.
LEMMA PurgeMoves ==
    ASSUME NEW j \in Jobs, Purge(j)
    PROVE  /\ status[j] \in Terminal /\ active # j
           /\ UNCHANGED status \/ status' = [status EXCEPT ![j] = "purged"]
           /\ UNCHANGED <<srv, pc>>
  BY DEF Purge, Purgeable, taskVars

\* Every step keeps it, and moves no job out of an outcome.
LEMMA OutcomeStep ==
    ASSUME TypeOK, WaitingInv, RowFollowsTask, Next
    PROVE  RowFollowsTask' /\ Outcomes
<1> USE DEF TypeOK, WaitingInv, StagedHasUpload, RowFollowsTask, Outcomes,
      KeepsOutcome, Holding, Awaiting, InTask, NoRow, Live, Terminal, HasRow,
      SetStatus, LoopRuns, rowVars, fileVars, taskVars, callVars
<1> DEFINE Goal == RowFollowsTask' /\ Outcomes
<1>1. ASSUME NEW j \in Jobs, Stage(j) PROVE Goal
  BY <1>1 DEF Stage
<1>2. ASSUME NEW j \in Jobs, Submit(j) PROVE Goal
  BY <1>2 DEF Submit
<1>3. ASSUME NEW j \in Jobs, Reject(j) \/ SubmitRaises(j) PROVE Goal
  BY <1>3 DEF Reject, SubmitRaises
<1>4. ASSUME NEW j \in Jobs, Begin(j), pc[j] \in {"created", "waiting"}
      PROVE  Goal
  BY <1>4 DEF Begin, SetRunning
<1>5. ASSUME NEW j \in Jobs, StartTask(j) \/ WakeTask(j) PROVE Goal
  BY <1>4, <1>5 DEF StartTask, WakeTask
<1>6. ASSUME NEW j \in Jobs, BlockTask(j) PROVE Goal
  BY <1>6 DEF BlockTask
<1>7. ASSUME NEW j \in Jobs, Probed(j) \/ Timed(j) \/ Decoded(j) PROVE Goal
  BY <1>7 DEF Probed, Timed, Decoded
<1>8. ASSUME NEW j \in Jobs, DropUpload(j) PROVE Goal
  BY <1>8 DEF DropUpload, SetRunning
<1>9. ASSUME NEW j \in Jobs, PhaseTimeout(j) PROVE Goal
  BY <1>9 DEF PhaseTimeout, EndTask
<1>10. ASSUME NEW j \in Jobs, SourceFails(j) PROVE Goal
  BY <1>10 DEF SourceFails, SetFailedUnlessTerminal, EndTask
<1>11. ASSUME NEW j \in Jobs, PipelineReturns(j) PROVE Goal
  BY <1>11 DEF PipelineReturns, ResultComesTooLate
<1>12. ASSUME NEW j \in Jobs, PipelineRaises(j) PROVE Goal
  BY <1>12 DEF PipelineRaises, SetFailedUnlessTerminal
<1>13. ASSUME NEW j \in Jobs, CleanUp(j) PROVE Goal
  BY <1>13 DEF CleanUp, EndTask
<1>14. ASSUME NEW j \in Jobs, WatchdogFires(j) PROVE Goal
  BY <1>14 DEF WatchdogFires
<1>15. ASSUME NEW j \in Jobs, ThreadStep(j) \/ WriteSome(j) PROVE Goal
  BY <1>15 DEF ThreadStep, TakeCall, CallReturns, CallRaises, WriteSome
<1>16. ASSUME NEW j \in Jobs, DeleteFiles(j) \/ DeleteRow(j) PROVE Goal
  <2>1. CASE DeleteFiles(j)
    BY <2>1 DEF DeleteFiles
  <2>2. CASE DeleteRow(j)
    BY <2>2 DEF DeleteRow
  <2>3. QED
    BY <1>16, <2>1, <2>2
<1>17. ASSUME NEW j \in Jobs, Purge(j) PROVE Goal
  <2>1. status[j] \in Terminal /\ UNCHANGED <<srv, pc>>
    BY <1>17, PurgeMoves
  <2>2. CASE UNCHANGED status
    BY <2>1, <2>2
  <2>3. CASE status' = [status EXCEPT ![j] = "purged"]
    <3>1. Outcomes
      BY <2>3
    <3>2. RowFollowsTask'
      BY <2>1, <2>3
    <3>3. QED
      BY <3>1, <3>2
  <2>4. QED
    BY <1>17, <2>2, <2>3, PurgeMoves
<1>18. CASE DailySweep
  BY <1>18 DEF DailySweep
<1>19. CASE Sigterm
  BY <1>19 DEF Sigterm
<1>20. CASE CancelTasks
  BY <1>20 DEF CancelTasks
<1>21. CASE Exit \/ Crash
  <2>1. UNCHANGED status /\ \A k \in Jobs : pc'[k] \in {"idle", "ended"}
    BY <1>21 DEF Exit, Crash, Vanish
  <2>2. QED
    BY <2>1
<1>22. CASE Recover
  BY <1>22 DEF Recover, Recovered
<1>23. CASE ReenqueuePending
  BY <1>23 DEF ReenqueuePending, Requeued
<1>24. QED
  BY <1>1, <1>2, <1>3, <1>5, <1>6, <1>7, <1>8, <1>9, <1>10, <1>11, <1>12,
     <1>13, <1>14, <1>15, <1>16, <1>17, <1>18, <1>19, <1>20, <1>21, <1>22,
     <1>23 DEF Next, LoopStep, Restart

\* Outcomes are final: done stays done and failed stays failed until the row
\* goes, but for a failed row of a stopping server.
THEOREM OutcomesFinal == Spec => OutcomeIsFinal
<1>1. Init => RowFollowsTask
  BY DEF Init, RowFollowsTask
<1>2. Init => WaitingInv
  BY DEF Init, WaitingInv, Unsubmitted, StagedHasUpload, HoldingIsStarted,
     PendingIsRunnable, Holding, Awaiting
<1>3. RowFollowsTask /\ UNCHANGED vars => RowFollowsTask'
  BY DEF RowFollowsTask, vars, rowVars, taskVars
<1>4. TypeOK /\ WaitingInv /\ RowFollowsTask /\ [Next]_vars
        => RowFollowsTask' /\ [Outcomes]_vars
  BY <1>3, OutcomeStep
<1>5. QED
  BY <1>1, <1>2, <1>4, WaitingStep, TypeCorrect, PTL
     DEF Spec, OutcomeIsFinal, Outcomes

-----------------------------------------------------------------------------
\* The inductive invariant of the executor.  Every call in it belongs to the
\* task that awaits it, but for the one the thread has begun when its task gave
\* up: a phase timeout gives up on a probe or a decode, an exiting process on
\* anything.  Once the process has exited no call is left.
CallHasTask ==
    \A j \in Jobs :
        /\ pc[j] \in Awaiting => call[j] # "none"
        /\ pc[j] = "probing" => fn[j] = "probe"
        /\ pc[j] = "timing" => fn[j] = "duration"
        /\ pc[j] = "decoding" => fn[j] = "decode"
        /\ pc[j] = "transcribing" => fn[j] = "transcribe"
        /\ call[j] \in {"queued", "ok", "err"} => pc[j] \in Awaiting
        /\ call[j] = "running" =>
             \/ pc[j] \in Awaiting
             \/ pc[j] = "ended" /\ (fn[j] \in {"probe", "decode"}
                                    \/ srv = "exiting")

Down == {"exiting", "off", "down", "starting"}

QuietWhenDown ==
    /\ srv # "up" => outages > 0
    /\ srv \in Down => \A j \in Jobs : pc[j] \in {"idle", "ended"} /\ ~armed[j]
    /\ srv \in Down \ {"exiting"} => \A j \in Jobs : call[j] = "none"

\* While a task holds the semaphore, up to its clean-up, is_active says so.
ActiveInTask == \A j \in Jobs : pc[j] \in Holding \ {"cleaning"} => active = j

ExecutorInv == CallHasTask /\ QuietWhenDown /\ ActiveInTask

\* Every step keeps it: a timeout withdraws what is queued, the thread delivers
\* only to a task that awaits, and no coroutine returns with a call queued.
LEMMA ExecutorStep ==
    ASSUME TypeOK, SlotIsHeld, ExecutorInv, Next
    PROVE  ExecutorInv'
<1> USE JobsAssumption
    DEF TypeOK, SlotIsHeld, ExecutorInv, CallHasTask, QuietWhenDown, Down,
      ActiveInTask, Holding, Awaiting, InTask, LoopRuns, rowVars, fileVars,
      taskVars, callVars
<1>1. ASSUME NEW j \in Jobs, Stage(j) PROVE ExecutorInv'
  BY <1>1 DEF Stage
<1>2. ASSUME NEW j \in Jobs,
             Submit(j) \/ Reject(j) \/ SubmitRaises(j) \/ BlockTask(j)
      PROVE  ExecutorInv'
  <2>1. CASE Submit(j)
    BY <2>1 DEF Submit
  <2>2. CASE Reject(j)
    BY <2>2 DEF Reject
  <2>3. CASE SubmitRaises(j)
    BY <2>3 DEF SubmitRaises
  <2>4. CASE BlockTask(j)
    BY <2>4 DEF BlockTask
  <2>5. QED
    BY <1>2, <2>1, <2>2, <2>3, <2>4
<1>3. ASSUME NEW j \in Jobs, Begin(j), pc[j] \in {"created", "waiting"},
             holder = NoJob, srv \in {"up", "stopping"}
      PROVE  ExecutorInv'
  <2>1. PICK p \in {"probing", "transcribing"}, f \in {"probe", "transcribe"} :
          /\ pc' = [pc EXCEPT ![j] = p] /\ fn' = [fn EXCEPT ![j] = f]
          /\ call' = [call EXCEPT ![j] = "queued"]
          /\ p = "probing" <=> f = "probe"
    BY <1>3 DEF Begin, SubmitCall
  <2>2. active' = j /\ UNCHANGED <<srv, outages, armed>>
    BY <1>3 DEF Begin
  <2>3. CallHasTask'
    BY <2>1, <2>2
  <2>4. QuietWhenDown'
    BY <1>3, <2>1, <2>2
  <2>5. ActiveInTask'
    BY <1>3, <2>1, <2>2
  <2>6. QED
    BY <2>3, <2>4, <2>5
<1>4. ASSUME NEW j \in Jobs, StartTask(j) \/ WakeTask(j) PROVE ExecutorInv'
  BY <1>3, <1>4 DEF StartTask, WakeTask, Locked
<1>5. ASSUME NEW j \in Jobs, Probed(j) \/ Timed(j) PROVE ExecutorInv'
  <2>1. CASE Probed(j)
    BY <2>1 DEF Probed, SubmitCall
  <2>2. CASE Timed(j)
    BY <2>2 DEF Timed, SubmitCall
  <2>3. QED
    BY <1>5, <2>1, <2>2
<1>6. ASSUME NEW j \in Jobs, Decoded(j) PROVE ExecutorInv'
  BY <1>6 DEF Decoded
<1>7. ASSUME NEW j \in Jobs, DropUpload(j) PROVE ExecutorInv'
  BY <1>7 DEF DropUpload, SubmitCall
<1>8. ASSUME NEW j \in Jobs, PhaseTimeout(j) PROVE ExecutorInv'
  BY <1>8 DEF PhaseTimeout, Withdraw, EndTask
<1>9. ASSUME NEW j \in Jobs, SourceFails(j) PROVE ExecutorInv'
  BY <1>9 DEF SourceFails, EndTask
<1>10. ASSUME NEW j \in Jobs, PipelineReturns(j) \/ PipelineRaises(j)
       PROVE  ExecutorInv'
  <2>1. CASE PipelineReturns(j)
    BY <2>1 DEF PipelineReturns
  <2>2. CASE PipelineRaises(j)
    BY <2>2 DEF PipelineRaises
  <2>3. QED
    BY <1>10, <2>1, <2>2
<1>11. ASSUME NEW j \in Jobs, CleanUp(j) PROVE ExecutorInv'
  BY <1>11 DEF CleanUp, EndTask
<1>12. ASSUME NEW j \in Jobs, WatchdogFires(j) \/ WriteSome(j) \/ Purge(j)
       PROVE  ExecutorInv'
  BY <1>12 DEF WatchdogFires, WriteSome, Purge
<1>13. ASSUME NEW j \in Jobs, TakeCall(j) PROVE ExecutorInv'
  BY <1>13 DEF TakeCall
<1>14. ASSUME NEW j \in Jobs, CallReturns(j) \/ CallRaises(j)
       PROVE  ExecutorInv'
  BY <1>14 DEF CallReturns, CallRaises, Deliver
<1>15. ASSUME NEW j \in Jobs, DeleteFiles(j) \/ DeleteRow(j)
       PROVE  ExecutorInv'
  BY <1>15 DEF DeleteFiles, DeleteRow
<1>16. CASE DailySweep
  BY <1>16 DEF DailySweep
<1>17. CASE Sigterm
  BY <1>17 DEF Sigterm
<1>18. CASE CancelTasks
  BY <1>18 DEF CancelTasks
<1>19. CASE Exit \/ Crash
  <2>1. Vanish /\ srv' \in {"off", "down"}
    BY <1>19 DEF Exit, Crash
  <2>2. \A k \in Jobs : /\ pc'[k] \in {"idle", "ended"}
                       /\ call'[k] = "none" /\ ~armed'[k]
    BY <2>1 DEF Vanish
  <2>3. outages' > 0
    BY <1>19 DEF Exit, Crash
  <2>4. QED
    BY <2>1, <2>2, <2>3
<1>20. CASE Recover
  BY <1>20 DEF Recover
<1>21. CASE ReenqueuePending
  BY <1>21 DEF ReenqueuePending
<1>22. QED
  BY <1>1, <1>2, <1>4, <1>5, <1>6, <1>7, <1>8, <1>9, <1>10, <1>11, <1>12,
     <1>13, <1>14, <1>15, <1>16, <1>17, <1>18, <1>19, <1>20, <1>21
     DEF Next, LoopStep, ThreadStep, Restart

-----------------------------------------------------------------------------
\* The inductive invariant of the inputs.  A task of a container has its upload
\* until the canonical WAV is published, and the canonical WAV from then on; a
\* task of a WAV has its upload until it returns.
TaskHasInput ==
    \A j \in Jobs :
        /\ pc[j] \in {"staged", "created", "waiting", "probing", "timing",
                      "decoding"} => upload[j]
        /\ pc[j] \in {"probing", "timing", "decoding", "swapping"} =>
             task[j] = "source"
        /\ pc[j] = "decoding" /\ call[j] = "ok" => canon[j]
        /\ pc[j] = "swapping" => canon[j]
        /\ pc[j] = "transcribing" => PipelineInput(j)

\* Every step keeps it: whoever unlinks a file does so for a job whose task is
\* over, or is the task itself.
LEMMA InputStep ==
    ASSUME TypeOK, WaitingInv, ExecutorInv, TaskHasInput, Next
    PROVE  TaskHasInput'
<1> USE DEF TypeOK, WaitingInv, StagedHasUpload, PendingIsRunnable,
      ExecutorInv, CallHasTask, QuietWhenDown, Down, TaskHasInput,
      PipelineInput, Awaiting, InTask, Holding, rowVars, fileVars, taskVars,
      callVars
<1>1. ASSUME NEW j \in Jobs, Stage(j) PROVE TaskHasInput'
  BY <1>1 DEF Stage
<1>2. ASSUME NEW j \in Jobs, Submit(j) \/ BlockTask(j) PROVE TaskHasInput'
  BY <1>2 DEF Submit, BlockTask
<1>3. ASSUME NEW j \in Jobs, Reject(j) \/ SubmitRaises(j) PROVE TaskHasInput'
  BY <1>3 DEF Reject, SubmitRaises, DropUploadFile
<1>4. ASSUME NEW j \in Jobs, Begin(j), pc[j] \in {"created", "waiting"}
      PROVE  TaskHasInput'
  <2>1. /\ pc' = [pc EXCEPT ![j] = IF task[j] = "source" THEN "probing"
                                   ELSE "transcribing"]
        /\ call' = [call EXCEPT ![j] = "queued"]
        /\ UNCHANGED <<upload, canon, task>>
    BY <1>4 DEF Begin, SubmitCall
  <2>2. QED
    BY <1>4, <2>1
<1>5. ASSUME NEW j \in Jobs, StartTask(j) \/ WakeTask(j) PROVE TaskHasInput'
  BY <1>4, <1>5 DEF StartTask, WakeTask
<1>6. ASSUME NEW j \in Jobs, Probed(j) PROVE TaskHasInput'
  BY <1>6 DEF Probed, SubmitCall
<1>7. ASSUME NEW j \in Jobs, Timed(j) PROVE TaskHasInput'
  BY <1>7 DEF Timed, SubmitCall
<1>8. ASSUME NEW j \in Jobs, Decoded(j) PROVE TaskHasInput'
  BY <1>8 DEF Decoded, CallOk
<1>9. ASSUME NEW j \in Jobs, DropUpload(j) PROVE TaskHasInput'
  BY <1>9 DEF DropUpload, DropUploadFile, SubmitCall
<1>10. ASSUME NEW j \in Jobs, PhaseTimeout(j) PROVE TaskHasInput'
  BY <1>10 DEF PhaseTimeout, DropUploadFile, Withdraw, EndTask
<1>11. ASSUME NEW j \in Jobs, SourceFails(j) PROVE TaskHasInput'
  BY <1>11 DEF SourceFails, DropUploadFile, EndTask
<1>12. ASSUME NEW j \in Jobs, PipelineReturns(j) PROVE TaskHasInput'
  BY <1>12 DEF PipelineReturns
<1>13. ASSUME NEW j \in Jobs, PipelineRaises(j) PROVE TaskHasInput'
  BY <1>13 DEF PipelineRaises
<1>14. ASSUME NEW j \in Jobs, CleanUp(j) PROVE TaskHasInput'
  BY <1>14 DEF CleanUp, DropUploadFile, EndTask
<1>15. ASSUME NEW j \in Jobs,
              \/ WatchdogFires(j) \/ WriteSome(j)
              \/ DeleteFiles(j) \/ DeleteRow(j) \/ Purge(j)
       PROVE  TaskHasInput'
  <2>1. UNCHANGED <<pc, task, upload, canon, call>>
    BY <1>15 DEF WatchdogFires, WriteSome, DeleteFiles, DeleteRow, Purge
  <2>2. QED
    BY <2>1
<1>16. ASSUME NEW j \in Jobs, TakeCall(j) PROVE TaskHasInput'
  BY <1>16 DEF TakeCall
<1>17. ASSUME NEW j \in Jobs, CallReturns(j) PROVE TaskHasInput'
  BY <1>17 DEF CallReturns, PublishCanonical, Deliver
<1>18. ASSUME NEW j \in Jobs, CallRaises(j) PROVE TaskHasInput'
  BY <1>18 DEF CallRaises, Deliver
<1>19. CASE DailySweep
  <2>1. \A k \in Jobs : pc[k] \notin {"idle", "ended"} =>
          upload'[k] = upload[k] /\ canon'[k] = canon[k]
    BY <1>19 DEF DailySweep
  <2>2. UNCHANGED <<pc, task, call>>
    BY <1>19 DEF DailySweep
  <2>3. QED
    BY <2>1, <2>2
<1>20. CASE Sigterm
  BY <1>20 DEF Sigterm
<1>21. CASE CancelTasks
  BY <1>21 DEF CancelTasks
<1>22. CASE Exit \/ Crash
  <2>1. \A k \in Jobs : pc'[k] \in {"idle", "ended"}
    BY <1>22 DEF Exit, Crash, Vanish
  <2>2. QED
    BY <2>1
<1>23. CASE Recover
  BY <1>23 DEF Recover
<1>24. CASE ReenqueuePending
  BY <1>24 DEF ReenqueuePending, Requeued
<1>25. QED
  BY <1>1, <1>2, <1>3, <1>5, <1>6, <1>7, <1>8, <1>9, <1>10, <1>11, <1>12,
     <1>13, <1>14, <1>15, <1>16, <1>17, <1>18, <1>19, <1>20, <1>21, <1>22,
     <1>23, <1>24 DEF Next, LoopStep, ThreadStep, Restart

-----------------------------------------------------------------------------
\* The inductive invariant of the outputs: a result that has come back has its
\* four files, no thread writes for a job that is done or purged, and a row has
\* an output_dir only by becoming done.
ResultHasOutputs ==
    \A j \in Jobs :
        /\ pc[j] = "transcribing" /\ call[j] = "ok" => outs[j] = "all"
        /\ call[j] = "running" => status[j] # "done"
        /\ outDir[j] => status[j] \in {"done", "deleted", "purged"}

PurgedIsOver ==
    \A j \in Jobs : status[j] = "purged" =>
        /\ pc[j] \in {"cleaning", "ended"}
        /\ call[j] = "running" => fn[j] # "transcribe"

OutputInv ==
    ResultHasOutputs /\ PurgedIsOver /\ DoneHasOutputs /\ PurgeClearsRoot

\* Every step keeps it: the DELETE route takes the files of a row that has an
\* output_dir, and so is done; the retention sweep takes those of a row that is
\* not active, and so has no task or thread that will write again, and keeps the
\* row when a file under the root resists.
LEMMA OutputStep ==
    ASSUME TypeOK, WaitingInv, RowFollowsTask, ExecutorInv, OutputInv, Next
    PROVE  OutputInv'
<1> USE DEF TypeOK, WaitingInv, StagedHasUpload, RowFollowsTask, ExecutorInv,
      CallHasTask, QuietWhenDown, Down, ActiveInTask, OutputInv,
      ResultHasOutputs, PurgedIsOver, DoneHasOutputs, PurgeClearsRoot,
      Awaiting, Holding, InTask, Live, Terminal, NoRow, HasRow, SetStatus,
      LoopRuns, rowVars, fileVars, taskVars, callVars
<1>1. ASSUME NEW j \in Jobs, Stage(j) PROVE OutputInv'
  BY <1>1 DEF Stage
<1>2. ASSUME NEW j \in Jobs, Submit(j) PROVE OutputInv'
  BY <1>2 DEF Submit
<1>3. ASSUME NEW j \in Jobs, Reject(j) \/ SubmitRaises(j) PROVE OutputInv'
  <2>1. CASE Reject(j)
    BY <2>1 DEF Reject
  <2>2. CASE SubmitRaises(j)
    BY <2>2 DEF SubmitRaises
  <2>3. QED
    BY <1>3, <2>1, <2>2
<1>4. ASSUME NEW j \in Jobs, BlockTask(j) PROVE OutputInv'
  BY <1>4 DEF BlockTask
<1>5. ASSUME NEW j \in Jobs, Begin(j), pc[j] \in {"created", "waiting"}
      PROVE  OutputInv'
  <2>1. PICK p \in Awaiting : pc' = [pc EXCEPT ![j] = p]
    BY <1>5 DEF Begin
  <2>2. /\ status' = [status EXCEPT ![j] = IF HasRow(j) THEN "running" ELSE @]
        /\ call' = [call EXCEPT ![j] = "queued"]
        /\ UNCHANGED <<outages, outDir, outs, inRoot, armed>>
    BY <1>5 DEF Begin, SubmitCall, SetRunning
  <2>3. \A k \in Jobs \ {j} : fn'[k] = fn[k]
    BY <1>5 DEF Begin, SubmitCall
  <2>4. QED
    BY <1>5, <2>1, <2>2, <2>3
<1>6. ASSUME NEW j \in Jobs, StartTask(j) \/ WakeTask(j) PROVE OutputInv'
  BY <1>5, <1>6 DEF StartTask, WakeTask
<1>7. ASSUME NEW j \in Jobs, Probed(j) PROVE OutputInv'
  BY <1>7 DEF Probed, SubmitCall
<1>8. ASSUME NEW j \in Jobs, Timed(j) PROVE OutputInv'
  BY <1>8 DEF Timed, SubmitCall
<1>9. ASSUME NEW j \in Jobs, Decoded(j) PROVE OutputInv'
  BY <1>9 DEF Decoded
<1>10. ASSUME NEW j \in Jobs, DropUpload(j) PROVE OutputInv'
  <2>1. /\ pc[j] = "swapping" /\ pc' = [pc EXCEPT ![j] = "transcribing"]
        /\ status' = [status EXCEPT ![j] = IF HasRow(j) THEN "running" ELSE @]
        /\ call' = [call EXCEPT ![j] = "queued"]
        /\ UNCHANGED <<outages, outDir, outs, inRoot, armed>>
    BY <1>10 DEF DropUpload, SubmitCall, SetRunning
  <2>2. \A k \in Jobs \ {j} : fn'[k] = fn[k]
    BY <1>10 DEF DropUpload, SubmitCall
  <2>3. ResultHasOutputs'
    BY <2>1, <2>2
  <2>4. PurgedIsOver'
    BY <2>1, <2>2
  <2>5. DoneHasOutputs'
    BY <2>1, <2>2
  <2>6. PurgeClearsRoot'
    BY <2>1, <2>2
  <2>7. QED
    BY <2>3, <2>4, <2>5, <2>6
<1>11. ASSUME NEW j \in Jobs, PhaseTimeout(j) PROVE OutputInv'
  BY <1>11 DEF PhaseTimeout, Withdraw, EndTask
<1>12. ASSUME NEW j \in Jobs, SourceFails(j) PROVE OutputInv'
  BY <1>12 DEF SourceFails, SetFailedUnlessTerminal, EndTask
<1>13. ASSUME NEW j \in Jobs, PipelineReturns(j) PROVE OutputInv'
  <2>1. /\ pc[j] = "transcribing" /\ pc' = [pc EXCEPT ![j] = "cleaning"]
        /\ call[j] = "ok" /\ call' = [call EXCEPT ![j] = "none"]
        /\ UNCHANGED <<outages, fn, outs, inRoot, armed>>
    BY <1>13 DEF PipelineReturns, CallOk
  <2>2. \/ UNCHANGED <<status, outDir>>
        \/ /\ HasRow(j) /\ status' = [status EXCEPT ![j] = "done"]
           /\ outDir' = [outDir EXCEPT ![j] = TRUE]
    <3>1. CASE status[j] = "failed"
      BY <1>13, <3>1 DEF PipelineReturns, ResultComesTooLate
    <3>2. CASE status[j] # "failed" /\ HasRow(j)
      BY <1>13, <3>2 DEF PipelineReturns, ResultComesTooLate
    <3>3. CASE status[j] # "failed" /\ ~HasRow(j)
      <4>1. status' = [status EXCEPT ![j] = @] /\ outDir' = [outDir EXCEPT ![j] = @]
        BY <1>13, <3>3 DEF PipelineReturns, ResultComesTooLate
      <4>2. QED
        BY <4>1
    <3>4. QED
      BY <3>1, <3>2, <3>3
  <2>3. ResultHasOutputs'
    BY <2>1, <2>2
  <2>4. PurgedIsOver'
    BY <2>1, <2>2
  <2>5. DoneHasOutputs'
    BY <2>1, <2>2
  <2>6. PurgeClearsRoot'
    BY <2>1, <2>2
  <2>7. QED
    BY <2>3, <2>4, <2>5, <2>6
<1>14. ASSUME NEW j \in Jobs, PipelineRaises(j) PROVE OutputInv'
  BY <1>14 DEF PipelineRaises, SetFailedUnlessTerminal
<1>15. ASSUME NEW j \in Jobs, CleanUp(j) PROVE OutputInv'
  BY <1>15 DEF CleanUp, EndTask
<1>16. ASSUME NEW j \in Jobs, WatchdogFires(j) PROVE OutputInv'
  BY <1>16 DEF WatchdogFires
<1>17. ASSUME NEW j \in Jobs, TakeCall(j) PROVE OutputInv'
  <2>1. /\ call[j] = "queued" /\ call' = [call EXCEPT ![j] = "running"]
        /\ UNCHANGED <<outages, status, outDir, fn, pc, outs, inRoot, armed>>
    BY <1>17 DEF TakeCall
  <2>2. pc[j] \in Awaiting /\ status[j] # "done"
    BY <2>1
  <2>3. ResultHasOutputs'
    BY <2>1, <2>2
  <2>4. PurgedIsOver'
    BY <2>1, <2>2
  <2>5. DoneHasOutputs'
    BY <2>1, <2>2
  <2>6. PurgeClearsRoot'
    BY <2>1, <2>2
  <2>7. QED
    BY <2>3, <2>4, <2>5, <2>6
<1>18. ASSUME NEW j \in Jobs, WriteSome(j) PROVE OutputInv'
  BY <1>18 DEF WriteSome, Write
<1>19. ASSUME NEW j \in Jobs, CallReturns(j) PROVE OutputInv'
  <2>1. /\ call[j] = "running"
        /\ call' = [call EXCEPT ![j] = IF pc[j] \in Awaiting THEN "ok" ELSE "none"]
        /\ UNCHANGED <<outages, status, outDir, fn, pc, armed>>
    BY <1>19 DEF CallReturns, Deliver
  <2>2. /\ outs' = [outs EXCEPT ![j] = IF fn[j] = "transcribe" THEN "all" ELSE @]
        /\ \A k \in Jobs \ {j} : inRoot'[k] = inRoot[k]
        /\ fn[j] # "transcribe" => UNCHANGED inRoot
    BY <1>19 DEF CallReturns, Write
  <2>3. ResultHasOutputs'
    BY <2>1, <2>2
  <2>4. PurgedIsOver'
    BY <2>1, <2>2
  <2>5. DoneHasOutputs'
    BY <2>1, <2>2
  <2>6. PurgeClearsRoot'
    BY <2>1, <2>2
  <2>7. QED
    BY <2>3, <2>4, <2>5, <2>6
<1>20. ASSUME NEW j \in Jobs, CallRaises(j) PROVE OutputInv'
  BY <1>20 DEF CallRaises, Deliver
<1>21. ASSUME NEW j \in Jobs, DeleteFiles(j) PROVE OutputInv'
  <2>1. /\ HasRow(j)
        /\ armed' = [armed EXCEPT ![j] = TRUE]
        /\ UNCHANGED <<outages, status, outDir, fn, call, pc, inRoot>>
    BY <1>21 DEF DeleteFiles
  <2>2. PICK rest \in {"none", "left"} :
          outs' = [outs EXCEPT ![j] =
                     IF outDir[j] /\ @ # "none" THEN rest ELSE @]
    BY <1>21 DEF DeleteFiles
  <2>3. outDir[j] => status[j] = "done" /\ pc[j] # "transcribing"
    BY <2>1
  <2>4. ResultHasOutputs'
    BY <2>1, <2>2, <2>3
  <2>5. PurgedIsOver'
    BY <2>1, <2>2, <2>3
  <2>6. DoneHasOutputs'
    BY <2>1, <2>2, <2>3
  <2>7. PurgeClearsRoot'
    BY <2>1, <2>2, <2>3
  <2>8. QED
    BY <2>4, <2>5, <2>6, <2>7
<1>22. ASSUME NEW j \in Jobs, DeleteRow(j) PROVE OutputInv'
  BY <1>22 DEF DeleteRow
<1>23. ASSUME NEW j \in Jobs, Purge(j) PROVE OutputInv'
  <2>1. /\ status[j] \in Terminal /\ active # j /\ srv = "up"
        /\ UNCHANGED <<outages, outDir, fn, call, pc, inRoot, armed>>
    BY <1>23 DEF Purge, Purgeable
  <2>2. /\ pc[j] \in {"cleaning", "ended"}
        /\ call[j] = "running" => fn[j] # "transcribe"
    BY <2>1
  <2>3. CASE /\ outs' = [outs EXCEPT ![j] = IF inRoot[j] THEN "none" ELSE @]
             /\ status' = [status EXCEPT ![j] = "purged"]
    <3>1. ResultHasOutputs'
      BY <2>1, <2>2, <2>3
    <3>2. PurgedIsOver'
      BY <2>1, <2>2, <2>3
    <3>3. DoneHasOutputs'
      BY <2>1, <2>2, <2>3
    <3>4. PurgeClearsRoot'
      BY <2>1, <2>2, <2>3
    <3>5. QED
      BY <3>1, <3>2, <3>3, <3>4
  <2>4. CASE outs' = [outs EXCEPT ![j] = "left"] /\ UNCHANGED status
    <3>1. ResultHasOutputs' /\ PurgedIsOver'
      BY <2>1, <2>2, <2>4
    <3>2. DoneHasOutputs' /\ PurgeClearsRoot'
      BY <2>1, <2>4
    <3>3. QED
      BY <3>1, <3>2
  <2>5. QED
    BY <1>23, <2>3, <2>4 DEF Purge
<1>24. CASE DailySweep
  BY <1>24 DEF DailySweep
<1>25. CASE Sigterm
  BY <1>25 DEF Sigterm
<1>26. CASE CancelTasks
  BY <1>26 DEF CancelTasks
<1>27. CASE Exit \/ Crash
  BY <1>27 DEF Exit, Crash, Vanish
<1>28. CASE Recover
  BY <1>28 DEF Recover, Recovered
<1>29. CASE ReenqueuePending
  BY <1>29 DEF ReenqueuePending, Requeued
<1>30. QED
  BY <1>1, <1>2, <1>3, <1>4, <1>6, <1>7, <1>8, <1>9, <1>10, <1>11, <1>12,
     <1>13, <1>14, <1>15, <1>16, <1>17, <1>18, <1>19, <1>20, <1>21, <1>22,
     <1>23, <1>24, <1>25, <1>26, <1>27, <1>28, <1>29
     DEF Next, LoopStep, ThreadStep, Restart


-----------------------------------------------------------------------------
\* The inductive invariant of the staging directory while nothing has failed:
\* a canonical WAV is there only from its decode to the task's clean-up, and a
\* transcription of one has no upload beside it.
CanonIsDecoded ==
    outages = 0 => \A j \in Jobs :
        /\ canon[j] =>
             \/ /\ pc[j] \in {"decoding", "swapping", "transcribing", "cleaning"}
                /\ task[j] = "source"
             \/ pc[j] = "ended" /\ fn[j] = "decode"
        /\ pc[j] \in {"transcribing", "cleaning"} /\ task[j] = "source" =>
             ~upload[j]

StagingInv == CanonIsDecoded /\ StagingReclaimed

\* A row appears with its task: no step gives one to a job that is over.
LEMMA RowAppears ==
    ASSUME TypeOK, Next
    PROVE  \A j \in Jobs :
             status[j] = "none" /\ status'[j] # "none" => pc'[j] = "created"
<1> USE DEF TypeOK, rowVars
<1> DEFINE Goal == \A j \in Jobs :
             status[j] = "none" /\ status'[j] # "none" => pc'[j] = "created"
<1>1. ASSUME UNCHANGED status PROVE Goal
  BY <1>1
<1>2. ASSUME NEW j \in Jobs, NEW s, SetStatus(j, s) PROVE Goal
  BY <1>2 DEF SetStatus, HasRow, NoRow
<1>3. ASSUME NEW j \in Jobs, Submit(j) PROVE Goal
  BY <1>3 DEF Submit
<1>4. ASSUME NEW j \in Jobs,
             \/ StartTask(j) \/ WakeTask(j) \/ DropUpload(j) \/ PhaseTimeout(j)
             \/ SourceFails(j) \/ PipelineReturns(j) \/ PipelineRaises(j)
             \/ WatchdogFires(j) \/ DeleteRow(j)
      PROVE  Goal
  <2>1. UNCHANGED status \/ \E s : SetStatus(j, s)
    BY <1>4 DEF StartTask, WakeTask, Begin, DropUpload, PhaseTimeout,
       SourceFails, PipelineReturns, PipelineRaises, WatchdogFires, DeleteRow,
       SetRunning, SetFailedUnlessTerminal
  <2>2. QED
    BY <1>1, <1>2, <2>1
<1>5. ASSUME NEW j \in Jobs, Purge(j) PROVE Goal
  BY <1>5 DEF Purge, Purgeable, Terminal
<1>6. CASE Sigterm
  BY <1>6 DEF Sigterm
<1>7. CASE Restart
  BY <1>7 DEF Restart, Recover, Recovered, ReenqueuePending
<1>8. ASSUME NEW j \in Jobs,
             \/ Stage(j) \/ Reject(j) \/ SubmitRaises(j) \/ BlockTask(j)
             \/ Probed(j) \/ Timed(j) \/ Decoded(j) \/ CleanUp(j)
             \/ ThreadStep(j) \/ WriteSome(j) \/ DeleteFiles(j)
      PROVE  Goal
  <2>1. UNCHANGED status
    BY <1>8 DEF Stage, Reject, SubmitRaises, BlockTask, Probed, Timed, Decoded,
       CleanUp, ThreadStep, TakeCall, CallReturns, CallRaises, WriteSome,
       DeleteFiles
  <2>2. QED
    BY <1>1, <2>1
<1>9. CASE DailySweep \/ CancelTasks \/ Exit \/ Crash
  <2>1. UNCHANGED status
    BY <1>9 DEF DailySweep, CancelTasks, Exit, Crash, Vanish
  <2>2. QED
    BY <1>1, <2>1
<1>10. QED
  BY <1>3, <1>4, <1>5, <1>6, <1>7, <1>8, <1>9 DEF Next, LoopStep

\* Every step keeps it: each way out of a task unlinks what is left, whichever
\* of the two files the task was working from.
LEMMA StagingStep ==
    ASSUME TypeOK, WaitingInv, ExecutorInv, TaskHasInput, StagingInv, Next
    PROVE  StagingInv'
<1> SUFFICES ASSUME outages' = 0, outages = 0, srv = "up",
                    \A j \in Jobs : status[j] = "none" /\ status'[j] # "none"
                                    => pc'[j] = "created"
             PROVE  StagingInv'
  <2>1. outages' = 0 => outages = 0
    <3>1. outages \in Nat
      BY JobsAssumption DEF TypeOK
    <3>2. outages' \in {outages, outages + 1}
      BY DEF Next, Stage, Submit, Reject, SubmitRaises, StartTask, BlockTask,
         WakeTask, Begin, Probed, Timed, Decoded, DropUpload, SourceFails,
         PipelineReturns, PipelineRaises, CleanUp, LoopStep, PhaseTimeout,
         WatchdogFires, TakeCall, CallReturns, CallRaises, ThreadStep,
         WriteSome, DeleteFiles, DeleteRow, Purge, DailySweep, Sigterm,
         CancelTasks, Exit, Crash, Recover, ReenqueuePending, Restart
    <3>3. QED
      BY <3>1, <3>2
  <2>2. outages = 0 => srv = "up"
    BY JobsAssumption DEF ExecutorInv, QuietWhenDown, TypeOK
  <2>3. QED
    BY <2>1, <2>2, RowAppears DEF StagingInv, CanonIsDecoded, StagingReclaimed
<1> USE DEF TypeOK, ExecutorInv, CallHasTask, StagingInv, CanonIsDecoded,
      StagingReclaimed, Awaiting, rowVars, fileVars, taskVars, callVars
<1>1. ASSUME NEW j \in Jobs, Stage(j) PROVE StagingInv'
  BY <1>1 DEF Stage
<1>2. ASSUME NEW j \in Jobs, Submit(j) PROVE StagingInv'
  BY <1>2 DEF Submit
<1>3. ASSUME NEW j \in Jobs, Reject(j) \/ SubmitRaises(j) PROVE StagingInv'
  <2>1. CASE Reject(j)
    BY <2>1 DEF Reject, DropUploadFile
  <2>2. CASE SubmitRaises(j)
    BY <2>2 DEF SubmitRaises, WaitingInv, StagedHasUpload
  <2>3. QED
    BY <1>3, <2>1, <2>2
<1>4. ASSUME NEW j \in Jobs, BlockTask(j) PROVE StagingInv'
  BY <1>4 DEF BlockTask
<1>5. ASSUME NEW j \in Jobs, Begin(j), pc[j] \in {"created", "waiting"}
      PROVE  StagingInv'
  <2>1. /\ pc' = [pc EXCEPT ![j] = IF task[j] = "source" THEN "probing"
                                   ELSE "transcribing"]
        /\ UNCHANGED <<upload, canon, task>>
    BY <1>5 DEF Begin
  <2>2. \A k \in Jobs \ {j} : fn'[k] = fn[k]
    BY <1>5 DEF Begin, SubmitCall
  <2>3. QED
    BY <1>5, <2>1, <2>2
<1>6. ASSUME NEW j \in Jobs, StartTask(j) \/ WakeTask(j) PROVE StagingInv'
  BY <1>5, <1>6 DEF StartTask, WakeTask
<1>7. ASSUME NEW j \in Jobs, Probed(j) PROVE StagingInv'
  BY <1>7 DEF Probed, SubmitCall
<1>8. ASSUME NEW j \in Jobs, Timed(j) PROVE StagingInv'
  BY <1>8 DEF Timed, SubmitCall
<1>9. ASSUME NEW j \in Jobs, Decoded(j) PROVE StagingInv'
  BY <1>9 DEF Decoded
<1>10. ASSUME NEW j \in Jobs, DropUpload(j) PROVE StagingInv'
  BY <1>10 DEF DropUpload, DropUploadFile, SubmitCall
<1>11. ASSUME NEW j \in Jobs, PhaseTimeout(j) PROVE StagingInv'
  BY <1>11 DEF PhaseTimeout, DropUploadFile, EndTask
<1>12. ASSUME NEW j \in Jobs, SourceFails(j) PROVE StagingInv'
  BY <1>12 DEF SourceFails, DropUploadFile, EndTask
<1>13. ASSUME NEW j \in Jobs, PipelineReturns(j) PROVE StagingInv'
  BY <1>13 DEF PipelineReturns
<1>14. ASSUME NEW j \in Jobs, PipelineRaises(j) PROVE StagingInv'
  BY <1>14 DEF PipelineRaises
<1>15. ASSUME NEW j \in Jobs, CleanUp(j) PROVE StagingInv'
  BY <1>15 DEF CleanUp, DropUploadFile, EndTask
<1>16. ASSUME NEW j \in Jobs,
              \/ WatchdogFires(j) \/ TakeCall(j) \/ WriteSome(j)
              \/ CallRaises(j) \/ DeleteFiles(j) \/ DeleteRow(j) \/ Purge(j)
       PROVE  StagingInv'
  <2>1. UNCHANGED <<pc, task, upload, canon, fn>>
    BY <1>16 DEF WatchdogFires, TakeCall, WriteSome, CallRaises, DeleteFiles,
       DeleteRow, Purge
  <2>2. QED
    BY <2>1
<1>17. ASSUME NEW j \in Jobs, CallReturns(j) PROVE StagingInv'
  BY <1>17 DEF CallReturns, PublishCanonical, TaskHasInput
<1>18. CASE DailySweep
  BY <1>18 DEF DailySweep
<1>19. CASE Sigterm \/ CancelTasks \/ Exit \/ Crash \/ Restart
  BY <1>19 DEF Sigterm, CancelTasks, Exit, Crash, Restart, Recover,
     ReenqueuePending
<1>20. QED
  BY <1>1, <1>2, <1>3, <1>4, <1>6, <1>7, <1>8, <1>9, <1>10, <1>11, <1>12,
     <1>13, <1>14, <1>15, <1>16, <1>17, <1>18, <1>19
     DEF Next, LoopStep, ThreadStep


-----------------------------------------------------------------------------
\* The inductive invariant of the job server, put together.
JobsInv ==
    /\ WaitingInv /\ SlotInv /\ RowFollowsTask /\ ExecutorInv /\ TaskHasInput
    /\ OutputInv /\ StagingInv

LEMMA JobsInvInit == Init => JobsInv
<1> SUFFICES ASSUME Init PROVE JobsInv
  OBVIOUS
<1> USE JobsAssumption DEF Init, Holding, Awaiting, InTask
<1>1. WaitingInv
  BY DEF WaitingInv, Unsubmitted, StagedHasUpload, HoldingIsStarted,
     PendingIsRunnable
<1>2. SlotInv
  BY DEF SlotInv, SlotIsHeld, RunningHolds, CleaningIsOver, OneRunningRow
<1>3. RowFollowsTask /\ TaskHasInput
  BY DEF RowFollowsTask, TaskHasInput
<1>4. ExecutorInv
  BY DEF ExecutorInv, CallHasTask, QuietWhenDown, Down, ActiveInTask
<1>5. OutputInv
  BY DEF OutputInv, ResultHasOutputs, PurgedIsOver, DoneHasOutputs,
     PurgeClearsRoot
<1>6. StagingInv
  BY DEF StagingInv, CanonIsDecoded, StagingReclaimed
<1>7. QED
  BY <1>1, <1>2, <1>3, <1>4, <1>5, <1>6 DEF JobsInv

LEMMA JobsInvStutter ==
    ASSUME JobsInv, UNCHANGED vars
    PROVE  JobsInv'
<1> USE DEF JobsInv, vars, rowVars, fileVars, taskVars, callVars
<1>1. WaitingInv'
  BY DEF WaitingInv, Unsubmitted, StagedHasUpload, HoldingIsStarted,
     PendingIsRunnable
<1>2. SlotInv'
  BY DEF SlotInv, SlotIsHeld, RunningHolds, CleaningIsOver, OneRunningRow
<1>3. RowFollowsTask' /\ TaskHasInput'
  BY DEF RowFollowsTask, TaskHasInput, PipelineInput
<1>4. ExecutorInv'
  BY DEF ExecutorInv, CallHasTask, QuietWhenDown, ActiveInTask
<1>5. OutputInv'
  BY DEF OutputInv, ResultHasOutputs, PurgedIsOver, DoneHasOutputs,
     PurgeClearsRoot
<1>6. StagingInv'
  BY DEF StagingInv, CanonIsDecoded, StagingReclaimed
<1>7. QED
  BY <1>1, <1>2, <1>3, <1>4, <1>5, <1>6

LEMMA JobsInvStep ==
    ASSUME TypeOK, JobsInv, [Next]_vars
    PROVE  JobsInv'
<1>1. CASE Next
  <2>1. WaitingInv' /\ SlotInv'
    BY <1>1, WaitingStep, SlotStep DEF JobsInv, WaitingInv
  <2>2. RowFollowsTask'
    BY <1>1, OutcomeStep DEF JobsInv
  <2>3. ExecutorInv'
    BY <1>1, ExecutorStep DEF JobsInv, SlotInv
  <2>4. TaskHasInput' /\ OutputInv' /\ StagingInv'
    BY <1>1, InputStep, OutputStep, StagingStep DEF JobsInv
  <2>5. QED
    BY <2>1, <2>2, <2>3, <2>4 DEF JobsInv
<1>2. CASE UNCHANGED vars
  BY <1>2, JobsInvStutter
<1>3. QED
  BY <1>1, <1>2

LEMMA JobsInvariant == Spec => []JobsInv
  BY JobsInvInit, JobsInvStep, TypeCorrect, PTL DEF Spec

\* The one-thread executor works for the semaphore's holder alone, but for the
\* call that a phase timeout or an exiting process has given up.
THEOREM ExecutorForHolder == Spec => []ExecutorServesHolder
<1>1. JobsInv => ExecutorServesHolder
  BY DEF JobsInv, SlotInv, SlotIsHeld, ExecutorInv, CallHasTask,
     ExecutorServesHolder, Awaiting, Holding
<1>2. QED
  BY <1>1, JobsInvariant, PTL

\* No unlink takes a file from under the executor: whatever sweeps, deletes,
\* times out or restarts, the call a task awaits finds its input.
THEOREM InputOnDiskForCall == Spec => []InputStaysOnDisk
<1>1. JobsInv => InputStaysOnDisk
  BY DEF JobsInv, ExecutorInv, CallHasTask, TaskHasInput, InputStaysOnDisk,
     InputOnDisk, Awaiting
<1>2. QED
  BY <1>1, JobsInvariant, PTL

\* A row that says done got its four transcript files first, and has some of
\* them until a DELETE takes them all: a removal that did not finish shows, one
\* that did is behind an outage or about to take the row.
THEOREM DoneIsComplete == Spec => []DoneHasOutputs
<1>1. JobsInv => DoneHasOutputs
  BY DEF JobsInv, OutputInv
<1>2. QED
  BY <1>1, JobsInvariant, PTL

\* Behind a row that the retention sweep has deleted no transcript lies under
\* the root the server has now, and no thread writes one later: what is left is
\* where the root was before it moved.
THEOREM PurgeCompleteInRoot == Spec => []PurgeClearsRoot
<1>1. JobsInv => PurgeClearsRoot
  BY DEF JobsInv, OutputInv
<1>2. QED
  BY <1>1, JobsInvariant, PTL

\* While nothing has failed, a finished job that got its row leaves no staged
\* audio but the canonical WAV of a decode that outlived its timeout.
THEOREM StagingIsReclaimed == Spec => []StagingReclaimed
<1>1. JobsInv => StagingReclaimed
  BY DEF JobsInv, StagingInv
<1>2. QED
  BY <1>1, JobsInvariant, PTL

-----------------------------------------------------------------------------
\* The moves of a row: those of JobLifecycle, with the files that a move to
\* running or to done needs.
RowMoves(j) ==
    /\ \/ status'[j] = status[j]
       \/ status[j] = "none" /\ status'[j] = "pending"
       \/ status[j] = "pending" /\ status'[j] \in {"running", "failed"}
       \/ status[j] = "running" /\ status'[j] \in {"done", "failed"}
       \/ HasRow(j) /\ status'[j] \in {"deleted", "purged"}
       \/ srv = "stopping" /\ status[j] = "failed" /\ status'[j] = "running"
    /\ status[j] = "pending" /\ status'[j] = "running" => upload'[j]
    /\ status[j] # "done" /\ status'[j] = "done" => outs'[j] = "all"

LEMMA EveryRowMoves ==
    ASSUME TypeOK, JobsInv, Next
    PROVE  \A j \in Jobs : RowMoves(j)
<1> USE DEF TypeOK, JobsInv, WaitingInv, StagedHasUpload, PendingIsRunnable,
      HoldingIsStarted, RowFollowsTask, ExecutorInv, CallHasTask, OutputInv,
      ResultHasOutputs, Holding, Awaiting, InTask, NoRow, Live, Terminal,
      HasRow, SetStatus, LoopRuns, RowMoves, rowVars, fileVars, taskVars,
      callVars
<1> DEFINE Goal == \A j \in Jobs : RowMoves(j)
<1>1. ASSUME UNCHANGED status PROVE Goal
  BY <1>1
<1>2. ASSUME NEW j \in Jobs, Submit(j) PROVE Goal
  BY <1>2 DEF Submit
<1>3. ASSUME NEW j \in Jobs, Begin(j), pc[j] \in {"created", "waiting"}
      PROVE  Goal
  BY <1>3 DEF Begin, SetRunning
<1>4. ASSUME NEW j \in Jobs, StartTask(j) \/ WakeTask(j) PROVE Goal
  BY <1>3, <1>4 DEF StartTask, WakeTask
<1>5. ASSUME NEW j \in Jobs, DropUpload(j) PROVE Goal
  BY <1>5 DEF DropUpload, SetRunning
<1>6. ASSUME NEW j \in Jobs, PhaseTimeout(j) PROVE Goal
  BY <1>6 DEF PhaseTimeout
<1>7. ASSUME NEW j \in Jobs, SourceFails(j) PROVE Goal
  BY <1>7 DEF SourceFails, SetFailedUnlessTerminal
<1>8. ASSUME NEW j \in Jobs, PipelineReturns(j) PROVE Goal
  BY <1>8 DEF PipelineReturns, ResultComesTooLate, CallOk
<1>9. ASSUME NEW j \in Jobs, PipelineRaises(j) PROVE Goal
  BY <1>9 DEF PipelineRaises, SetFailedUnlessTerminal
<1>10. ASSUME NEW j \in Jobs, WatchdogFires(j) PROVE Goal
  BY <1>10 DEF WatchdogFires
<1>11. ASSUME NEW j \in Jobs, DeleteRow(j) PROVE Goal
  BY <1>11 DEF DeleteRow
<1>12. ASSUME NEW j \in Jobs, Purge(j) PROVE Goal
  BY <1>12 DEF Purge, Purgeable
<1>13. CASE Sigterm
  BY <1>13 DEF Sigterm
<1>14. CASE Recover
  BY <1>14 DEF Recover, Recovered
<1>15. CASE ReenqueuePending
  BY <1>15 DEF ReenqueuePending
<1>16. ASSUME NEW j \in Jobs,
              \/ Stage(j) \/ Reject(j) \/ SubmitRaises(j) \/ BlockTask(j)
              \/ Probed(j) \/ Timed(j) \/ Decoded(j) \/ CleanUp(j)
              \/ TakeCall(j) \/ CallReturns(j) \/ CallRaises(j) \/ WriteSome(j) \/ DeleteFiles(j)
       PROVE  Goal
  <2>1. UNCHANGED status
    BY <1>16 DEF Stage, Reject, SubmitRaises, BlockTask, Probed, Timed, Decoded,
       CleanUp, TakeCall, CallReturns, CallRaises, WriteSome, DeleteFiles
  <2>2. QED
    BY <1>1, <2>1
<1>17. CASE DailySweep \/ CancelTasks \/ Exit \/ Crash
  <2>1. UNCHANGED status
    BY <1>17 DEF DailySweep, CancelTasks, Exit, Crash, Vanish
  <2>2. QED
    BY <1>1, <2>1
<1>18. QED
  BY <1>2, <1>4, <1>5, <1>6, <1>7, <1>8, <1>9, <1>10, <1>11, <1>12, <1>13,
     <1>14, <1>15, <1>16, <1>17 DEF Next, LoopStep, ThreadStep, Restart

\* Under the mapping, a step of the server is a step of the lifecycle.
LEMMA LifecycleStep ==
    ASSUME TypeOK, TypeOK', JobsInv, JobsInv', Next
    PROVE  Lifecycle!Next
<1> DEFINE st == [j \in Jobs |->
                    IF status[j] \in {"deleted", "purged"} THEN "gone"
                    ELSE status[j]]
           au == [j \in Jobs |-> upload[j] \/ canon[j]]
           tr == [j \in Jobs |-> outs[j] = "all"]
<1>1. st' \in [Jobs -> Lifecycle!States]
  BY DEF TypeOK, Live, Terminal, NoRow, Lifecycle!States, Lifecycle!Rows
<1>2. /\ au' \in [Jobs -> BOOLEAN] /\ tr' \in [Jobs -> BOOLEAN]
      /\ (srv = "stopping")' \in BOOLEAN
  BY DEF TypeOK
<1>3. ASSUME NEW j \in Jobs PROVE Lifecycle!MayMove(j)
  <2>1. RowMoves(j) /\ status[j] \in Live \cup Terminal \cup NoRow
    BY EveryRowMoves DEF TypeOK
  <2>2. QED
    BY <2>1 DEF RowMoves, HasRow, Live, Terminal, NoRow, Lifecycle!MayMove,
       Lifecycle!Moves, Lifecycle!Rows
<1>4. ASSUME NEW j \in Jobs PROVE Lifecycle!KeepsAudio(j)
  <2>1. status'[j] = "pending" => upload'[j]
    BY DEF JobsInv, WaitingInv, PendingIsRunnable
  <2>2. status[j] = "pending" /\ status'[j] = "running" => upload'[j]
    BY EveryRowMoves DEF RowMoves
  <2>3. QED
    BY <2>1, <2>2 DEF Lifecycle!KeepsAudio
<1>5. ASSUME NEW j \in Jobs PROVE Lifecycle!DeliversTranscript(j)
  <2>1. status[j] # "done" /\ status'[j] = "done" => outs'[j] = "all"
    BY EveryRowMoves DEF RowMoves
  <2>2. QED
    BY <2>1 DEF Lifecycle!DeliversTranscript
<1>6. Lifecycle!OneAtATime
  BY DEF JobsInv, SlotInv, OneRunningRow, Lifecycle!OneAtATime
<1>7. QED
  BY <1>1, <1>2, <1>3, <1>4, <1>5, <1>6 DEF Lifecycle!Next

\* The job server implements the lifecycle that a polling client is promised.
THEOREM JobsImplementLifecycle == Spec => ImplementsLifecycle
<1>1. Init => Lifecycle!Init
  BY DEF Init, Lifecycle!Init
<1>2. UNCHANGED vars => UNCHANGED Lifecycle!vars
  BY DEF vars, rowVars, fileVars, Lifecycle!vars
<1>3. TypeOK /\ TypeOK' /\ JobsInv /\ JobsInv' /\ [Next]_vars
        => [Lifecycle!Next]_(Lifecycle!vars)
  BY <1>2, LifecycleStep
<1>4. QED
  BY <1>1, <1>3, TypeCorrect, JobsInvariant, PTL
     DEF Spec, ImplementsLifecycle, Lifecycle!Spec
=============================================================================
