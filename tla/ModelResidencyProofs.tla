------------------------ MODULE ModelResidencyProofs ------------------------
(* Theorems about ModelResidency, for any number of jobs.                   *)
EXTENDS ModelResidency, TLAPS

(***************************************************************************)
(* The inductive invariant.  A thread in transcribe_meeting is one the      *)
(* runner waits for; whoever is inside the lock knows what the flag says;   *)
(* and the flag and pyannote differ only between the two assignments of a   *)
(* load or of an eviction.                                                  *)
(***************************************************************************)
CallInv ==
    /\ call # "none" => active
    /\ pc # "none" => call = "running"
    /\ loop = "asleep" => evictor = "none"

FlagInv ==
    /\ pc \in Loads => ~ready
    /\ evictor = "acquire" \/ EvictorInside => ready

PyannoteInv ==
    /\ pc = "to_device" => pyannote
    /\ evictor = "clear_flag" => ~pyannote
    /\ pc # "to_device" /\ evictor # "clear_flag" => (ready <=> pyannote)

\* The part of TypeOK that is about the Boolean variables.
BooleansOK ==
    /\ ready \in BOOLEAN /\ loading \in BOOLEAN
    /\ warm \in BOOLEAN /\ whisper \in BOOLEAN /\ pyannote \in BOOLEAN
    /\ idle \in BOOLEAN /\ active \in BOOLEAN /\ robbed \in BOOLEAN

ResidencyInv == TypeOK /\ CallInv /\ FlagInv /\ PyannoteInv

LEMMA ResidencyInit == Init => ResidencyInv
<1> USE ResidencyAssumption DEF Init, Loads, Works, Modes, Resets, JobInside,
        EvictorInside
<1>1. Init => TypeOK
  <2>1. Init => BooleansOK
    BY Zenon DEF BooleansOK
  <2>2. QED
    BY <2>1 DEF TypeOK, BooleansOK
<1>2. Init => CallInv /\ FlagInv /\ PyannoteInv
  BY DEF CallInv, FlagInv, PyannoteInv
<1>3. QED
  BY <1>1, <1>2 DEF ResidencyInv

\* The steps of the runner and of time leave lock, flag and weights alone.
LEMMA RunnerSteps ==
    ASSUME ResidencyInv, TimePasses \/ StartJob \/ Submit \/ EndJob \/ TakeCall
    PROVE  ResidencyInv'
<1> USE DEF ResidencyInv, TypeOK, CallInv, FlagInv, PyannoteInv, JobInside,
            EvictorInside, Loads, Works, Modes, Resets, flags, models, runner
<1>1. CASE TimePasses
  BY <1>1 DEF TimePasses
<1>2. CASE StartJob
  BY <1>2, ResidencyAssumption DEF StartJob
<1>3. CASE Submit
  BY <1>3 DEF Submit
<1>4. CASE EndJob
  <2>1. pc = "none" /\ call' = "none" /\ active' = FALSE
        /\ UNCHANGED <<flags, models, idle, pc, mode, jobs, loop, evictor, robbed>>
    BY <1>4 DEF EndJob, Over
  <2>2. TypeOK'
    BY <2>1
  <2>3. CallInv' /\ FlagInv'
    BY <2>1
  <2>4. PyannoteInv'
    BY <2>1
  <2>5. QED
    BY <2>2, <2>3, <2>4
<1>5. CASE TakeCall
  <2>1. TypeOK'
    BY <1>5 DEF TakeCall
  <2>2. CallInv' /\ FlagInv'
    BY <1>5 DEF TakeCall
  <2>3. PyannoteInv'
    BY <1>5 DEF TakeCall
  <2>4. QED
    BY <2>1, <2>2, <2>3
<1>6. QED
  BY <1>1, <1>2, <1>3, <1>4, <1>5

\* The executor's thread.
LEMMA ThreadSteps ==
    ASSUME ResidencyInv, Thread
    PROVE  ResidencyInv'
<1> USE DEF ResidencyInv, TypeOK, CallInv, FlagInv, PyannoteInv, JobInside,
            EvictorInside, Loads, Works, Modes, Resets, flags, models, runner
<1>1. CASE Ensure
  BY <1>1 DEF Ensure
<1>2. CASE Acquire
  BY <1>2 DEF Acquire
<1>3. CASE Check
  BY <1>3 DEF Check
<1>4. CASE LoadWhisper
  <2>1. TypeOK'
    BY <1>4 DEF LoadWhisper, LoadFails, DropsAll, Returns
  <2>2. CallInv' /\ FlagInv'
    BY <1>4 DEF LoadWhisper, LoadFails, DropsAll, Returns
  <2>3. PyannoteInv'
    BY <1>4 DEF LoadWhisper, LoadFails, DropsAll, Returns
  <2>4. QED
    BY <2>1, <2>2, <2>3
<1>5. CASE LoadPyannote
  <2>1. TypeOK'
    BY <1>5 DEF LoadPyannote, LoadFails, DropsAll, Returns
  <2>2. CallInv' /\ FlagInv'
    BY <1>5 DEF LoadPyannote, LoadFails, DropsAll, Returns
  <2>3. PyannoteInv'
    BY <1>5 DEF LoadPyannote, LoadFails, DropsAll, Returns
  <2>4. QED
    BY <2>1, <2>2, <2>3
<1>6. CASE ToDevice
  <2>1. TypeOK'
    <3>1. BooleansOK'
      BY Zenon, <1>6 DEF ToDevice, LoadFails, DropsAll, Returns, BooleansOK
    <3>2. QED
      BY <1>6, <3>1 DEF ToDevice, LoadFails, DropsAll, Returns, BooleansOK
  <2>2. CallInv' /\ FlagInv'
    BY <1>6 DEF ToDevice, LoadFails, DropsAll, Returns
  <2>3. PyannoteInv'
    <3>1. evictor' = evictor /\ evictor # "clear_flag" /\ ~ready /\ pyannote
      BY <1>6 DEF ToDevice
    <3>2. CASE ready' = TRUE /\ UNCHANGED models /\ pc' = "transcribe"
      BY <3>1, <3>2
    <3>3. CASE LoadFails
      BY <3>1, <3>3 DEF LoadFails, DropsAll, Returns
    <3>4. QED
      BY <1>6, <3>2, <3>3 DEF ToDevice
  <2>4. QED
    BY <2>1, <2>2, <2>3
<1>7. CASE Transcribe
  <2>1. TypeOK'
    <3>1. BooleansOK'
      BY Zenon, <1>7 DEF Transcribe, Follows, Ends, Returns, BooleansOK
    <3>2. QED
      BY <1>7, <3>1 DEF Transcribe, Follows, Ends, Returns, BooleansOK
  <2>2. CallInv' /\ FlagInv'
    BY <1>7 DEF Transcribe, Follows, Ends, Returns
  <2>3. PyannoteInv'
    BY <1>7 DEF Transcribe, Follows, Ends, Returns
  <2>4. QED
    BY <2>1, <2>2, <2>3
<1>8. CASE Diarize
  BY <1>8 DEF Diarize, Ends, Returns
<1>9. CASE Write
  BY <1>9 DEF Write, Ends, Returns
<1>10. QED
  BY <1>1, <1>2, <1>3, <1>4, <1>5, <1>6, <1>7, <1>8, <1>9 DEF Thread

\* The loop and its thread.
LEMMA EvictionSteps ==
    ASSUME ResidencyInv, LoopWakes \/ LoopSleeps \/ Evict
    PROVE  ResidencyInv'
<1> USE DEF ResidencyInv, TypeOK, CallInv, FlagInv, PyannoteInv, JobInside,
            EvictorInside, Loads, Works, Modes, Resets, flags, models, runner
<1>1. CASE LoopWakes
  <2>1. TypeOK'
    <3>1. BooleansOK'
      BY Zenon, <1>1 DEF LoopWakes, BooleansOK
    <3>2. QED
      BY <1>1, <3>1 DEF LoopWakes, BooleansOK
  <2>2. CallInv' /\ FlagInv'
    BY <1>1 DEF LoopWakes
  <2>3. PyannoteInv'
    BY <1>1 DEF LoopWakes
  <2>4. QED
    BY <2>1, <2>2, <2>3
<1>2. CASE LoopSleeps
  BY <1>2 DEF LoopSleeps
<1>3. CASE Look
  BY <1>3 DEF Look, Due
<1>4. CASE TryLock
  <2>1. TypeOK'
    BY <1>4 DEF TryLock
  <2>2. CallInv' /\ FlagInv'
    BY <1>4 DEF TryLock
  <2>3. PyannoteInv'
    BY <1>4 DEF TryLock
  <2>4. QED
    BY <2>1, <2>2, <2>3
<1>5. CASE Recheck
  <2>1. TypeOK'
    <3>1. BooleansOK'
      BY Zenon, <1>5 DEF Recheck, Due, Releases, BooleansOK
    <3>2. QED
      BY <1>5, <3>1 DEF Recheck, Due, Releases, BooleansOK
  <2>2. CallInv' /\ FlagInv'
    BY <1>5 DEF Recheck, Due, Releases
  <2>3. PyannoteInv'
    BY <1>5 DEF Recheck, Due, Releases
  <2>4. QED
    BY <2>1, <2>2, <2>3
<1>6. CASE ResetPyannote
  <2>1. TypeOK'
    BY <1>6 DEF ResetPyannote
  <2>2. CallInv' /\ FlagInv'
    BY <1>6 DEF ResetPyannote
  <2>3. PyannoteInv'
    BY <1>6 DEF ResetPyannote
  <2>4. QED
    BY <2>1, <2>2, <2>3
<1>7. CASE ClearFlag
  <2>1. TypeOK'
    <3>1. BooleansOK'
      BY Zenon, <1>7 DEF ClearFlag, Releases, BooleansOK
    <3>2. QED
      BY <1>7, <3>1 DEF ClearFlag, Releases, BooleansOK
  <2>2. CallInv' /\ FlagInv'
    BY <1>7 DEF ClearFlag, Releases
  <2>3. PyannoteInv'
    BY <1>7 DEF ClearFlag, Releases
  <2>4. QED
    BY <2>1, <2>2, <2>3
<1>8. QED
  BY <1>1, <1>2, <1>3, <1>4, <1>5, <1>6, <1>7 DEF Evict

LEMMA ResidencyHolds == Spec => []ResidencyInv
<1>1. ResidencyInv /\ [Next]_vars => ResidencyInv'
  <2> SUFFICES ASSUME ResidencyInv, [Next]_vars PROVE ResidencyInv'
    OBVIOUS
  <2>1. CASE TimePasses \/ StartJob \/ Submit \/ EndJob \/ TakeCall
    BY <2>1, RunnerSteps
  <2>2. CASE Thread
    BY <2>2, ThreadSteps
  <2>3. CASE LoopWakes \/ LoopSleeps \/ Evict
    BY <2>3, EvictionSteps
  <2>4. CASE UNCHANGED vars
    BY <2>4 DEF vars, flags, models, runner, ResidencyInv, TypeOK, CallInv,
                FlagInv, PyannoteInv, JobInside, EvictorInside, Loads, Works, Modes, Resets
  <2>5. QED
    BY <2>1, <2>2, <2>3, <2>4 DEF Next
<1>2. QED
  BY <1>1, ResidencyInit, PTL DEF Spec

-----------------------------------------------------------------------------
\* Type correctness, and with it mutual exclusion: _load_lock has the one
\* holder that is inside it.
THEOREM ResidencyTypeCorrect == Spec => []TypeOK
<1>1. ResidencyInv => TypeOK
  BY DEF ResidencyInv
<1>2. QED
  BY <1>1, ResidencyHolds, PTL

\* With nobody in a load or an eviction, _meeting_models_ready says of
\* pyannote what is so.
THEOREM ReadyTellsTheTruth == Spec => []ReadyIsLoaded
<1>1. ResidencyInv => ReadyIsLoaded
  BY DEF ResidencyInv, TypeOK, PyannoteInv, ReadyIsLoaded, JobInside, EvictorInside, Loads, Resets
<1>2. QED
  BY <1>1, ResidencyHolds, PTL

\* eviction_loop sees the job for as long as the thread is in its call.
THEOREM LoopSeesEveryJob == Spec => []LoopSeesJob
<1>1. ResidencyInv => LoopSeesJob
  BY DEF ResidencyInv, CallInv, LoopSeesJob
<1>2. QED
  BY <1>1, ResidencyHolds, PTL
=============================================================================
