------------------------ MODULE ToolExecutionProofs ------------------------
(* For any number of tool calls: every call of a response gets exactly one     *)
(* result, no tool thread outlives the tracker, and the count is exact.        *)
EXTENDS ToolExecution, FiniteSetTheorems, TLAPS

(* What one call's slot, thread and count say about each other.                *)
CallInv(i) ==
    /\ writes[i] = IF result[i] = "none" THEN 0 ELSE 1
    /\ i \in notified => result[i] # "none" /\ i \in valid
    /\ thread[i] # "none" => i < next /\ i \in valid
    /\ thread[i] = "running" => result[i] = "none"
    /\ thread[i] \in {"running", "populated"} => i \notin notified
    /\ thread[i] = "cleanup" /\ result[i] # "none" => i \in notified
    /\ thread[i] \in {"populated", "callback", "cleaned", "exited"} => result[i] # "none"
    /\ thread[i] = "callback" => i \in notified
    /\ phase = "schedule" /\ i >= next => result[i] = "none"
    /\ i < next => result[i] # "none" \/ thread[i] # "none"
    /\ phase \in {"schedule", "wait"} /\ ~interrupted /\ i \in valid /\ i < next
          => thread[i] # "none" \/ i \in notified

(* What the worker's position says about all calls.                            *)
PhaseInv ==
    /\ phase \in {"wait", "join", "record"} => next = ToolCount + 1
    /\ phase \in {"join", "record"} /\ ~interrupted => notified = valid
    /\ TrackerOutlivesThreads

CountInv == completed = Cardinality(notified)

IInv == TypeOK /\ (\A i \in Calls : CallInv(i)) /\ PhaseInv /\ CountInv

-----------------------------------------------------------------------------
(* The calls of a response are finitely many.                                  *)
LEMMA CallsFinite == IsFiniteSet(Calls) /\ Cardinality(Calls) = ToolCount
BY FS_Interval, BoundAssumption DEF Calls

(* The count stays within the number of calls because it counts a set of them. *)
LEMMA CountBound ==
    ASSUME NEW S \in SUBSET Calls
    PROVE  Cardinality(S) \in 0 .. ToolCount /\ IsFiniteSet(S)
<1>1. IsFiniteSet(S) /\ Cardinality(S) <= ToolCount
  BY CallsFinite, FS_Subset
<1>2. Cardinality(S) \in Nat
  BY <1>1, FS_CardinalityType
<1>. QED
  BY <1>1, <1>2, BoundAssumption

LEMMA CountStep ==
    ASSUME IInv, NEW i \in Calls, Count(i)
    PROVE  /\ CountInv'
           /\ notified' = notified \cup {i} /\ notified' \subseteq Calls
           /\ completed' \in 0 .. ToolCount
<1>1. notified \in SUBSET Calls /\ completed = Cardinality(notified)
  BY DEF IInv, TypeOK, CountInv
<1>2. notified' = notified \cup {i} /\ notified' \in SUBSET Calls
  BY <1>1 DEF Count
<1>3. Cardinality(notified') = IF i \in notified THEN Cardinality(notified) ELSE Cardinality(notified) + 1
  BY <1>1, <1>2, CountBound, FS_AddElement
<1>4. completed' = Cardinality(notified')
  BY <1>1, <1>3 DEF Count
<1>. QED
  BY <1>2, <1>4, CountBound DEF CountInv

LEMMA InitInv == Init => IInv
<1>. SUFFICES ASSUME Init PROVE IInv
  OBVIOUS
<1>. USE BoundAssumption
<1>1. TypeOK
  <2>1. /\ queued \in 0 .. MaxQueued /\ submitted \in 0 .. MaxInstructions
        /\ late \in 0 .. MaxLateSubmits /\ rounds \in 0 .. MaxRounds
        /\ next \in 1 .. ToolCount + 1 /\ completed \in 0 .. ToolCount
    BY DEF Init
  <2>2. /\ flag \in BOOLEAN /\ interrupted \in BOOLEAN /\ orphaned \in BOOLEAN
        /\ valid \subseteq Calls /\ cancelled \subseteq Calls /\ notified \subseteq Calls
        /\ phase \in {"idle", "api", "schedule", "wait", "join", "record"}
    BY DEF Init
  <2>3. /\ result \in [Calls -> Outcome] /\ writes \in [Calls -> Nat]
        /\ thread \in [Calls -> ThreadState]
    BY DEF Init, Outcome, ThreadState
  <2>. QED
    BY <2>1, <2>2, <2>3 DEF TypeOK
<1>2. \A i \in Calls : CallInv(i)
  BY DEF Init, CallInv, Calls
<1>3. PhaseInv
  BY DEF Init, PhaseInv, TrackerOutlivesThreads
<1>4. CountInv
  BY FS_EmptySet DEF Init, CountInv
<1>. QED
  BY <1>1, <1>2, <1>3, <1>4 DEF IInv

LEMMA SubmitStep ==
    ASSUME IInv, Submit
    PROVE  IInv'
<1>. USE BoundAssumption DEF Submit, user, slots, tracker, cancels
<1>1. TypeOK'
  <2>1. late' \in 0 .. MaxLateSubmits
    <3>1. CASE phase = "idle"
      BY <3>1 DEF IInv, TypeOK
    <3>2. CASE phase # "idle"
      BY <3>2 DEF IInv, TypeOK
    <3>. QED
      BY <3>1, <3>2
  <2>2. queued' \in 0 .. MaxQueued /\ submitted' \in 0 .. MaxInstructions /\ flag' = FALSE
    BY DEF IInv, TypeOK
  <2>. QED
    BY <2>1, <2>2 DEF IInv, TypeOK
<1>2. ASSUME NEW i \in Calls PROVE CallInv(i)'
  BY DEF IInv, TypeOK, CallInv, PhaseInv, TrackerOutlivesThreads, Calls, Started
<1>3. PhaseInv'
  BY DEF IInv, TypeOK, CallInv, PhaseInv, TrackerOutlivesThreads, Calls, Started
<1>4. CountInv'
  BY FS_EmptySet DEF IInv, CountInv
<1>. QED
  BY <1>1, <1>2, <1>3, <1>4 DEF IInv

LEMMA CtrlCStep ==
    ASSUME IInv, CtrlC
    PROVE  IInv'
<1>. USE BoundAssumption DEF CtrlC, user, slots, tracker, cancels
<1>1. TypeOK'
  BY DEF IInv, TypeOK, Calls, Started, Outcome, ThreadState
<1>2. ASSUME NEW i \in Calls PROVE CallInv(i)'
  BY DEF IInv, TypeOK, CallInv, PhaseInv, TrackerOutlivesThreads, Calls, Started
<1>3. PhaseInv'
  BY DEF IInv, TypeOK, CallInv, PhaseInv, TrackerOutlivesThreads, Calls, Started
<1>4. CountInv'
  BY FS_EmptySet DEF IInv, CountInv
<1>. QED
  BY <1>1, <1>2, <1>3, <1>4 DEF IInv

LEMMA TakeInstructionStep ==
    ASSUME IInv, TakeInstruction
    PROVE  IInv'
<1>. USE BoundAssumption DEF TakeInstruction, user, slots, tracker, cancels
<1>1. TypeOK'
  BY DEF IInv, TypeOK, Calls, Started, Outcome, ThreadState
<1>2. ASSUME NEW i \in Calls PROVE CallInv(i)'
  BY DEF IInv, TypeOK, CallInv, PhaseInv, TrackerOutlivesThreads, Calls, Started
<1>3. PhaseInv'
  BY DEF IInv, TypeOK, CallInv, PhaseInv, TrackerOutlivesThreads, Calls, Started
<1>4. CountInv'
  BY FS_EmptySet DEF IInv, CountInv
<1>. QED
  BY <1>1, <1>2, <1>3, <1>4 DEF IInv

LEMMA ResponseWithToolsStep ==
    ASSUME IInv, ResponseWithTools
    PROVE  IInv'
<1>. USE BoundAssumption DEF ResponseWithTools, user, slots, tracker, cancels
<1>1. TypeOK'
  <2>1. /\ rounds' \in 0 .. MaxRounds /\ next' \in 1 .. ToolCount + 1
        /\ completed' \in 0 .. ToolCount
    BY DEF IInv, TypeOK
  <2>2. /\ valid' \subseteq Calls /\ cancelled' \subseteq Calls /\ notified' \subseteq Calls
        /\ result' \in [Calls -> Outcome] /\ writes' \in [Calls -> Nat]
        /\ thread' \in [Calls -> ThreadState]
    BY DEF Outcome, ThreadState
  <2>. QED
    BY <2>1, <2>2 DEF IInv, TypeOK
<1>2. ASSUME NEW i \in Calls PROVE CallInv(i)'
  BY DEF IInv, TypeOK, CallInv, PhaseInv, TrackerOutlivesThreads, Calls, Started
<1>3. PhaseInv'
  BY DEF IInv, TypeOK, CallInv, PhaseInv, TrackerOutlivesThreads, Calls, Started
<1>4. CountInv'
  BY FS_EmptySet DEF IInv, CountInv
<1>. QED
  BY <1>1, <1>2, <1>3, <1>4 DEF IInv

LEMMA ResponseWithoutToolsStep ==
    ASSUME IInv, ResponseWithoutTools
    PROVE  IInv'
<1>. USE BoundAssumption DEF ResponseWithoutTools, user, slots, tracker, cancels
<1>1. TypeOK'
  BY DEF IInv, TypeOK, Calls, Started, Outcome, ThreadState
<1>2. ASSUME NEW i \in Calls PROVE CallInv(i)'
  BY DEF IInv, TypeOK, CallInv, PhaseInv, TrackerOutlivesThreads, Calls, Started
<1>3. PhaseInv'
  BY DEF IInv, TypeOK, CallInv, PhaseInv, TrackerOutlivesThreads, Calls, Started
<1>4. CountInv'
  BY FS_EmptySet DEF IInv, CountInv
<1>. QED
  BY <1>1, <1>2, <1>3, <1>4 DEF IInv

LEMMA NoResponseStep ==
    ASSUME IInv, NoResponse
    PROVE  IInv'
<1>. USE BoundAssumption DEF NoResponse, user, slots, tracker, cancels
<1>1. TypeOK'
  BY DEF IInv, TypeOK, Calls, Started, Outcome, ThreadState
<1>2. ASSUME NEW i \in Calls PROVE CallInv(i)'
  BY DEF IInv, TypeOK, CallInv, PhaseInv, TrackerOutlivesThreads, Calls, Started
<1>3. PhaseInv'
  BY DEF IInv, TypeOK, CallInv, PhaseInv, TrackerOutlivesThreads, Calls, Started
<1>4. CountInv'
  BY FS_EmptySet DEF IInv, CountInv
<1>. QED
  BY <1>1, <1>2, <1>3, <1>4 DEF IInv

LEMMA CancelRestStep ==
    ASSUME IInv, CancelRest
    PROVE  IInv'
<1>. USE BoundAssumption DEF CancelRest, Fill, user, slots, tracker, cancels
<1>1. TypeOK'
  BY DEF IInv, TypeOK, Calls, Started, Outcome, ThreadState
<1>2. ASSUME NEW i \in Calls PROVE CallInv(i)'
  BY DEF IInv, TypeOK, CallInv, PhaseInv, TrackerOutlivesThreads, Calls, Started
<1>3. PhaseInv'
  BY DEF IInv, TypeOK, CallInv, PhaseInv, TrackerOutlivesThreads, Calls, Started
<1>4. CountInv'
  BY FS_EmptySet DEF IInv, CountInv
<1>. QED
  BY <1>1, <1>2, <1>3, <1>4 DEF IInv

LEMMA SkipNamelessStep ==
    ASSUME IInv, SkipNameless
    PROVE  IInv'
<1>. USE BoundAssumption DEF SkipNameless, Fill, user, slots, tracker, cancels
<1>1. TypeOK'
  BY DEF IInv, TypeOK, Calls, Started, Outcome, ThreadState
<1>2. ASSUME NEW i \in Calls PROVE CallInv(i)'
  BY DEF IInv, TypeOK, CallInv, PhaseInv, TrackerOutlivesThreads, Calls, Started
<1>3. PhaseInv'
  BY DEF IInv, TypeOK, CallInv, PhaseInv, TrackerOutlivesThreads, Calls, Started
<1>4. CountInv'
  BY FS_EmptySet DEF IInv, CountInv
<1>. QED
  BY <1>1, <1>2, <1>3, <1>4 DEF IInv

LEMMA LaunchStep ==
    ASSUME IInv, Launch
    PROVE  IInv'
<1>. USE BoundAssumption DEF Launch, user, slots, tracker, cancels
<1>1. TypeOK'
  BY DEF IInv, TypeOK, Calls, Started, Outcome, ThreadState
<1>2. ASSUME NEW i \in Calls PROVE CallInv(i)'
  BY DEF IInv, TypeOK, CallInv, PhaseInv, TrackerOutlivesThreads, Calls, Started
<1>3. PhaseInv'
  BY DEF IInv, TypeOK, CallInv, PhaseInv, TrackerOutlivesThreads, Calls, Started
<1>4. CountInv'
  BY FS_EmptySet DEF IInv, CountInv
<1>. QED
  BY <1>1, <1>2, <1>3, <1>4 DEF IInv

LEMMA LaunchFailsStep ==
    ASSUME IInv, LaunchFails
    PROVE  IInv'
<1>. USE BoundAssumption DEF LaunchFails, Fill, user, slots, tracker, cancels
<1>0. /\ CountInv' /\ notified' = notified \cup {next} /\ notified' \subseteq Calls
      /\ completed' \in 0 .. ToolCount
  BY CountStep DEF IInv, TypeOK, Calls
<1>1. TypeOK'
  <2>1. next' \in 1 .. ToolCount + 1 /\ completed' \in 0 .. ToolCount
    BY <1>0 DEF IInv, TypeOK
  <2>2. /\ cancelled' \subseteq Calls /\ notified' \subseteq Calls
        /\ result' \in [Calls -> Outcome]
    BY <1>0 DEF IInv, TypeOK, Started, Outcome
  <2>3. writes' \in [Calls -> Nat]
    BY DEF IInv, TypeOK
  <2>. QED
    BY <2>1, <2>2, <2>3 DEF IInv, TypeOK
<1>2. ASSUME NEW i \in Calls PROVE CallInv(i)'
  BY <1>0 DEF IInv, TypeOK, CallInv, PhaseInv, TrackerOutlivesThreads, Calls, Started
<1>3. PhaseInv'
  BY <1>0 DEF IInv, TypeOK, CallInv, PhaseInv, TrackerOutlivesThreads, Calls, Started
<1>. QED
  BY <1>0, <1>1, <1>2, <1>3 DEF IInv

LEMMA EndScheduleStep ==
    ASSUME IInv, EndSchedule
    PROVE  IInv'
<1>. USE BoundAssumption DEF EndSchedule, user, slots, tracker, cancels
<1>1. TypeOK'
  BY DEF IInv, TypeOK, Calls, Started, Outcome, ThreadState
<1>2. ASSUME NEW i \in Calls PROVE CallInv(i)'
  BY DEF IInv, TypeOK, CallInv, PhaseInv, TrackerOutlivesThreads, Calls, Started
<1>3. PhaseInv'
  <2>1. ASSUME Started = {}, ~interrupted PROVE notified = valid
    <3>1. notified \subseteq valid
      BY DEF IInv, CallInv, TypeOK
    <3>2. ASSUME NEW i \in valid PROVE i \in notified
      <4>1. i \in Calls /\ thread[i] = "none"
        BY <2>1 DEF IInv, TypeOK, Started
      <4>2. i < next
        BY <4>1 DEF IInv, TypeOK, Calls
      <4>. QED
        BY <2>1, <4>1, <4>2 DEF IInv, CallInv
    <3>. QED
      BY <3>1, <3>2
  <2>2. next = ToolCount + 1
    BY DEF IInv, TypeOK
  <2>3. ASSUME phase' = "join", ~interrupted PROVE notified = valid
    BY <2>1, <2>3
  <2>4. TrackerOutlivesThreads'
    BY DEF IInv, PhaseInv, TrackerOutlivesThreads
  <2>. QED
    BY <2>2, <2>3, <2>4 DEF PhaseInv
<1>4. CountInv'
  BY FS_EmptySet DEF IInv, CountInv
<1>. QED
  BY <1>1, <1>2, <1>3, <1>4 DEF IInv

LEMMA WaitCompletedStep ==
    ASSUME IInv, WaitCompleted
    PROVE  IInv'
<1>. USE BoundAssumption DEF WaitCompleted, user, slots, tracker, cancels
<1>1. TypeOK'
  BY DEF IInv, TypeOK, Calls, Started, Outcome, ThreadState
<1>2. ASSUME NEW i \in Calls PROVE CallInv(i)'
  BY DEF IInv, TypeOK, CallInv, PhaseInv, TrackerOutlivesThreads, Calls, Started
<1>3. PhaseInv'
  <2>1. notified \subseteq valid /\ valid \in SUBSET Calls
    BY DEF IInv, CallInv, TypeOK
  <2>2. Cardinality(notified) = Cardinality(valid)
    <3>1. Cardinality(notified) <= Cardinality(valid)
      BY <2>1, CountBound, FS_Subset
    <3>2. Cardinality(notified) >= Cardinality(valid)
      BY DEF IInv, CountInv, Total
    <3>3. Cardinality(notified) \in Nat /\ Cardinality(valid) \in Nat
      BY <2>1, CountBound
    <3>. QED
      BY <3>1, <3>2, <3>3
  <2>3. notified = valid
    BY <2>1, <2>2, CountBound, FS_Subset
  <2>. QED
    BY <2>3 DEF IInv, PhaseInv, TrackerOutlivesThreads
<1>4. CountInv'
  BY FS_EmptySet DEF IInv, CountInv
<1>. QED
  BY <1>1, <1>2, <1>3, <1>4 DEF IInv

LEMMA WaitInterruptedStep ==
    ASSUME IInv, WaitInterrupted
    PROVE  IInv'
<1>. USE BoundAssumption DEF WaitInterrupted, user, slots, tracker, cancels
<1>1. TypeOK'
  BY DEF IInv, TypeOK, Calls, Started, Outcome, ThreadState
<1>2. ASSUME NEW i \in Calls PROVE CallInv(i)'
  BY DEF IInv, TypeOK, CallInv, PhaseInv, TrackerOutlivesThreads, Calls, Started
<1>3. PhaseInv'
  BY DEF IInv, TypeOK, CallInv, PhaseInv, TrackerOutlivesThreads, Calls, Started
<1>4. CountInv'
  BY FS_EmptySet DEF IInv, CountInv
<1>. QED
  BY <1>1, <1>2, <1>3, <1>4 DEF IInv

LEMMA JoinStep ==
    ASSUME IInv, Join
    PROVE  IInv'
<1>. USE BoundAssumption DEF Join, user, slots, tracker, cancels
<1>1. TypeOK'
  BY DEF IInv, TypeOK, Calls, Started, Outcome, ThreadState
<1>2. ASSUME NEW i \in Calls PROVE CallInv(i)'
  BY DEF IInv, TypeOK, CallInv, PhaseInv, TrackerOutlivesThreads, Calls, Started
<1>3. PhaseInv'
  BY DEF IInv, TypeOK, CallInv, PhaseInv, TrackerOutlivesThreads, Calls, Started
<1>4. CountInv'
  BY FS_EmptySet DEF IInv, CountInv
<1>. QED
  BY <1>1, <1>2, <1>3, <1>4 DEF IInv

LEMMA RecordResultsStep ==
    ASSUME IInv, RecordResults
    PROVE  IInv'
<1>. USE BoundAssumption DEF RecordResults, user, slots, tracker, cancels
<1>1. TypeOK'
  BY DEF IInv, TypeOK, Calls, Started, Outcome, ThreadState
<1>2. ASSUME NEW i \in Calls PROVE CallInv(i)'
  BY DEF IInv, TypeOK, CallInv, PhaseInv, TrackerOutlivesThreads, Calls, Started
<1>3. PhaseInv'
  BY DEF IInv, TypeOK, CallInv, PhaseInv, TrackerOutlivesThreads, Calls, Started
<1>4. CountInv'
  BY FS_EmptySet DEF IInv, CountInv
<1>. QED
  BY <1>1, <1>2, <1>3, <1>4 DEF IInv

LEMMA ToolReturnsStep ==
    ASSUME IInv, NEW k \in Calls, ToolReturns(k)
    PROVE  IInv'
<1>. USE BoundAssumption DEF ToolReturns, Fill, user, slots, tracker, cancels
<1>1. TypeOK'
  BY DEF IInv, TypeOK, Calls, Started, Outcome, ThreadState
<1>2. ASSUME NEW i \in Calls PROVE CallInv(i)'
  BY DEF IInv, TypeOK, CallInv, PhaseInv, TrackerOutlivesThreads, Calls, Started
<1>3. PhaseInv'
  BY DEF IInv, TypeOK, CallInv, PhaseInv, TrackerOutlivesThreads, Calls, Started
<1>4. CountInv'
  BY FS_EmptySet DEF IInv, CountInv
<1>. QED
  BY <1>1, <1>2, <1>3, <1>4 DEF IInv

LEMMA NotifyStep ==
    ASSUME IInv, NEW k \in Calls, Notify(k)
    PROVE  IInv'
<1>. USE BoundAssumption DEF Notify, user, slots, tracker, cancels
<1>0. /\ CountInv' /\ notified' = notified \cup {k} /\ notified' \subseteq Calls
      /\ completed' \in 0 .. ToolCount
  BY CountStep
<1>1. TypeOK'
  BY <1>0 DEF IInv, TypeOK, Calls, Started, Outcome, ThreadState
<1>2. ASSUME NEW i \in Calls PROVE CallInv(i)'
  BY <1>0 DEF IInv, TypeOK, CallInv, PhaseInv, TrackerOutlivesThreads, Calls, Started
<1>3. PhaseInv'
  BY <1>0 DEF IInv, TypeOK, CallInv, PhaseInv, TrackerOutlivesThreads, Calls, Started
<1>. QED
  BY <1>0, <1>1, <1>2, <1>3 DEF IInv

LEMMA CallbackReturnsStep ==
    ASSUME IInv, NEW k \in Calls, CallbackReturns(k)
    PROVE  IInv'
<1>. USE BoundAssumption DEF CallbackReturns, user, slots, tracker, cancels
<1>1. TypeOK'
  BY DEF IInv, TypeOK, Calls, Started, Outcome, ThreadState
<1>2. ASSUME NEW i \in Calls PROVE CallInv(i)'
  BY DEF IInv, TypeOK, CallInv, PhaseInv, TrackerOutlivesThreads, Calls, Started
<1>3. PhaseInv'
  BY DEF IInv, TypeOK, CallInv, PhaseInv, TrackerOutlivesThreads, Calls, Started
<1>4. CountInv'
  BY FS_EmptySet DEF IInv, CountInv
<1>. QED
  BY <1>1, <1>2, <1>3, <1>4 DEF IInv

LEMMA ActOnCancelStep ==
    ASSUME IInv, NEW k \in Calls, ActOnCancel(k)
    PROVE  IInv'
<1>. USE BoundAssumption DEF ActOnCancel, user, slots, tracker, cancels
<1>1. TypeOK'
  BY DEF IInv, TypeOK, Calls, Started, Outcome, ThreadState
<1>2. ASSUME NEW i \in Calls PROVE CallInv(i)'
  BY DEF IInv, TypeOK, CallInv, PhaseInv, TrackerOutlivesThreads, Calls, Started
<1>3. PhaseInv'
  <2>1. phase \notin {"idle", "api", "record"}
    BY DEF IInv, PhaseInv, TrackerOutlivesThreads
  <2>2. TrackerOutlivesThreads'
    BY <2>1 DEF TrackerOutlivesThreads
  <2>. QED
    BY <2>2 DEF IInv, PhaseInv
<1>4. CountInv'
  BY FS_EmptySet DEF IInv, CountInv
<1>. QED
  BY <1>1, <1>2, <1>3, <1>4 DEF IInv

LEMMA BlockOnLogStep ==
    ASSUME IInv, NEW k \in Calls, BlockOnLog(k)
    PROVE  IInv'
<1>. USE BoundAssumption DEF BlockOnLog, user, slots, tracker, cancels
<1>1. TypeOK'
  BY DEF IInv, TypeOK, Calls, Started, Outcome, ThreadState
<1>2. ASSUME NEW i \in Calls PROVE CallInv(i)'
  BY DEF IInv, TypeOK, CallInv, PhaseInv, TrackerOutlivesThreads, Calls, Started
<1>3. PhaseInv'
  <2>1. phase \notin {"idle", "api", "record"}
    BY DEF IInv, PhaseInv, TrackerOutlivesThreads
  <2>2. TrackerOutlivesThreads'
    BY <2>1 DEF BlockOnLog, TrackerOutlivesThreads
  <2>. QED
    BY <2>2 DEF IInv, PhaseInv
<1>4. CountInv'
  BY DEF IInv, CountInv
<1>. QED
  BY <1>1, <1>2, <1>3, <1>4 DEF IInv

LEMMA CleanupStep ==
    ASSUME IInv, NEW k \in Calls, Cleanup(k)
    PROVE  IInv'
<1>. USE BoundAssumption DEF Cleanup, Fill, user, slots, tracker, cancels
<1>1. TypeOK'
  BY DEF IInv, TypeOK, Calls, Started, Outcome, ThreadState
<1>2. ASSUME NEW i \in Calls PROVE CallInv(i)'
  BY DEF IInv, TypeOK, CallInv, PhaseInv, TrackerOutlivesThreads, Calls, Started
<1>3. PhaseInv'
  BY DEF IInv, TypeOK, CallInv, PhaseInv, TrackerOutlivesThreads, Calls, Started
<1>4. CountInv'
  BY FS_EmptySet DEF IInv, CountInv
<1>. QED
  BY <1>1, <1>2, <1>3, <1>4 DEF IInv

LEMMA CleanupNotifyStep ==
    ASSUME IInv, NEW k \in Calls, CleanupNotify(k)
    PROVE  IInv'
<1>. USE BoundAssumption DEF CleanupNotify, user, slots, tracker, cancels
<1>0. /\ CountInv' /\ notified' = notified \cup {k} /\ notified' \subseteq Calls
      /\ completed' \in 0 .. ToolCount
  BY CountStep
<1>1. TypeOK'
  BY <1>0 DEF IInv, TypeOK, Calls, Started, Outcome, ThreadState
<1>2. ASSUME NEW i \in Calls PROVE CallInv(i)'
  BY <1>0 DEF IInv, TypeOK, CallInv, PhaseInv, TrackerOutlivesThreads, Calls, Started
<1>3. PhaseInv'
  BY <1>0 DEF IInv, TypeOK, CallInv, PhaseInv, TrackerOutlivesThreads, Calls, Started
<1>. QED
  BY <1>0, <1>1, <1>2, <1>3 DEF IInv

-----------------------------------------------------------------------------
(* IInv is an inductive invariant of the tool rounds.                          *)
THEOREM Invariance == Spec => []IInv
<1>1. IInv /\ [Next]_vars => IInv'
  <2>. SUFFICES ASSUME IInv, [Next]_vars PROVE IInv'
    OBVIOUS
  <2>1. CASE Main
    BY <2>1, SubmitStep, CtrlCStep DEF Main
  <2>2. CASE Worker
    BY <2>2, TakeInstructionStep, ResponseWithToolsStep, ResponseWithoutToolsStep, NoResponseStep,
       CancelRestStep, SkipNamelessStep, LaunchStep, LaunchFailsStep, EndScheduleStep,
       WaitCompletedStep, WaitInterruptedStep, JoinStep, RecordResultsStep DEF Worker, Schedule
  <2>3. ASSUME NEW i \in Calls, ToolReturns(i) \/ Unwind(i) PROVE IInv'
    BY <2>3, ToolReturnsStep, NotifyStep, CallbackReturnsStep, ActOnCancelStep,
       BlockOnLogStep, CleanupStep, CleanupNotifyStep DEF Unwind
  <2>4. CASE UNCHANGED vars
    BY <2>4 DEF vars, user, slots, tracker, cancels, IInv, TypeOK, CallInv, PhaseInv, CountInv,
                TrackerOutlivesThreads, Calls
  <2>. QED
    BY <2>1, <2>2, <2>3, <2>4 DEF Next
<1>. QED
  BY <1>1, InitInv, PTL DEF Spec

(* The variables keep their types; in particular the tracker never counts more *)
(* completions than there are calls.                                           *)
THEOREM TypeCorrect == Spec => []TypeOK
BY Invariance, PTL DEF IInv

(* process_response records a result for every tool call of the response,      *)
(* whatever failed to start, was interrupted or was cancelled.                 *)
THEOREM AllAnswered == Spec => []EveryCallAnswered
<1>1. IInv => EveryCallAnswered
  <2>. SUFFICES ASSUME IInv, phase = "record", NEW i \in Calls PROVE result[i] # "none"
    BY DEF EveryCallAnswered
  <2>1. i < next
    BY BoundAssumption DEF IInv, PhaseInv, Calls
  <2>2. thread[i] \in {"none", "exited"}
    BY DEF IInv, PhaseInv, TrackerOutlivesThreads
  <2>. QED
    BY <2>1, <2>2 DEF IInv, CallInv
<1>. QED
  BY <1>1, Invariance, PTL

(* The cleanup handler and the tool never both write a call's result slot.     *)
THEOREM WrittenOnce == Spec => []OneResultPerCall
<1>1. IInv => OneResultPerCall
  BY DEF IInv, CallInv, OneResultPerCall
<1>. QED
  BY <1>1, Invariance, PTL

(* No tool thread is left when process_response goes on after its join.        *)
THEOREM NoThreadLeft == Spec => []TrackerOutlivesThreads
<1>1. IInv => TrackerOutlivesThreads
  BY DEF IInv, PhaseInv
<1>. QED
  BY <1>1, Invariance, PTL

(* Each call is counted once, and an uninterrupted wait ends at the full count. *)
THEOREM CountIsExact == Spec => []CountsEachCallOnce
<1>1. IInv => CountsEachCallOnce
  <2>. SUFFICES ASSUME IInv PROVE CountsEachCallOnce
    OBVIOUS
  <2>1. completed = Cardinality(notified) /\ notified \subseteq valid
    BY DEF IInv, CountInv, TypeOK, CallInv
  <2>2. phase = "record" /\ ~interrupted => notified = valid
    BY DEF IInv, PhaseInv
  <2>. QED
    BY <2>1, <2>2 DEF CountsEachCallOnce, Total
<1>. QED
  BY <1>1, Invariance, PTL

(* One result and one notification per call, from the tool or from the handler *)
(* of its cancellation.                                                        *)
THEOREM EachCallOnce == Spec => []AccountedForOnce
BY WrittenOnce, CountIsExact, PTL DEF AccountedForOnce
=============================================================================
