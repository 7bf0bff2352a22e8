---------------------- MODULE AIInstructionQueueProofs ----------------------
(* For every capacity and all finite sets of threads: the AI instruction queue *)
(* loses, repeats and reorders nothing, loses no wakeup, frees each text once, *)
(* and implements the bounded FIFO.                                            *)
EXTENDS AIInstructionQueue, FiniteSetTheorems, TLAPS

-----------------------------------------------------------------------------
(* The index arithmetic of the ring.                                           *)

(* Advancing with % capacity stays in range and is the wrapped successor.      *)
LEMMA AdvanceWraps ==
    ASSUME NEW i \in Index
    PROVE  /\ Advance(i) \in Index
           /\ Advance(i) = Wrap(i + 1)
<1>1. CASE i + 1 < Capacity
  BY <1>1, CapacityAssumption DEF Index, Advance, Wrap
<1>2. CASE i + 1 = Capacity
  BY <1>2, CapacityAssumption DEF Index, Advance, Wrap
<1>. QED BY <1>1, <1>2, CapacityAssumption DEF Index

(* An index plus an offset within one turn wraps to a position of the buffer.  *)
LEMMA WrapInRange ==
    ASSUME NEW i \in Index, NEW k \in 0 .. Capacity
    PROVE  Wrap(i + k) \in Index
BY CapacityAssumption DEF Index, Wrap

(* Offsets counted from the next position are one less.                        *)
LEMMA WrapFromNext ==
    ASSUME NEW i \in Index, NEW k \in 0 .. Capacity - 1
    PROVE  Wrap(Advance(i) + k) = Wrap(i + (k + 1))
BY AdvanceWraps, CapacityAssumption DEF Index, Wrap

(* The wrapped position after offset k is the advanced one.                    *)
LEMMA AdvanceOffset ==
    ASSUME NEW i \in Index, NEW k \in 0 .. Capacity - 1
    PROVE  Advance(Wrap(i + k)) = Wrap(i + (k + 1))
BY WrapInRange, AdvanceWraps, CapacityAssumption DEF Index, Wrap

(* Within one turn different offsets are different positions.                  *)
LEMMA WrapInjective ==
    ASSUME NEW i \in Index, NEW j \in 0 .. Capacity - 1, NEW k \in 0 .. Capacity - 1,
           Wrap(i + j) = Wrap(i + k)
    PROVE  j = k
BY CapacityAssumption DEF Index, Wrap

-----------------------------------------------------------------------------

(* ai_queue_free runs when nobody uses the queue, and nobody starts again.     *)
QuietOnceDestroyed ==
    destroyed => /\ shutdown
                 /\ \A s \in Senders : pc[s] = "idle"
                 /\ \A w \in Workers : pc[w] = "stopped"

IInv == TypeOK /\ LosslessFifo /\ QuietOnceDestroyed

RingInv ==
    /\ slots \in [Index -> Nat]
    /\ head \in Index /\ tail \in Index /\ count \in 0 .. Capacity
    /\ accepted \in Nat /\ taken \in Nat
    /\ LosslessFifo

States == {"idle", "copied", "waiting", "awake", "working", "stopped"}

ThreadInv ==
    /\ shutdown \in BOOLEAN /\ destroyed \in BOOLEAN
    /\ pc \in [Threads -> States]
    /\ texts \in Int /\ calls \in 0 .. MaxInstructions
    /\ QuietOnceDestroyed

LEMMA IInvParts == IInv <=> RingInv /\ ThreadInv
BY DEF IInv, TypeOK, RingInv, ThreadInv, States

LEMMA IInvPartsNext == IInv' <=> RingInv' /\ ThreadInv'
BY DEF IInv, TypeOK, RingInv, ThreadInv, States

(* A step that leaves the ring and its history alone.                          *)
LEMMA RingUnchanged ==
    ASSUME RingInv, UNCHANGED <<ring, accepted, taken>>
    PROVE  RingInv'
BY DEF RingInv, ring, LosslessFifo, Occupied

(* Adding an instruction at head keeps the queue lossless and in order.        *)
LEMMA PutKeepsRing ==
    ASSUME RingInv, count < Capacity, Put, UNCHANGED <<tail, taken>>
    PROVE  RingInv'
<1>. USE CapacityAssumption
<1>1. /\ head' \in Index /\ head' = Advance(head) /\ count' = count + 1 /\ tail' = tail
      /\ count' \in 0 .. Capacity /\ accepted' = accepted + 1 /\ accepted' \in Nat
      /\ taken' = taken /\ count \in 0 .. Capacity - 1
  BY AdvanceWraps DEF RingInv, Put
<1>2. slots' \in [Index -> Nat]
  BY DEF RingInv, Put
<1>3. head = Wrap(tail + count)
  BY DEF RingInv, LosslessFifo
<1>4. head' = Wrap(tail' + count')
  BY <1>1, <1>3, AdvanceOffset DEF RingInv
<1>5. slots'[head] = accepted + 1 /\ \A i \in Index \ {head} : slots'[i] = slots[i]
  BY DEF RingInv, Put
<1>6. accepted' = taken' + count'
  BY <1>1 DEF RingInv, LosslessFifo
<1>7. ASSUME NEW k \in 0 .. count' - 1
      PROVE  slots'[Wrap(tail' + k)] = taken' + k + 1
  <2>1. CASE k = count
    BY <2>1, <1>1, <1>3, <1>5 DEF RingInv, LosslessFifo
  <2>2. CASE k # count
    <3>1. k \in 0 .. count - 1 /\ k \in 0 .. Capacity - 1
      BY <2>2, <1>1 DEF RingInv
    <3>2. Wrap(tail + k) \in Index /\ Wrap(tail + k) # head
      BY <3>1, <2>2, <1>1, <1>3, WrapInRange, WrapInjective DEF RingInv
    <3>. QED BY <3>1, <3>2, <1>1, <1>5 DEF RingInv, LosslessFifo
  <2>. QED BY <2>1, <2>2
<1>8. ASSUME NEW i \in Index, slots'[i] # 0
      PROVE  i \in Occupied(tail', count')
  <2>1. CASE i = head
    BY <2>1, <1>1, <1>3 DEF Occupied, RingInv
  <2>2. CASE i # head
    <3>1. i \in Occupied(tail, count)
      BY <2>2, <1>5, <1>8 DEF RingInv, LosslessFifo
    <3>. QED BY <3>1, <1>1 DEF Occupied, RingInv
  <2>. QED BY <2>1, <2>2
<1>. QED BY <1>1, <1>2, <1>4, <1>6, <1>7, <1>8 DEF RingInv, LosslessFifo

(* Taking the instruction at tail hands out the next one in order.             *)
LEMMA TakeKeepsRing ==
    ASSUME RingInv, count > 0, Take, UNCHANGED <<head, accepted>>
    PROVE  RingInv' /\ taken' = taken + 1
<1>. USE CapacityAssumption
<1>1. /\ tail' = Advance(tail) /\ tail' \in Index /\ count' = count - 1
      /\ count' \in 0 .. Capacity /\ head' = head /\ accepted' = accepted
  BY AdvanceWraps DEF RingInv, Take
<1>2. slots' \in [Index -> Nat]
  BY DEF RingInv, Take
<1>3. tail = Wrap(tail + 0)
  BY DEF RingInv, Index, Wrap
<1>4. taken' = taken + 1
  <2>1. slots[Wrap(tail + 0)] = taken + 0 + 1
    BY DEF RingInv, LosslessFifo
  <2>. QED BY <2>1, <1>3 DEF RingInv, Take
<1>5. \A k \in 0 .. Capacity - 1 : Wrap(tail' + k) = Wrap(tail + (k + 1))
  BY WrapFromNext, <1>1 DEF RingInv
<1>6. head' = Wrap(tail' + count')
  <2>1. count' \in 0 .. Capacity - 1 /\ count' + 1 = count
    BY <1>1 DEF RingInv
  <2>. QED BY <2>1, <1>1, <1>5 DEF RingInv, LosslessFifo
<1>7. slots'[tail] = 0 /\ \A i \in Index \ {tail} : slots'[i] = slots[i]
  BY DEF RingInv, Take
<1>8. accepted' = taken' + count'
  BY <1>1, <1>4 DEF RingInv, LosslessFifo
<1>9. ASSUME NEW k \in 0 .. count' - 1
      PROVE  slots'[Wrap(tail' + k)] = taken' + k + 1
  <2>1. k + 1 \in 0 .. count - 1 /\ k + 1 \in 0 .. Capacity - 1 /\ k \in 0 .. Capacity - 1
    BY <1>1 DEF RingInv
  <2>2. Wrap(tail + (k + 1)) \in Index /\ Wrap(tail + (k + 1)) # tail
    BY <2>1, <1>3, WrapInRange, WrapInjective DEF RingInv
  <2>3. slots[Wrap(tail + (k + 1))] = taken + (k + 1) + 1
    BY <2>1 DEF RingInv, LosslessFifo
  <2>. QED BY <2>1, <2>2, <2>3, <1>4, <1>5, <1>7 DEF RingInv
<1>10. ASSUME NEW i \in Index, slots'[i] # 0
       PROVE  i \in Occupied(tail', count')
  <2>1. i # tail /\ i \in Occupied(tail, count)
    BY <1>7, <1>10 DEF RingInv, LosslessFifo
  <2>2. PICK k \in 0 .. count - 1 : i = Wrap(tail + k)
    BY <2>1 DEF Occupied
  <2>3. k # 0
    BY <2>1, <2>2, <1>3
  <2>4. k - 1 \in 0 .. count' - 1 /\ i = Wrap(tail' + (k - 1))
    BY <2>2, <2>3, <1>1, <1>5 DEF RingInv, Index
  <2>. QED BY <2>4 DEF Occupied
<1>. QED
  BY <1>1, <1>2, <1>4, <1>6, <1>8, <1>9, <1>10 DEF RingInv, LosslessFifo

-----------------------------------------------------------------------------
LEMMA InitHolds == Init => IInv
<1>. SUFFICES ASSUME Init PROVE IInv
  OBVIOUS
<1>1. RingInv
  BY CapacityAssumption DEF Init, RingInv, LosslessFifo, Wrap, Index
<1>2. ThreadInv
  <2>1. pc \in [Threads -> States] /\ 0 \in 0 .. MaxInstructions
    BY ThreadAssumption DEF Init, States
  <2>2. QuietOnceDestroyed
    BY DEF Init, QuietOnceDestroyed
  <2>3. shutdown \in BOOLEAN /\ destroyed \in BOOLEAN
    BY DEF Init
  <2>4. texts \in Int /\ calls \in 0 .. MaxInstructions
    BY <2>1 DEF Init
  <2>. QED BY <2>1, <2>2, <2>3, <2>4 DEF ThreadInv
<1>. QED BY <1>1, <1>2, IInvParts

LEMMA SignalTypes ==
    ASSUME pc \in [Threads -> States], NEW S \in SUBSET Threads, NEW t \in Threads,
           NEW to \in States, Signal(S, t, to)
    PROVE  pc' \in [Threads -> States]
BY DEF Signal, States

(* One step of a sender, of a worker, of any thread, and of the owner.         *)
LEMMA SenderStep ==
    ASSUME IInv, NEW s \in Senders, CopyText(s) \/ Enqueue(s)
    PROVE  IInv'
<1>. USE ThreadAssumption
<1>0. RingInv /\ ThreadInv /\ s \in Threads
  BY IInvParts DEF Threads
<1>1. CASE CopyText(s)
  <2>1. RingInv'
    BY <1>0, <1>1, RingUnchanged DEF CopyText
  <2>2. ThreadInv'
    BY <1>0, <1>1 DEF CopyText, ThreadInv, States, QuietOnceDestroyed, Threads
  <2>. QED BY <2>1, <2>2, IInvPartsNext
<1>2. CASE Enqueue(s) /\ WaitNotFull(s)
  <2>1. RingInv'
    BY <1>0, <1>2, RingUnchanged DEF Enqueue, WaitNotFull
  <2>2. ThreadInv'
    BY <1>0, <1>2 DEF Enqueue, WaitNotFull, ThreadInv, States, QuietOnceDestroyed, Threads
  <2>. QED BY <2>1, <2>2, IInvPartsNext
<1>3. CASE Enqueue(s) /\ Refuse(s)
  <2>1. RingInv'
    BY <1>0, <1>3, RingUnchanged DEF Enqueue, Refuse
  <2>2. ThreadInv'
    BY <1>0, <1>3 DEF Enqueue, Refuse, ThreadInv, States, QuietOnceDestroyed, Threads
  <2>. QED BY <2>1, <2>2, IInvPartsNext
<1>4. CASE Enqueue(s) /\ count < Capacity /\ ~shutdown /\ Put
           /\ Signal(WaitingNotEmpty, s, "idle") /\ UNCHANGED <<tail, texts>>
  <2>1. RingInv'
    BY <1>0, <1>4, PutKeepsRing DEF Enqueue
  <2>2. pc' \in [Threads -> States]
    BY <1>0, <1>4, SignalTypes DEF ThreadInv, WaitingNotEmpty, Threads, States
  <2>3. ThreadInv'
    BY <1>0, <1>4, <2>2 DEF Enqueue, ThreadInv, QuietOnceDestroyed
  <2>. QED BY <2>1, <2>3, IInvPartsNext
<1>. QED BY <1>1, <1>2, <1>3, <1>4 DEF Enqueue

LEMMA WorkerStep ==
    ASSUME IInv, NEW w \in Workers, Dequeue(w) \/ FinishInstruction(w) \/ LeaveLoop(w)
    PROVE  IInv'
<1>. USE ThreadAssumption
<1>0. RingInv /\ ThreadInv /\ w \in Threads
  BY IInvParts DEF Threads
<1>1. CASE Dequeue(w) /\ count > 0
  <2>1. Take /\ Signal(WaitingNotFull, w, "working") /\ UNCHANGED head
    BY <1>1 DEF Dequeue
  <2>2. RingInv'
    BY <1>0, <1>1, <2>1, TakeKeepsRing DEF Dequeue
  <2>3. pc' \in [Threads -> States]
    BY <1>0, <2>1, SignalTypes DEF ThreadInv, WaitingNotFull, Threads, States
  <2>4. ThreadInv'
    BY <1>0, <1>1, <2>3 DEF Dequeue, ThreadInv, QuietOnceDestroyed
  <2>. QED BY <2>2, <2>4, IInvPartsNext
<1>2. CASE Dequeue(w) /\ ~(count > 0)
  <2>1. RingInv'
    BY <1>0, <1>2, RingUnchanged DEF Dequeue
  <2>2. ThreadInv'
    BY <1>0, <1>2 DEF Dequeue, ThreadInv, States, QuietOnceDestroyed, Threads
  <2>. QED BY <2>1, <2>2, IInvPartsNext
<1>3. CASE FinishInstruction(w)
  <2>1. RingInv'
    BY <1>0, <1>3, RingUnchanged DEF FinishInstruction
  <2>2. ThreadInv'
    BY <1>0, <1>3 DEF FinishInstruction, ThreadInv, States, QuietOnceDestroyed, Threads
  <2>. QED BY <2>1, <2>2, IInvPartsNext
<1>4. CASE LeaveLoop(w)
  <2>1. RingInv'
    BY <1>0, <1>4, RingUnchanged DEF LeaveLoop
  <2>2. ThreadInv'
    BY <1>0, <1>4 DEF LeaveLoop, ThreadInv, States, QuietOnceDestroyed, Threads
  <2>. QED BY <2>1, <2>2, IInvPartsNext
<1>. QED BY <1>1, <1>2, <1>3, <1>4

LEMMA OtherStep ==
    ASSUME IInv, (\E t \in Threads : SpuriousWakeup(t)) \/ Shutdown \/ Free
    PROVE  IInv'
<1>. USE ThreadAssumption
<1>0. RingInv /\ ThreadInv
  BY IInvParts
<1>1. ASSUME NEW t \in Threads, SpuriousWakeup(t)
      PROVE  IInv'
  <2>1. RingInv'
    BY <1>0, <1>1, RingUnchanged DEF SpuriousWakeup
  <2>2. ThreadInv'
    BY <1>0, <1>1 DEF SpuriousWakeup, ThreadInv, States, QuietOnceDestroyed, Threads
  <2>. QED BY <2>1, <2>2, IInvPartsNext
<1>2. CASE Shutdown
  <2>1. RingInv'
    BY <1>0, <1>2, RingUnchanged DEF Shutdown
  <2>2. ThreadInv'
    BY <1>0, <1>2 DEF Shutdown, ThreadInv, States, QuietOnceDestroyed, Threads
  <2>. QED BY <2>1, <2>2, IInvPartsNext
<1>3. CASE Free
  <2>1. RingInv'
    BY <1>0, <1>3, RingUnchanged DEF Free
  <2>2. {i \in Index : slots[i] # 0} \in SUBSET (0 .. Capacity - 1)
    BY DEF Index
  <2>3. Cardinality({i \in Index : slots[i] # 0}) \in Nat
    <3>1. IsFiniteSet(0 .. Capacity - 1)
      BY CapacityAssumption, FS_Interval
    <3>. QED BY <3>1, <2>2, FS_Subset, FS_CardinalityType
  <2>4. ThreadInv'
    BY <1>0, <1>3, <2>3 DEF Free, ThreadInv, States, QuietOnceDestroyed, Threads
  <2>. QED BY <2>1, <2>4, IInvPartsNext
<1>. QED BY <1>1, <1>2, <1>3

(* The inductive invariant.                                                    *)
THEOREM Invariance == Spec => []IInv
<1>1. Init => IInv
  BY InitHolds
<1>2. IInv /\ [Next]_vars => IInv'
  <2>. SUFFICES ASSUME IInv, [Next]_vars PROVE IInv'
    OBVIOUS
  <2>1. CASE UNCHANGED vars
    <3>1. RingInv'
      BY <2>1, RingUnchanged, IInvParts DEF vars, ring
    <3>2. ThreadInv'
      BY <2>1, IInvParts DEF vars, ThreadInv, QuietOnceDestroyed
    <3>. QED BY <3>1, <3>2, IInvPartsNext
  <2>2. CASE \E s \in Senders : CopyText(s) \/ Enqueue(s)
    BY <2>2, SenderStep
  <2>3. CASE \E w \in Workers : Dequeue(w) \/ FinishInstruction(w) \/ LeaveLoop(w)
    BY <2>3, WorkerStep
  <2>4. CASE (\E t \in Threads : SpuriousWakeup(t)) \/ Shutdown \/ Free
    BY <2>4, OtherStep
  <2>. QED BY <2>1, <2>2, <2>3, <2>4 DEF Next
<1>. QED BY <1>1, <1>2, PTL DEF Spec

(* Every variable of the queue keeps its type, for every instance.             *)
THEOREM TypeCorrect == Spec => []TypeOK
<1>1. IInv => TypeOK
  BY DEF IInv
<1>. QED BY <1>1, Invariance, PTL

(* The queue holds the accepted instructions that were not taken, in order.    *)
THEOREM NothingLost == Spec => []LosslessFifo
<1>1. IInv => LosslessFifo
  BY DEF IInv
<1>. QED BY <1>1, Invariance, PTL

-----------------------------------------------------------------------------
(* Wakeups. The number of woken threads pays for what they are woken for.      *)
AwakeCount(S) == Cardinality(Awake(S))

(* How a step changes the woken and the waiting threads of one side S: someone *)
(* stops being awake, someone becomes awake, or neither.                       *)
LEMMA AwakeFinite ==
    ASSUME NEW S, IsFiniteSet(S)
    PROVE  IsFiniteSet(Awake(S)) /\ AwakeCount(S) \in Nat
BY FS_Subset, FS_CardinalityType DEF Awake, AwakeCount

LEMMA AwakeFiniteNext ==
    ASSUME NEW S, IsFiniteSet(S)
    PROVE  IsFiniteSet(Awake(S)') /\ AwakeCount(S)' \in Nat
BY FS_Subset, FS_CardinalityType DEF Awake, AwakeCount

(* At most one thread of S stops being awake.                                  *)
LEMMA OneLessAwake ==
    ASSUME NEW S, IsFiniteSet(S), NEW t,
           \A u \in S \ {t} : pc[u] = "awake" => pc'[u] = "awake"
    PROVE  AwakeCount(S)' >= AwakeCount(S) - (IF t \in S /\ pc[t] = "awake" THEN 1 ELSE 0)
<1>1. IsFiniteSet(Awake(S)) /\ IsFiniteSet(Awake(S)')
  BY AwakeFinite, AwakeFiniteNext
<1>2. (Awake(S) \ {t}) \in SUBSET (Awake(S)')
  BY DEF Awake
<1>3. Cardinality(Awake(S) \ {t}) <= AwakeCount(S)'
  BY <1>1, <1>2, FS_Subset DEF AwakeCount
<1>4. Cardinality(Awake(S) \ {t})
        = IF t \in Awake(S) THEN AwakeCount(S) - 1 ELSE AwakeCount(S)
  BY <1>1, FS_RemoveElement DEF AwakeCount
<1>5. t \in Awake(S) <=> t \in S /\ pc[t] = "awake"
  BY DEF Awake
<1>6. AwakeCount(S) \in Nat /\ AwakeCount(S)' \in Nat
  BY AwakeFinite, AwakeFiniteNext
<1>7. CASE t \in Awake(S)
  <2>1. AwakeCount(S) - 1 <= AwakeCount(S)'
    BY <1>3, <1>4, <1>7
  <2>. QED BY <1>5, <1>6, <1>7, <2>1
<1>8. CASE t \notin Awake(S)
  <2>1. AwakeCount(S) <= AwakeCount(S)'
    BY <1>3, <1>4, <1>8
  <2>. QED BY <1>5, <1>6, <1>8, <2>1
<1>. QED BY <1>7, <1>8

(* Nobody of S stops being awake.                                              *)
LEMMA NoLessAwake ==
    ASSUME NEW S, IsFiniteSet(S), \A u \in S : pc[u] = "awake" => pc'[u] = "awake"
    PROVE  AwakeCount(S)' >= AwakeCount(S)
<1>1. Awake(S) \in SUBSET (Awake(S)')
  BY DEF Awake
<1>2. Cardinality(Awake(S)) <= Cardinality(Awake(S)')
  BY <1>1, AwakeFiniteNext, FS_Subset
<1>. QED BY <1>2, AwakeFinite, AwakeFiniteNext DEF AwakeCount

(* A waiting thread of S is woken and nobody of S stops being awake.           *)
LEMMA OneMoreAwake ==
    ASSUME NEW S, IsFiniteSet(S), NEW u \in S, pc[u] # "awake", pc'[u] = "awake",
           \A v \in S : pc[v] = "awake" => pc'[v] = "awake"
    PROVE  AwakeCount(S)' >= AwakeCount(S) + 1
<1>1. IsFiniteSet(Awake(S)) /\ IsFiniteSet(Awake(S)')
  BY AwakeFinite, AwakeFiniteNext
<1>2. (Awake(S) \cup {u}) \in SUBSET (Awake(S)') /\ u \notin Awake(S)
  BY DEF Awake
<1>3. Cardinality(Awake(S) \cup {u}) <= AwakeCount(S)'
  BY <1>1, <1>2, FS_Subset DEF AwakeCount
<1>. QED BY <1>1, <1>2, <1>3, FS_AddElement DEF AwakeCount

WakeupInv == IInv /\ NoLostWakeup

(* A signal to the waiters of side S by a thread of the other side.            *)
LEMMA SignalWakes ==
    ASSUME NEW S, IsFiniteSet(S), NEW t, t \notin S, NEW to,
           pc \in [Threads -> States], t \in Threads, S \subseteq Threads,
           Signal({u \in S : pc[u] = "waiting"}, t, to)
    PROVE  {u \in S : pc'[u] = "waiting"} # {} => AwakeCount(S)' >= AwakeCount(S) + 1
<1>. DEFINE W == {u \in S : pc[u] = "waiting"}
<1>1. CASE W = {}
  <2>1. \A u \in S : pc'[u] = pc[u]
    BY <1>1 DEF Signal
  <2>. QED BY <1>1, <2>1
<1>2. CASE W # {}
  <2>1. PICK u \in W : pc' = [pc EXCEPT ![t] = to, ![u] = "awake"]
    BY <1>2 DEF Signal
  <2>2. pc'[u] = "awake" /\ \A v \in S \ {u} : pc'[v] = pc[v]
    BY <2>1
  <2>. QED BY <2>1, <2>2, OneMoreAwake
<1>. QED BY <1>1, <1>2

(* A thread of the signalling side changes its own state only.                 *)
LEMMA SignalOthers ==
    ASSUME NEW S, NEW R, NEW t \in R, S \cap R = {}, NEW to,
           pc \in [Threads -> States], S \subseteq Threads, R \subseteq Threads,
           Signal({u \in S : pc[u] = "waiting"}, t, to), to # "waiting"
    PROVE  /\ \A u \in R \ {t} : pc'[u] = pc[u]
           /\ pc'[t] # "waiting"
<1>1. CASE {u \in S : pc[u] = "waiting"} = {}
  BY <1>1 DEF Signal
<1>2. CASE {u \in S : pc[u] = "waiting"} # {}
  <2>1. PICK u \in {u \in S : pc[u] = "waiting"} :
            pc' = [pc EXCEPT ![t] = to, ![u] = "awake"]
    BY <1>2 DEF Signal
  <2>. QED BY <2>1
<1>. QED BY <1>1, <1>2

(* Nobody starts to wait or stops being awake: the invariant is kept.          *)
LEMMA QuietStep ==
    ASSUME WakeupInv, UNCHANGED <<count, shutdown>>, TypeOK',
           \A t \in Threads : /\ pc'[t] = "waiting" => pc[t] = "waiting"
                              /\ pc[t] = "awake" => pc'[t] = "awake"
    PROVE  NoLostWakeup'
<1>. USE ThreadAssumption DEF Threads
<1>1. AwakeCount(Senders)' >= AwakeCount(Senders) /\ AwakeCount(Workers)' >= AwakeCount(Workers)
  BY NoLessAwake
<1>2. /\ AwakeCount(Senders) \in Nat /\ AwakeCount(Senders)' \in Nat
      /\ AwakeCount(Workers) \in Nat /\ AwakeCount(Workers)' \in Nat
  BY AwakeFinite, AwakeFiniteNext
<1>3. WaitingNotEmpty' \subseteq WaitingNotEmpty /\ WaitingNotFull' \subseteq WaitingNotFull
  BY DEF WaitingNotEmpty, WaitingNotFull
<1>4. count \in 0 .. Capacity /\ Capacity \in Nat
  BY CapacityAssumption DEF WakeupInv, IInv, TypeOK
<1>. QED
  BY <1>1, <1>2, <1>3, <1>4 DEF WakeupInv, NoLostWakeup, AwakeCount

LEMMA SenderKeepsWakeups ==
    ASSUME WakeupInv, IInv', NEW s \in Senders, CopyText(s) \/ Enqueue(s)
    PROVE  NoLostWakeup'
<1>. USE ThreadAssumption
<1>1. /\ count \in 0 .. Capacity /\ Capacity \in Nat /\ pc \in [Threads -> States]
      /\ s \in Threads /\ s \notin Workers /\ Senders \subseteq Threads /\ Workers \subseteq Threads
  BY CapacityAssumption DEF WakeupInv, IInv, TypeOK, States, Threads
<1>2. /\ AwakeCount(Senders) \in Nat /\ AwakeCount(Senders)' \in Nat
      /\ AwakeCount(Workers) \in Nat /\ AwakeCount(Workers)' \in Nat
  BY AwakeFinite, AwakeFiniteNext
<1>3. CASE CopyText(s)
  <2>1. \A t \in Threads : /\ pc'[t] = "waiting" => pc[t] = "waiting"
                           /\ pc[t] = "awake" => pc'[t] = "awake"
    BY <1>1, <1>3 DEF CopyText
  <2>. QED BY <1>3, <2>1, QuietStep DEF CopyText, ring, IInv
<1>4. CASE Enqueue(s) /\ WaitNotFull(s)
  <2>1. count' = Capacity /\ shutdown' = shutdown /\ ~shutdown /\ count' = count
    BY <1>4 DEF Enqueue, WaitNotFull, ring
  <2>2. \A t \in Workers : pc'[t] = pc[t]
    BY <1>1, <1>4 DEF WaitNotFull
  <2>3. WaitingNotEmpty' = WaitingNotEmpty
    BY <2>2 DEF WaitingNotEmpty
  <2>4. AwakeCount(Workers)' >= AwakeCount(Workers)
    BY <2>2, NoLessAwake
  <2>. QED BY <1>1, <1>2, <2>1, <2>3, <2>4 DEF WakeupInv, NoLostWakeup, AwakeCount
<1>5. CASE Enqueue(s) /\ Refuse(s)
  <2>1. WaitingNotEmpty = {} /\ WaitingNotFull = {}
    BY <1>5 DEF Refuse, WakeupInv, NoLostWakeup
  <2>2. \A t \in Threads : pc'[t] = "waiting" => pc[t] = "waiting"
    BY <1>1, <1>5 DEF Refuse
  <2>3. WaitingNotEmpty' = {} /\ WaitingNotFull' = {}
    BY <1>1, <2>1, <2>2 DEF WaitingNotEmpty, WaitingNotFull
  <2>. QED BY <2>3 DEF NoLostWakeup
<1>6. CASE Enqueue(s) /\ count < Capacity /\ ~shutdown /\ Put
           /\ Signal(WaitingNotEmpty, s, "idle") /\ UNCHANGED <<tail, texts>>
  <2>1. count' = count + 1 /\ shutdown' = shutdown /\ ~shutdown
    BY <1>6 DEF Enqueue, Put
  <2>2. WaitingNotEmpty' # {} => AwakeCount(Workers)' >= AwakeCount(Workers) + 1
    BY <1>1, <1>6, SignalWakes DEF WaitingNotEmpty
  <2>3. WaitingNotEmpty' # {} => WaitingNotEmpty # {}
    BY <1>1, <1>6 DEF Signal, WaitingNotEmpty
  <2>4. (\A t \in Senders \ {s} : pc'[t] = pc[t]) /\ pc'[s] # "waiting"
    BY <1>1, <1>6, SignalOthers DEF WaitingNotEmpty
  <2>5. WaitingNotFull' # {} => WaitingNotFull # {}
    BY <2>4 DEF WaitingNotFull
  <2>6. AwakeCount(Senders)' >= AwakeCount(Senders) - 1
    BY <1>2, <2>4, OneLessAwake
  <2>7. WaitingNotEmpty' # {} => ~shutdown' /\ count' <= AwakeCount(Workers)'
    BY <1>1, <1>2, <2>1, <2>2, <2>3 DEF WakeupInv, NoLostWakeup, AwakeCount
  <2>8. WaitingNotFull' # {} => ~shutdown' /\ Capacity - count' <= AwakeCount(Senders)'
    BY <1>1, <1>2, <2>1, <2>5, <2>6 DEF WakeupInv, NoLostWakeup, AwakeCount
  <2>. QED BY <2>7, <2>8 DEF NoLostWakeup, AwakeCount
<1>. QED BY <1>3, <1>4, <1>5, <1>6 DEF Enqueue

LEMMA WorkerKeepsWakeups ==
    ASSUME WakeupInv, IInv', NEW w \in Workers,
           Dequeue(w) \/ FinishInstruction(w) \/ LeaveLoop(w)
    PROVE  NoLostWakeup'
<1>. USE ThreadAssumption
<1>1. /\ count \in 0 .. Capacity /\ Capacity \in Nat /\ pc \in [Threads -> States]
      /\ w \in Threads /\ w \notin Senders /\ Senders \subseteq Threads /\ Workers \subseteq Threads
  BY CapacityAssumption DEF WakeupInv, IInv, TypeOK, States, Threads
<1>2. /\ AwakeCount(Senders) \in Nat /\ AwakeCount(Senders)' \in Nat
      /\ AwakeCount(Workers) \in Nat /\ AwakeCount(Workers)' \in Nat
  BY AwakeFinite, AwakeFiniteNext
<1>3. CASE FinishInstruction(w)
  <2>1. \A t \in Threads : /\ pc'[t] = "waiting" => pc[t] = "waiting"
                           /\ pc[t] = "awake" => pc'[t] = "awake"
    BY <1>1, <1>3 DEF FinishInstruction
  <2>. QED BY <1>3, <2>1, QuietStep DEF FinishInstruction, ring, IInv
<1>7. CASE LeaveLoop(w)
  <2>1. \A t \in Threads : /\ pc'[t] = "waiting" => pc[t] = "waiting"
                           /\ pc[t] = "awake" => pc'[t] = "awake"
    BY <1>1, <1>7 DEF LeaveLoop
  <2>. QED BY <1>7, <2>1, QuietStep DEF LeaveLoop, ring, IInv
<1>4. CASE Dequeue(w) /\ count = 0 /\ ~shutdown
  <2>1. /\ count' = 0 /\ shutdown' = shutdown /\ ~shutdown
        /\ pc' = [pc EXCEPT ![w] = "waiting"]
    BY <1>4 DEF Dequeue, ring
  <2>2. \A t \in Senders : pc'[t] = pc[t]
    BY <1>1, <2>1
  <2>3. WaitingNotFull' = WaitingNotFull
    BY <2>2 DEF WaitingNotFull
  <2>4. AwakeCount(Senders)' >= AwakeCount(Senders)
    BY <2>2, NoLessAwake
  <2>. QED BY <1>1, <1>2, <1>4, <2>1, <2>3, <2>4 DEF WakeupInv, NoLostWakeup, AwakeCount
<1>5. CASE Dequeue(w) /\ count = 0 /\ shutdown
  <2>1. WaitingNotEmpty = {} /\ WaitingNotFull = {}
    BY <1>5 DEF WakeupInv, NoLostWakeup
  <2>2. \A t \in Threads : pc'[t] = "waiting" => pc[t] = "waiting"
    BY <1>1, <1>5 DEF Dequeue
  <2>3. WaitingNotEmpty' = {} /\ WaitingNotFull' = {}
    BY <1>1, <2>1, <2>2 DEF WaitingNotEmpty, WaitingNotFull
  <2>. QED BY <2>3 DEF NoLostWakeup
<1>6. CASE Dequeue(w) /\ count > 0
  <2>0. Take /\ Signal(WaitingNotFull, w, "working") /\ shutdown' = shutdown
    BY <1>6 DEF Dequeue
  <2>1. count' = count - 1
    BY <2>0 DEF Take
  <2>2. WaitingNotFull' # {} => AwakeCount(Senders)' >= AwakeCount(Senders) + 1
    BY <1>1, <2>0, SignalWakes DEF WaitingNotFull
  <2>3. WaitingNotFull' # {} => WaitingNotFull # {}
    BY <1>1, <2>0 DEF Signal, WaitingNotFull
  <2>4. (\A t \in Workers \ {w} : pc'[t] = pc[t]) /\ pc'[w] # "waiting"
    <3>1. CASE WaitingNotFull = {}
      BY <1>1, <2>0, <3>1 DEF Signal
    <3>2. CASE WaitingNotFull # {}
      <4>1. PICK u \in WaitingNotFull : pc' = [pc EXCEPT ![w] = "working", ![u] = "awake"]
        BY <2>0, <3>2 DEF Signal
      <4>2. u \in Senders /\ u \notin Workers
        BY <4>1 DEF WaitingNotFull
      <4>. QED BY <1>1, <4>1, <4>2
    <3>. QED BY <3>1, <3>2
  <2>5. WaitingNotEmpty' # {} => WaitingNotEmpty # {}
    BY <2>4 DEF WaitingNotEmpty
  <2>6. AwakeCount(Workers)' >= AwakeCount(Workers) - 1
    BY <1>2, <2>4, OneLessAwake
  <2>7. WaitingNotEmpty' # {} => ~shutdown' /\ count' <= AwakeCount(Workers)'
    BY <1>1, <1>2, <2>0, <2>1, <2>5, <2>6 DEF WakeupInv, NoLostWakeup, AwakeCount
  <2>8. WaitingNotFull' # {} => ~shutdown' /\ Capacity - count' <= AwakeCount(Senders)'
    BY <1>1, <1>2, <2>0, <2>1, <2>2, <2>3 DEF WakeupInv, NoLostWakeup, AwakeCount
  <2>. QED BY <2>7, <2>8 DEF NoLostWakeup, AwakeCount
<1>. QED BY <1>1, <1>3, <1>4, <1>5, <1>6, <1>7

LEMMA OtherKeepsWakeups ==
    ASSUME WakeupInv, IInv', (\E t \in Threads : SpuriousWakeup(t)) \/ Shutdown \/ Free
    PROVE  NoLostWakeup'
<1>1. pc \in [Threads -> States]
  BY DEF WakeupInv, IInv, TypeOK, States
<1>2. ASSUME NEW t \in Threads, SpuriousWakeup(t)
      PROVE  NoLostWakeup'
  <2>1. \A u \in Threads : /\ pc'[u] = "waiting" => pc[u] = "waiting"
                           /\ pc[u] = "awake" => pc'[u] = "awake"
    BY <1>1, <1>2 DEF SpuriousWakeup
  <2>. QED BY <1>2, <2>1, QuietStep DEF SpuriousWakeup, ring, IInv
<1>3. CASE Shutdown
  <2>1. \A t \in Threads : pc'[t] # "waiting"
    BY <1>1, <1>3 DEF Shutdown
  <2>2. WaitingNotEmpty' = {} /\ WaitingNotFull' = {}
    BY <2>1 DEF WaitingNotEmpty, WaitingNotFull, Threads
  <2>. QED BY <2>2 DEF NoLostWakeup
<1>4. CASE Free
  BY <1>4, QuietStep DEF Free, ring, IInv
<1>. QED BY <1>2, <1>3, <1>4

(* No wakeup is lost, whatever the number of threads: as long as a thread      *)
(* waits, enough others were woken for everything it could have been woken for.*)
THEOREM NoWakeupLost == Spec => []NoLostWakeup
<1>1. Init => NoLostWakeup
  BY DEF Init, NoLostWakeup, WaitingNotEmpty, WaitingNotFull, Threads
<1>2. IInv /\ IInv' /\ NoLostWakeup /\ [Next]_vars => NoLostWakeup'
  <2>. SUFFICES ASSUME IInv, IInv', NoLostWakeup, [Next]_vars PROVE NoLostWakeup'
    OBVIOUS
  <2>0. WakeupInv
    BY DEF WakeupInv
  <2>1. CASE UNCHANGED vars
    BY <2>0, <2>1, QuietStep DEF vars, IInv
  <2>2. CASE \E s \in Senders : CopyText(s) \/ Enqueue(s)
    BY <2>0, <2>2, SenderKeepsWakeups
  <2>3. CASE \E w \in Workers : Dequeue(w) \/ FinishInstruction(w) \/ LeaveLoop(w)
    BY <2>0, <2>3, WorkerKeepsWakeups
  <2>4. CASE (\E t \in Threads : SpuriousWakeup(t)) \/ Shutdown \/ Free
    BY <2>0, <2>4, OtherKeepsWakeups
  <2>. QED BY <2>1, <2>2, <2>3, <2>4 DEF Next
<1>. QED BY <1>1, <1>2, Invariance, PTL DEF Spec

-----------------------------------------------------------------------------
(* Texts. Each allocated text is held by a sender inside its call, by a worker *)
(* that handles it, or by a position of the queue.                             *)
Holding == {s \in Senders : pc[s] \in {"copied", "waiting", "awake"}}
Working == {w \in Workers : pc[w] = "working"}
Filled  == {i \in Index : slots[i] # 0}

TextsByOwner ==
    texts = Cardinality(Holding) + Cardinality(Working)
            + (IF destroyed THEN 0 ELSE Cardinality(Filled))

LEMMA OwnersFinite ==
    /\ IsFiniteSet(Holding) /\ IsFiniteSet(Working) /\ IsFiniteSet(Filled)
    /\ Cardinality(Holding) \in Nat /\ Cardinality(Working) \in Nat
    /\ Cardinality(Filled) \in Nat
<1>1. Holding \in SUBSET Senders /\ Working \in SUBSET Workers /\ Filled \in SUBSET Index
  BY DEF Holding, Working, Filled
<1>2. IsFiniteSet(Index)
  BY CapacityAssumption, FS_Interval DEF Index
<1>. QED BY <1>1, <1>2, ThreadAssumption, FS_Subset, FS_CardinalityType

LEMMA OneAdded ==
    ASSUME NEW S, IsFiniteSet(S), NEW x, x \notin S
    PROVE  Cardinality(S \cup {x}) = Cardinality(S) + 1
BY FS_AddElement

LEMMA OneRemoved ==
    ASSUME NEW S, IsFiniteSet(S), NEW x \in S
    PROVE  Cardinality(S \ {x}) = Cardinality(S) - 1
BY FS_RemoveElement

(* A signal changes what nobody holds: it wakes a thread that waited.          *)
LEMMA SignalKeepsOthers ==
    ASSUME pc \in [Threads -> States], NEW W \in SUBSET Threads, NEW t \in Threads \ W,
           \A u \in W : pc[u] = "waiting", NEW to, Signal(W, t, to)
    PROVE  /\ pc'[t] = to
           /\ \A u \in Threads \ {t} : \/ pc'[u] = pc[u]
                                       \/ pc[u] = "waiting" /\ pc'[u] = "awake"
<1>1. CASE W = {}
  BY <1>1 DEF Signal
<1>2. CASE W # {}
  <2>1. PICK u \in W : pc' = [pc EXCEPT ![t] = to, ![u] = "awake"]
    BY <1>2 DEF Signal
  <2>. QED BY <2>1
<1>. QED BY <1>1, <1>2

(* A thread that keeps its state, or is woken, holds what it held.             *)
LEMMA OthersHoldTheSame ==
    ASSUME NEW t \in Threads,
           \A u \in Threads \ {t} : \/ pc'[u] = pc[u]
                                    \/ pc[u] = "waiting" /\ pc'[u] = "awake"
    PROVE  Holding' \ {t} = Holding \ {t} /\ Working' \ {t} = Working \ {t}
BY DEF Holding, Working, Threads

LEMMA PutFills ==
    ASSUME RingInv, count < Capacity, Put
    PROVE  Filled' = Filled \cup {head} /\ head \notin Filled
<1>. USE CapacityAssumption
<1>1. head = Wrap(tail + count) /\ head \in Index /\ count \in 0 .. Capacity - 1
  BY DEF RingInv, LosslessFifo
<1>2. head \notin Occupied(tail, count)
  <2>. SUFFICES ASSUME NEW k \in 0 .. count - 1, head = Wrap(tail + k) PROVE FALSE
    BY DEF Occupied
  <2>1. k \in 0 .. Capacity - 1 /\ k # count
    BY <1>1
  <2>. QED BY <2>1, <1>1, WrapInjective DEF RingInv
<1>3. head \notin Filled
  BY <1>1, <1>2 DEF Filled, RingInv, LosslessFifo
<1>4. slots' = [slots EXCEPT ![head] = accepted + 1] /\ accepted + 1 # 0
  BY DEF Put, RingInv
<1>. QED BY <1>1, <1>3, <1>4 DEF Filled, RingInv

LEMMA TakeEmpties ==
    ASSUME RingInv, count > 0, Take
    PROVE  Filled' = Filled \ {tail} /\ tail \in Filled
<1>. USE CapacityAssumption
<1>1. tail \in Index /\ tail = Wrap(tail + 0) /\ 0 \in 0 .. count - 1 /\ taken \in Nat
  BY DEF RingInv, Index, Wrap
<1>2. slots[tail] = taken + 0 + 1
  BY <1>1 DEF RingInv, LosslessFifo
<1>3. slots' = [slots EXCEPT ![tail] = 0]
  BY DEF Take
<1>. QED BY <1>1, <1>2, <1>3 DEF Filled, RingInv

LEMMA SenderKeepsTexts ==
    ASSUME IInv, TextsByOwner, NEW s \in Senders, CopyText(s) \/ Enqueue(s)
    PROVE  TextsByOwner'
<1>1. /\ RingInv /\ ThreadInv /\ pc \in [Threads -> States] /\ s \in Threads /\ s \notin Workers
      /\ s \notin Working /\ s \notin Working'
  BY IInvParts, ThreadAssumption DEF ThreadInv, Threads, Working
<1>2. texts \in Int
  BY <1>1 DEF ThreadInv
<1>3. CASE CopyText(s)
  <2>1. pc' = [pc EXCEPT ![s] = "copied"] /\ texts' = texts + 1 /\ UNCHANGED <<slots, destroyed>>
    BY <1>3 DEF CopyText, ring
  <2>2. s \notin Holding /\ s \in Holding'
    BY <1>1, <1>3, <2>1 DEF CopyText, Holding
  <2>3. Holding' = Holding \cup {s} /\ Working' = Working
    BY <1>1, <2>1, <2>2, OthersHoldTheSame
  <2>4. Cardinality(Holding') = Cardinality(Holding) + 1
    BY <2>2, <2>3, OneAdded, OwnersFinite
  <2>5. Filled' = Filled
    BY <2>1 DEF Filled
  <2>. QED BY <1>2, <2>1, <2>3, <2>4, <2>5, OwnersFinite DEF TextsByOwner
<1>4. CASE Enqueue(s) /\ WaitNotFull(s)
  <2>1. pc' = [pc EXCEPT ![s] = "waiting"] /\ texts' = texts /\ UNCHANGED <<slots, destroyed>>
    BY <1>4 DEF Enqueue, WaitNotFull, ring
  <2>2. s \in Holding /\ s \in Holding'
    BY <1>1, <1>4, <2>1 DEF Enqueue, Holding
  <2>3. Holding' = Holding /\ Working' = Working
    BY <1>1, <2>1, <2>2, OthersHoldTheSame
  <2>5. Filled' = Filled
    BY <2>1 DEF Filled
  <2>. QED BY <2>1, <2>3, <2>5 DEF TextsByOwner
<1>5. CASE Enqueue(s) /\ Refuse(s)
  <2>1. pc' = [pc EXCEPT ![s] = "idle"] /\ texts' = texts - 1 /\ UNCHANGED <<slots, destroyed>>
    BY <1>5 DEF Enqueue, Refuse, ring
  <2>2. s \in Holding /\ s \notin Holding'
    BY <1>1, <1>5, <2>1 DEF Enqueue, Holding
  <2>3. Holding' = Holding \ {s} /\ Working' = Working
    <3>1. Holding' \ {s} = Holding \ {s} /\ Working' \ {s} = Working \ {s}
      BY <1>1, <2>1, OthersHoldTheSame
    <3>. QED BY <1>1, <2>2, <3>1
  <2>4. Cardinality(Holding') = Cardinality(Holding) - 1
    BY <2>2, <2>3, OneRemoved, OwnersFinite
  <2>5. Filled' = Filled
    BY <2>1 DEF Filled
  <2>. QED BY <1>2, <2>1, <2>3, <2>4, <2>5, OwnersFinite DEF TextsByOwner
<1>6. CASE Enqueue(s) /\ count < Capacity /\ ~shutdown /\ Put
           /\ Signal(WaitingNotEmpty, s, "idle") /\ UNCHANGED <<tail, texts>>
  <2>0. Workers \in SUBSET Threads /\ s \notin Workers
    BY <1>1 DEF Threads
  <2>1. /\ pc'[s] = "idle"
        /\ \A u \in Threads \ {s} : \/ pc'[u] = pc[u]
                                    \/ pc[u] = "waiting" /\ pc'[u] = "awake"
    <3>1. /\ WaitingNotEmpty \in SUBSET Threads /\ s \in Threads \ WaitingNotEmpty
          /\ \A u \in WaitingNotEmpty : pc[u] = "waiting"
      BY <1>1, <2>0 DEF WaitingNotEmpty
    <3>. QED BY <1>1, <1>6, <3>1, SignalKeepsOthers
  <2>2. s \in Holding /\ s \notin Holding'
    BY <1>1, <1>6, <2>1 DEF Enqueue, Holding
  <2>3. Holding' = Holding \ {s} /\ Working' = Working
    <3>1. Holding' \ {s} = Holding \ {s} /\ Working' \ {s} = Working \ {s}
      BY <1>1, <2>1, OthersHoldTheSame
    <3>. QED BY <1>1, <2>2, <3>1
  <2>4. Cardinality(Holding') = Cardinality(Holding) - 1
    BY <2>2, <2>3, OneRemoved, OwnersFinite
  <2>5. Cardinality(Filled') = Cardinality(Filled) + 1
    BY <1>1, <1>6, PutFills, OneAdded, OwnersFinite
  <2>6. ~destroyed /\ ~destroyed' /\ texts' = texts
    BY <1>1, <1>6 DEF Enqueue, ThreadInv, QuietOnceDestroyed
  <2>. QED BY <1>2, <2>3, <2>4, <2>5, <2>6, OwnersFinite DEF TextsByOwner
<1>. QED BY <1>3, <1>4, <1>5, <1>6 DEF Enqueue

LEMMA WorkerKeepsTexts ==
    ASSUME IInv, TextsByOwner, NEW w \in Workers,
           Dequeue(w) \/ FinishInstruction(w) \/ LeaveLoop(w)
    PROVE  TextsByOwner'
<1>1. /\ RingInv /\ ThreadInv /\ pc \in [Threads -> States] /\ w \in Threads /\ w \notin Senders
      /\ w \notin Holding /\ w \notin Holding'
  BY IInvParts, ThreadAssumption DEF ThreadInv, Threads, Holding
<1>2. texts \in Int
  BY <1>1 DEF ThreadInv
<1>3. CASE Dequeue(w) /\ count > 0
  <2>0. /\ Take /\ Signal(WaitingNotFull, w, "working") /\ texts' = texts
        /\ Senders \in SUBSET Threads /\ destroyed' = destroyed
    BY <1>3 DEF Dequeue, Threads
  <2>1. /\ pc'[w] = "working"
        /\ \A u \in Threads \ {w} : \/ pc'[u] = pc[u]
                                    \/ pc[u] = "waiting" /\ pc'[u] = "awake"
    <3>1. /\ WaitingNotFull \in SUBSET Threads /\ w \in Threads \ WaitingNotFull
          /\ \A u \in WaitingNotFull : pc[u] = "waiting"
      BY <1>1, <2>0 DEF WaitingNotFull
    <3>. QED BY <1>1, <2>0, <3>1, SignalKeepsOthers
  <2>2. w \notin Working /\ w \in Working'
    BY <1>1, <1>3, <2>1 DEF Dequeue, Working
  <2>3. Working' = Working \cup {w} /\ Holding' = Holding
    BY <1>1, <2>1, <2>2, OthersHoldTheSame
  <2>4. Cardinality(Working') = Cardinality(Working) + 1
    BY <2>2, <2>3, OneAdded, OwnersFinite
  <2>5. Cardinality(Filled') = Cardinality(Filled) - 1
    BY <1>1, <1>3, <2>0, TakeEmpties, OneRemoved, OwnersFinite
  <2>6. ~destroyed
    BY <1>1, <1>3 DEF Dequeue, ThreadInv, QuietOnceDestroyed
  <2>. QED BY <1>2, <2>0, <2>3, <2>4, <2>5, <2>6, OwnersFinite DEF TextsByOwner
<1>4. CASE FinishInstruction(w)
  <2>1. pc' = [pc EXCEPT ![w] = "idle"] /\ texts' = texts - 1 /\ UNCHANGED <<slots, destroyed>>
    BY <1>4 DEF FinishInstruction, ring
  <2>2. w \in Working /\ w \notin Working'
    BY <1>1, <1>4, <2>1 DEF FinishInstruction, Working
  <2>3. Working' = Working \ {w} /\ Holding' = Holding
    <3>1. Holding' \ {w} = Holding \ {w} /\ Working' \ {w} = Working \ {w}
      BY <1>1, <2>1, OthersHoldTheSame
    <3>. QED BY <1>1, <2>2, <3>1
  <2>4. Cardinality(Working') = Cardinality(Working) - 1
    BY <2>2, <2>3, OneRemoved, OwnersFinite
  <2>5. Filled' = Filled
    BY <2>1 DEF Filled
  <2>. QED BY <1>2, <2>1, <2>3, <2>4, <2>5, OwnersFinite DEF TextsByOwner
<1>5. CASE LeaveLoop(w) \/ (Dequeue(w) /\ ~(count > 0))
  <2>1. /\ pc' = [pc EXCEPT ![w] = pc'[w]] /\ pc'[w] # "working" /\ pc[w] # "working"
        /\ texts' = texts /\ UNCHANGED <<slots, destroyed>>
    BY <1>1, <1>5 DEF LeaveLoop, Dequeue, ring
  <2>2. w \notin Working /\ w \notin Working'
    BY <2>1 DEF Working
  <2>3. Working' = Working /\ Holding' = Holding
    BY <1>1, <2>1, <2>2, OthersHoldTheSame
  <2>5. Filled' = Filled
    BY <2>1 DEF Filled
  <2>. QED BY <2>1, <2>3, <2>5 DEF TextsByOwner
<1>. QED BY <1>3, <1>4, <1>5

LEMMA OtherKeepsTexts ==
    ASSUME IInv, TextsByOwner,
           (\E t \in Threads : SpuriousWakeup(t)) \/ Shutdown \/ Free \/ UNCHANGED vars
    PROVE  TextsByOwner'
<1>1. pc \in [Threads -> States] /\ texts \in Int
  BY IInvParts DEF ThreadInv
<1>2. CASE (\E t \in Threads : SpuriousWakeup(t)) \/ Shutdown \/ UNCHANGED vars
  <2>1. \A u \in Threads : \/ pc'[u] = pc[u]
                           \/ pc[u] = "waiting" /\ pc'[u] = "awake"
    BY <1>1, <1>2 DEF SpuriousWakeup, Shutdown, vars
  <2>2. Holding' = Holding /\ Working' = Working
    BY <2>1 DEF Holding, Working, Threads
  <2>3. UNCHANGED <<slots, texts, destroyed>>
    BY <1>2 DEF SpuriousWakeup, Shutdown, vars, ring
  <2>4. Filled' = Filled
    BY <2>3 DEF Filled
  <2>. QED BY <2>2, <2>3, <2>4 DEF TextsByOwner
<1>3. CASE Free
  <2>1. /\ ~destroyed /\ destroyed' /\ pc' = pc
        /\ texts' = texts - Cardinality({i \in Index : slots[i] # 0})
    BY <1>3 DEF Free
  <2>2. Holding' = Holding /\ Working' = Working
    BY <2>1 DEF Holding, Working
  <2>3. texts' = texts - Cardinality(Filled)
    BY <2>1 DEF Filled
  <2>. QED BY <1>1, <2>1, <2>2, <2>3, OwnersFinite DEF TextsByOwner
<1>. QED BY <1>2, <1>3

(* Every text that was copied is freed once, by the worker, by a refused call  *)
(* or by ai_queue_free, for any capacity and any threads.                      *)
THEOREM NoTextLost == Spec => []TextsBalanced
<1>1. Init => TextsByOwner
  <2>. SUFFICES ASSUME Init PROVE TextsByOwner
    OBVIOUS
  <2>1. Holding = {} /\ Working = {} /\ Filled = {} /\ texts = 0
    BY DEF Init, Holding, Working, Filled, Threads
  <2>. QED BY <2>1, FS_EmptySet DEF TextsByOwner
<1>2. IInv /\ TextsByOwner /\ [Next]_vars => TextsByOwner'
  <2>. SUFFICES ASSUME IInv, TextsByOwner, [Next]_vars PROVE TextsByOwner'
    OBVIOUS
  <2>2. CASE \E s \in Senders : CopyText(s) \/ Enqueue(s)
    BY <2>2, SenderKeepsTexts
  <2>3. CASE \E w \in Workers : Dequeue(w) \/ FinishInstruction(w) \/ LeaveLoop(w)
    BY <2>3, WorkerKeepsTexts
  <2>4. CASE (\E t \in Threads : SpuriousWakeup(t)) \/ Shutdown \/ Free \/ UNCHANGED vars
    BY <2>4, OtherKeepsTexts
  <2>. QED BY <2>2, <2>3, <2>4 DEF Next
<1>3. TextsByOwner => TextsBalanced
  BY DEF TextsByOwner, TextsBalanced, Holding, Working, Filled
<1>. QED BY <1>1, <1>2, <1>3, Invariance, PTL DEF Spec

-----------------------------------------------------------------------------
(* Refinement: the queued instructions are the numbers after `taken`.          *)
LEMMA OffsetOfPlace ==
    ASSUME NEW n \in Nat, NEW k \in 1 .. n
    PROVE  k - 1 \in 0 .. n - 1
OBVIOUS

LEMMA QueuedInOrder ==
    ASSUME RingInv, ~destroyed
    PROVE  QueuedInstructions = [k \in 1 .. count |-> taken + k]
<1>. SUFFICES ASSUME NEW k \in 1 .. count
              PROVE  slots[Wrap(tail + k - 1)] = taken + k
  BY DEF QueuedInstructions, Contents
<1>1. count \in Nat /\ tail \in Nat /\ taken \in Nat
  BY CapacityAssumption DEF RingInv, Index
<1>2. k - 1 \in 0 .. count - 1 /\ tail + (k - 1) = tail + k - 1
  BY <1>1, OffsetOfPlace
<1>3. slots[Wrap(tail + (k - 1))] = taken + (k - 1) + 1
  BY <1>2 DEF RingInv, LosslessFifo
<1>. QED BY <1>1, <1>2, <1>3

LEMMA QueuedInOrderNext ==
    ASSUME RingInv', ~destroyed'
    PROVE  QueuedInstructions' = [k \in 1 .. count' |-> taken' + k]
<1>. SUFFICES ASSUME NEW k \in 1 .. count'
              PROVE  slots'[Wrap(tail' + k - 1)] = taken' + k
  BY DEF QueuedInstructions, Contents
<1>1. count' \in Nat /\ tail' \in Nat /\ taken' \in Nat
  BY CapacityAssumption DEF RingInv, Index
<1>2. k - 1 \in 0 .. count' - 1 /\ tail' + (k - 1) = tail' + k - 1
  BY <1>1, OffsetOfPlace
<1>3. slots'[Wrap(tail' + (k - 1))] = taken' + (k - 1) + 1
  BY <1>2 DEF RingInv, LosslessFifo
<1>. QED BY <1>1, <1>2, <1>3

LEMMA PutIsEnqueue ==
    ASSUME IInv, IInv', Put, count < Capacity, ~destroyed, ~destroyed', ~shutdown,
           UNCHANGED <<taken, shutdown>>
    PROVE  Abstract!Enqueue
<1>. DEFINE q == [k \in 1 .. count |-> taken + k]
<1>1. QueuedInstructions = q
  BY QueuedInOrder, IInvParts
<1>2. /\ count \in Nat /\ taken \in Nat /\ accepted = taken + count
      /\ count' = count + 1 /\ accepted' = accepted + 1 /\ taken' = taken
  BY CapacityAssumption DEF IInv, TypeOK, LosslessFifo, Put
<1>3. QueuedInstructions' = [k \in 1 .. count + 1 |-> taken + k]
  BY <1>2, QueuedInOrderNext, IInvPartsNext
<1>4. q \in Seq(Nat) /\ Len(q) = count
  BY <1>2
<1>5. Append(q, accepted + 1) = [k \in 1 .. count + 1 |-> taken + k]
  BY <1>2, <1>4
<1>. QED BY <1>1, <1>2, <1>3, <1>4, <1>5 DEF Abstract!Enqueue

LEMMA TakeIsDequeue ==
    ASSUME IInv, IInv', Take, count > 0, ~destroyed, ~destroyed',
           UNCHANGED <<head, accepted, shutdown>>
    PROVE  Abstract!Dequeue
<1>. DEFINE q == [k \in 1 .. count |-> taken + k]
<1>1. QueuedInstructions = q
  BY QueuedInOrder, IInvParts
<1>2. count \in Nat /\ taken \in Nat /\ count' = count - 1 /\ taken' = taken + 1
  BY TakeKeepsRing, IInvParts, CapacityAssumption DEF RingInv, Take
<1>3. QueuedInstructions' = [k \in 1 .. count - 1 |-> taken + 1 + k]
  BY <1>2, QueuedInOrderNext, IInvPartsNext
<1>4. q \in Seq(Nat) /\ Len(q) = count /\ q # <<>> /\ Head(q) = taken + 1
  BY <1>2
<1>5. Tail(q) = [k \in 1 .. count - 1 |-> taken + 1 + k]
  BY <1>2, <1>4
<1>. QED BY <1>1, <1>2, <1>3, <1>4, <1>5 DEF Abstract!Dequeue

LEMMA RingUnchangedStutters ==
    ASSUME UNCHANGED <<ring, accepted, taken, shutdown, destroyed>>
    PROVE  UNCHANGED Abstract!vars
BY DEF ring, Abstract!vars, QueuedInstructions, Contents

LEMMA StepRefines ==
    ASSUME IInv, IInv', [Next]_vars
    PROVE  [Abstract!Next]_(Abstract!vars)
<1>1. ASSUME NEW s \in Senders, CopyText(s)
      PROVE  UNCHANGED Abstract!vars
  BY <1>1, RingUnchangedStutters DEF CopyText
<1>11. ASSUME NEW s \in Senders, Enqueue(s), WaitNotFull(s) \/ Refuse(s)
       PROVE  UNCHANGED Abstract!vars
  BY <1>11, RingUnchangedStutters DEF Enqueue, WaitNotFull, Refuse
<1>2. ASSUME NEW s \in Senders, Enqueue(s), ~(WaitNotFull(s) \/ Refuse(s))
      PROVE  Abstract!Enqueue
  <2>1. /\ Put /\ count < Capacity /\ ~shutdown /\ UNCHANGED <<taken, shutdown, destroyed>>
    BY <1>2 DEF Enqueue
  <2>2. ~destroyed
    BY <1>2 DEF Enqueue, IInv, QuietOnceDestroyed
  <2>. QED BY <2>1, <2>2, PutIsEnqueue
<1>3. ASSUME NEW w \in Workers, Dequeue(w), count > 0
      PROVE  Abstract!Dequeue
  <2>1. Take /\ UNCHANGED <<head, accepted, shutdown, destroyed>>
    BY <1>3 DEF Dequeue
  <2>2. ~destroyed
    BY <1>3 DEF Dequeue, IInv, QuietOnceDestroyed
  <2>. QED BY <1>3, <2>1, <2>2, TakeIsDequeue
<1>4. ASSUME NEW w \in Workers, \/ Dequeue(w) /\ ~(count > 0)
                               \/ FinishInstruction(w) \/ LeaveLoop(w)
      PROVE  [Abstract!Next]_(Abstract!vars)
  <2>1. UNCHANGED <<ring, accepted, taken, shutdown, destroyed>>
    BY <1>4 DEF Dequeue, FinishInstruction, LeaveLoop
  <2>. QED BY <2>1, RingUnchangedStutters
<1>5. ASSUME NEW t \in Threads, SpuriousWakeup(t)
      PROVE  [Abstract!Next]_(Abstract!vars)
  BY <1>5, RingUnchangedStutters DEF SpuriousWakeup
<1>6. CASE Shutdown
  BY <1>6 DEF Shutdown, ring, QueuedInstructions, Contents, Abstract!Next, Abstract!Close
<1>7. CASE Free
  BY <1>7 DEF Free, QueuedInstructions, Abstract!Next, Abstract!Discard
<1>8. CASE UNCHANGED vars
  BY <1>8, RingUnchangedStutters DEF vars, ring
<1>9. ASSUME NEW s \in Senders, CopyText(s) \/ Enqueue(s)
      PROVE  [Abstract!Next]_(Abstract!vars)
  <2>1. CASE CopyText(s)
    BY <1>1, <2>1
  <2>3. CASE Enqueue(s) /\ (WaitNotFull(s) \/ Refuse(s))
    BY <1>11, <2>3
  <2>2. CASE Enqueue(s) /\ ~(WaitNotFull(s) \/ Refuse(s))
    BY <1>2, <2>2 DEF Abstract!Next
  <2>. QED BY <1>9, <2>1, <2>2, <2>3
<1>10. ASSUME NEW w \in Workers, Dequeue(w) \/ FinishInstruction(w) \/ LeaveLoop(w)
       PROVE  [Abstract!Next]_(Abstract!vars)
  BY <1>3, <1>4, <1>10 DEF Abstract!Next
<1>. QED BY <1>5, <1>6, <1>7, <1>8, <1>9, <1>10 DEF Next

(* The ring and its condition variables implement the bounded FIFO.            *)
THEOREM Refinement == Spec => ImplementsBoundedFifo
<1>1. Init => Abstract!Init
  BY DEF Init, Abstract!Init, QueuedInstructions, Contents
<1>2. IInv /\ IInv' /\ [Next]_vars => [Abstract!Next]_(Abstract!vars)
  BY StepRefines
<1>. QED BY <1>1, <1>2, Invariance, PTL DEF Spec, ImplementsBoundedFifo, Abstract!Spec
=============================================================================
