----------------------- MODULE TuiMessageQueueProofs ------------------------
(* For every capacity, every set of threads and every heap: the TUI queue      *)
(* keeps its ring consistent, always holds the newest posts in order, loses no *)
(* wakeup, and every text allocated for a message has one owner.               *)
EXTENDS TuiMessageQueue, FiniteSetTheorems, TLAPS

-----------------------------------------------------------------------------
(* The index arithmetic of the ring.                                           *)

(* Advancing with % capacity stays in range and is the wrapped successor.      *)
LEMMA AdvanceWraps ==
    ASSUME NEW i \in Index
    PROVE  /\ Advance(i) \in Index
           /\ Advance(i) = Wrap(i + 1)
<1>1. CASE i + 1 < Capacity
  BY <1>1, CapacityAssumption DEF Index, Advance, Wrap
<1>2. CASE i + 1 = Capacity
  BY <1>2, CapacityAssumption DEF Index, Advance, Wrap
<1>. QED BY <1>1, <1>2, CapacityAssumption DEF Index

(* An index plus an offset within one turn wraps to a position of the buffer.  *)
LEMMA WrapInRange ==
    ASSUME NEW i \in Index, NEW k \in 0 .. Capacity
    PROVE  Wrap(i + k) \in Index
BY CapacityAssumption DEF Index, Wrap

(* Offsets counted from the next position are one less.                        *)
LEMMA WrapFromNext ==
    ASSUME NEW i \in Index, NEW k \in 0 .. Capacity - 1
    PROVE  Wrap(Advance(i) + k) = Wrap(i + (k + 1))
BY AdvanceWraps, CapacityAssumption DEF Index, Wrap

(* The wrapped position after offset k is the advanced one.                    *)
LEMMA AdvanceOffset ==
    ASSUME NEW i \in Index, NEW k \in 0 .. Capacity - 1
    PROVE  Advance(Wrap(i + k)) = Wrap(i + (k + 1))
BY WrapInRange, AdvanceWraps, CapacityAssumption DEF Index, Wrap

(* Within one turn different offsets are different positions.                  *)
LEMMA WrapInjective ==
    ASSUME NEW i \in Index, NEW j \in 0 .. Capacity - 1, NEW k \in 0 .. Capacity - 1,
           Wrap(i + j) = Wrap(i + k)
    PROVE  j = k
BY CapacityAssumption DEF Index, Wrap

(* Within one turn every position is reached from any start.                   *)
LEMMA WrapCovers ==
    ASSUME NEW i \in Index, NEW j \in Index
    PROVE  \E k \in 0 .. Capacity - 1 : j = Wrap(i + k)
<1>1. CASE j >= i
  <2>1. j - i \in 0 .. Capacity - 1 /\ j = Wrap(i + (j - i))
    BY <1>1, CapacityAssumption DEF Index, Wrap
  <2>. QED BY <2>1
<1>2. CASE j < i
  <2>1. (j + Capacity) - i \in 0 .. Capacity - 1 /\ j = Wrap(i + ((j + Capacity) - i))
    BY <1>2, CapacityAssumption DEF Index, Wrap
  <2>. QED BY <2>1
<1>. QED BY <1>1, <1>2 DEF Index

-----------------------------------------------------------------------------

(* NewestPostsInOrder restated on the positions, where it is inductive.        *)
PostsByPosition ==
    /\ \A k \in 0 .. count - 1 : slots[Wrap(tail + k)].seq = posted - count + k + 1
    /\ taken <= posted - count
    /\ count <= posted

(* tui_msg_queue_free runs when nobody uses the queue, and nobody starts again. *)
QuietOnceDestroyed ==
    destroyed => \A t \in Writers \cup Readers : pc[t] \in {"idle", "stopped"}

IInv == TypeOK /\ RingConsistent /\ PostsByPosition /\ QuietOnceDestroyed

(* The state handled by Insert and by Receive keeps its part of the invariant. *)
RingInv ==
    /\ slots \in [Index -> TUIMessage]
    /\ head \in Index /\ tail \in Index /\ count \in 0 .. Capacity
    /\ posted \in 0 .. MaxPosts /\ taken \in 0 .. MaxPosts
    /\ RingConsistent
    /\ PostsByPosition

(* Evicting and inserting keep the ring consistent and the posts in order.     *)
LEMMA InsertKeepsRing ==
    ASSUME RingInv, posted < MaxPosts, UNCHANGED taken,
           NEW m \in TUIMessage, m.seq = posted + 1, Insert(m)
    PROVE  RingInv'
<1>. USE CapacityAssumption, ThreadAssumption
<1>1. /\ head' \in Index /\ tail' \in Index /\ count' \in 0 .. Capacity
      /\ posted' = posted + 1 /\ posted' \in 0 .. MaxPosts
  BY AdvanceWraps DEF RingInv, Insert, Full
<1>2. slots' \in [Index -> TUIMessage]
  BY DEF RingInv, Insert, Full, TUIMessage, Text
<1>3. CASE Full
  <2>1. head = tail /\ count = Capacity /\ count' = count
    BY <1>3 DEF RingInv, RingConsistent, Wrap, Full, Insert, Index
  <2>2. tail' = Advance(tail) /\ head' = Advance(tail)
    BY <1>3, <2>1 DEF Insert
  <2>3. slots'[tail] = m
    BY <1>3, <2>1 DEF Insert, RingInv
  <2>4. \A i \in Index \ {tail} : slots'[i] = slots[i]
    BY <1>3, <2>1 DEF Insert, RingInv
  <2>5. \A k \in 0 .. Capacity - 1 : Wrap(tail' + k) = Wrap(tail + (k + 1))
    BY <2>2, WrapFromNext DEF RingInv
  <2>6. head' = Wrap(tail' + count')
    BY <2>1, <2>2, AdvanceWraps DEF RingInv, Wrap, Index
  <2>7. \A i \in Index : i \in Occupied(tail', count')
    <3>. SUFFICES ASSUME NEW i \in Index PROVE i \in Occupied(tail', count')
      OBVIOUS
    <3>1. PICK k \in 0 .. Capacity - 1 : i = Wrap(tail' + k)
      BY <1>1, WrapCovers
    <3>. QED BY <3>1, <2>1 DEF Occupied
  <2>8. ASSUME NEW k \in 0 .. count' - 1
        PROVE  slots'[Wrap(tail' + k)].seq = posted' - count' + k + 1
    <3>1. CASE k = Capacity - 1
      <4>1. Wrap(tail' + k) = tail
        BY <3>1, <2>5 DEF RingInv, Index, Wrap
      <4>. QED BY <4>1, <2>3, <3>1, <2>1, <1>1 DEF RingInv
    <3>2. CASE k # Capacity - 1
      <4>1. k + 1 \in 0 .. Capacity - 1 /\ k + 1 \in 0 .. count - 1
        BY <3>2, <2>1
      <4>2. Wrap(tail + (k + 1)) \in Index \ {tail}
        BY <4>1 DEF RingInv, Index, Wrap
      <4>3. slots'[Wrap(tail' + k)] = slots[Wrap(tail + (k + 1))]
        <5>1. Wrap(tail' + k) = Wrap(tail + (k + 1))
          BY <4>1, <2>5
        <5>. QED BY <5>1, <4>2, <2>4
      <4>4. slots[Wrap(tail + (k + 1))].seq = posted - count + (k + 1) + 1
        BY <4>1 DEF RingInv, PostsByPosition
      <4>. QED BY <4>3, <4>4, <1>1, <2>1 DEF RingInv
    <3>. QED BY <3>1, <3>2
  <2>9. taken' <= posted' - count' /\ count' <= posted'
    BY <1>1, <2>1 DEF RingInv, PostsByPosition
  <2>. QED BY <1>1, <1>2, <2>6, <2>7, <2>8, <2>9 DEF RingInv, RingConsistent, PostsByPosition
<1>4. CASE ~Full
  <2>1. count < Capacity /\ count' = count + 1 /\ tail' = tail
    BY <1>4 DEF RingInv, Full, Insert
  <2>2. head = Wrap(tail + count) /\ head' = Wrap(tail' + count')
    <3>1. head = Wrap(tail + count) /\ head' = Advance(head)
      BY DEF RingInv, RingConsistent, Insert
    <3>2. count \in 0 .. Capacity - 1
      BY <2>1 DEF RingInv
    <3>. QED BY <3>1, <3>2, <2>1, AdvanceOffset DEF RingInv
  <2>3. slots'[head] = m /\ \A i \in Index \ {head} : slots'[i] = slots[i]
    BY <1>4 DEF Insert, RingInv
  <2>4. ASSUME NEW i \in Index, slots'[i].text # NULL
        PROVE  i \in Occupied(tail', count')
    <3>1. CASE i = head
      BY <3>1, <2>1, <2>2 DEF Occupied, RingInv
    <3>2. CASE i # head
      <4>1. i \in Occupied(tail, count)
        BY <3>2, <2>3, <2>4 DEF RingInv, RingConsistent
      <4>. QED BY <4>1, <2>1 DEF Occupied, RingInv
    <3>. QED BY <3>1, <3>2
  <2>5. ASSUME NEW k \in 0 .. count' - 1
        PROVE  slots'[Wrap(tail' + k)].seq = posted' - count' + k + 1
    <3>1. CASE k = count
      BY <3>1, <2>1, <2>2, <2>3, <1>1 DEF RingInv
    <3>2. CASE k # count
      <4>1. k \in 0 .. count - 1
        BY <3>2, <2>1 DEF RingInv
      <4>2. Wrap(tail + k) \in Index
        BY <4>1, WrapInRange DEF RingInv
      <4>3. Wrap(tail + k) # head
        BY <4>1, <2>1, <2>2, WrapInjective DEF RingInv
      <4>. QED BY <4>1, <4>2, <4>3, <2>1, <2>3, <1>1 DEF RingInv, PostsByPosition
    <3>. QED BY <3>1, <3>2
  <2>6. taken' <= posted' - count' /\ count' <= posted'
    BY <1>1, <2>1 DEF RingInv, PostsByPosition
  <2>. QED BY <1>1, <1>2, <2>2, <2>4, <2>5, <2>6 DEF RingInv, RingConsistent, PostsByPosition
<1>. QED BY <1>3, <1>4

(* Taking the oldest message keeps the ring consistent and the posts in order. *)
LEMMA ReceiveKeepsRing ==
    ASSUME RingInv, NEW r \in Readers, count > 0, Receive(r), UNCHANGED posted
    PROVE  RingInv'
<1>. USE CapacityAssumption, ThreadAssumption
<1>1. /\ head' \in Index /\ tail' \in Index /\ count' \in 0 .. Capacity
      /\ count' = count - 1 /\ head' = head
  BY AdvanceWraps DEF RingInv, Receive
<1>2. slots' \in [Index -> TUIMessage]
  BY DEF RingInv, Receive, TUIMessage, Text
<1>3. tail = Wrap(tail + 0)
  BY DEF RingInv, Index, Wrap
<1>4. taken' = posted - count + 1 /\ taken' \in 0 .. MaxPosts
  BY <1>3 DEF RingInv, Receive, PostsByPosition
<1>5. \A k \in 0 .. Capacity - 1 : Wrap(tail' + k) = Wrap(tail + (k + 1))
  BY WrapFromNext DEF RingInv, Receive
<1>6. head' = Wrap(tail' + count')
  BY <1>1, <1>5 DEF RingInv, RingConsistent, Index
<1>7. slots'[tail].text = NULL /\ \A i \in Index : slots'[i].seq = slots[i].seq
  BY DEF Receive, RingInv, TUIMessage
<1>8. \A i \in Index \ {tail} : slots'[i] = slots[i]
  BY DEF Receive, RingInv
<1>9. ASSUME NEW i \in Index, slots'[i].text # NULL
      PROVE  i \in Occupied(tail', count')
  <2>1. i # tail /\ i \in Occupied(tail, count)
    BY <1>7, <1>8, <1>9 DEF RingInv, RingConsistent
  <2>2. PICK k \in 0 .. count - 1 : i = Wrap(tail + k)
    BY <2>1 DEF Occupied
  <2>3. k # 0
    BY <2>1, <2>2, <1>3
  <2>4. k - 1 \in 0 .. count' - 1 /\ i = Wrap(tail' + (k - 1))
    BY <2>2, <2>3, <1>1, <1>5 DEF RingInv, Index
  <2>. QED BY <2>4 DEF Occupied
<1>10. ASSUME NEW k \in 0 .. count' - 1
       PROVE  slots'[Wrap(tail' + k)].seq = posted' - count' + k + 1
  <2>1. k + 1 \in 0 .. count - 1 /\ k \in 0 .. Capacity - 1
    BY <1>1 DEF RingInv
  <2>2. Wrap(tail' + k) = Wrap(tail + (k + 1)) /\ Wrap(tail + (k + 1)) \in Index
    BY <2>1, <1>5, WrapInRange, k + 1 \in 0 .. Capacity DEF RingInv
  <2>3. slots[Wrap(tail + (k + 1))].seq = posted - count + (k + 1) + 1
    BY <2>1 DEF RingInv, PostsByPosition
  <2>. QED BY <2>1, <2>2, <2>3, <1>1, <1>7 DEF RingInv
<1>11. taken' <= posted' - count' /\ count' <= posted'
  BY <1>1, <1>4 DEF RingInv, PostsByPosition
<1>. QED
  BY <1>1, <1>2, <1>4, <1>6, <1>9, <1>10, <1>11 DEF RingInv, RingConsistent, PostsByPosition

-----------------------------------------------------------------------------
(* The writer's and the reader's view of the ring, as parts of IInv.           *)
LEMMA RingPart == IInv => RingInv
BY DEF IInv, TypeOK, RingInv

LEMMA InitHolds == Init => IInv
<1>. USE CapacityAssumption, ThreadAssumption
<1>. SUFFICES ASSUME Init PROVE IInv
  OBVIOUS
<1>1. Zeroed \in TUIMessage
  BY DEF Zeroed, TUIMessage, Text
<1>2. TypeOK
  <2>1. slots \in [Index -> TUIMessage] /\ msg \in [Readers -> TUIMessage]
    BY <1>1 DEF Init
  <2>2. 0 \in Index /\ 0 \in 0 .. Capacity /\ 0 \in 0 .. MaxPosts
    BY DEF Index
  <2>3. copy \in [Writers -> Text]
    BY DEF Init, Text
  <2>. QED BY <2>1, <2>2, <2>3 DEF Init, TypeOK
<1>3. RingConsistent
  BY DEF Init, RingConsistent, Zeroed, Wrap, Index
<1>4. PostsByPosition
  BY DEF Init, PostsByPosition
<1>5. QuietOnceDestroyed
  BY DEF Init, QuietOnceDestroyed
<1>. QED BY <1>2, <1>3, <1>4, <1>5 DEF IInv

(* A step that leaves the ring, the posts and the takings alone.               *)
LEMMA RingUnchanged ==
    ASSUME IInv, UNCHANGED <<ring, posted, taken>>
    PROVE  RingInv'
<1>. QED
  BY RingPart DEF RingInv, ring, RingConsistent, PostsByPosition, Occupied

(* The thread states, the heap and the private pointers keep their types, and  *)
(* a destroyed queue stays unused.                                             *)
ThreadInv ==
    /\ shutdown \in BOOLEAN /\ destroyed \in BOOLEAN
    /\ heap \subseteq Block
    /\ pc \in [Writers \cup Readers ->
                 {"idle", "copied", "waiting", "awake", "received", "stopped"}]
    /\ copy \in [Writers -> Text]
    /\ msg \in [Readers -> TUIMessage]
    /\ shown \in {0} \cup Totals /\ reported \subseteq Totals
    /\ QuietOnceDestroyed

LEMMA PartsSuffice == RingInv /\ ThreadInv => IInv
BY DEF RingInv, ThreadInv, QuietOnceDestroyed, IInv, TypeOK

LEMMA PartsSuffice2 == RingInv' /\ ThreadInv' => IInv'
BY DEF RingInv, ThreadInv, QuietOnceDestroyed, IInv, TypeOK

LEMMA SignalledTypes ==
    ASSUME IInv, NEW w \in Writers, NEW to \in {"idle", "copied"}, Signalled(w, to)
    PROVE  pc' \in [Writers \cup Readers ->
                       {"idle", "copied", "waiting", "awake", "received", "stopped"}]
BY DEF IInv, TypeOK, Signalled, Waiting

(* One lemma per group of actions: every step of the queue preserves IInv.     *)
LEMMA WriterStep ==
    ASSUME IInv, NEW w \in Writers,
           CopyText(w) \/ PostMessage(w) \/ PostTokenUpdate(w)
    PROVE  IInv'
<1>. USE ThreadAssumption
<1>1. CASE CopyText(w)
  <2>1. RingInv'
    BY <1>1, RingUnchanged DEF CopyText
  <2>2. ThreadInv'
    BY <1>1 DEF IInv, TypeOK, CopyText, ThreadInv, QuietOnceDestroyed, Text
  <2>. QED BY <2>1, <2>2, PartsSuffice2
<1>2. CASE PostMessage(w)
  <2>. DEFINE m == [type |-> "line", text |-> copy[w], tokens |-> 0, seq |-> posted + 1]
  <2>1. m \in TUIMessage /\ m.seq = posted + 1
    BY <1>2 DEF IInv, TypeOK, PostMessage, TUIMessage
  <2>2. Insert(m) /\ UNCHANGED taken /\ posted < MaxPosts
    BY <1>2 DEF PostMessage
  <2>. HIDE DEF m
  <2>3. RingInv'
    BY <2>1, <2>2, InsertKeepsRing, RingPart
  <2>4. ThreadInv'
    BY <1>2, SignalledTypes DEF IInv, TypeOK, PostMessage, ThreadInv, QuietOnceDestroyed, Text
  <2>. QED BY <2>3, <2>4, PartsSuffice2
<1>3. CASE PostTokenUpdate(w)
  <2>1. PICK t \in Totals :
          /\ Insert([type |-> "token", text |-> NULL, tokens |-> t, seq |-> posted + 1])
          /\ reported' = reported \cup {t}
    BY <1>3 DEF PostTokenUpdate
  <2>. DEFINE m == [type |-> "token", text |-> NULL, tokens |-> t, seq |-> posted + 1]
  <2>2. m \in TUIMessage /\ m.seq = posted + 1
    BY <1>3 DEF IInv, TypeOK, PostTokenUpdate, TUIMessage, Text
  <2>3. Insert(m) /\ UNCHANGED taken /\ posted < MaxPosts
    BY <1>3, <2>1 DEF PostTokenUpdate
  <2>. HIDE DEF m
  <2>4. RingInv'
    BY <2>2, <2>3, InsertKeepsRing, RingPart
  <2>5. ThreadInv'
    BY <1>3, <2>1, SignalledTypes DEF IInv, TypeOK, PostTokenUpdate, ThreadInv, QuietOnceDestroyed, Text
  <2>. QED BY <2>4, <2>5, PartsSuffice2
<1>. QED BY <1>1, <1>2, <1>3

LEMMA ReceivedTypes ==
    ASSUME IInv, NEW r \in Readers, Receive(r)
    PROVE  msg' \in [Readers -> TUIMessage]
<1>1. slots[tail] \in TUIMessage /\ msg[r] \in TUIMessage
  BY DEF IInv, TypeOK
<1>2. [msg[r] EXCEPT !.type = slots[tail].type, !.text = slots[tail].text,
                     !.seq = slots[tail].seq] \in TUIMessage
  BY <1>1 DEF TUIMessage
<1>. QED BY <1>2 DEF IInv, TypeOK, Receive

LEMMA ReaderStep ==
    ASSUME IInv, NEW r \in Readers,
           Poll(r) \/ Wait(r) \/ SpuriousWakeup(r) \/ Dispatch(r)
    PROVE  IInv'
<1>1. CASE Poll(r)
  <2>1. RingInv'
    BY <1>1, ReceiveKeepsRing, RingPart DEF Poll
  <2>2. ThreadInv'
    BY <1>1, ReceivedTypes DEF IInv, TypeOK, Poll, ThreadInv, QuietOnceDestroyed
  <2>. QED BY <2>1, <2>2, PartsSuffice2
<1>2. CASE Wait(r) /\ count > 0
  <2>1. Receive(r)
    BY <1>2 DEF Wait
  <2>2. RingInv'
    BY <1>2, <2>1, ReceiveKeepsRing, RingPart DEF Wait
  <2>3. ThreadInv'
    BY <1>2, <2>1, ReceivedTypes DEF IInv, TypeOK, Wait, ThreadInv, QuietOnceDestroyed
  <2>. QED BY <2>2, <2>3, PartsSuffice2
<1>3. CASE Wait(r) /\ ~(count > 0)
  <2>1. RingInv'
    BY <1>3, RingUnchanged DEF Wait
  <2>2. ThreadInv'
    BY <1>3 DEF IInv, TypeOK, Wait, ThreadInv, QuietOnceDestroyed
  <2>. QED BY <2>1, <2>2, PartsSuffice2
<1>4. CASE SpuriousWakeup(r)
  <2>1. RingInv'
    BY <1>4, RingUnchanged DEF SpuriousWakeup
  <2>2. ThreadInv'
    BY <1>4 DEF IInv, TypeOK, SpuriousWakeup, ThreadInv, QuietOnceDestroyed
  <2>. QED BY <2>1, <2>2, PartsSuffice2
<1>5. CASE Dispatch(r)
  <2>1. RingInv'
    BY <1>5, RingUnchanged DEF Dispatch
  <2>2. ThreadInv'
    <3>1. msg' \in [Readers -> TUIMessage]
      BY <1>5 DEF IInv, TypeOK, Dispatch, TUIMessage, Text
    <3>2. shown' \in {0} \cup Totals
      BY <1>5 DEF IInv, TypeOK, Dispatch, TUIMessage
    <3>. QED BY <1>5, <3>1, <3>2 DEF IInv, TypeOK, Dispatch, ThreadInv, QuietOnceDestroyed
  <2>. QED BY <2>1, <2>2, PartsSuffice2
<1>. QED BY <1>1, <1>2, <1>3, <1>4, <1>5

LEMMA OwnerStep ==
    ASSUME IInv, Shutdown \/ Free
    PROVE  IInv'
<1>1. CASE Shutdown
  <2>1. RingInv'
    BY <1>1, RingUnchanged DEF Shutdown
  <2>2. ThreadInv'
    BY <1>1 DEF IInv, TypeOK, Shutdown, ThreadInv, QuietOnceDestroyed
  <2>. QED BY <2>1, <2>2, PartsSuffice2
<1>2. CASE Free
  <2>1. RingInv'
    BY <1>2, RingUnchanged DEF Free
  <2>2. ThreadInv'
    BY <1>2 DEF IInv, TypeOK, Free, ThreadInv, QuietOnceDestroyed
  <2>. QED BY <2>1, <2>2, PartsSuffice2
<1>. QED BY <1>1, <1>2

(* The inductive invariant.                                                    *)
THEOREM Invariance == Spec => []IInv
<1>1. Init => IInv
  BY InitHolds
<1>2. IInv /\ [Next]_vars => IInv'
  <2>. SUFFICES ASSUME IInv, [Next]_vars PROVE IInv'
    OBVIOUS
  <2>1. CASE UNCHANGED vars
    <3>1. RingInv'
      BY <2>1, RingUnchanged DEF vars, ring
    <3>2. ThreadInv'
      BY <2>1 DEF IInv, TypeOK, vars, ring, ThreadInv, QuietOnceDestroyed
    <3>. QED BY <3>1, <3>2, PartsSuffice2
  <2>2. CASE \E w \in Writers : CopyText(w) \/ PostMessage(w) \/ PostTokenUpdate(w)
    BY <2>2, WriterStep
  <2>3. CASE \E r \in Readers : Poll(r) \/ Wait(r) \/ SpuriousWakeup(r) \/ Dispatch(r)
    BY <2>3, ReaderStep
  <2>4. CASE Shutdown \/ Free
    BY <2>4, OwnerStep
  <2>. QED BY <2>1, <2>2, <2>3, <2>4 DEF Next
<1>. QED BY <1>1, <1>2, PTL DEF Spec

(* Every variable of the queue keeps its type, for every instance.             *)
THEOREM TypeCorrect == Spec => []TypeOK
<1>1. IInv => TypeOK
  BY DEF IInv
<1>. QED BY <1>1, Invariance, PTL

(* head, tail and count agree after every critical section, and no position    *)
(* outside the occupied window owns a text (tui_msg_queue_free frees all).     *)
THEOREM RingStaysConsistent == Spec => []RingConsistent
<1>1. IInv => RingConsistent
  BY DEF IInv
<1>. QED BY <1>1, Invariance, PTL

(* Eviction drops the oldest message only: the queue holds the newest posts in *)
(* order and none that a reader already took.                                  *)
THEOREM NewestPostsAreKept == Spec => []NewestPostsInOrder
<1>1. IInv => NewestPostsInOrder
  <2>. SUFFICES ASSUME IInv, ~destroyed, NEW k \in 1 .. count
                PROVE  QueuedPosts[k] = posted - count + k
    BY DEF NewestPostsInOrder, IInv, PostsByPosition
  <2>1. QueuedPosts[k] = slots[Wrap(tail + k - 1)].seq
    BY DEF QueuedPosts, Contents
  <2>2. k - 1 \in 0 .. count - 1 /\ tail + (k - 1) = tail + k - 1
    BY DEF IInv, TypeOK, Index
  <2>3. slots[Wrap(tail + (k - 1))].seq = posted - count + (k - 1) + 1
    BY <2>2 DEF IInv, PostsByPosition
  <2>. QED BY <2>1, <2>2, <2>3 DEF IInv, TypeOK
<1>. QED BY <1>1, Invariance, PTL

-----------------------------------------------------------------------------
(* Ownership of texts. A thread has a private pointer only between taking the  *)
(* text and giving it away.                                                    *)
PointersInUse ==
    /\ \A w \in Writers : pc[w] # "copied" => copy[w] = NULL
    /\ \A r \in Readers : pc[r] # "received" => msg[r].text = NULL

(* What the queue itself points to.                                            *)
InSlot == [i \in Index |-> IF destroyed THEN NULL ELSE slots[i].text]

HeldIsAllocated ==
    /\ \A w \in Writers : copy[w] # NULL => copy[w] \in heap
    /\ \A i \in Index : InSlot[i] # NULL => InSlot[i] \in heap
    /\ \A r \in Readers : msg[r].text # NULL => msg[r].text \in heap

AllocatedIsHeld ==
    \A b \in heap : \/ \E w \in Writers : copy[w] = b
                    \/ \E i \in Index : InSlot[i] = b
                    \/ \E r \in Readers : msg[r].text = b

HeldOnce ==
    /\ \A v, w \in Writers : copy[v] = copy[w] /\ copy[v] # NULL => v = w
    /\ \A i, j \in Index : InSlot[i] = InSlot[j] /\ InSlot[i] # NULL => i = j
    /\ \A q, r \in Readers : msg[q].text = msg[r].text /\ msg[q].text # NULL => q = r
    /\ \A w \in Writers, i \in Index : copy[w] = InSlot[i] => copy[w] = NULL
    /\ \A w \in Writers, r \in Readers : copy[w] = msg[r].text => copy[w] = NULL
    /\ \A r \in Readers, i \in Index : msg[r].text = InSlot[i] => msg[r].text = NULL

OwnerInv == PointersInUse /\ HeldIsAllocated /\ AllocatedIsHeld /\ HeldOnce

(* The text a post displaces is the one it frees: the oldest message's in a    *)
(* full queue, none otherwise.                                                 *)
LEMMA InsertMovesText ==
    ASSUME IInv, ~destroyed, UNCHANGED destroyed, NEW m \in TUIMessage, Insert(m)
    PROVE  /\ head \in Index
           /\ InSlot'[head] = m.text
           /\ \A i \in Index \ {head} : InSlot'[i] = InSlot[i]
           /\ EvictedText \subseteq {InSlot[head]} /\ (EvictedText = {} => InSlot[head] = NULL)
<1>. USE CapacityAssumption
<1>1. /\ slots \in [Index -> TUIMessage] /\ head \in Index /\ tail \in Index
      /\ head = Wrap(tail + count)
  BY DEF IInv, TypeOK, RingConsistent
<1>2. CASE Full
  <2>1. head = tail
    BY <1>1, <1>2 DEF Full, Wrap, Index
  <2>2. slots'[head] = m /\ \A i \in Index \ {head} : slots'[i] = slots[i]
    BY <1>1, <1>2, <2>1 DEF Insert
  <2>. QED
    BY <1>1, <1>2, <2>1, <2>2 DEF InSlot, EvictedText
<1>3. CASE ~Full
  <2>1. slots'[head] = m /\ \A i \in Index \ {head} : slots'[i] = slots[i]
    BY <1>1, <1>3 DEF Insert
  <2>2. count \in 0 .. Capacity - 1
    BY <1>3 DEF Full, IInv, TypeOK
  <2>3. ASSUME NEW k \in 0 .. count - 1 PROVE head # Wrap(tail + k)
    BY <1>1, <2>2, WrapInjective
  <2>4. slots[head].text = NULL
    BY <1>1, <2>3 DEF IInv, RingConsistent, Occupied
  <2>. QED
    BY <1>1, <1>3, <2>1, <2>4 DEF InSlot, EvictedText
<1>. QED
  BY <1>2, <1>3

LEMMA SignalledMoves ==
    ASSUME IInv, NEW w \in Writers, Signalled(w, "idle")
    PROVE  /\ pc'[w] = "idle"
           /\ \A v \in Writers \ {w} : pc'[v] = pc[v]
           /\ \A r \in Readers : pc'[r] # "received" => pc[r] # "received"
BY ThreadAssumption DEF IInv, TypeOK, Signalled, Waiting

LEMMA PostKeepsOwners ==
    ASSUME IInv, OwnerInv, NEW w \in Writers, PostMessage(w) \/ PostTokenUpdate(w)
    PROVE  OwnerInv'
<1>. USE ThreadAssumption
<1>1. PICK m \in TUIMessage :
        /\ Insert(m) /\ heap' = heap \ EvictedText
        /\ \/ m.text = copy[w] /\ copy' = [copy EXCEPT ![w] = NULL]
           \/ m.text = NULL /\ UNCHANGED copy /\ pc[w] = "idle"
  <2>1. CASE PostMessage(w)
    <3>. DEFINE m == [type |-> "line", text |-> copy[w], tokens |-> 0, seq |-> posted + 1]
    <3>1. m \in TUIMessage /\ m.text = copy[w]
      BY <2>1 DEF IInv, TypeOK, PostMessage, TUIMessage
    <3>. QED
      BY <2>1, <3>1 DEF PostMessage
  <2>2. CASE PostTokenUpdate(w)
    <3>1. PICK t \in Totals :
            Insert([type |-> "token", text |-> NULL, tokens |-> t, seq |-> posted + 1])
      BY <2>2 DEF PostTokenUpdate
    <3>. DEFINE m == [type |-> "token", text |-> NULL, tokens |-> t, seq |-> posted + 1]
    <3>2. m \in TUIMessage /\ m.text = NULL
      BY <2>2 DEF IInv, TypeOK, PostTokenUpdate, TUIMessage, Text
    <3>. QED
      BY <2>2, <3>1, <3>2 DEF PostTokenUpdate
  <2>. QED
    BY <2>1, <2>2
<1>2. ~destroyed /\ UNCHANGED <<destroyed, msg>> /\ Signalled(w, "idle")
  BY DEF IInv, QuietOnceDestroyed, PostMessage, PostTokenUpdate
<1>3. /\ head \in Index /\ InSlot'[head] = m.text
      /\ \A i \in Index \ {head} : InSlot'[i] = InSlot[i]
      /\ EvictedText \subseteq {InSlot[head]} /\ (EvictedText = {} => InSlot[head] = NULL)
  BY <1>1, <1>2, InsertMovesText
<1>4. heap' = heap \ {InSlot[head]} /\ NULL \notin heap
  BY <1>1, <1>3 DEF IInv, TypeOK
<1>5. copy \in [Writers -> Text] /\ copy'[w] = NULL /\ \A v \in Writers \ {w} : copy'[v] = copy[v]
  BY <1>1 DEF IInv, TypeOK, OwnerInv, PointersInUse
<1>6. m.text \in {copy[w], NULL} /\ (m.text = NULL => copy[w] = NULL)
  BY <1>1 DEF OwnerInv, PointersInUse
<1>7. PointersInUse'
  BY <1>2, <1>5, SignalledMoves DEF OwnerInv, PointersInUse
<1>8. /\ \A i \in Index : InSlot'[i] = IF i = head THEN m.text ELSE InSlot[i]
      /\ heap' = heap \ {InSlot[head]}
  BY <1>3, <1>4
<1>9. HeldIsAllocated'
  <2>1. \A i \in Index : InSlot'[i] # NULL => InSlot'[i] \in heap'
    BY <1>3, <1>4, <1>6, <1>8 DEF OwnerInv, HeldIsAllocated, HeldOnce
  <2>2. \A v \in Writers : copy'[v] # NULL => copy'[v] \in heap'
    BY <1>3, <1>4, <1>5 DEF OwnerInv, HeldIsAllocated, HeldOnce
  <2>3. \A r \in Readers : msg'[r].text # NULL => msg'[r].text \in heap'
    BY <1>2, <1>3, <1>4 DEF OwnerInv, HeldIsAllocated, HeldOnce
  <2>. QED
    BY <2>1, <2>2, <2>3 DEF HeldIsAllocated
<1>10. AllocatedIsHeld'
  <2>. SUFFICES ASSUME NEW b \in heap'
                PROVE  \/ \E v \in Writers : copy'[v] = b
                       \/ \E i \in Index : InSlot'[i] = b
                       \/ \E r \in Readers : msg'[r].text = b
    BY DEF AllocatedIsHeld
  <2>1. b \in heap /\ b # InSlot[head] /\ b # NULL
    BY <1>4
  <2>2. CASE \E v \in Writers : copy[v] = b
    BY <1>3, <1>5, <1>6, <2>1, <2>2
  <2>3. CASE \E i \in Index : InSlot[i] = b
    BY <1>3, <2>1, <2>3
  <2>4. CASE \E r \in Readers : msg[r].text = b
    BY <1>2, <2>4
  <2>. QED
    BY <2>1, <2>2, <2>3, <2>4 DEF OwnerInv, AllocatedIsHeld
<1>11. HeldOnce'
  <2>1. \A i, j \in Index : InSlot'[i] = InSlot'[j] /\ InSlot'[i] # NULL => i = j
    BY <1>6, <1>8 DEF OwnerInv, HeldOnce
  <2>2. \A v \in Writers, i \in Index : copy'[v] = InSlot'[i] => copy'[v] = NULL
    BY <1>5, <1>6, <1>8 DEF OwnerInv, HeldOnce
  <2>3. \A r \in Readers, i \in Index : msg'[r].text = InSlot'[i] => msg'[r].text = NULL
    BY <1>2, <1>6, <1>8 DEF OwnerInv, HeldOnce
  <2>4. /\ \A u, v \in Writers : copy'[u] = copy'[v] /\ copy'[u] # NULL => u = v
        /\ \A v \in Writers, r \in Readers : copy'[v] = msg'[r].text => copy'[v] = NULL
        /\ \A q, r \in Readers : msg'[q].text = msg'[r].text /\ msg'[q].text # NULL => q = r
    BY <1>2, <1>5 DEF OwnerInv, HeldOnce
  <2>. QED
    BY <2>1, <2>2, <2>3, <2>4 DEF HeldOnce
<1>. QED
  BY <1>7, <1>9, <1>10, <1>11 DEF OwnerInv

LEMMA ReceiveKeepsOwners ==
    ASSUME IInv, OwnerInv, ~destroyed, UNCHANGED <<destroyed, heap, copy>>,
           NEW r \in Readers, pc[r] # "received", Receive(r), pc' = [pc EXCEPT ![r] = "received"]
    PROVE  OwnerInv'
<1>. USE ThreadAssumption
<1>1. /\ slots \in [Index -> TUIMessage] /\ msg \in [Readers -> TUIMessage]
      /\ tail \in Index /\ NULL \notin heap
  BY DEF IInv, TypeOK
<1>2. /\ InSlot'[tail] = NULL
      /\ \A i \in Index \ {tail} : InSlot'[i] = InSlot[i]
  BY <1>1 DEF Receive, InSlot, TUIMessage
<1>3. /\ msg'[r].text = InSlot[tail] /\ msg[r].text = NULL
      /\ \A q \in Readers \ {r} : msg'[q] = msg[q]
  BY <1>1 DEF Receive, InSlot, TUIMessage, OwnerInv, PointersInUse
<1>4. PointersInUse'
  BY <1>3 DEF IInv, TypeOK, OwnerInv, PointersInUse
<1>. DEFINE text(q) == msg'[q].text
<1>5. \A i \in Index : InSlot'[i] = IF i = tail THEN NULL ELSE InSlot[i]
  BY <1>2
<1>6. \A q \in Readers : text(q) = IF q = r THEN InSlot[tail] ELSE msg[q].text
  BY <1>3
<1>. HIDE DEF text
<1>7. HeldIsAllocated'
  <2>1. /\ \A w \in Writers : copy'[w] # NULL => copy'[w] \in heap'
        /\ \A i \in Index : InSlot'[i] # NULL => InSlot'[i] \in heap'
        /\ \A q \in Readers : text(q) # NULL => text(q) \in heap'
    BY <1>1, <1>5, <1>6 DEF OwnerInv, HeldIsAllocated
  <2>. QED
    BY <2>1 DEF HeldIsAllocated, text
<1>8. AllocatedIsHeld'
  <2>. SUFFICES ASSUME NEW b \in heap
                PROVE  \/ \E w \in Writers : copy[w] = b
                       \/ \E i \in Index : InSlot'[i] = b
                       \/ \E q \in Readers : text(q) = b
    BY DEF AllocatedIsHeld, text
  <2>1. CASE \E w \in Writers : copy[w] = b
    BY <2>1
  <2>2. CASE \E i \in Index : InSlot[i] = b
    BY <1>5, <1>6, <2>2
  <2>3. CASE \E q \in Readers : msg[q].text = b
    BY <1>1, <1>3, <1>6, <2>3
  <2>. QED
    BY <2>1, <2>2, <2>3 DEF OwnerInv, AllocatedIsHeld
<1>9. HeldOnce'
  <2>1. /\ \A v, w \in Writers : copy'[v] = copy'[w] /\ copy'[v] # NULL => v = w
        /\ \A i, j \in Index : InSlot'[i] = InSlot'[j] /\ InSlot'[i] # NULL => i = j
        /\ \A q, p \in Readers : text(q) = text(p) /\ text(q) # NULL => q = p
    BY <1>1, <1>5, <1>6 DEF OwnerInv, HeldOnce
  <2>2. /\ \A w \in Writers, i \in Index : copy'[w] = InSlot'[i] => copy'[w] = NULL
        /\ \A w \in Writers, q \in Readers : copy'[w] = text(q) => copy'[w] = NULL
    BY <1>1, <1>5, <1>6 DEF OwnerInv, HeldOnce
  <2>3. \A q \in Readers, i \in Index : text(q) = InSlot'[i] => text(q) = NULL
    BY <1>1, <1>5, <1>6 DEF OwnerInv, HeldOnce
  <2>. QED
    BY <2>1, <2>2, <2>3 DEF HeldOnce, text
<1>. QED
  BY <1>4, <1>7, <1>8, <1>9 DEF OwnerInv

LEMMA OwnersStep ==
    ASSUME IInv, OwnerInv, [Next]_vars
    PROVE  OwnerInv'
<1>. USE ThreadAssumption
<1>1. ASSUME NEW w \in Writers, CopyText(w) PROVE OwnerInv'
  <2>1. PICK b \in Block \ heap : heap' = heap \cup {b} /\ copy' = [copy EXCEPT ![w] = b]
    BY <1>1 DEF CopyText
  <2>2. /\ pc[w] = "idle" /\ pc' = [pc EXCEPT ![w] = "copied"]
        /\ UNCHANGED <<slots, destroyed, msg>>
    BY <1>1 DEF CopyText, ring
  <2>3. /\ copy[w] = NULL /\ b # NULL
        /\ \A v \in Writers : copy'[v] = IF v = w THEN b ELSE copy[v]
        /\ \A i \in Index : InSlot'[i] = InSlot[i]
    BY <2>1, <2>2 DEF IInv, TypeOK, OwnerInv, PointersInUse, InSlot
  <2>4. PointersInUse'
    BY <2>2, <2>3 DEF IInv, TypeOK, OwnerInv, PointersInUse
  <2>5. NULL \notin heap
    BY DEF IInv, TypeOK
  <2>6. HeldIsAllocated'
    BY <2>1, <2>2, <2>3 DEF OwnerInv, HeldIsAllocated
  <2>7. AllocatedIsHeld'
    <3>. SUFFICES ASSUME NEW c \in heap \cup {b}
                  PROVE  \/ \E v \in Writers : copy'[v] = c
                         \/ \E i \in Index : InSlot'[i] = c
                         \/ \E r \in Readers : msg'[r].text = c
      BY <2>1 DEF AllocatedIsHeld
    <3>1. CASE c = b
      BY <2>3, <3>1
    <3>2. CASE c \in heap
      <4>1. CASE \E v \in Writers : copy[v] = c
        BY <2>5, <2>3, <3>2, <4>1
      <4>2. CASE \E i \in Index : InSlot[i] = c
        BY <2>3, <4>2
      <4>3. CASE \E r \in Readers : msg[r].text = c
        BY <2>2, <4>3
      <4>. QED
        BY <3>2, <4>1, <4>2, <4>3 DEF OwnerInv, AllocatedIsHeld
    <3>. QED
      BY <3>1, <3>2
  <2>8. HeldOnce'
    BY <2>1, <2>2, <2>3 DEF OwnerInv, HeldIsAllocated, HeldOnce
  <2>. QED
    BY <2>4, <2>6, <2>7, <2>8 DEF OwnerInv
<1>2. ASSUME NEW r \in Readers, Poll(r) \/ (Wait(r) /\ count > 0) PROVE OwnerInv'
  <2>1. /\ Receive(r) /\ pc' = [pc EXCEPT ![r] = "received"] /\ pc[r] # "received"
        /\ UNCHANGED <<destroyed, heap, copy>>
    BY <1>2 DEF Poll, Wait
  <2>2. ~destroyed
    BY <1>2 DEF Poll, Wait, IInv, QuietOnceDestroyed
  <2>. QED
    BY <2>1, <2>2, ReceiveKeepsOwners
<1>3. ASSUME NEW r \in Readers, SpuriousWakeup(r) \/ (Wait(r) /\ ~(count > 0)) PROVE OwnerInv'
  <2>1. /\ UNCHANGED <<slots, destroyed, heap, copy, msg>>
        /\ pc[r] # "received" /\ \E to : pc' = [pc EXCEPT ![r] = to]
    BY <1>3 DEF SpuriousWakeup, Wait, ring
  <2>2. PointersInUse'
    BY <2>1 DEF IInv, TypeOK, OwnerInv, PointersInUse
  <2>. QED
    BY <2>1, <2>2 DEF OwnerInv, HeldIsAllocated, AllocatedIsHeld, HeldOnce, InSlot
<1>4. ASSUME NEW r \in Readers, Dispatch(r) PROVE OwnerInv'
  <2>1. /\ UNCHANGED <<slots, destroyed, copy>> /\ heap' = heap \ {msg[r].text}
        /\ pc' = [pc EXCEPT ![r] = "idle"]
    BY <1>4 DEF Dispatch, ring
  <2>2. /\ \A q \in Readers : msg'[q].text = IF q = r THEN NULL ELSE msg[q].text
        /\ \A i \in Index : InSlot'[i] = InSlot[i]
        /\ NULL \notin heap
    BY <1>4, <2>1 DEF Dispatch, IInv, TypeOK, TUIMessage, InSlot
  <2>3. PointersInUse'
    BY <2>1, <2>2 DEF IInv, TypeOK, OwnerInv, PointersInUse
  <2>4. HeldIsAllocated' /\ AllocatedIsHeld'
    BY <2>1, <2>2 DEF OwnerInv, HeldIsAllocated, AllocatedIsHeld, HeldOnce
  <2>5. HeldOnce'
    BY <2>1, <2>2 DEF OwnerInv, HeldOnce
  <2>. QED
    BY <2>3, <2>4, <2>5 DEF OwnerInv
<1>5. CASE Shutdown \/ UNCHANGED vars
  <2>1. UNCHANGED <<slots, destroyed, heap, copy, msg>>
    BY <1>5 DEF Shutdown, ring, vars
  <2>2. \A t \in Writers \cup Readers : pc'[t] = pc[t] \/ (pc[t] = "waiting" /\ pc'[t] = "awake")
    BY <1>5 DEF Shutdown, vars, IInv, TypeOK
  <2>3. PointersInUse'
    BY <2>1, <2>2 DEF OwnerInv, PointersInUse
  <2>. QED
    BY <2>1, <2>3 DEF OwnerInv, HeldIsAllocated, AllocatedIsHeld, HeldOnce, InSlot
<1>6. CASE Free
  <2>1. /\ \A w \in Writers : copy[w] = NULL
        /\ \A r \in Readers : msg[r].text = NULL
    BY <1>6 DEF Free, OwnerInv, PointersInUse, IInv, TypeOK
  <2>2. /\ ~destroyed /\ destroyed' = TRUE /\ UNCHANGED <<slots, copy, msg, pc>>
        /\ heap' = heap \ {slots[i].text : i \in Index}
    BY <1>6 DEF Free, ring
  <2>3. heap' = {}
    BY <2>1, <2>2 DEF OwnerInv, AllocatedIsHeld, InSlot, IInv, TypeOK
  <2>. QED
    BY <2>1, <2>2, <2>3 DEF OwnerInv, PointersInUse, HeldIsAllocated, AllocatedIsHeld, HeldOnce, InSlot
<1>. QED
  BY <1>1, <1>2, <1>3, <1>4, <1>5, <1>6, PostKeepsOwners DEF Next

LEMMA OwnersCounted ==
    ASSUME IInv, OwnerInv, NEW b \in Block
    PROVE  Cardinality(Owners(b)) = IF b \in heap THEN 1 ELSE 0
<1>. USE ThreadAssumption
<1>1. \A o \in Owners(b) :
         \/ \E w \in Writers : copy[w] = b /\ o = <<"copy", w>>
         \/ \E i \in Index : InSlot[i] = b /\ o = <<"slot", i>>
         \/ \E r \in Readers : msg[r].text = b /\ o = <<"msg", r>>
  BY DEF Owners, InSlot
<1>2. /\ \A w \in Writers : copy[w] = b => <<"copy", w>> \in Owners(b)
      /\ \A i \in Index : InSlot[i] = b => <<"slot", i>> \in Owners(b)
      /\ \A r \in Readers : msg[r].text = b => <<"msg", r>> \in Owners(b)
  BY DEF Owners, InSlot
<1>3. CASE b \in heap
  <2>1. \E o : Owners(b) = {o}
    <3>1. \E o : o \in Owners(b)
      BY <1>2, <1>3 DEF OwnerInv, AllocatedIsHeld
    <3>2. \A o, p \in Owners(b) : o = p
      BY <1>1 DEF OwnerInv, HeldOnce
    <3>. QED
      BY <3>1, <3>2
  <2>. QED
    BY <1>3, <2>1, FS_Singleton
<1>4. CASE b \notin heap
  <2>1. Owners(b) = {}
    BY <1>1, <1>4 DEF OwnerInv, HeldIsAllocated
  <2>. QED
    BY <1>4, <2>1, FS_EmptySet
<1>. QED
  BY <1>3, <1>4

(* Every text is freed once, by dispatch, eviction or tui_msg_queue_free: at   *)
(* any time it has one owner, for any heap, capacity and set of threads.       *)
THEOREM TextsHaveOneOwner == Spec => []OneOwnerPerText
<1>1. Init => OwnerInv
  BY ThreadAssumption DEF Init, Zeroed, OwnerInv, PointersInUse, HeldIsAllocated, AllocatedIsHeld,
     HeldOnce, InSlot
<1>2. IInv /\ OwnerInv /\ [Next]_vars => OwnerInv'
  BY OwnersStep
<1>3. IInv /\ OwnerInv => OneOwnerPerText
  BY OwnersCounted DEF OneOwnerPerText
<1>. QED
  BY <1>1, <1>2, <1>3, Invariance, PTL DEF Spec

-----------------------------------------------------------------------------
(* Wakeups. As long as a reader waits, the woken readers pay for the messages. *)
Woken == {r \in Readers : pc[r] = "awake"}

WakeupInv ==
    Waiting # {} => ~shutdown /\ count <= Cardinality(Woken)

LEMMA WokenFinite ==
    /\ IsFiniteSet(Woken) /\ Cardinality(Woken) \in Nat
    /\ IsFiniteSet(Woken') /\ Cardinality(Woken') \in Nat
<1>1. Woken \in SUBSET Readers /\ Woken' \in SUBSET Readers
  BY DEF Woken
<1>. QED BY <1>1, ThreadAssumption, FS_Subset, FS_CardinalityType

(* Nobody starts to wait, nobody stops being awake and no message is added.    *)
LEMMA NothingToPay ==
    ASSUME WakeupInv, TypeOK, TypeOK', Waiting' \subseteq Waiting, Woken \subseteq Woken',
           count' <= count, shutdown' = shutdown
    PROVE  WakeupInv'
<1>1. Cardinality(Woken) <= Cardinality(Woken')
  BY WokenFinite, FS_Subset
<1>2. count \in Nat /\ count' \in Nat
  BY CapacityAssumption DEF TypeOK
<1>. QED BY <1>1, <1>2, WokenFinite DEF WakeupInv

(* A post adds one message at most, and its signal wakes a reader that waits.  *)
LEMMA PostPays ==
    ASSUME WakeupInv, TypeOK, TypeOK', NEW w \in Writers, Signalled(w, "idle"),
           pc[w] # "awake", count' \in {count, count + 1}, shutdown' = shutdown
    PROVE  WakeupInv'
<1>. USE ThreadAssumption
<1>1. count \in Nat /\ count' \in Nat /\ w \notin Readers
  BY CapacityAssumption DEF TypeOK
<1>2. CASE Waiting = {}
  <2>1. pc' = [pc EXCEPT ![w] = "idle"]
    BY <1>2 DEF Signalled
  <2>2. Waiting' = {}
    BY <1>2, <2>1 DEF Waiting, TypeOK
  <2>. QED BY <2>2 DEF WakeupInv
<1>3. CASE Waiting # {}
  <2>1. PICK r \in Waiting : pc' = [pc EXCEPT ![w] = "idle", ![r] = "awake"]
    BY <1>3 DEF Signalled
  <2>2. Woken' = Woken \cup {r} /\ r \notin Woken
    BY <1>1, <2>1 DEF Woken, Waiting, TypeOK
  <2>3. Cardinality(Woken') = Cardinality(Woken) + 1
    BY <2>2, WokenFinite, FS_AddElement
  <2>4. ~shutdown /\ count <= Cardinality(Woken)
    BY <1>3 DEF WakeupInv
  <2>. QED BY <1>1, <2>3, <2>4, WokenFinite DEF WakeupInv
<1>. QED BY <1>2, <1>3

(* A reader that takes a message was idle or is one of the woken.              *)
LEMMA TakerPays ==
    ASSUME WakeupInv, TypeOK, TypeOK', NEW r \in Readers, pc[r] \in {"idle", "awake"},
           pc' = [pc EXCEPT ![r] = "received"], count > 0, count' = count - 1,
           shutdown' = shutdown
    PROVE  WakeupInv'
<1>1. count \in Nat /\ count' \in Nat
  BY CapacityAssumption DEF TypeOK
<1>2. Waiting' = Waiting /\ Woken' = Woken \ {r}
  BY DEF Waiting, Woken, TypeOK
<1>3. Cardinality(Woken) - 1 <= Cardinality(Woken')
  BY <1>2, WokenFinite, FS_RemoveElement
<1>. QED BY <1>1, <1>2, <1>3, WokenFinite DEF WakeupInv

LEMMA InsertCounts ==
    ASSUME NEW m, Insert(m)
    PROVE  count' \in {count, count + 1}
BY DEF Insert

LEMMA WakeupsStep ==
    ASSUME TypeOK, TypeOK', WakeupInv, [Next]_vars
    PROVE  WakeupInv'
<1>. USE ThreadAssumption
<1>0. count \in Nat /\ count' \in Nat
  BY CapacityAssumption DEF TypeOK
<1>1. ASSUME NEW w \in Writers, CopyText(w)
      PROVE  WakeupInv'
  <2>1. Waiting' = Waiting /\ Woken' = Woken
    BY <1>1 DEF CopyText, Waiting, Woken, TypeOK
  <2>. QED BY <1>0, <1>1, <2>1, NothingToPay DEF CopyText, ring
<1>2. ASSUME NEW w \in Writers, PostMessage(w) \/ PostTokenUpdate(w)
      PROVE  WakeupInv'
  <2>1. PICK m : Insert(m)
    BY <1>2 DEF PostMessage, PostTokenUpdate
  <2>2. Signalled(w, "idle") /\ pc[w] # "awake" /\ shutdown' = shutdown
    BY <1>2 DEF PostMessage, PostTokenUpdate
  <2>. QED BY <2>1, <2>2, InsertCounts, PostPays
<1>3. ASSUME NEW r \in Readers, Poll(r) \/ (Wait(r) /\ count > 0)
      PROVE  WakeupInv'
  <2>1. /\ pc[r] \in {"idle", "awake"} /\ count > 0 /\ Receive(r)
        /\ pc' = [pc EXCEPT ![r] = "received"] /\ shutdown' = shutdown
    BY <1>0, <1>3 DEF Poll, Wait
  <2>2. count' = count - 1
    BY <2>1 DEF Receive
  <2>. QED BY <2>1, <2>2, TakerPays
<1>4. ASSUME NEW r \in Readers, Wait(r), count = 0, ~shutdown
      PROVE  WakeupInv'
  <2>1. count' = 0 /\ ~shutdown'
    BY <1>4 DEF Wait, ring
  <2>. QED BY <2>1, WokenFinite DEF WakeupInv
<1>5. ASSUME NEW r \in Readers, Wait(r), count = 0, shutdown
      PROVE  WakeupInv'
  <2>1. Waiting = {} /\ pc' = [pc EXCEPT ![r] = "stopped"]
    BY <1>5 DEF WakeupInv, Wait
  <2>2. Waiting' = {}
    BY <2>1 DEF Waiting, TypeOK
  <2>. QED BY <2>2 DEF WakeupInv
<1>6. ASSUME NEW r \in Readers, SpuriousWakeup(r) \/ Dispatch(r)
      PROVE  WakeupInv'
  <2>1. Waiting' \subseteq Waiting /\ Woken \subseteq Woken'
    BY <1>6 DEF SpuriousWakeup, Dispatch, Waiting, Woken, TypeOK
  <2>. QED BY <1>0, <1>6, <2>1, NothingToPay DEF SpuriousWakeup, Dispatch, ring
<1>7. CASE Shutdown
  <2>1. Waiting' = {}
    BY <1>7 DEF Shutdown, Waiting, TypeOK
  <2>. QED BY <2>1 DEF WakeupInv
<1>8. CASE Free \/ UNCHANGED vars
  <2>1. Waiting' = Waiting /\ Woken' = Woken
    BY <1>8 DEF Free, vars, Waiting, Woken
  <2>. QED BY <1>0, <1>8, <2>1, NothingToPay DEF Free, vars, ring
<1>9. ASSUME NEW r \in Readers, Wait(r)
      PROVE  WakeupInv'
  BY <1>0, <1>3, <1>4, <1>5, <1>9
<1>. QED BY <1>1, <1>2, <1>3, <1>6, <1>7, <1>8, <1>9 DEF Next

(* The one signal per post loses no wakeup, whatever the number of threads and *)
(* the capacity, also when posts evict and polls take messages from waiters.   *)
THEOREM NoWakeupLost == Spec => []NoLostWakeup
<1>1. Init => WakeupInv
  BY DEF Init, WakeupInv, Waiting
<1>2. TypeOK /\ TypeOK' /\ WakeupInv /\ [Next]_vars => WakeupInv'
  BY WakeupsStep
<1>3. WakeupInv => NoLostWakeup
  BY DEF WakeupInv, NoLostWakeup, Woken
<1>. QED BY <1>1, <1>2, <1>3, TypeCorrect, PTL DEF Spec

-----------------------------------------------------------------------------
(* The k-th message in order is k - 1 places after tail.                       *)
LEMMA OffsetOfPlace ==
    ASSUME NEW n \in Nat, NEW k \in 1 .. n
    PROVE  k - 1 \in 0 .. n - 1
OBVIOUS

(* Refinement: what is queued is determined by `posted` and `count`, so each   *)
(* step of the ring is a step of the drop-oldest queue or a stutter.           *)
LEMMA QueuedIsNewest ==
    ASSUME IInv, ~destroyed
    PROVE  QueuedPosts = [k \in 1 .. count |-> posted - count + k]
<1>. SUFFICES ASSUME NEW k \in 1 .. count
              PROVE  slots[Wrap(tail + k - 1)].seq = posted - count + k
  BY DEF QueuedPosts, Contents
<1>1. k - 1 \in 0 .. count - 1 /\ tail + (k - 1) = tail + k - 1
  BY DEF IInv, TypeOK, Index
<1>2. slots[Wrap(tail + (k - 1))].seq = posted - count + (k - 1) + 1
  BY <1>1 DEF IInv, PostsByPosition
<1>. QED BY <1>1, <1>2 DEF IInv, TypeOK

LEMMA QueuedIsNewestNext ==
    ASSUME IInv', ~destroyed'
    PROVE  QueuedPosts' = [k \in 1 .. count' |-> posted' - count' + k]
<1>. SUFFICES ASSUME NEW k \in 1 .. count'
              PROVE  slots'[Wrap(tail' + k - 1)].seq = posted' - count' + k
  BY DEF QueuedPosts, Contents
<1>1. k - 1 \in 0 .. count' - 1 /\ tail' + (k - 1) = tail' + k - 1
  <2>1. count' \in 0 .. Capacity /\ tail' \in 0 .. Capacity - 1
    BY DEF IInv, TypeOK, Index
  <2>2. count' \in Nat /\ tail' \in Nat /\ k \in Nat /\ k >= 1 /\ k <= count'
    BY <2>1, CapacityAssumption
  <2>3. k - 1 \in 0 .. count' - 1
    BY <2>2, OffsetOfPlace
  <2>4. tail' + (k - 1) = tail' + k - 1
    BY <2>2
  <2>. QED BY <2>3, <2>4
<1>2. slots'[Wrap(tail' + (k - 1))].seq = posted' - count' + (k - 1) + 1
  BY <1>1 DEF IInv, PostsByPosition
<1>. QED BY <1>1, <1>2 DEF IInv, TypeOK

(* Dropping the oldest of n consecutive numbers and appending the next one.    *)
LEMMA AppendToTail ==
    ASSUME NEW a \in Int, NEW n \in Nat \ {0}
    PROVE  Append(Tail([k \in 1 .. n |-> a + k]), a + n + 1) = [k \in 1 .. n |-> a + k + 1]
<1>. DEFINE q == [k \in 1 .. n |-> a + k]
            t == [k \in 1 .. n - 1 |-> a + k + 1]
<1>1. q \in Seq(Int) /\ Len(q) = n
  OBVIOUS
<1>2. Tail(q) = t
  BY <1>1
<1>3. t \in Seq(Int) /\ Len(t) = n - 1
  OBVIOUS
<1>4. Append(t, a + n + 1) = [k \in 1 .. n |-> a + k + 1]
  BY <1>3
<1>. QED BY <1>2, <1>4

(* Inserting is the abstract Post, whether or not it evicts.                   *)
LEMMA InsertIsPost ==
    ASSUME IInv, IInv', NEW m, Insert(m), ~destroyed, ~destroyed', UNCHANGED taken
    PROVE  Abstract!Post
<1>. USE CapacityAssumption
<1>. DEFINE q == [k \in 1 .. count |-> posted - count + k]
<1>1. QueuedPosts = q
  BY QueuedIsNewest
<1>2. posted' = posted + 1 /\ posted \in Nat /\ count \in 0 .. Capacity
      /\ count' = IF Full THEN count ELSE count + 1
  BY DEF Insert, IInv, TypeOK
<1>3. QueuedPosts' = [k \in 1 .. count' |-> posted + 1 - count' + k]
  BY <1>2, QueuedIsNewestNext
<1>4. q \in Seq(Int) /\ Len(q) = count
  BY <1>2
<1>5. CASE Full
  <2>1. count = Capacity /\ count' = count /\ count > 0
    BY <1>2, <1>5 DEF Full
  <2>2. Tail(q) = [k \in 1 .. count - 1 |-> posted - count + k + 1]
    BY <1>2, <1>4, <2>1
  <2>3. Append(Tail(q), posted + 1) = [k \in 1 .. count |-> posted + 1 - count + k]
    <3>1. posted - count \in Int /\ count \in Nat \ {0}
      BY <1>2, <2>1
    <3>2. Append(Tail(q), (posted - count) + count + 1)
            = [k \in 1 .. count |-> (posted - count) + k + 1]
      BY <3>1, AppendToTail
    <3>3. (posted - count) + count + 1 = posted + 1
      BY <1>2
    <3>4. \A k \in 1 .. count : (posted - count) + k + 1 = posted + 1 - count + k
      BY <1>2
    <3>. QED BY <3>2, <3>3, <3>4
  <2>. QED BY <1>1, <1>2, <1>3, <1>4, <2>1, <2>3 DEF Abstract!Post, Abstract!Kept
<1>6. CASE ~Full
  <2>1. count # Capacity /\ count' = count + 1
    BY <1>2, <1>6 DEF Full
  <2>2. Append(q, posted + 1) = [k \in 1 .. count + 1 |-> posted - count + k]
    BY <1>2, <1>4
  <2>. QED BY <1>1, <1>2, <1>3, <1>4, <2>1, <2>2 DEF Abstract!Post, Abstract!Kept
<1>. QED BY <1>5, <1>6

(* Receiving is the abstract Take.                                             *)
LEMMA ReceiveIsTake ==
    ASSUME IInv, IInv', NEW r \in Readers, Receive(r), count > 0,
           ~destroyed, ~destroyed', UNCHANGED posted
    PROVE  Abstract!Take
<1>. USE CapacityAssumption
<1>. DEFINE q == [k \in 1 .. count |-> posted - count + k]
<1>1. QueuedPosts = q
  BY QueuedIsNewest
<1>2. posted \in Nat /\ count \in 1 .. Capacity /\ count' = count - 1 /\ posted' = posted
  BY DEF Receive, IInv, TypeOK
<1>3. QueuedPosts' = [k \in 1 .. count - 1 |-> posted - count + 1 + k]
  BY <1>2, QueuedIsNewestNext
<1>4. taken' = posted - count + 1
  <2>1. tail = Wrap(tail + 0) /\ 0 \in 0 .. count - 1
    BY <1>2 DEF IInv, TypeOK, Index, Wrap
  <2>2. slots[Wrap(tail + 0)].seq = posted - count + 0 + 1
    BY <2>1 DEF IInv, PostsByPosition
  <2>. QED BY <1>2, <2>1, <2>2 DEF Receive
<1>5. q \in Seq(Int) /\ Len(q) = count /\ q # <<>> /\ Head(q) = posted - count + 1
  BY <1>2
<1>6. Tail(q) = [k \in 1 .. count - 1 |-> posted - count + 1 + k]
  BY <1>2, <1>5
<1>. QED BY <1>1, <1>2, <1>3, <1>4, <1>5, <1>6 DEF Abstract!Take

(* A step that leaves the ring, the posts and the takings alone is a stutter.  *)
LEMMA RingUnchangedStutters ==
    ASSUME UNCHANGED <<ring, posted, taken, destroyed>>
    PROVE  UNCHANGED Abstract!vars
BY DEF ring, Abstract!vars, QueuedPosts, Contents

LEMMA StepRefines ==
    ASSUME IInv, IInv', [Next]_vars
    PROVE  [Abstract!Next]_(Abstract!vars)
<1>1. ASSUME NEW w \in Writers, CopyText(w)
      PROVE  [Abstract!Next]_(Abstract!vars)
  BY <1>1, RingUnchangedStutters DEF CopyText
<1>2. ASSUME NEW w \in Writers, PostMessage(w) \/ PostTokenUpdate(w)
      PROVE  Abstract!Post
  <2>1. ~destroyed /\ ~destroyed' /\ UNCHANGED taken
    BY <1>2 DEF IInv, QuietOnceDestroyed, PostMessage, PostTokenUpdate
  <2>2. PICK m : Insert(m)
    BY <1>2 DEF PostMessage, PostTokenUpdate
  <2>. QED BY <2>1, <2>2, InsertIsPost
<1>3. ASSUME NEW r \in Readers, Poll(r) \/ (Wait(r) /\ count > 0)
      PROVE  Abstract!Take
  <2>1. ~destroyed /\ ~destroyed' /\ UNCHANGED posted
    BY <1>3 DEF IInv, QuietOnceDestroyed, Poll, Wait
  <2>2. Receive(r) /\ count > 0
    BY <1>3 DEF Poll, Wait
  <2>. QED BY <2>1, <2>2, ReceiveIsTake
<1>4. ASSUME NEW r \in Readers, \/ Wait(r) /\ ~(count > 0)
                               \/ SpuriousWakeup(r) \/ Dispatch(r)
      PROVE  [Abstract!Next]_(Abstract!vars)
  BY <1>4, RingUnchangedStutters DEF Wait, SpuriousWakeup, Dispatch
<1>5. CASE Shutdown
  BY <1>5, RingUnchangedStutters DEF Shutdown
<1>6. CASE Free
  BY <1>6 DEF Free, QueuedPosts, Abstract!Next, Abstract!Discard
<1>7. CASE UNCHANGED vars
  BY <1>7, RingUnchangedStutters DEF vars, ring
<1>. QED BY <1>1, <1>2, <1>3, <1>4, <1>5, <1>6, <1>7 DEF Next, Abstract!Next

(* The queue implements the drop-oldest queue, for every instance.             *)
THEOREM Refinement == Spec => ImplementsEvictingQueue
<1>1. Init => Abstract!Init
  BY DEF Init, Abstract!Init, QueuedPosts
<1>2. IInv /\ IInv' /\ [Next]_vars => [Abstract!Next]_(Abstract!vars)
  BY StepRefines
<1>. QED BY <1>1, <1>2, Invariance, PTL DEF Spec, ImplementsEvictingQueue, Abstract!Spec
=============================================================================
