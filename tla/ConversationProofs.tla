------------------------- MODULE ConversationProofs -------------------------
(* For any message limit, any number of texts and calls and any disturbances:  *)
(* a request below the limit answers every call, no call is answered twice,    *)
(* undisturbed answers stand right behind their calls, and the request made    *)
(* for an instruction carries its text.                                        *)
EXTENDS Conversation, TLAPS

(* Appending one message adds what it calls, answers and says.                 *)
LEMMA MembersOfAppend ==
    ASSUME NEW ms \in Seq(Message), NEW m \in Message
    PROVE  /\ Append(ms, m) \in Seq(Message)
           /\ Len(Append(ms, m)) = Len(ms) + 1
           /\ \A i \in 1 .. Len(ms) : Append(ms, m)[i] = ms[i]
           /\ Append(ms, m)[Len(ms) + 1] = m
           /\ DOMAIN ms = 1 .. Len(ms) /\ DOMAIN Append(ms, m) = 1 .. Len(ms) + 1
           /\ Len(ms) \in Nat
OBVIOUS

LEMMA CalledOfAppend ==
    ASSUME NEW ms \in Seq(Message), NEW m \in Message
    PROVE  Called(Append(ms, m)) = Called(ms) \cup CalledBy(m)
BY MembersOfAppend DEF Called

LEMMA AnsweredOfAppend ==
    ASSUME NEW ms \in Seq(Message), NEW m \in Message
    PROVE  Answered(Append(ms, m)) = Answered(ms) \cup AnsweredBy(m)
BY MembersOfAppend DEF Answered

LEMMA TextsOfAppend ==
    ASSUME NEW ms \in Seq(Message), NEW m \in Message
    PROVE  TextsOf(Append(ms, m)) = TextsOf(ms) \cup {t \in Texts : m = User(t)}
BY MembersOfAppend DEF TextsOf

LEMMA MessageKinds ==
    /\ System \in Message
    /\ \A t \in Texts : User(t) \in Message /\ CalledBy(User(t)) = {} /\ AnsweredBy(User(t)) = {}
    /\ \A S \in SUBSET CallIds :
          Assistant(S) \in Message /\ CalledBy(Assistant(S)) = S /\ AnsweredBy(Assistant(S)) = {}
    /\ \A S \in SUBSET (CallIds \cup {Unknown}) :
          Results(S) \in Message /\ CalledBy(Results(S)) = {} /\ AnsweredBy(Results(S)) = S
BY DEF Message, System, User, Assistant, Results, CalledBy, AnsweredBy

LEMMA UserTexts == \A t, u \in Texts : User(t) = User(u) => t = u
BY DEF User

-----------------------------------------------------------------------------
Once(ms) ==
    \A i, j \in DOMAIN ms :
        i # j => AnsweredBy(ms[i]) \cap AnsweredBy(ms[j]) \subseteq {Unknown}

(* What appending at most one message, as Add does, keeps.                     *)
LEMMA AddKeeps ==
    ASSUME NEW ms, IsHistory(ms), NEW m \in Message
    PROVE  /\ IsHistory(Add(ms, m))
           /\ Called(Add(ms, m)) \subseteq Called(ms) \cup CalledBy(m)
           /\ Answered(Add(ms, m)) \subseteq Answered(ms) \cup AnsweredBy(m)
           /\ TextsOf(ms) \subseteq TextsOf(Add(ms, m))
           /\ Once(ms) /\ AnsweredBy(m) \cap Answered(ms) \subseteq {Unknown} => Once(Add(ms, m))
<1>1. CASE ~HasRoom(ms)
  BY <1>1 DEF Add
<1>2. CASE HasRoom(ms)
  <2>1. Add(ms, m) = Append(ms, m) /\ ms \in Seq(Message)
    BY <1>2 DEF Add, IsHistory
  <2>2. IsHistory(Append(ms, m))
    BY <1>2, <2>1, MembersOfAppend, BoundAssumption DEF HasRoom, IsHistory
  <2>3. ASSUME Once(ms), AnsweredBy(m) \cap Answered(ms) \subseteq {Unknown}
        PROVE  Once(Append(ms, m))
    <3>1. \A i \in 1 .. Len(ms) : AnsweredBy(ms[i]) \subseteq Answered(ms)
      BY <2>1, MembersOfAppend DEF Answered
    <3>. SUFFICES ASSUME NEW i \in 1 .. Len(ms) + 1, NEW j \in 1 .. Len(ms) + 1, i # j
                  PROVE  AnsweredBy(Append(ms, m)[i]) \cap AnsweredBy(Append(ms, m)[j])
                            \subseteq {Unknown}
      BY <2>1, MembersOfAppend DEF Once
    <3>2. CASE i = Len(ms) + 1
      <4>1. j \in 1 .. Len(ms)
        BY <2>1, <3>2, MembersOfAppend
      <4>. QED
        BY <2>1, <2>3, <3>1, <3>2, <4>1, MembersOfAppend
    <3>3. CASE j = Len(ms) + 1
      <4>1. i \in 1 .. Len(ms)
        BY <2>1, <3>3, MembersOfAppend
      <4>. QED
        BY <2>1, <2>3, <3>1, <3>3, <4>1, MembersOfAppend
    <3>4. CASE i # Len(ms) + 1 /\ j # Len(ms) + 1
      <4>1. i \in 1 .. Len(ms) /\ j \in 1 .. Len(ms)
        BY <2>1, <3>4, MembersOfAppend
      <4>. QED
        BY <2>1, <2>3, <4>1, MembersOfAppend DEF Once
    <3>. QED
      BY <3>2, <3>3, <3>4
  <2>. QED
    BY <2>1, <2>2, <2>3, CalledOfAppend, AnsweredOfAppend, TextsOfAppend
<1>. QED
  BY <1>1, <1>2

LEMMA EmptyHistory ==
    /\ IsHistory(<<System>>)
    /\ Called(<<System>>) = {} /\ Answered(<<System>>) = {} /\ TextsOf(<<System>>) = {}
    /\ Once(<<System>>)
BY BoundAssumption
   DEF IsHistory, Message, Called, Answered, TextsOf, Once, System, User, CalledBy, AnsweredBy

(* The repair answers every call if there is room for its message.             *)
LEMMA EnsureAnswers ==
    ASSUME NEW ms, IsHistory(ms), Called(ms) \subseteq CallIds
    PROVE  LET es == EnsureToolResults(ms)
           IN  /\ IsHistory(es)
               /\ Called(es) \subseteq Called(ms)
               /\ Answered(es) \subseteq Answered(ms) \cup Called(ms)
               /\ TextsOf(ms) \subseteq TextsOf(es)
               /\ Once(ms) => Once(es)
               /\ Len(es) < MaxMessages => Called(es) \subseteq Answered(es)
<1>. DEFINE missing == Called(ms) \ Answered(ms)
<1>1. /\ Results(missing) \in Message /\ CalledBy(Results(missing)) = {}
      /\ AnsweredBy(Results(missing)) = missing
  BY MessageKinds
<1>2. CASE missing = {}
  BY <1>2 DEF EnsureToolResults
<1>3. CASE missing # {}
  <2>1. EnsureToolResults(ms) = Add(ms, Results(missing))
    BY <1>3 DEF EnsureToolResults
  <2>2. Once(ms) => Once(Add(ms, Results(missing)))
    BY <1>1, AddKeeps
  <2>3. ASSUME Len(Add(ms, Results(missing))) < MaxMessages
        PROVE  Called(Add(ms, Results(missing))) \subseteq Answered(Add(ms, Results(missing)))
    <3>1. HasRoom(ms)
      BY <2>3 DEF Add, HasRoom
    <3>2. Add(ms, Results(missing)) = Append(ms, Results(missing)) /\ ms \in Seq(Message)
      BY <3>1 DEF Add, IsHistory
    <3>. QED
      BY <1>1, <3>2, CalledOfAppend, AnsweredOfAppend
  <2>. QED
    BY <1>1, <2>1, <2>2, <2>3, AddKeeps
<1>. QED
  BY <1>2, <1>3

-----------------------------------------------------------------------------
Used == 1 .. calls

(* Calls are answered at most once because an executing call is not answered.  *)
HistoryInv ==
    /\ Called(msgs) \subseteq Used
    /\ Answered(msgs) \subseteq Used \cup {Unknown}
    /\ pending \subseteq Used \cup {Unknown}
    /\ pending \cap Answered(msgs) \subseteq {Unknown}
    /\ phase # "tools" => pending = {}
    /\ Once(msgs)

Known == TextsOf(msgs) \cup forgotten

(* A text the worker may get to see is in the history or was taken out of it.  *)
TextInv ==
    /\ typed # 0 => typed \in Known
    /\ \A i \in 1 .. Len(inbox) : inbox[i] \in Known
    /\ phase # "idle" => current \in Known
    /\ RequestCarriesInstruction

IInv == TypeOK /\ HistoryInv /\ TextInv /\ EveryCallAnswered

LEMMA InitInv == Init => IInv
<1>. SUFFICES ASSUME Init PROVE IInv
  OBVIOUS
<1>1. TypeOK
  <2>1. msgs = <<System>> /\ request = <<>> /\ IsHistory(<<System>>)
    BY EmptyHistory DEF Init
  <2>2. IsHistory(request)
    BY <2>1, BoundAssumption DEF IsHistory
  <2>3. /\ texts \in 0 .. MaxTexts /\ typed \in 0 .. MaxTexts /\ current \in 0 .. MaxTexts
        /\ calls \in 0 .. MaxCalls
    BY BoundAssumption DEF Init
  <2>. QED
    BY <2>1, <2>2, <2>3 DEF Init, TypeOK
<1>2. HistoryInv
  BY EmptyHistory DEF Init, HistoryInv
<1>3. TextInv /\ EveryCallAnswered
  BY DEF Init, TextInv, RequestCarriesInstruction, EveryCallAnswered
<1>. QED
  BY <1>1, <1>2, <1>3 DEF IInv

LEMMA EmptyIsHistory == IsHistory(<<>>) /\ <<>> \in Seq(Texts)
BY BoundAssumption DEF IsHistory

LEMMA CallIdsUsed == IInv => Used \subseteq CallIds
BY BoundAssumption DEF IInv, TypeOK, Used, CallIds

LEMMA AppendTextStep ==
    ASSUME IInv, AppendText
    PROVE  IInv'
<1>. USE BoundAssumption DEF AppendText
<1>a. texts + 1 \in Texts
  BY DEF IInv, TypeOK, Texts
<1>b. User(texts + 1) \in Message
      /\ CalledBy(User(texts + 1)) = {} /\ AnsweredBy(User(texts + 1)) = {}
  BY <1>a, MessageKinds
<1>0. /\ IsHistory(msgs') /\ Called(msgs') \subseteq Called(msgs) \cup CalledBy(User(texts + 1))
      /\ Answered(msgs') \subseteq Answered(msgs) \cup AnsweredBy(User(texts + 1))
      /\ TextsOf(msgs) \subseteq TextsOf(msgs')
      /\ Once(msgs) /\ AnsweredBy(User(texts + 1)) \cap Answered(msgs) \subseteq {Unknown} => Once(msgs')
  BY <1>b, AddKeeps DEF IInv, TypeOK
<1>1. TypeOK'
  <2>1. /\ texts' \in 0 .. MaxTexts /\ typed' \in 0 .. MaxTexts /\ forgotten' \subseteq Texts
    BY <1>a DEF IInv, TypeOK
  <2>. QED
    BY <1>0, <2>1 DEF IInv, TypeOK
<1>2. HistoryInv'
  BY <1>0, <1>b DEF IInv, HistoryInv, Used
<1>3. TextInv'
  <2>1. Known \subseteq Known'
    BY <1>0 DEF Known
  <2>2. texts + 1 \in Known'
    <3>1. CASE ~HasRoom(msgs)
      BY <3>1 DEF Known
    <3>2. CASE HasRoom(msgs)
      <4>1. msgs' = Append(msgs, User(texts + 1)) /\ msgs \in Seq(Message)
        BY <3>2 DEF Add, IInv, TypeOK, IsHistory
      <4>2. texts + 1 \in TextsOf(msgs')
        BY <1>a, <1>b, <4>1, TextsOfAppend
      <4>. QED
        BY <4>2 DEF Known
    <3>. QED
      BY <3>1, <3>2
  <2>3. RequestCarriesInstruction'
    BY DEF IInv, TextInv, RequestCarriesInstruction
  <2>. QED
    BY <2>1, <2>2, <2>3 DEF IInv, TextInv
<1>4. EveryCallAnswered'
  BY DEF IInv, EveryCallAnswered
<1>. QED
  BY <1>1, <1>2, <1>3, <1>4 DEF IInv

LEMMA EnqueueStep ==
    ASSUME IInv, Enqueue
    PROVE  IInv'
<1>. USE BoundAssumption DEF Enqueue
<1>1. TypeOK'
  <2>1. typed \in Texts /\ typed' \in 0 .. MaxTexts
    BY DEF IInv, TypeOK, Texts
  <2>2. inbox' \in Seq(Texts)
    BY <2>1 DEF IInv, TypeOK
  <2>. QED
    BY <2>1, <2>2 DEF IInv, TypeOK
<1>2. HistoryInv'
  BY DEF IInv, HistoryInv, Used
<1>3. TextInv'
  BY DEF IInv, TypeOK, TextInv, Known, RequestCarriesInstruction
<1>4. EveryCallAnswered'
  BY DEF IInv, EveryCallAnswered
<1>. QED
  BY <1>1, <1>2, <1>3, <1>4 DEF IInv

LEMMA ClearStep ==
    ASSUME IInv, Clear
    PROVE  IInv'
<1>. USE BoundAssumption DEF Clear
<1>1. TypeOK'
  BY EmptyHistory DEF IInv, TypeOK, TextsOf
<1>2. HistoryInv'
  BY EmptyHistory DEF IInv, HistoryInv, Used
<1>3. TextInv'
  BY DEF IInv, TypeOK, TextInv, Known, RequestCarriesInstruction
<1>4. EveryCallAnswered'
  BY DEF IInv, EveryCallAnswered
<1>. QED
  BY <1>1, <1>2, <1>3, <1>4 DEF IInv

LEMMA TakeInstructionStep ==
    ASSUME IInv, TakeInstruction
    PROVE  IInv'
<1>. USE BoundAssumption DEF TakeInstruction
<1>1. TypeOK'
  <2>1. inbox \in Seq(Texts) /\ inbox # <<>>
    BY DEF IInv, TypeOK
  <2>2. Head(inbox) \in Texts /\ Tail(inbox) \in Seq(Texts)
    BY <2>1
  <2>3. current' \in 0 .. MaxTexts
    BY <2>2 DEF Texts
  <2>. QED
    BY <2>2, <2>3 DEF IInv, TypeOK
<1>2. HistoryInv'
  BY DEF IInv, HistoryInv, Used
<1>3. TextInv'
  BY DEF IInv, TypeOK, TextInv, Known, RequestCarriesInstruction
<1>4. EveryCallAnswered'
  BY DEF IInv, EveryCallAnswered
<1>. QED
  BY <1>1, <1>2, <1>3, <1>4 DEF IInv

LEMMA BuildRequestStep ==
    ASSUME IInv, BuildRequest
    PROVE  IInv'
<1>. USE BoundAssumption DEF BuildRequest
<1>0. /\ IsHistory(msgs') /\ Called(msgs') \subseteq Called(msgs)
      /\ Answered(msgs') \subseteq Answered(msgs) \cup Called(msgs)
      /\ TextsOf(msgs) \subseteq TextsOf(msgs')
      /\ Once(msgs) => Once(msgs')
      /\ Len(msgs') < MaxMessages => Called(msgs') \subseteq Answered(msgs')
  <2>1. IsHistory(msgs) /\ Called(msgs) \subseteq CallIds
    BY CallIdsUsed DEF IInv, TypeOK, HistoryInv
  <2>. QED
    BY <2>1, EnsureAnswers
<1>1. TypeOK'
  BY <1>0 DEF IInv, TypeOK
<1>2. HistoryInv'
  BY <1>0 DEF IInv, HistoryInv, Used
<1>3. TextInv'
  <2>1. Known \subseteq Known' /\ current \in Known
    BY <1>0 DEF Known, IInv, TextInv
  <2>2. RequestCarriesInstruction'
    BY <2>1 DEF RequestCarriesInstruction, Known
  <2>. QED
    BY <2>1, <2>2 DEF IInv, TypeOK, TextInv
<1>4. EveryCallAnswered'
  BY <1>0 DEF EveryCallAnswered
<1>. QED
  BY <1>1, <1>2, <1>3, <1>4 DEF IInv

LEMMA RetryStep ==
    ASSUME IInv, Retry
    PROVE  IInv'
<1>. USE BoundAssumption DEF Retry
<1>1. TypeOK'
  BY EmptyIsHistory DEF IInv, TypeOK
<1>2. HistoryInv'
  BY DEF IInv, HistoryInv, Used
<1>3. TextInv'
  BY DEF IInv, TypeOK, TextInv, Known, RequestCarriesInstruction
<1>4. EveryCallAnswered'
  BY DEF IInv, EveryCallAnswered
<1>. QED
  BY <1>1, <1>2, <1>3, <1>4 DEF IInv

LEMMA CallFailsStep ==
    ASSUME IInv, CallFails
    PROVE  IInv'
<1>. USE BoundAssumption DEF CallFails
<1>1. TypeOK'
  BY EmptyIsHistory DEF IInv, TypeOK
<1>2. HistoryInv'
  BY DEF IInv, HistoryInv, Used
<1>3. TextInv'
  BY DEF IInv, TypeOK, TextInv, Known, RequestCarriesInstruction
<1>4. EveryCallAnswered'
  BY DEF IInv, EveryCallAnswered
<1>. QED
  BY <1>1, <1>2, <1>3, <1>4 DEF IInv

LEMMA AnswerTextStep ==
    ASSUME IInv, AnswerText
    PROVE  IInv'
<1>. USE BoundAssumption DEF AnswerText
<1>a. Assistant({}) \in Message /\ CalledBy(Assistant({})) = {} /\ AnsweredBy(Assistant({})) = {}
  BY MessageKinds
<1>0. /\ IsHistory(msgs') /\ Called(msgs') \subseteq Called(msgs) \cup CalledBy(Assistant({}))
      /\ Answered(msgs') \subseteq Answered(msgs) \cup AnsweredBy(Assistant({}))
      /\ TextsOf(msgs) \subseteq TextsOf(msgs')
      /\ Once(msgs) /\ AnsweredBy(Assistant({})) \cap Answered(msgs) \subseteq {Unknown} => Once(msgs')
  BY <1>a, AddKeeps DEF IInv, TypeOK
<1>1. TypeOK'
  BY <1>0, EmptyIsHistory DEF IInv, TypeOK
<1>2. HistoryInv'
  BY <1>0, <1>a DEF IInv, HistoryInv, Used
<1>3. TextInv'
  <2>1. Known \subseteq Known'
    BY <1>0 DEF Known
  <2>. QED
    BY <2>1 DEF IInv, TypeOK, TextInv, RequestCarriesInstruction
<1>4. EveryCallAnswered'
  BY DEF IInv, EveryCallAnswered
<1>. QED
  BY <1>1, <1>2, <1>3, <1>4 DEF IInv

LEMMA AnswerToolsStep ==
    ASSUME IInv, AnswerTools
    PROVE  IInv'
<1>. USE BoundAssumption DEF AnswerTools
<1>. PICK n \in 0 .. 2, nameless \in {{}, {Unknown}} :
        LET new == calls + 1 .. calls + n
        IN  /\ calls + n <= MaxCalls /\ new \cup nameless # {}
            /\ calls' = calls + n
            /\ pending' = new \cup nameless
            /\ msgs' \in {Add(msgs, Assistant(new))} \cup (IF new = {} THEN {msgs} ELSE {})
  OBVIOUS
<1>. DEFINE new == calls + 1 .. calls + n
<1>a. /\ new \in SUBSET CallIds /\ new \subseteq 1 .. calls + n /\ new \cap (Used \cup {Unknown}) = {}
      /\ calls + n \in 0 .. MaxCalls /\ Used \subseteq 1 .. calls + n
  BY DEF IInv, TypeOK, CallIds, Used, Unknown
<1>b. Assistant(new) \in Message /\ CalledBy(Assistant(new)) = new /\ AnsweredBy(Assistant(new)) = {}
  BY <1>a, MessageKinds
<1>c. calls' = calls + n /\ pending' = new \cup nameless
      /\ (msgs' = Add(msgs, Assistant(new)) \/ msgs' = msgs)
  OBVIOUS
<1>. HIDE DEF new
<1>0. /\ IsHistory(msgs') /\ Called(msgs') \subseteq Called(msgs) \cup CalledBy(Assistant(new))
      /\ Answered(msgs') \subseteq Answered(msgs) \cup AnsweredBy(Assistant(new))
      /\ TextsOf(msgs) \subseteq TextsOf(msgs')
      /\ Once(msgs) /\ AnsweredBy(Assistant(new)) \cap Answered(msgs) \subseteq {Unknown} => Once(msgs')
  BY <1>b, <1>c, AddKeeps DEF IInv, TypeOK
<1>1. TypeOK'
  <2>1. calls' \in 0 .. MaxCalls /\ pending' \subseteq CallIds \cup {Unknown}
    BY <1>a, <1>c
  <2>. QED
    BY <1>0, <2>1, EmptyIsHistory DEF IInv, TypeOK
<1>2. HistoryInv'
  <2>1. Used' = 1 .. calls + n
    BY <1>c DEF Used
  <2>2. pending' \cap Answered(msgs') \subseteq {Unknown}
    BY <1>0, <1>a, <1>b, <1>c DEF IInv, HistoryInv
  <2>. QED
    BY <1>0, <1>a, <1>b, <1>c, <2>1, <2>2 DEF IInv, HistoryInv
<1>3. TextInv'
  <2>1. Known \subseteq Known'
    BY <1>0 DEF Known
  <2>. QED
    BY <2>1 DEF IInv, TypeOK, TextInv, RequestCarriesInstruction
<1>4. EveryCallAnswered'
  BY DEF IInv, EveryCallAnswered
<1>. QED
  BY <1>1, <1>2, <1>3, <1>4 DEF IInv

LEMMA SetupFailsStep ==
    ASSUME IInv, SetupFails
    PROVE  IInv'
<1>. USE BoundAssumption DEF SetupFails
<1>1. TypeOK'
  BY EmptyIsHistory DEF IInv, TypeOK
<1>2. HistoryInv'
  BY DEF IInv, HistoryInv, Used
<1>3. TextInv'
  BY DEF IInv, TypeOK, TextInv, Known, RequestCarriesInstruction
<1>4. EveryCallAnswered'
  BY DEF IInv, EveryCallAnswered
<1>. QED
  BY <1>1, <1>2, <1>3, <1>4 DEF IInv

LEMMA RecordResultsStep ==
    ASSUME IInv, RecordResults
    PROVE  IInv'
<1>. USE BoundAssumption DEF RecordResults
<1>. PICK images \in SUBSET (pending \ {Unknown}) : msgs' = Add(msgs, Results(pending \ images))
  OBVIOUS
<1>. DEFINE answers == pending \ images
<1>a. answers \subseteq pending /\ answers \in SUBSET (CallIds \cup {Unknown})
  BY DEF IInv, TypeOK
<1>b. Results(answers) \in Message /\ CalledBy(Results(answers)) = {}
      /\ AnsweredBy(Results(answers)) = answers
  BY <1>a, MessageKinds
<1>c. msgs' = Add(msgs, Results(answers))
  OBVIOUS
<1>. HIDE DEF answers
<1>0. /\ IsHistory(msgs') /\ Called(msgs') \subseteq Called(msgs) \cup CalledBy(Results(answers))
      /\ Answered(msgs') \subseteq Answered(msgs) \cup AnsweredBy(Results(answers))
      /\ TextsOf(msgs) \subseteq TextsOf(msgs')
      /\ Once(msgs) /\ AnsweredBy(Results(answers)) \cap Answered(msgs) \subseteq {Unknown} => Once(msgs')
  BY <1>b, <1>c, AddKeeps DEF IInv, TypeOK
<1>1. TypeOK'
  BY <1>0 DEF IInv, TypeOK
<1>2. HistoryInv'
  BY <1>0, <1>a, <1>b DEF IInv, HistoryInv, Used
<1>3. TextInv'
  <2>1. Known \subseteq Known'
    BY <1>0 DEF Known
  <2>. QED
    BY <2>1 DEF IInv, TypeOK, TextInv, RequestCarriesInstruction
<1>4. EveryCallAnswered'
  BY DEF IInv, EveryCallAnswered
<1>. QED
  BY <1>1, <1>2, <1>3, <1>4 DEF IInv

-----------------------------------------------------------------------------
(* IInv is an inductive invariant of the conversation.                         *)
THEOREM Invariance == Spec => []IInv
<1>1. IInv /\ [Next]_vars => IInv'
  <2>. SUFFICES ASSUME IInv, [Next]_vars PROVE IInv'
    OBVIOUS
  <2>1. CASE Next
    BY <2>1, AppendTextStep, EnqueueStep, ClearStep, TakeInstructionStep, BuildRequestStep,
       RetryStep, CallFailsStep, AnswerTextStep, AnswerToolsStep, SetupFailsStep,
       RecordResultsStep DEF Next
  <2>2. CASE UNCHANGED vars
    BY <2>2 DEF vars, IInv, TypeOK, HistoryInv, TextInv, Known, Used,
                RequestCarriesInstruction, EveryCallAnswered
  <2>. QED
    BY <2>1, <2>2
<1>. QED
  BY <1>1, InitInv, PTL DEF Spec

(* Histories and requests stay within the limit and consist of messages.       *)
THEOREM TypeCorrect == Spec => []TypeOK
BY Invariance, PTL DEF IInv

(* build_openai_request, through ensure_tool_results: a request below the      *)
(* limit answers every tool call it contains.                                  *)
THEOREM RequestsAnswered == Spec => []EveryCallAnswered
BY Invariance, PTL DEF IInv

(* A synthetic result never meets a real one for the same call.                *)
THEOREM NoSecondAnswer == Spec => []AnsweredAtMostOnce
<1>1. IInv => AnsweredAtMostOnce
  BY DEF IInv, HistoryInv, Once, AnsweredAtMostOnce
<1>. QED
  BY <1>1, Invariance, PTL

(* Each tool call of a request has one result, through all that can happen to  *)
(* the history.                                                                *)
THEOREM OneAnswerEach == Spec => []AnsweredOnce
BY RequestsAnswered, NoSecondAnswer, PTL DEF AnsweredOnce

(* add_user_message comes before ai_worker_submit: the worker's request has    *)
(* the text unless /clear or the limit took it.                                *)
THEOREM InstructionCarried == Spec => []RequestCarriesInstruction
BY Invariance, PTL DEF IInv, TextInv
-----------------------------------------------------------------------------
(* Answers behind their calls. While nothing disturbs, a history below the     *)
(* limit has the answers to each assistant message directly behind it; only    *)
(* the last message may have calls that are still being executed.              *)
PairedBut(ms, open) ==
    \A i \in DOMAIN ms :
        \/ CalledBy(ms[i]) \subseteq AnswersBehind(ms, i)
        \/ i = Len(ms) /\ CalledBy(ms[i]) \subseteq open

Executing == IF phase = "tools" THEN pending ELSE {}

PairInv == calm => Paired /\ (Len(msgs) < MaxMessages => PairedBut(msgs, Executing))

(* What is appended takes no answer away, and results stand behind the end.    *)
LEMMA BehindOfAppend ==
    ASSUME NEW ms \in Seq(Message), NEW m \in Message, NEW i \in DOMAIN ms
    PROVE  /\ AnswersBehind(ms, i) \subseteq AnswersBehind(Append(ms, m), i)
           /\ m.role = "results" /\ i = Len(ms) =>
                 AnsweredBy(m) \subseteq AnswersBehind(Append(ms, m), i)
<1>. DEFINE Behind(h) == {k \in i + 1 .. Len(h) : \A l \in i + 1 .. k : h[l].role = "results"}
            longer == Append(ms, m)
<1>1. /\ Len(longer) = Len(ms) + 1 /\ Len(ms) \in Nat /\ i \in 1 .. Len(ms)
      /\ \A k \in 1 .. Len(ms) : longer[k] = ms[k]
      /\ longer[Len(ms) + 1] = m
  BY MembersOfAppend
<1>. HIDE DEF longer
<1>2. Behind(ms) \subseteq Behind(longer)
  BY <1>1
<1>3. \A k \in Behind(ms) : longer[k] = ms[k]
  BY <1>1
<1>4. m.role = "results" /\ i = Len(ms) => i + 1 \in Behind(longer) /\ longer[i + 1] = m
  BY <1>1
<1>5. \A h : AnswersBehind(h, i) = UNION {AnsweredBy(h[k]) : k \in Behind(h)}
  BY DEF AnswersBehind
<1>. HIDE DEF Behind
<1>6. AnswersBehind(ms, i) \subseteq AnswersBehind(longer, i)
  BY <1>2, <1>3, <1>5
<1>7. m.role = "results" /\ i = Len(ms) => AnsweredBy(m) \subseteq AnswersBehind(longer, i)
  BY <1>4, <1>5
<1>. QED
  BY <1>6, <1>7 DEF longer

LEMMA PairedOfAdd ==
    ASSUME NEW ms, IsHistory(ms), NEW m \in Message, NEW open, NEW next,
           Len(ms) < MaxMessages => PairedBut(ms, open),
           open = {} \/ (m.role = "results" /\ open \subseteq AnsweredBy(m)),
           CalledBy(m) \subseteq next,
           Len(Add(ms, m)) < MaxMessages
    PROVE  PairedBut(Add(ms, m), next)
<1>1. ms \in Seq(Message) /\ Len(ms) \in Nat /\ MaxMessages \in Nat
  BY BoundAssumption DEF IsHistory
<1>2. HasRoom(ms) /\ Add(ms, m) = Append(ms, m)
  BY <1>1 DEF Add, HasRoom
<1>3. PairedBut(ms, open)
  BY <1>2 DEF HasRoom
<1>. DEFINE longer == Append(ms, m)
<1>4. ASSUME NEW i \in DOMAIN ms
      PROVE  CalledBy(longer[i]) \subseteq AnswersBehind(longer, i)
  <2>1. longer[i] = ms[i]
    BY <1>1, MembersOfAppend
  <2>2. CASE CalledBy(ms[i]) \subseteq AnswersBehind(ms, i)
    BY <1>1, <2>1, <2>2, BehindOfAppend
  <2>3. CASE i = Len(ms) /\ CalledBy(ms[i]) \subseteq open
    BY <1>1, <2>1, <2>3, BehindOfAppend
  <2>. QED
    BY <1>3, <2>2, <2>3 DEF PairedBut
<1>5. longer[Len(longer)] = m /\ DOMAIN longer = DOMAIN ms \cup {Len(longer)}
  BY <1>1, MembersOfAppend
<1>. HIDE DEF longer
<1>6. PairedBut(longer, next)
  BY <1>4, <1>5 DEF PairedBut
<1>. QED
  BY <1>2, <1>6 DEF longer

(* Steps that leave the history alone and open no calls.                       *)
LEMMA PairedUntouched ==
    ASSUME PairInv, UNCHANGED <<msgs, request>>, Executing' = Executing,
           calm' => calm, phase' = "sent" => phase = "sent"
    PROVE  PairInv'
BY DEF PairInv, Paired, PairedBut

(* Steps that may append a message and are not the sending of a request.       *)
LEMMA PairedAppended ==
    ASSUME IInv, PairInv, NEW m \in Message, msgs' = Add(msgs, m),
           calm' => calm,
           calm' => Executing = {} \/ (m.role = "results" /\ Executing \subseteq AnsweredBy(m)),
           CalledBy(m) \subseteq Executing', phase' = "sent" => phase = "sent" /\ UNCHANGED request
    PROVE  PairInv'
<1>. SUFFICES ASSUME calm' PROVE Paired' /\ (Len(msgs') < MaxMessages => PairedBut(msgs', Executing'))
  BY DEF PairInv
<1>1. Paired'
  BY DEF PairInv, Paired
<1>2. IsHistory(msgs)
  BY DEF IInv, TypeOK
<1>3. ASSUME Len(msgs') < MaxMessages PROVE PairedBut(Add(msgs, m), Executing')
  BY <1>2, <1>3, PairedOfAdd DEF PairInv
<1>. QED
  BY <1>1, <1>3

LEMMA PairedStep ==
    ASSUME IInv, PairInv, [Next]_vars
    PROVE  PairInv'
<1>. USE DEF Executing
<1>1. CASE AppendText
  <2>1. texts + 1 \in Texts
    BY <1>1, BoundAssumption DEF AppendText, Texts, IInv, TypeOK
  <2>2. User(texts + 1) \in Message /\ CalledBy(User(texts + 1)) = {}
    BY <2>1, MessageKinds
  <2>3. calm' => calm /\ phase = "idle"
    BY <1>1 DEF AppendText, Busy
  <2>. QED
    BY <1>1, <2>2, <2>3, PairedAppended DEF AppendText
<1>2. CASE Enqueue \/ TakeInstruction \/ Retry \/ CallFails \/ SetupFails \/ UNCHANGED vars
  <2>1. CASE Enqueue \/ TakeInstruction \/ UNCHANGED vars
    BY <2>1, PairedUntouched DEF Enqueue, TakeInstruction, vars
  <2>2. CASE Retry \/ CallFails \/ SetupFails
    BY <2>2 DEF Retry, CallFails, SetupFails, PairInv, Paired, PairedBut
  <2>. QED
    BY <1>2, <2>1, <2>2
<1>3. CASE Clear
  <2>1. DOMAIN msgs' = {1} /\ msgs'[1] = System
    BY <1>3 DEF Clear
  <2>2. CalledBy(System) = {}
    BY DEF CalledBy, System
  <2>3. PairedBut(msgs', Executing')
    BY <2>1, <2>2 DEF PairedBut
  <2>. QED
    BY <1>3, <2>3 DEF Clear, PairInv, Paired
<1>4. CASE BuildRequest
  <2>. DEFINE missing == Called(msgs) \ Answered(msgs)
  <2>1. missing \in SUBSET (CallIds \cup {Unknown})
    BY CallIdsUsed DEF IInv, HistoryInv, Used
  <2>2. Results(missing) \in Message /\ CalledBy(Results(missing)) = {}
    BY <2>1, MessageKinds
  <2>3. msgs' = msgs \/ msgs' = Add(msgs, Results(missing))
    BY <1>4 DEF BuildRequest, EnsureToolResults
  <2>. HIDE DEF missing
  <2>4. Executing = {} /\ Executing' = {} /\ (calm' => calm)
    BY <1>4 DEF BuildRequest
  <2>5. IsHistory(msgs)
    BY DEF IInv, TypeOK
  <2>6. calm' /\ Len(msgs') < MaxMessages => PairedBut(msgs', {})
    <3>1. CASE msgs' = msgs
      BY <2>4, <3>1 DEF PairInv
    <3>2. CASE msgs' = Add(msgs, Results(missing))
      BY <2>2, <2>4, <2>5, <3>2, PairedOfAdd DEF PairInv
    <3>. QED
      BY <2>3, <3>1, <3>2
  <2>7. request' = msgs'
    BY <1>4 DEF BuildRequest
  <2>. QED
    BY <2>4, <2>6, <2>7 DEF PairInv, Paired, PairedBut
<1>5. CASE AnswerText
  <2>1. Assistant({}) \in Message /\ CalledBy(Assistant({})) = {}
    BY MessageKinds
  <2>2. CASE msgs' = msgs
    BY <1>5, <2>2 DEF AnswerText, PairInv, Paired, PairedBut
  <2>3. CASE msgs' = Add(msgs, Assistant({}))
    BY <1>5, <2>1, <2>3, PairedAppended DEF AnswerText
  <2>. QED
    BY <1>5, <2>2, <2>3 DEF AnswerText
<1>6. CASE AnswerTools
  <2>1. PICK n \in 0 .. 2, nameless \in {{}, {Unknown}} :
           /\ calls + n <= MaxCalls
           /\ pending' = (calls + 1 .. calls + n) \cup nameless
           /\ msgs' = Add(msgs, Assistant(calls + 1 .. calls + n)) \/ msgs' = msgs
    BY <1>6 DEF AnswerTools
  <2>. DEFINE new == calls + 1 .. calls + n
  <2>2. new \in SUBSET CallIds
    BY <2>1, BoundAssumption DEF IInv, TypeOK, CallIds
  <2>3. Assistant(new) \in Message /\ CalledBy(Assistant(new)) = new
    BY <2>2, MessageKinds
  <2>4. new \subseteq pending' /\ (msgs' = Add(msgs, Assistant(new)) \/ msgs' = msgs)
    BY <2>1
  <2>. HIDE DEF new
  <2>5. phase = "sent" /\ phase' = "tools" /\ calm' = calm
    BY <1>6 DEF AnswerTools
  <2>6. CASE msgs' = msgs
    BY <2>5, <2>6 DEF PairInv, Paired, PairedBut
  <2>7. CASE msgs' = Add(msgs, Assistant(new))
    BY <2>3, <2>4, <2>5, <2>7, PairedAppended
  <2>. QED
    BY <2>4, <2>6, <2>7
<1>7. CASE RecordResults
  <2>1. PICK images \in SUBSET (pending \ {Unknown}) :
           msgs' = Add(msgs, Results(pending \ images)) /\ calm' = (calm /\ images = {})
    BY <1>7 DEF RecordResults
  <2>. DEFINE answers == pending \ images
  <2>2. answers \in SUBSET (CallIds \cup {Unknown}) /\ (calm' => pending \subseteq answers)
    BY <2>1 DEF IInv, TypeOK
  <2>3. /\ Results(answers) \in Message /\ CalledBy(Results(answers)) = {}
        /\ AnsweredBy(Results(answers)) = answers /\ Results(answers).role = "results"
    BY <2>2, MessageKinds DEF Results
  <2>4. msgs' = Add(msgs, Results(answers)) /\ (calm' => calm)
    BY <2>1
  <2>. HIDE DEF answers
  <2>5. phase = "tools" /\ phase' # "sent"
    BY <1>7 DEF RecordResults
  <2>. QED
    BY <2>2, <2>3, <2>4, <2>5, PairedAppended
<1>. QED
  BY <1>1, <1>2, <1>3, <1>4, <1>5, <1>6, <1>7 DEF Next

(* As long as nobody submits or clears while the worker is busy, no image is   *)
(* uploaded and no round is abandoned, every request below the limit has the   *)
(* results of each assistant message directly behind it (add_tool_results,     *)
(* ensure_tool_results), for any limit and any number of texts and calls.      *)
THEOREM ResultsFollowCalls == Spec => []PairedWhenCalm
<1>1. Init => PairInv
  <2>. SUFFICES ASSUME Init PROVE PairInv
    OBVIOUS
  <2>1. DOMAIN msgs = {1} /\ msgs[1] = System /\ CalledBy(System) = {}
    BY DEF Init, CalledBy, System
  <2>. QED
    BY <2>1 DEF Init, PairInv, Paired, PairedBut
<1>2. IInv /\ PairInv /\ [Next]_vars => PairInv'
  BY PairedStep
<1>3. PairInv => PairedWhenCalm
  BY DEF PairInv, PairedWhenCalm
<1>. QED
  BY <1>1, <1>2, <1>3, Invariance, PTL DEF Spec
=============================================================================
