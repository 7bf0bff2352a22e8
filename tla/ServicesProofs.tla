--------------------------- MODULE ServicesProofs ---------------------------
(* Proofs about Services and the modules it composes, for every value of      *)
(* their constants. An API call: the types, the time limit of the retries,    *)
(* the replacement of a refused access key. The Bash tool: where the output   *)
(* and stderr go. An MCP server: the types, whose answer a caller gets, what  *)
(* is left of the server. The routing of tool names: no tool for another. The *)
(* todo list: what is shown is what was written. The tools that change files: *)
(* what they report is what became of the files. The translation: what a      *)
(* conversation holds reaches each provider and comes back. And the types of  *)
(* all of these together.                                                     *)
EXTENDS Services, SequenceLemmas, FiniteSetTheorems

(* The first backoff is not above the greatest one; durations and bounds are  *)
(* natural numbers; a key can be issued and the profile is looked at.         *)
Sensible ==
    /\ InitialBackoff \in Nat /\ MaxBackoff \in Nat /\ InitialBackoff <= MaxBackoff
    /\ MaxRetryDuration \in Nat /\ AttemptTimes \subseteq Nat
    /\ Polls \in Nat \ {0} /\ MaxKey \in Nat \ {0} /\ MaxCalls \in Nat

(* The two halves of TypeOK: what is counted, and what is named.              *)
Numbers ==
    /\ elapsed \in Nat /\ attempt \in Nat /\ waited \in Nat /\ backoff \in 0 .. MaxBackoff
    /\ creds \in 0 .. MaxKey /\ profile \in 0 .. MaxKey
    /\ issued \in 0 .. MaxKey /\ refused \in 0 .. MaxKey
    /\ polls \in 0 .. Polls /\ logins \in Nat /\ made \in 0 .. MaxCalls

Names ==
    /\ env \in Envs /\ provider \in {"none", "openai", "anthropic", "bedrock"}
    /\ pc \in {"off", "idle", "check", "request", "look", "first login", "login", "first poll",
               "poll", "result"}
    /\ flag \in BOOLEAN /\ result \in Ends \cup {"none"}
    /\ outcome \in {"none", "answer", "error", "exceeded", "interrupted", "no provider"}

(* While there are looks at the profile to come, some are left.               *)
LooksLeft == pc \in {"first poll", "poll"} => polls >= 1

LEMMA Halves == TypeOK <=> Numbers /\ Names
<1>1. ({creds, profile, issued, refused} \subseteq 0 .. MaxKey)
      <=> /\ creds \in 0 .. MaxKey /\ profile \in 0 .. MaxKey
          /\ issued \in 0 .. MaxKey /\ refused \in 0 .. MaxKey
  OBVIOUS
<1> QED
  BY <1>1, Zenon DEF TypeOK, Numbers, Names

LEMMA HalvesPrime == TypeOK' <=> Numbers' /\ Names'
<1>1. ({creds, profile, issued, refused} \subseteq 0 .. MaxKey)'
      <=> /\ (creds \in 0 .. MaxKey)' /\ (profile \in 0 .. MaxKey)'
          /\ (issued \in 0 .. MaxKey)' /\ (refused \in 0 .. MaxKey)'
  OBVIOUS
<1> QED
  BY <1>1, Zenon DEF TypeOK, Numbers, Names

(* A look at the profile finds a key that was issued.                         *)
LEMMA LoadedKeyIssued ==
    ASSUME Sensible, Numbers
    PROVE  LoadCredentials \in 0 .. MaxKey
BY DEF Sensible, Numbers, LoadCredentials, EnvCredentials, ProfileCredentials, NoKey

(* The doubled backoff stays within the greatest one.                         *)
LEMMA DoubledInRange ==
    ASSUME Sensible, Numbers
    PROVE  Doubled \in 0 .. MaxBackoff
BY DEF Sensible, Numbers, Doubled

LEMMA NumbersStep ==
    ASSUME Sensible, Numbers, LooksLeft, [Next]_vars
    PROVE  Numbers'
<1> USE DEF Numbers, Sensible
<1>1. CASE Launch
  BY <1>1 DEF Launch, NoKey, loop
<1>2. CASE StartCall
  <2>1. /\ made < MaxCalls /\ made' = made + 1
        /\ elapsed' = 0 /\ attempt' = 1 /\ backoff' = InitialBackoff /\ waited' = 0
        /\ creds' \in {LoadCredentials, creds}
        /\ UNCHANGED <<profile, issued, polls, refused, logins>>
    BY <1>2 DEF StartCall
  <2> QED
    BY <2>1, LoadedKeyIssued
<1>3. CASE Interrupted
  BY <1>3 DEF Interrupted, Return, loop
<1>4. CASE TooLate
  BY <1>4 DEF TooLate, Return, loop
<1>5. CASE BeginAttempt
  <2>1. /\ refused' = 0 /\ logins' = 0
        /\ UNCHANGED <<loop, creds, profile, issued, polls, made>>
    BY <1>5 DEF BeginAttempt, NoKey
  <2> QED
    BY <2>1 DEF loop
<1>6. CASE OpenAIRequest
  BY <1>6 DEF OpenAIRequest, Exchange
<1>7. CASE AnthropicRequest
  BY <1>7 DEF AnthropicRequest, Exchange
<1>8. CASE BedrockRequest
  BY <1>8 DEF BedrockRequest, Exchange
<1>9. CASE Look
  BY <1>9, LoadedKeyIssued DEF Look, Adopt, loop
<1>10. CASE FirstPoll
  <2>1. /\ creds' \in {LoadCredentials, creds} /\ polls' \in {polls, polls - 1}
        /\ UNCHANGED <<loop, profile, issued, refused, logins, made>>
    BY <1>10 DEF FirstPoll
  <2>2. polls >= 1
    BY <1>10 DEF FirstPoll, LooksLeft
  <2> QED
    BY <2>1, <2>2, LoadedKeyIssued DEF loop
<1>11. CASE Poll
  <2>1. /\ creds' \in {LoadCredentials, creds} /\ refused' \in {creds, refused}
        /\ pc = "poll" /\ polls' \in {polls, polls - 1}
        /\ UNCHANGED <<loop, profile, issued, logins, made>>
    BY <1>11 DEF Poll, Adopt
  <2>2. polls >= 1
    BY <2>1 DEF LooksLeft
  <2> QED
    BY <2>1, <2>2, LoadedKeyIssued DEF loop
<1>12. CASE Answered
  BY <1>12 DEF Answered, Return, loop
<1>13. CASE Fails
  BY <1>13 DEF Fails, Return, loop
<1>14. CASE BackOff
  BY <1>14, DoubledInRange DEF BackOff, Return, loop
<1>15. CASE FirstLogin
  <2>1. /\ polls' = Polls /\ logins' = logins + 1
        /\ issued' = IF issued < MaxKey THEN issued + 1 ELSE issued
        /\ UNCHANGED <<loop, creds, profile, refused, made>>
    BY <1>15 DEF FirstLogin, Login
  <2> QED
    BY <2>1 DEF loop
<1>16. CASE RotatingLogin
  <2>1. /\ polls' = Polls /\ logins' = logins + 1
        /\ issued' = IF issued < MaxKey THEN issued + 1 ELSE issued
        /\ UNCHANGED <<loop, creds, profile, refused, made>>
    BY <1>16 DEF RotatingLogin, Login
  <2> QED
    BY <2>1 DEF loop
<1>17. CASE LoginFails
  <2>1. /\ logins' = logins + 1
        /\ UNCHANGED <<loop, creds, profile, issued, polls, refused, made>>
    BY <1>17 DEF LoginFails
  <2> QED
    BY <2>1 DEF loop
<1>18. CASE Interrupt
  BY <1>18 DEF Interrupt
<1>19. CASE WriteProfile
  BY <1>19 DEF WriteProfile, loop
<1>20. CASE IssueKey
  BY <1>20 DEF IssueKey, loop
<1>21. CASE UNCHANGED vars
  BY <1>21 DEF vars, loop
<1> QED
  BY <1>1, <1>2, <1>3, <1>4, <1>5, <1>6, <1>7, <1>8, <1>9, <1>10, <1>11, <1>12, <1>13,
     <1>14, <1>15, <1>16, <1>17, <1>18, <1>19, <1>20, <1>21 DEF Next, Step, LoginEnds

LEMMA NamesStep ==
    ASSUME Names, [Next]_vars
    PROVE  Names'
<1> USE DEF Names
<1>1. CASE Launch
  BY <1>1 DEF Launch, NoKey, loop
<1>2. CASE StartCall
  BY <1>2 DEF StartCall, Return, ProviderFor, NonBedrockProvider
<1>3. CASE Interrupted
  BY <1>3 DEF Interrupted, Return, loop
<1>4. CASE TooLate
  BY <1>4 DEF TooLate, Return, loop
<1>5. CASE BeginAttempt
  BY <1>5 DEF BeginAttempt, NoKey, loop
<1>6. CASE OpenAIRequest
  BY <1>6 DEF OpenAIRequest, Exchange
<1>7. CASE AnthropicRequest
  BY <1>7 DEF AnthropicRequest, Exchange
<1>8. CASE BedrockRequest
  BY <1>8 DEF BedrockRequest, Exchange
<1>9. CASE Look
  BY <1>9 DEF Look, Adopt, loop
<1>10. CASE FirstPoll
  BY <1>10 DEF FirstPoll, loop, Ends
<1>11. CASE Poll
  BY <1>11 DEF Poll, Adopt, loop
<1>12. CASE Answered
  BY <1>12 DEF Answered, Return, loop
<1>13. CASE Fails
  BY <1>13 DEF Fails, Return, loop
<1>14. CASE BackOff
  BY <1>14 DEF BackOff, Return, loop
<1>15. CASE FirstLogin
  BY <1>15 DEF FirstLogin, Login, loop
<1>16. CASE RotatingLogin
  BY <1>16 DEF RotatingLogin, Login, loop
<1>17. CASE LoginFails
  BY <1>17 DEF LoginFails, loop, Ends
<1>18. CASE Interrupt
  BY <1>18 DEF Interrupt
<1>19. CASE WriteProfile
  BY <1>19 DEF WriteProfile, loop
<1>20. CASE IssueKey
  BY <1>20 DEF IssueKey, loop
<1>21. CASE UNCHANGED vars
  BY <1>21 DEF vars, loop
<1> QED
  BY <1>1, <1>2, <1>3, <1>4, <1>5, <1>6, <1>7, <1>8, <1>9, <1>10, <1>11, <1>12, <1>13,
     <1>14, <1>15, <1>16, <1>17, <1>18, <1>19, <1>20, <1>21 DEF Next, Step, LoginEnds

LEMMA LooksLeftStep ==
    ASSUME Sensible, Numbers, LooksLeft, [Next]_vars
    PROVE  LooksLeft'
<1>1. CASE Launch
  BY <1>1 DEF Launch, NoKey, LooksLeft
<1>2. CASE StartCall
  BY <1>2 DEF StartCall, Return, LooksLeft
<1>3. CASE Interrupted
  BY <1>3 DEF Interrupted, Return, LooksLeft
<1>4. CASE TooLate
  BY <1>4 DEF TooLate, Return, LooksLeft
<1>5. CASE BeginAttempt
  BY <1>5 DEF BeginAttempt, NoKey, LooksLeft
<1>6. CASE OpenAIRequest
  BY <1>6 DEF OpenAIRequest, Exchange, LooksLeft
<1>7. CASE AnthropicRequest
  BY <1>7 DEF AnthropicRequest, Exchange, LooksLeft
<1>8. CASE BedrockRequest
  BY <1>8 DEF BedrockRequest, Exchange, LooksLeft
<1>9. CASE Look
  BY <1>9 DEF Look, Adopt, LooksLeft
<1>10. CASE FirstPoll
  <2>1. CASE LoadCredentials # NoKey
    <3>1. pc' = "request"
      BY <1>10, <2>1, Zenon DEF FirstPoll
    <3> QED
      BY <3>1 DEF LooksLeft
  <2>2. CASE ~(LoadCredentials # NoKey) /\ polls = 1
    <3>1. pc' = "result"
      BY <1>10, <2>2, Zenon DEF FirstPoll
    <3> QED
      BY <3>1 DEF LooksLeft
  <2>3. CASE ~(LoadCredentials # NoKey) /\ polls # 1
    <3>1. polls \in Nat
      BY DEF Numbers
    <3>2. polls >= 1
      BY <1>10, Zenon DEF FirstPoll, LooksLeft
    <3>3. polls' = polls - 1
      BY <1>10, <2>3, Zenon DEF FirstPoll
    <3>4. polls' >= 1
      BY <2>3, <3>1, <3>2, <3>3
    <3> QED
      BY <3>4, Zenon DEF LooksLeft
  <2> QED
    BY <2>1, <2>2, <2>3
<1>11. CASE Poll
  <2>1. CASE LoadCredentials \notin {NoKey, creds}
    <3>1. pc' = "request"
      BY <1>11, <2>1, Zenon DEF Poll, Adopt
    <3> QED
      BY <3>1 DEF LooksLeft
  <2>2. CASE ~(LoadCredentials \notin {NoKey, creds}) /\ polls = 1
    <3>1. pc' = "result"
      BY <1>11, <2>2, Zenon DEF Poll
    <3> QED
      BY <3>1 DEF LooksLeft
  <2>3. CASE ~(LoadCredentials \notin {NoKey, creds}) /\ polls # 1
    <3>1. polls \in Nat
      BY DEF Numbers
    <3>2. polls >= 1
      BY <1>11, Zenon DEF Poll, LooksLeft
    <3>3. polls' = polls - 1
      BY <1>11, <2>3, Zenon DEF Poll
    <3>4. polls' >= 1
      BY <2>3, <3>1, <3>2, <3>3
    <3> QED
      BY <3>4, Zenon DEF LooksLeft
  <2> QED
    BY <2>1, <2>2, <2>3
<1>12. CASE Answered
  BY <1>12 DEF Answered, Return, LooksLeft
<1>13. CASE Fails
  BY <1>13 DEF Fails, Return, LooksLeft
<1>14. CASE BackOff
  BY <1>14 DEF BackOff, Return, LooksLeft
<1>15. CASE FirstLogin
  <2>1. polls' = Polls
    BY <1>15, Zenon DEF FirstLogin, Login
  <2>2. Polls >= 1
    BY DEF Sensible
  <2> QED
    BY <2>1, <2>2, Zenon DEF LooksLeft
<1>16. CASE RotatingLogin
  <2>1. polls' = Polls
    BY <1>16, Zenon DEF RotatingLogin, Login
  <2>2. Polls >= 1
    BY DEF Sensible
  <2> QED
    BY <2>1, <2>2, Zenon DEF LooksLeft
<1>17. CASE LoginFails
  BY <1>17 DEF LoginFails, LooksLeft
<1>18. CASE Interrupt
  BY <1>18 DEF Interrupt, LooksLeft
<1>19. CASE WriteProfile
  BY <1>19 DEF WriteProfile, LooksLeft
<1>20. CASE IssueKey
  BY <1>20 DEF IssueKey, LooksLeft
<1>21. CASE UNCHANGED vars
  BY <1>21 DEF vars, loop, LooksLeft
<1> QED
  BY <1>1, <1>2, <1>3, <1>4, <1>5, <1>6, <1>7, <1>8, <1>9, <1>10, <1>11, <1>12, <1>13,
     <1>14, <1>15, <1>16, <1>17, <1>18, <1>19, <1>20, <1>21 DEF Next, Step, LoginEnds

LEMMA TypeInit ==
    ASSUME Sensible, Init
    PROVE  TypeOK
<1>1. Numbers
  BY DEF Sensible, Init, Numbers, NoKey
<1>2. Names
  BY DEF Init, Names, Envs, Settings, Flags
<1> QED
  BY <1>1, <1>2, Halves

(* The variables of an API call keep their types (call_api_with_retries).     *)
THEOREM TypeCorrect ==
    ASSUME Sensible
    PROVE  Spec => []TypeOK
<1>1. Init => TypeOK /\ LooksLeft
  BY TypeInit DEF Init, LooksLeft
<1>2. TypeOK /\ LooksLeft /\ [Next]_vars => (TypeOK /\ LooksLeft)'
  BY Halves, HalvesPrime, NumbersStep, NamesStep, LooksLeftStep
<1> QED
  BY <1>1, <1>2, PTL DEF Spec

-----------------------------------------------------------------------------
(* The time limit. In an attempt after the first some of it was left; a call  *)
(* given up for it had spent it.                                              *)
Early == attempt > 1 => waited < MaxRetryDuration
Spent == elapsed >= MaxRetryDuration
Attempting == {"request", "look", "first login", "login", "first poll", "poll"}

InLimit ==
    /\ waited <= elapsed /\ waited <= MaxRetryDuration
    /\ pc \in Attempting => Early
    /\ outcome = "exceeded" => pc = "idle" /\ Spent

LEMMA LoopUnchanged ==
    ASSUME InLimit, UNCHANGED <<elapsed, attempt, waited>>
    PROVE  /\ waited' <= elapsed' /\ waited' <= MaxRetryDuration
           /\ Early' = Early /\ Spent' = Spent
BY DEF InLimit, Early, Spent

(* Waiting keeps within what remains of the limit.                            *)
LEMMA BackOffInLimit ==
    ASSUME Sensible, Numbers, InLimit, BackOff
    PROVE  InLimit'
<1>1. PICK jitter \in 0 .. (backoff \div 4) - 1 :
        LET remaining == MaxRetryDuration - elapsed
            delay == IF backoff - jitter > remaining THEN remaining ELSE backoff - jitter
        IN  IF delay <= 0 THEN Return("exceeded") /\ UNCHANGED loop
            ELSE /\ pc' = "check" /\ elapsed' = elapsed + delay /\ waited' = waited + delay
                 /\ attempt' = attempt + 1 /\ backoff' = Doubled
                 /\ UNCHANGED <<outcome, flag>>
  BY Zenon DEF BackOff
<1> DEFINE remaining == MaxRetryDuration - elapsed
           delay == IF backoff - jitter > remaining THEN remaining ELSE backoff - jitter
<1>2. backoff - jitter >= 1
  BY <1>1 DEF Numbers, Sensible
<1>3. CASE delay <= 0
  <2>1. Return("exceeded") /\ UNCHANGED loop
    BY <1>1, <1>3, Zenon
  <2>2. Spent
    <3>1. remaining <= 0
      BY <1>2, <1>3 DEF Numbers, Sensible
    <3> QED
      BY <3>1 DEF Numbers, Sensible, Spent
  <2>3. UNCHANGED <<elapsed, attempt, waited>>
    BY <2>1 DEF loop
  <2>4. pc' \notin Attempting /\ pc' = "idle"
    BY <2>1 DEF Return, Attempting
  <2> QED
    BY <2>2, <2>3, <2>4, LoopUnchanged, Zenon DEF InLimit
<1>4. CASE ~(delay <= 0)
  <2>1. pc' = "check" /\ outcome' = outcome
    BY <1>1, <1>4, Zenon
  <2>2. elapsed' = elapsed + delay /\ waited' = waited + delay
    BY <1>1, <1>4, Zenon
  <2>3. waited' <= elapsed' /\ waited' <= MaxRetryDuration
    BY <1>2, <2>2 DEF Numbers, Sensible, InLimit
  <2>4. pc' \notin Attempting
    BY <2>1 DEF Attempting
  <2>5. outcome # "exceeded"
    BY DEF BackOff, InLimit
  <2> QED
    BY <2>1, <2>3, <2>4, <2>5, Zenon DEF InLimit
<1> QED
  BY <1>3, <1>4

(* An HTTP exchange takes time and waits for nothing else.                    *)
LEMMA ExchangeInLimit ==
    ASSUME Sensible, Numbers, InLimit,
           OpenAIRequest \/ AnthropicRequest \/ BedrockRequest
    PROVE  InLimit'
<1>1. \E t \in AttemptTimes : elapsed' = elapsed + t
  BY DEF OpenAIRequest, AnthropicRequest, BedrockRequest, Exchange
<1>2. /\ UNCHANGED <<attempt, waited, outcome>> /\ pc = "request"
  BY DEF OpenAIRequest, AnthropicRequest, BedrockRequest, Exchange
<1>3. waited' <= elapsed' /\ waited' <= MaxRetryDuration
  <2>1. UNCHANGED waited
    BY <1>2
  <2> QED
    BY <1>1, <2>1 DEF Sensible, Numbers, InLimit
<1>4. Early' = Early
  BY <1>2 DEF Early
<1>5. Early /\ outcome # "exceeded"
  BY <1>2 DEF InLimit, Attempting
<1> QED
  BY <1>2, <1>3, <1>4, <1>5, Zenon DEF InLimit

LEMMA InLimitStep ==
    ASSUME Sensible, Numbers, InLimit, [Next]_vars
    PROVE  InLimit'
<1>1. CASE OpenAIRequest \/ AnthropicRequest \/ BedrockRequest
  BY <1>1, ExchangeInLimit
<1>2. CASE BackOff
  BY <1>2, BackOffInLimit
<1>3. CASE StartCall
  <2>1. attempt' = 1 /\ elapsed' = 0 /\ waited' = 0
    BY <1>3 DEF StartCall
  <2>2. outcome' # "exceeded"
    BY <1>3 DEF StartCall, Return
  <2>3. waited' <= elapsed' /\ waited' <= MaxRetryDuration /\ Early'
    BY <2>1 DEF Sensible, Early
  <2> QED
    BY <2>2, <2>3, Zenon DEF InLimit
<1>4. CASE TooLate
  <2>1. Spent
    BY <1>4 DEF TooLate, OutOfTime, Spent
  <2>2. UNCHANGED <<elapsed, attempt, waited>> /\ pc' = "idle" /\ pc' \notin Attempting
    BY <1>4 DEF TooLate, Return, loop, Attempting
  <2> QED
    BY <2>1, <2>2, LoopUnchanged, Zenon DEF InLimit
<1>5. CASE BeginAttempt
  <2>1. ~OutOfTime /\ UNCHANGED <<elapsed, attempt, waited>>
    BY <1>5 DEF BeginAttempt, loop
  <2>2. Early
    BY <2>1 DEF OutOfTime, Early, InLimit, Numbers, Sensible
  <2>3. outcome' # "exceeded"
    BY <1>5 DEF BeginAttempt, InLimit
  <2> QED
    BY <2>1, <2>2, <2>3, LoopUnchanged, Zenon DEF InLimit
<1>6. CASE Launch
  <2>1. UNCHANGED <<elapsed, attempt, waited>>
    BY <1>6 DEF Launch, loop
  <2>2. /\ pc' \in Attempting => pc \in Attempting
        /\ outcome' = "exceeded" => outcome = "exceeded" /\ pc = "idle" /\ pc' = "idle"
    BY <1>6 DEF Launch, loop, Attempting, InLimit
  <2> QED
    BY <2>1, <2>2, LoopUnchanged, Zenon DEF InLimit
<1>7. CASE Interrupted
  <2>1. UNCHANGED <<elapsed, attempt, waited>>
    BY <1>7 DEF Interrupted, Return, loop
  <2>2. /\ pc' \in Attempting => pc \in Attempting
        /\ outcome' = "exceeded" => outcome = "exceeded" /\ pc = "idle" /\ pc' = "idle"
    BY <1>7 DEF Interrupted, Return, loop, Attempting, InLimit
  <2> QED
    BY <2>1, <2>2, LoopUnchanged, Zenon DEF InLimit
<1>8. CASE Look
  <2>1. UNCHANGED <<elapsed, attempt, waited>>
    BY <1>8 DEF Look, Adopt, loop
  <2>2. /\ pc' \in Attempting => pc \in Attempting
        /\ outcome' = "exceeded" => outcome = "exceeded" /\ pc = "idle" /\ pc' = "idle"
    BY <1>8 DEF Look, Adopt, loop, Attempting, InLimit
  <2> QED
    BY <2>1, <2>2, LoopUnchanged, Zenon DEF InLimit
<1>9. CASE FirstPoll
  <2>1. UNCHANGED <<elapsed, attempt, waited>>
    BY <1>9 DEF FirstPoll, loop
  <2>2. /\ pc' \in Attempting => pc \in Attempting
        /\ outcome' = "exceeded" => outcome = "exceeded" /\ pc = "idle" /\ pc' = "idle"
    BY <1>9 DEF FirstPoll, loop, Attempting, InLimit
  <2> QED
    BY <2>1, <2>2, LoopUnchanged, Zenon DEF InLimit
<1>10. CASE Poll
  <2>1. UNCHANGED <<elapsed, attempt, waited>>
    BY <1>10 DEF Poll, Adopt, loop
  <2>2. /\ pc' \in Attempting => pc \in Attempting
        /\ outcome' = "exceeded" => outcome = "exceeded" /\ pc = "idle" /\ pc' = "idle"
    BY <1>10 DEF Poll, Adopt, loop, Attempting, InLimit
  <2> QED
    BY <2>1, <2>2, LoopUnchanged, Zenon DEF InLimit
<1>11. CASE Answered
  <2>1. UNCHANGED <<elapsed, attempt, waited>>
    BY <1>11 DEF Answered, Return, loop
  <2>2. /\ pc' \in Attempting => pc \in Attempting
        /\ outcome' = "exceeded" => outcome = "exceeded" /\ pc = "idle" /\ pc' = "idle"
    BY <1>11 DEF Answered, Return, loop, Attempting, InLimit
  <2> QED
    BY <2>1, <2>2, LoopUnchanged, Zenon DEF InLimit
<1>12. CASE Fails
  <2>1. UNCHANGED <<elapsed, attempt, waited>>
    BY <1>12 DEF Fails, Return, loop
  <2>2. /\ pc' \in Attempting => pc \in Attempting
        /\ outcome' = "exceeded" => outcome = "exceeded" /\ pc = "idle" /\ pc' = "idle"
    BY <1>12 DEF Fails, Return, loop, Attempting, InLimit
  <2> QED
    BY <2>1, <2>2, LoopUnchanged, Zenon DEF InLimit
<1>13. CASE FirstLogin
  <2>1. UNCHANGED <<elapsed, attempt, waited>>
    BY <1>13 DEF FirstLogin, Login, loop
  <2>2. /\ pc' \in Attempting => pc \in Attempting
        /\ outcome' = "exceeded" => outcome = "exceeded" /\ pc = "idle" /\ pc' = "idle"
    BY <1>13 DEF FirstLogin, Login, loop, Attempting, InLimit
  <2> QED
    BY <2>1, <2>2, LoopUnchanged, Zenon DEF InLimit
<1>14. CASE RotatingLogin
  <2>1. UNCHANGED <<elapsed, attempt, waited>>
    BY <1>14 DEF RotatingLogin, Login, loop
  <2>2. /\ pc' \in Attempting => pc \in Attempting
        /\ outcome' = "exceeded" => outcome = "exceeded" /\ pc = "idle" /\ pc' = "idle"
    BY <1>14 DEF RotatingLogin, Login, loop, Attempting, InLimit
  <2> QED
    BY <2>1, <2>2, LoopUnchanged, Zenon DEF InLimit
<1>15. CASE LoginFails
  <2>1. UNCHANGED <<elapsed, attempt, waited>>
    BY <1>15 DEF LoginFails, loop
  <2>2. /\ pc' \in Attempting => pc \in Attempting
        /\ outcome' = "exceeded" => outcome = "exceeded" /\ pc = "idle" /\ pc' = "idle"
    BY <1>15 DEF LoginFails, loop, Attempting, InLimit
  <2> QED
    BY <2>1, <2>2, LoopUnchanged, Zenon DEF InLimit
<1>16. CASE Interrupt
  <2>1. UNCHANGED <<elapsed, attempt, waited>>
    BY <1>16 DEF Interrupt
  <2>2. /\ pc' \in Attempting => pc \in Attempting
        /\ outcome' = "exceeded" => outcome = "exceeded" /\ pc = "idle" /\ pc' = "idle"
    BY <1>16 DEF Interrupt, Attempting, InLimit
  <2> QED
    BY <2>1, <2>2, LoopUnchanged, Zenon DEF InLimit
<1>17. CASE WriteProfile
  <2>1. UNCHANGED <<elapsed, attempt, waited>>
    BY <1>17 DEF WriteProfile, loop
  <2>2. /\ pc' \in Attempting => pc \in Attempting
        /\ outcome' = "exceeded" => outcome = "exceeded" /\ pc = "idle" /\ pc' = "idle"
    BY <1>17 DEF WriteProfile, loop, Attempting, InLimit
  <2> QED
    BY <2>1, <2>2, LoopUnchanged, Zenon DEF InLimit
<1>18. CASE IssueKey
  <2>1. UNCHANGED <<elapsed, attempt, waited>>
    BY <1>18 DEF IssueKey, loop
  <2>2. /\ pc' \in Attempting => pc \in Attempting
        /\ outcome' = "exceeded" => outcome = "exceeded" /\ pc = "idle" /\ pc' = "idle"
    BY <1>18 DEF IssueKey, loop, Attempting, InLimit
  <2> QED
    BY <2>1, <2>2, LoopUnchanged, Zenon DEF InLimit
<1>19. CASE UNCHANGED vars
  <2>1. UNCHANGED <<elapsed, attempt, waited>>
    BY <1>19 DEF vars, loop
  <2>2. /\ pc' \in Attempting => pc \in Attempting
        /\ outcome' = "exceeded" => outcome = "exceeded" /\ pc = "idle" /\ pc' = "idle"
    BY <1>19 DEF vars, loop, Attempting, InLimit
  <2> QED
    BY <2>1, <2>2, LoopUnchanged, Zenon DEF InLimit
<1> QED
  BY <1>1, <1>2, <1>3, <1>4, <1>5, <1>6, <1>7, <1>8, <1>9, <1>10, <1>11, <1>12, <1>13,
     <1>14, <1>15, <1>16, <1>17, <1>18, <1>19 DEF Next, Step, LoginEnds

(* The time limit of call_api_with_retries holds whatever its value, the      *)
(* backoffs and the durations of the attempts.                                *)
THEOREM TimeLimit ==
    ASSUME Sensible
    PROVE  Spec => []RetriesStayInLimit
<1>1. Init => InLimit
  <2>1. Init => waited = 0 /\ elapsed = 0
    BY DEF Init
  <2>2. Init => pc \notin Attempting /\ outcome # "exceeded"
    BY DEF Init, Attempting
  <2> QED
    BY <2>1, <2>2 DEF InLimit, Sensible
<1>2. TypeOK /\ InLimit /\ [Next]_vars => InLimit'
  BY Halves, InLimitStep
<1>3. TypeOK /\ InLimit => RetriesStayInLimit
  <2> SUFFICES ASSUME Numbers, InLimit
               PROVE  RetriesStayInLimit
    BY Halves
  <2>1. ~OutOfTime /\ attempt > 1 => waited < MaxRetryDuration
    BY DEF OutOfTime, InLimit, Numbers, Sensible
  <2>2. pc = "request" /\ attempt > 1 => waited < MaxRetryDuration
    BY DEF InLimit, Early, Attempting
  <2> QED
    BY <2>1, <2>2, Zenon DEF RetriesStayInLimit, InLimit, Spent
<1> QED
  BY <1>1, <1>2, <1>3, TypeCorrect, PTL DEF Spec

-----------------------------------------------------------------------------
(* Credential rotation. Only the Bedrock provider looks for keys, and only    *)
(* after the first refusal of an attempt.                                     *)
KeysReplaced ==
    /\ provider = "none" => refused = NoKey
    /\ refused # NoKey => creds \notin {NoKey, refused}
    /\ pc \in {"first login", "first poll", "look", "login", "poll"} =>
          refused = NoKey /\ provider = "bedrock"
    /\ pc \in {"request", "look", "login", "poll"} /\ provider = "bedrock" => creds # NoKey

LEMMA KeysReplacedStep ==
    ASSUME KeysReplaced, [Next]_vars
    PROVE  KeysReplaced'
<1> USE DEF KeysReplaced
<1>1. CASE Launch
  BY <1>1 DEF Launch
<1>2. CASE StartCall
  BY <1>2 DEF StartCall, Return
<1>3. CASE Interrupted
  BY <1>3 DEF Interrupted, Return
<1>4. CASE TooLate
  BY <1>4 DEF TooLate, Return
<1>5. CASE BeginAttempt
  BY <1>5 DEF BeginAttempt
<1>6. CASE OpenAIRequest
  BY <1>6 DEF OpenAIRequest, Exchange
<1>7. CASE AnthropicRequest
  BY <1>7 DEF AnthropicRequest, Exchange
<1>8. CASE BedrockRequest
  BY <1>8 DEF BedrockRequest, Exchange
<1>9. CASE Look
  BY <1>9 DEF Look, Adopt
<1>10. CASE FirstPoll
  BY <1>10 DEF FirstPoll
<1>11. CASE Poll
  BY <1>11 DEF Poll, Adopt
<1>12. CASE Answered
  BY <1>12 DEF Answered, Return
<1>13. CASE Fails
  BY <1>13 DEF Fails, Return
<1>14. CASE BackOff
  BY <1>14 DEF BackOff, Return
<1>15. CASE FirstLogin
  BY <1>15 DEF FirstLogin, Login
<1>16. CASE RotatingLogin
  BY <1>16 DEF RotatingLogin, Login
<1>17. CASE LoginFails
  BY <1>17 DEF LoginFails
<1>18. CASE Interrupt
  BY <1>18 DEF Interrupt
<1>19. CASE WriteProfile
  BY <1>19 DEF WriteProfile
<1>20. CASE IssueKey
  BY <1>20 DEF IssueKey
<1>21. CASE UNCHANGED vars
  BY <1>21 DEF vars
<1> QED
  BY <1>1, <1>2, <1>3, <1>4, <1>5, <1>6, <1>7, <1>8, <1>9, <1>10, <1>11, <1>12, <1>13,
     <1>14, <1>15, <1>16, <1>17, <1>18, <1>19, <1>20, <1>21 DEF Next, Step, LoginEnds

(* The logins of an attempt, by the place it has reached.                     *)
LoginsCounted ==
    /\ logins \in 0 .. 2
    /\ pc = "first login" => logins = 0
    /\ pc \in {"first poll", "look", "login"} => logins \in 0 .. 1
    /\ pc = "request" /\ refused = NoKey => logins \in 0 .. 1

LEMMA LoginsCountedStep ==
    ASSUME KeysReplaced, LoginsCounted, [Next]_vars
    PROVE  LoginsCounted'
<1>1. CASE Launch
  BY <1>1 DEF Launch, LoginsCounted
<1>2. CASE StartCall
  BY <1>2 DEF StartCall, Return, LoginsCounted
<1>3. CASE Interrupted
  BY <1>3 DEF Interrupted, Return, LoginsCounted
<1>4. CASE TooLate
  BY <1>4 DEF TooLate, Return, LoginsCounted
<1>5. CASE BeginAttempt
  <2>1. logins' = 0
    BY <1>5 DEF BeginAttempt
  <2>2. logins' = 0 /\ logins' \in 0 .. 1 /\ logins' \in 0 .. 2
    BY <2>1
  <2> QED
    BY <2>2, Zenon DEF LoginsCounted
<1>6. CASE OpenAIRequest
  BY <1>6 DEF OpenAIRequest, Exchange, LoginsCounted
<1>7. CASE AnthropicRequest
  BY <1>7 DEF AnthropicRequest, Exchange, LoginsCounted
<1>8. CASE BedrockRequest
  BY <1>8 DEF BedrockRequest, Exchange, LoginsCounted
<1>9. CASE Look
  BY <1>9 DEF Look, Adopt, KeysReplaced, LoginsCounted
<1>10. CASE FirstPoll
  BY <1>10 DEF FirstPoll, KeysReplaced, LoginsCounted
<1>11. CASE Poll
  BY <1>11 DEF Poll, Adopt, KeysReplaced, LoginsCounted
<1>12. CASE Answered
  BY <1>12 DEF Answered, Return, LoginsCounted
<1>13. CASE Fails
  BY <1>13 DEF Fails, Return, LoginsCounted
<1>14. CASE BackOff
  BY <1>14 DEF BackOff, Return, LoginsCounted
<1>15. CASE FirstLogin
  <2>1. logins = 0 /\ logins' = logins + 1
    BY <1>15, Zenon DEF FirstLogin, Login, LoginsCounted
  <2>2. pc' = "first poll"
    BY <1>15, Zenon DEF FirstLogin, Login
  <2>3. logins' \in 0 .. 1 /\ logins' \in 0 .. 2
    BY <2>1
  <2> QED
    BY <2>2, <2>3, Zenon DEF LoginsCounted
<1>16. CASE RotatingLogin
  BY <1>16 DEF RotatingLogin, Login, LoginsCounted
<1>17. CASE LoginFails
  <2>1. (pc = "first login" \/ pc = "login") /\ logins' = logins + 1 /\ pc' = "result"
    BY <1>17 DEF LoginFails
  <2>2. logins = 0 \/ logins \in 0 .. 1
    BY <2>1, Zenon DEF LoginsCounted
  <2>3. logins' = logins + 1
    BY <2>1
  <2>4. logins' \in 0 .. 2
    BY <2>2, <2>3
  <2> QED
    BY <2>1, <2>4, Zenon DEF LoginsCounted
<1>18. CASE Interrupt
  BY <1>18 DEF Interrupt, LoginsCounted
<1>19. CASE WriteProfile
  BY <1>19 DEF WriteProfile, LoginsCounted
<1>20. CASE IssueKey
  BY <1>20 DEF IssueKey, LoginsCounted
<1>21. CASE UNCHANGED vars
  BY <1>21 DEF vars, LoginsCounted
<1> QED
  BY <1>1, <1>2, <1>3, <1>4, <1>5, <1>6, <1>7, <1>8, <1>9, <1>10, <1>11, <1>12, <1>13,
     <1>14, <1>15, <1>16, <1>17, <1>18, <1>19, <1>20, <1>21 DEF Next, Step, LoginEnds

(* Whatever keys are issued and written while an attempt runs, it does not    *)
(* send a refused one again and asks for at most two logins                   *)
(* (bedrock_call_api).                                                        *)
THEOREM KeyRotation == Spec => []RefusedKeyReplaced
<1>1. Init => KeysReplaced /\ LoginsCounted
  BY DEF Init, KeysReplaced, LoginsCounted
<1>2. KeysReplaced /\ LoginsCounted /\ [Next]_vars => (KeysReplaced /\ LoginsCounted)'
  BY KeysReplacedStep, LoginsCountedStep
<1>3. KeysReplaced /\ LoginsCounted => RefusedKeyReplaced
  <2>1. logins \in 0 .. 2 => logins <= 2
    OBVIOUS
  <2> QED
    BY <2>1 DEF KeysReplaced, LoginsCounted, RefusedKeyReplaced
<1> QED
  BY <1>1, <1>2, <1>3, PTL DEF Spec

-----------------------------------------------------------------------------
(* The Bash tool.                                                             *)
(* Unless redirections overlapped, one was left behind, or stderr was not     *)
(* saved or not redirected: one thread at most holds a saved descriptor, it   *)
(* is the terminal, and its tool has not ended; stderr is on /dev/null only   *)
(* while some thread holds one.                                               *)
Redirecting == {"saved", "popen", "loop", "killing", "pclose", "restore"}

OneRedirection ==
    ~mixed /\ ~spoiled =>
        /\ \A t \in BashThreads : saved[t] # "none" =>
              saved[t] = "terminal" /\ bashPc[t] \in Redirecting
        /\ \A t, u \in BashThreads : saved[t] # "none" /\ saved[u] # "none" => t = u
        /\ stderr # "terminal" => \E t \in BashThreads : saved[t] # "none" /\ bashPc[t] # "saved"

Descriptors ==
    /\ DOMAIN bashPc = BashThreads /\ DOMAIN saved = BashThreads
    /\ mixed \in BOOLEAN /\ spoiled \in BOOLEAN /\ stderr # "none"

LEMMA OneRedirectionStep ==
    ASSUME Descriptors, OneRedirection, [Bash!Next]_bashVars
    PROVE  Descriptors' /\ OneRedirection'
<1>. USE DEF Descriptors, OneRedirection, Bash!command, Bash!streams, Bash!history, Bash!Go, Bash!End,
             Bash!Leave, Bash!LeaveUnread, Redirecting
<1>1. CASE Bash!Interrupt
  BY <1>1 DEF Bash!Interrupt
<1>2. ASSUME NEW t \in BashThreads, Bash!Refuse(t)
      PROVE  Descriptors' /\ OneRedirection'
  BY <1>2 DEF Bash!Refuse
<1>3. ASSUME NEW t \in BashThreads, Bash!SaveStderr(t)
      PROVE  Descriptors' /\ OneRedirection'
  BY <1>3 DEF Bash!SaveStderr
<1>4. ASSUME NEW t \in BashThreads, Bash!SaveFails(t)
      PROVE  Descriptors' /\ OneRedirection'
  BY <1>4 DEF Bash!SaveFails
<1>5. ASSUME NEW t \in BashThreads, Bash!RedirectStderr(t)
      PROVE  Descriptors' /\ OneRedirection'
  BY <1>5 DEF Bash!RedirectStderr
<1>6. ASSUME NEW t \in BashThreads, Bash!RedirectFails(t)
      PROVE  Descriptors' /\ OneRedirection'
  BY <1>6 DEF Bash!RedirectFails
<1>7. ASSUME NEW t \in BashThreads, Bash!Popen(t)
      PROVE  Descriptors' /\ OneRedirection'
  BY <1>7 DEF Bash!Popen
<1>8. ASSUME NEW t \in BashThreads, Bash!PopenFails(t)
      PROVE  Descriptors' /\ OneRedirection'
  BY <1>8 DEF Bash!PopenFails
<1>9. ASSUME NEW t \in BashThreads, Bash!Interrupted(t)
      PROVE  Descriptors' /\ OneRedirection'
  BY <1>9 DEF Bash!Interrupted
<1>10. ASSUME NEW t \in BashThreads, Bash!ReadsEof(t)
      PROVE  Descriptors' /\ OneRedirection'
  BY <1>10 DEF Bash!ReadsEof
<1>11. ASSUME NEW t \in BashThreads, Bash!ReadsLine(t)
      PROVE  Descriptors' /\ OneRedirection'
  BY <1>11 DEF Bash!ReadsLine
<1>12. ASSUME NEW t \in BashThreads, Bash!Cancelled(t)
      PROVE  Descriptors' /\ OneRedirection'
  BY <1>12 DEF Bash!Cancelled
<1>13. ASSUME NEW t \in BashThreads, Bash!KillsGroup(t)
      PROVE  Descriptors' /\ OneRedirection'
  BY <1>13 DEF Bash!KillsGroup
<1>14. ASSUME NEW t \in BashThreads, Bash!Pclose(t)
      PROVE  Descriptors' /\ OneRedirection'
  BY <1>14 DEF Bash!Pclose
<1>15. ASSUME NEW t \in BashThreads, Bash!RestoreStderr(t)
      PROVE  Descriptors' /\ OneRedirection'
  BY <1>15 DEF Bash!RestoreStderr
<1>16. ASSUME NEW t \in BashThreads, Bash!TimesOut(t)
      PROVE  Descriptors' /\ OneRedirection'
  BY <1>16 DEF Bash!TimesOut
<1>17. ASSUME NEW t \in BashThreads, Bash!LoopFails(t)
      PROVE  Descriptors' /\ OneRedirection'
  BY <1>17 DEF Bash!LoopFails
<1>18. ASSUME NEW t \in BashThreads, Bash!ReadFails(t)
      PROVE  Descriptors' /\ OneRedirection'
  BY <1>18 DEF Bash!ReadFails
<1>19. ASSUME NEW t \in BashThreads, Bash!CommandPrints(t)
      PROVE  Descriptors' /\ OneRedirection'
  BY <1>19 DEF Bash!CommandPrints
<1>20. ASSUME NEW t \in BashThreads, Bash!CommandExits(t)
      PROVE  Descriptors' /\ OneRedirection'
  BY <1>20 DEF Bash!CommandExits
<1>21. ASSUME NEW t \in BashThreads, Bash!WritersClose(t)
      PROVE  Descriptors' /\ OneRedirection'
  BY <1>21 DEF Bash!WritersClose
<1>22. CASE UNCHANGED bashVars
  BY <1>22 DEF bashVars
<1>. QED
  BY <1>1, <1>2, <1>3, <1>4, <1>5, <1>6, <1>7, <1>8, <1>9, <1>10, <1>11, <1>12, <1>13, <1>14,
     <1>15, <1>16, <1>17, <1>18, <1>19, <1>20, <1>21, <1>22
  DEF Bash!Next, Bash!Tool

(* Bytes are counted; the limit of the output too.                            *)
BashBounds == MaxPrinted \in Nat /\ Limit \in Nat

LEMMA BashTypesStep ==
    ASSUME BashBounds, Bash!TypeOK, [Bash!Next]_bashVars
    PROVE  Bash!TypeOK'
<1>. USE DEF BashBounds, Bash!TypeOK, Bash!Lines, Bash!command, Bash!streams, Bash!history, Bash!Go,
             Bash!End, Bash!Leave, Bash!LeaveUnread
<1>1. CASE Bash!Interrupt
  BY <1>1 DEF Bash!Interrupt
<1>2. ASSUME NEW t \in BashThreads, Bash!Refuse(t)
      PROVE  Bash!TypeOK'
  BY <1>2 DEF Bash!Refuse
<1>3. ASSUME NEW t \in BashThreads, Bash!SaveStderr(t)
      PROVE  Bash!TypeOK'
  BY <1>3 DEF Bash!SaveStderr
<1>4. ASSUME NEW t \in BashThreads, Bash!SaveFails(t)
      PROVE  Bash!TypeOK'
  BY <1>4 DEF Bash!SaveFails
<1>5. ASSUME NEW t \in BashThreads, Bash!RedirectStderr(t)
      PROVE  Bash!TypeOK'
  BY <1>5 DEF Bash!RedirectStderr
<1>6. ASSUME NEW t \in BashThreads, Bash!RedirectFails(t)
      PROVE  Bash!TypeOK'
  BY <1>6 DEF Bash!RedirectFails
<1>7. ASSUME NEW t \in BashThreads, Bash!Popen(t)
      PROVE  Bash!TypeOK'
  BY <1>7 DEF Bash!Popen
<1>8. ASSUME NEW t \in BashThreads, Bash!PopenFails(t)
      PROVE  Bash!TypeOK'
  BY <1>8 DEF Bash!PopenFails
<1>9. ASSUME NEW t \in BashThreads, Bash!Interrupted(t)
      PROVE  Bash!TypeOK'
  BY <1>9 DEF Bash!Interrupted
<1>10. ASSUME NEW t \in BashThreads, Bash!ReadsEof(t)
      PROVE  Bash!TypeOK'
  BY <1>10 DEF Bash!ReadsEof
<1>11. ASSUME NEW t \in BashThreads, Bash!ReadsLine(t)
      PROVE  Bash!TypeOK'
  <2>1. /\ Bash!Buffered(t) \in Seq(0 .. MaxPrinted) /\ Bash!PipeAfter(t) \in Seq(0 .. MaxPrinted)
        /\ Bash!Buffered(t) # <<>>
    BY <1>11 DEF Bash!ReadsLine, Bash!Buffered, Bash!PipeAfter
  <2>2. Head(Bash!Buffered(t)) \in 0 .. MaxPrinted /\ Tail(Bash!Buffered(t)) \in Seq(0 .. MaxPrinted)
    BY <2>1
  <2>. DEFINE bytes == kept[t] + Head(Bash!Buffered(t))
  <2>3. bytes \in Nat /\ <<>> \in Seq(0 .. MaxPrinted)
    BY <2>2
  <2>4. \/ /\ bytes >= Limit /\ kept' = [kept EXCEPT ![t] = Limit]
           /\ bashPc' = [bashPc EXCEPT ![t] = "pclose"] /\ ended' = [ended EXCEPT ![t] = "truncated"]
           /\ bashPipe' = [bashPipe EXCEPT ![t] = <<>>] /\ stdio' = [stdio EXCEPT ![t] = <<>>]
        \/ /\ ~(bytes >= Limit) /\ kept' = [kept EXCEPT ![t] = bytes] /\ UNCHANGED <<bashPc, ended>>
           /\ stdio' = [stdio EXCEPT ![t] = Tail(Bash!Buffered(t))]
           /\ bashPipe' = [bashPipe EXCEPT ![t] = Bash!PipeAfter(t)]
    BY <1>11 DEF Bash!ReadsLine
  <2>. HIDE DEF bytes
  <2>5. /\ bashPipe' \in [BashThreads -> Seq(0 .. MaxPrinted)]
        /\ stdio' \in [BashThreads -> Seq(0 .. MaxPrinted)]
    <3>. DEFINE S == Seq(0 .. MaxPrinted)
    <3>1. /\ bashPipe \in [BashThreads -> S] /\ stdio \in [BashThreads -> S]
          /\ <<>> \in S /\ Tail(Bash!Buffered(t)) \in S /\ Bash!PipeAfter(t) \in S
      BY <2>1, <2>2, <2>3
    <3>3. \/ bashPipe' = [bashPipe EXCEPT ![t] = <<>>] /\ stdio' = [stdio EXCEPT ![t] = <<>>]
          \/ /\ stdio' = [stdio EXCEPT ![t] = Tail(Bash!Buffered(t))]
             /\ bashPipe' = [bashPipe EXCEPT ![t] = Bash!PipeAfter(t)]
      BY <2>4
    <3>. HIDE DEF S
    <3>2. bashPipe' \in [BashThreads -> S] /\ stdio' \in [BashThreads -> S]
      BY <3>1, <3>3
    <3>. QED  BY <3>2 DEF S
  <2>6. kept' \in [BashThreads -> 0 .. Limit]
    <3>1. Limit \in 0 .. Limit /\ (~(bytes >= Limit) => bytes \in 0 .. Limit)
      BY <2>3
    <3>2. kept \in [BashThreads -> 0 .. Limit]
      OBVIOUS
    <3>. QED  BY <2>4, <3>1, <3>2
  <2>. QED  BY <1>11, <2>4, <2>5, <2>6 DEF Bash!ReadsLine
<1>12. ASSUME NEW t \in BashThreads, Bash!Cancelled(t)
      PROVE  Bash!TypeOK'
  BY <1>12 DEF Bash!Cancelled
<1>13. ASSUME NEW t \in BashThreads, Bash!KillsGroup(t)
      PROVE  Bash!TypeOK'
  BY <1>13 DEF Bash!KillsGroup
<1>14. ASSUME NEW t \in BashThreads, Bash!Pclose(t)
      PROVE  Bash!TypeOK'
  BY <1>14 DEF Bash!Pclose
<1>15. ASSUME NEW t \in BashThreads, Bash!RestoreStderr(t)
      PROVE  Bash!TypeOK'
  BY <1>15 DEF Bash!RestoreStderr
<1>16. ASSUME NEW t \in BashThreads, Bash!TimesOut(t)
      PROVE  Bash!TypeOK'
  BY <1>16 DEF Bash!TimesOut
<1>17. ASSUME NEW t \in BashThreads, Bash!LoopFails(t)
      PROVE  Bash!TypeOK'
  BY <1>17 DEF Bash!LoopFails
<1>18. ASSUME NEW t \in BashThreads, Bash!ReadFails(t)
      PROVE  Bash!TypeOK'
  BY <1>18 DEF Bash!ReadFails
<1>19. ASSUME NEW t \in BashThreads, Bash!CommandPrints(t)
      PROVE  Bash!TypeOK'
  <2>1. PICK amount \in 1 .. MaxPrinted - printed[t] : \E shown \in 0 .. amount :
            /\ bashPipe' = [bashPipe EXCEPT ![t] = Append(@, shown)]
            /\ printed' = [printed EXCEPT ![t] = @ + amount]
            /\ visible' = [visible EXCEPT ![t] = @ + shown]
    BY <1>19 DEF Bash!CommandPrints
  <2>2. PICK shown \in 0 .. amount :
            /\ bashPipe' = [bashPipe EXCEPT ![t] = Append(@, shown)]
            /\ printed' = [printed EXCEPT ![t] = @ + amount]
            /\ visible' = [visible EXCEPT ![t] = @ + shown]
    BY <2>1
  <2>3. /\ printed[t] \in 0 .. MaxPrinted /\ visible[t] \in 0 .. printed[t]
        /\ amount \in Nat /\ shown \in 0 .. MaxPrinted /\ shown <= amount
        /\ printed[t] + amount \in 0 .. MaxPrinted /\ visible[t] + shown \in 0 .. printed[t] + amount
    OBVIOUS
  <2>4. Append(bashPipe[t], shown) \in Seq(0 .. MaxPrinted)
    BY <2>3
  <2>5. bashPipe' \in [BashThreads -> Seq(0 .. MaxPrinted)]
    BY <2>2, <2>4
  <2>6. /\ printed' \in [BashThreads -> 0 .. MaxPrinted] /\ visible' \in [BashThreads -> Nat]
        /\ \A u \in BashThreads : visible'[u] <= printed'[u]
    BY <2>2, <2>3
  <2>. QED  BY <1>19, <2>5, <2>6 DEF Bash!CommandPrints
<1>20. ASSUME NEW t \in BashThreads, Bash!CommandExits(t)
      PROVE  Bash!TypeOK'
  <2>1. PICK held \in {FALSE, writers[t] /\ t \in Printers} :
            writers' = [writers EXCEPT ![t] = held]
    BY <1>20 DEF Bash!CommandExits
  <2>2. writers' \in [BashThreads -> BOOLEAN]
    BY <2>1
  <2>3. cmd' \in [BashThreads -> {"none", "running", "exited"}]
    BY <1>20 DEF Bash!CommandExits
  <2>. QED  BY <1>20, <2>2, <2>3 DEF Bash!CommandExits
<1>21. ASSUME NEW t \in BashThreads, Bash!WritersClose(t)
      PROVE  Bash!TypeOK'
  BY <1>21 DEF Bash!WritersClose
<1>22. CASE UNCHANGED bashVars
  BY <1>22 DEF bashVars
<1>. QED
  BY <1>1, <1>2, <1>3, <1>4, <1>5, <1>6, <1>7, <1>8, <1>9, <1>10, <1>11, <1>12, <1>13, <1>14,
     <1>15, <1>16, <1>17, <1>18, <1>19, <1>20, <1>21, <1>22
  DEF Bash!Next, Bash!Tool

(* A running total over a sequence of sizes, by which it leads from one       *)
(* number to another; no part of it goes beyond the end.                      *)
LeadsFrom(q, low, high) ==
    \E total \in [0 .. Len(q) -> Nat] :
        /\ total[0] = low /\ total[Len(q)] = high
        /\ \A i \in 1 .. Len(q) : total[i] = total[i - 1] + q[i] /\ total[i] <= high

LEMMA NothingLeft ==
    ASSUME NEW low \in Nat, NEW high \in Nat
    PROVE  LeadsFrom(<<>>, low, high) <=> low = high
<1>1. Len(<<>>) = 0
  OBVIOUS
<1>2. ASSUME low = high  PROVE LeadsFrom(<<>>, low, high)
  <2>1. [i \in 0 .. 0 |-> low] \in [0 .. 0 -> Nat] /\ [i \in 0 .. 0 |-> low][0] = low
    OBVIOUS
  <2>2. \A i \in 1 .. 0 : FALSE
    OBVIOUS
  <2>. QED  BY <1>1, <1>2, <2>1, <2>2 DEF LeadsFrom
<1>3. ASSUME LeadsFrom(<<>>, low, high)  PROVE low = high
  BY <1>1, <1>3 DEF LeadsFrom
<1>. QED  BY <1>2, <1>3

LEMMA OneLess ==
    ASSUME NEW q \in Seq(Nat), q # <<>>, NEW low \in Nat, NEW high \in Nat,
           LeadsFrom(q, low, high)
    PROVE  low + Head(q) <= high /\ LeadsFrom(Tail(q), low + Head(q), high)
<1>1. PICK total \in [0 .. Len(q) -> Nat] :
          /\ total[0] = low /\ total[Len(q)] = high
          /\ \A i \in 1 .. Len(q) : total[i] = total[i - 1] + q[i] /\ total[i] <= high
  BY DEF LeadsFrom
<1>2. Len(q) \in Nat /\ Len(q) >= 1 /\ Head(q) = q[1]
  BY EmptySeq
<1>3. Tail(q) \in Seq(Nat) /\ Len(Tail(q)) = Len(q) - 1
      /\ \A i \in 1 .. Len(q) - 1 : Tail(q)[i] = q[i + 1]
  OBVIOUS
<1>4. total[1] = low + Head(q) /\ total[1] <= high
  BY <1>1, <1>2
<1>. DEFINE rest == [i \in 0 .. Len(q) - 1 |-> total[i + 1]]
<1>5. rest \in [0 .. Len(q) - 1 -> Nat] /\ rest[0] = low + Head(q) /\ rest[Len(q) - 1] = high
  BY <1>1, <1>2, <1>4
<1>6. \A i \in 1 .. Len(q) - 1 : rest[i] = rest[i - 1] + Tail(q)[i] /\ rest[i] <= high
  BY <1>1, <1>2, <1>3
<1>. HIDE DEF rest
<1>. QED  BY <1>3, <1>4, <1>5, <1>6 DEF LeadsFrom

LEMMA OneMore ==
    ASSUME NEW q \in Seq(Nat), NEW n \in Nat, NEW low \in Nat, NEW high \in Nat,
           LeadsFrom(q, low, high)
    PROVE  LeadsFrom(Append(q, n), low, high + n)
<1>1. PICK total \in [0 .. Len(q) -> Nat] :
          /\ total[0] = low /\ total[Len(q)] = high
          /\ \A i \in 1 .. Len(q) : total[i] = total[i - 1] + q[i] /\ total[i] <= high
  BY DEF LeadsFrom
<1>2. Len(q) \in Nat /\ Len(Append(q, n)) = Len(q) + 1
  OBVIOUS
<1>3. Append(q, n)[Len(q) + 1] = n /\ \A i \in 1 .. Len(q) : Append(q, n)[i] = q[i]
  OBVIOUS
<1>. DEFINE more == [i \in 0 .. Len(q) + 1 |-> IF i <= Len(q) THEN total[i] ELSE high + n]
<1>4. more \in [0 .. Len(q) + 1 -> Nat] /\ more[0] = low /\ more[Len(q) + 1] = high + n
  BY <1>1, <1>2
<1>5. \A i \in 1 .. Len(q) : more[i] = more[i - 1] + Append(q, n)[i] /\ more[i] <= high + n
  <2>. SUFFICES ASSUME NEW i \in 1 .. Len(q)
                PROVE  more[i] = more[i - 1] + Append(q, n)[i] /\ more[i] <= high + n
    OBVIOUS
  <2>1. more[i] = total[i] /\ more[i - 1] = total[i - 1] /\ total[i] \in Nat
    BY <1>2
  <2>2. Append(q, n)[i] = q[i]
    BY <1>3
  <2>3. total[i] = total[i - 1] + q[i] /\ total[i] <= high
    BY <1>1
  <2>. HIDE DEF more
  <2>. QED  BY <2>1, <2>2, <2>3
<1>6. more[Len(q) + 1] = more[Len(q)] + n
  <2>1. Len(q) \in 0 .. Len(q) + 1 /\ Len(q) + 1 \in 0 .. Len(q) + 1 /\ ~(Len(q) + 1 <= Len(q))
    BY <1>2
  <2>2. more[Len(q)] = high
    BY <1>1, <1>2, <2>1
  <2>. QED  BY <1>4, <2>2
<1>7. \A i \in 1 .. Len(q) + 1 : more[i] = more[i - 1] + Append(q, n)[i] /\ more[i] <= high + n
  <2>. HIDE DEF more
  <2>1. \A i \in 1 .. Len(q) + 1 : i \in 1 .. Len(q) \/ i = Len(q) + 1
    BY <1>2
  <2>2. more[Len(q) + 1] = more[(Len(q) + 1) - 1] + Append(q, n)[Len(q) + 1]
    BY <1>2, <1>3, <1>6
  <2>. QED  BY <1>4, <1>5, <2>1, <2>2
<1>. HIDE DEF more
<1>. QED  BY <1>2, <1>4, <1>7 DEF LeadsFrom

(* What fgets will still find leads from what is kept to what can be seen.    *)
Unread == [t \in BashThreads |-> stdio[t] \o bashPipe[t]]

AccountedOf(t) ==
    /\ bashPc[t] \in {"idle", "saved", "popen"} =>
          /\ stdio[t] = <<>> /\ bashPipe[t] = <<>> /\ kept[t] = 0 /\ visible[t] = 0
          /\ ended[t] = "no"
    /\ bashPc[t] = "loop" => ended[t] = "no" /\ LeadsFrom(Unread[t], kept[t], visible[t])
    /\ ended[t] = "eof" => kept[t] = visible[t]
    /\ ended[t] = "truncated" => kept[t] = Limit /\ visible[t] >= Limit

BytesAccounted == \A t \in BashThreads : AccountedOf(t)

LEMMA HeadTailConcat ==
    ASSUME NEW p \in Seq(Nat), NEW q \in Seq(Nat), p # <<>>
    PROVE  p \o q # <<>> /\ Head(p \o q) = Head(p) /\ Tail(p \o q) = Tail(p) \o q
OBVIOUS

LEMMA AppendConcat ==
    ASSUME NEW p \in Seq(Nat), NEW q \in Seq(Nat), NEW n \in Nat
    PROVE  p \o Append(q, n) = Append(p \o q, n)
OBVIOUS

LEMMA BytesAccountedStep ==
    ASSUME BashBounds, Bash!TypeOK, BytesAccounted, [Bash!Next]_bashVars
    PROVE  BytesAccounted'
<1>. USE DEF BytesAccounted, AccountedOf, Bash!TypeOK, Bash!Lines, Bash!command, Bash!streams,
         Bash!history,
             Bash!Go, Bash!End, Bash!Leave, Bash!LeaveUnread, BashBounds
<1>1. CASE Bash!Interrupt
  BY <1>1 DEF Bash!Interrupt, Unread
<1>2. ASSUME NEW t \in BashThreads, Bash!Refuse(t)
      PROVE  BytesAccounted'
  BY <1>2 DEF Bash!Refuse, Unread
<1>3. ASSUME NEW t \in BashThreads, Bash!SaveStderr(t)
      PROVE  BytesAccounted'
  BY <1>3 DEF Bash!SaveStderr, Unread
<1>4. ASSUME NEW t \in BashThreads, Bash!SaveFails(t)
      PROVE  BytesAccounted'
  BY <1>4 DEF Bash!SaveFails, Unread
<1>5. ASSUME NEW t \in BashThreads, Bash!RedirectStderr(t)
      PROVE  BytesAccounted'
  BY <1>5 DEF Bash!RedirectStderr, Unread
<1>6. ASSUME NEW t \in BashThreads, Bash!RedirectFails(t)
      PROVE  BytesAccounted'
  BY <1>6 DEF Bash!RedirectFails, Unread
<1>7. ASSUME NEW t \in BashThreads, Bash!Popen(t)
      PROVE  BytesAccounted'
  <2>1. stdio[t] = <<>> /\ bashPipe[t] = <<>> /\ kept[t] = 0 /\ visible[t] = 0
    BY <1>7 DEF Bash!Popen
  <2>2. Unread[t] = <<>> /\ LeadsFrom(<<>>, 0, 0)
    BY <2>1, NothingLeft DEF Unread
  <2>3. Unread' = Unread /\ UNCHANGED <<stdio, bashPipe, kept, visible, ended>>
    BY <1>7 DEF Bash!Popen, Unread
  <2>4. bashPc' = [bashPc EXCEPT ![t] = "loop"] /\ ended[t] = "no"
    BY <1>7 DEF Bash!Popen
  <2>. QED  BY <2>1, <2>2, <2>3, <2>4
<1>8. ASSUME NEW t \in BashThreads, Bash!PopenFails(t)
      PROVE  BytesAccounted'
  BY <1>8 DEF Bash!PopenFails, Unread
<1>9. ASSUME NEW t \in BashThreads, Bash!Interrupted(t)
      PROVE  BytesAccounted'
  <2>1. \A u \in BashThreads : u # t => Unread'[u] = Unread[u]
    BY <1>9 DEF Bash!Interrupted, Unread
  <2>. QED  BY <1>9, <2>1 DEF Bash!Interrupted
<1>10. ASSUME NEW t \in BashThreads, Bash!ReadsEof(t)
      PROVE  BytesAccounted'
  <2>1. Unread[t] = <<>>
    BY <1>10 DEF Bash!ReadsEof, Bash!AtEnd, Unread
  <2>2. visible[t] = kept[t] /\ bashPc[t] = "loop"
    BY <1>10, <2>1, NothingLeft DEF Bash!ReadsEof
  <2>3. \A u \in BashThreads : u # t => Unread'[u] = Unread[u]
    BY <1>10 DEF Bash!ReadsEof, Unread
  <2>. QED  BY <1>10, <2>2, <2>3 DEF Bash!ReadsEof
<1>11. ASSUME NEW t \in BashThreads, Bash!ReadsLine(t)
      PROVE  BytesAccounted'
  <2>. DEFINE bytes == kept[t] + Head(Bash!Buffered(t))
  <2>1. stdio[t] \in Seq(Nat) /\ bashPipe[t] \in Seq(Nat) /\ kept[t] \in Nat /\ visible[t] \in Nat
    OBVIOUS
  <2>2. /\ Bash!Buffered(t) \in Seq(Nat) /\ Bash!Buffered(t) # <<>>
        /\ Unread[t] \in Seq(Nat) /\ Unread[t] # <<>> /\ Head(Unread[t]) = Head(Bash!Buffered(t))
        /\ Tail(Unread[t]) = Tail(Bash!Buffered(t)) \o Bash!PipeAfter(t)
    <3>1. Bash!Buffered(t) # <<>> /\ Unread[t] = stdio[t] \o bashPipe[t]
      BY <1>11 DEF Bash!ReadsLine, Unread
    <3>2. CASE stdio[t] = <<>>
      <4>1. Bash!Buffered(t) = bashPipe[t] /\ Bash!PipeAfter(t) = <<>>
        BY <3>2 DEF Bash!Buffered, Bash!PipeAfter
      <4>2. Unread[t] = bashPipe[t]
        BY <2>1, <3>1, <3>2, ConcatEmptySeq
      <4>3. Tail(bashPipe[t]) \in Seq(Nat)
        BY <2>1, <3>1, <4>1, HeadTailProperties
      <4>. QED  BY <2>1, <3>1, <4>1, <4>2, <4>3, ConcatEmptySeq
    <3>3. CASE stdio[t] # <<>>
      <4>1. Bash!Buffered(t) = stdio[t] /\ Bash!PipeAfter(t) = bashPipe[t]
        BY <3>3 DEF Bash!Buffered, Bash!PipeAfter
      <4>2. stdio[t] \o bashPipe[t] \in Seq(Nat)
        BY <2>1
      <4>3. /\ stdio[t] \o bashPipe[t] # <<>> /\ Head(stdio[t] \o bashPipe[t]) = Head(stdio[t])
            /\ Tail(stdio[t] \o bashPipe[t]) = Tail(stdio[t]) \o bashPipe[t]
        BY <2>1, <3>3, HeadTailConcat
      <4>. QED  BY <2>1, <3>1, <4>1, <4>2, <4>3, Zenon
    <3>. QED  BY <3>2, <3>3
  <2>4. bashPc[t] = "loop" /\ LeadsFrom(Unread[t], kept[t], visible[t]) /\ visible' = visible
    BY <1>11 DEF Bash!ReadsLine
  <2>5. bytes \in Nat /\ bytes <= visible[t] /\ LeadsFrom(Tail(Unread[t]), bytes, visible[t])
    <3>1. bytes = kept[t] + Head(Unread[t]) /\ Head(Unread[t]) \in Nat
      <4>1. bytes = kept[t] + Head(Unread[t])
        BY <2>2, Zenon
      <4>2. Head(Unread[t]) \in Nat
        BY <2>2, HeadTailProperties
      <4>. QED  BY <4>1, <4>2
    <3>. HIDE DEF bytes
    <3>2. bytes <= visible[t] /\ LeadsFrom(Tail(Unread[t]), bytes, visible[t])
      BY <2>1, <2>2, <2>4, <3>1, OneLess
    <3>. QED  BY <2>1, <3>1, <3>2
  <2>10. \/ /\ bytes >= Limit /\ kept' = [kept EXCEPT ![t] = Limit]
            /\ bashPc' = [bashPc EXCEPT ![t] = "pclose"] /\ ended' = [ended EXCEPT ![t] = "truncated"]
            /\ bashPipe' = [bashPipe EXCEPT ![t] = <<>>] /\ stdio' = [stdio EXCEPT ![t] = <<>>]
         \/ /\ ~(bytes >= Limit) /\ kept' = [kept EXCEPT ![t] = bytes] /\ UNCHANGED <<bashPc, ended>>
            /\ stdio' = [stdio EXCEPT ![t] = Tail(Bash!Buffered(t))]
            /\ bashPipe' = [bashPipe EXCEPT ![t] = Bash!PipeAfter(t)]
    BY <1>11 DEF Bash!ReadsLine
  <2>. HIDE DEF bytes
  <2>6. \A u \in BashThreads : u # t =>
            /\ stdio'[u] = stdio[u] /\ bashPipe'[u] = bashPipe[u] /\ kept'[u] = kept[u]
            /\ bashPc'[u] = bashPc[u] /\ ended'[u] = ended[u] /\ visible'[u] = visible[u]
    BY <2>4, <2>10
  <2>7. \A u \in BashThreads : u # t => Unread'[u] = Unread[u]
    BY <2>6 DEF Unread
  <2>8. CASE bytes >= Limit
    <3>1. kept'[t] = Limit /\ bashPc'[t] = "pclose" /\ ended'[t] = "truncated"
      BY <2>8, <2>10
    <3>2. visible'[t] >= Limit
      BY <2>1, <2>4, <2>5, <2>8
    <3>3. AccountedOf(t)' /\ \A u \in BashThreads : u # t => AccountedOf(u)'
      BY <2>6, <2>7, <3>1, <3>2
    <3>. QED  BY <3>3
  <2>9. CASE ~(bytes >= Limit)
    <3>1. kept'[t] = bytes /\ bashPc'[t] = "loop" /\ ended'[t] = "no"
      BY <2>4, <2>9, <2>10
    <3>2. Unread'[t] = Tail(Unread[t])
      BY <2>2, <2>9, <2>10 DEF Unread
    <3>3. LeadsFrom(Unread'[t], kept'[t], visible'[t])
      BY <2>4, <2>5, <3>1, <3>2
    <3>4. AccountedOf(t)' /\ \A u \in BashThreads : u # t => AccountedOf(u)'
      BY <2>6, <2>7, <3>1, <3>3
    <3>. QED  BY <3>4
  <2>. QED  BY <2>8, <2>9
<1>12. ASSUME NEW t \in BashThreads, Bash!Cancelled(t)
      PROVE  BytesAccounted'
  BY <1>12 DEF Bash!Cancelled, Unread
<1>13. ASSUME NEW t \in BashThreads, Bash!KillsGroup(t)
      PROVE  BytesAccounted'
  BY <1>13 DEF Bash!KillsGroup, Unread
<1>14. ASSUME NEW t \in BashThreads, Bash!Pclose(t)
      PROVE  BytesAccounted'
  BY <1>14 DEF Bash!Pclose, Unread
<1>15. ASSUME NEW t \in BashThreads, Bash!RestoreStderr(t)
      PROVE  BytesAccounted'
  BY <1>15 DEF Bash!RestoreStderr, Unread
<1>16. ASSUME NEW t \in BashThreads, Bash!TimesOut(t)
      PROVE  BytesAccounted'
  <2>1. \A u \in BashThreads : u # t => Unread'[u] = Unread[u]
    BY <1>16 DEF Bash!TimesOut, Unread
  <2>. QED  BY <1>16, <2>1 DEF Bash!TimesOut
<1>17. ASSUME NEW t \in BashThreads, Bash!LoopFails(t)
      PROVE  BytesAccounted'
  <2>1. \A u \in BashThreads : u # t => Unread'[u] = Unread[u]
    BY <1>17 DEF Bash!LoopFails, Unread
  <2>. QED  BY <1>17, <2>1 DEF Bash!LoopFails
<1>18. ASSUME NEW t \in BashThreads, Bash!ReadFails(t)
      PROVE  BytesAccounted'
  <2>1. \A u \in BashThreads : u # t => Unread'[u] = Unread[u]
    BY <1>18 DEF Bash!ReadFails, Unread
  <2>. QED  BY <1>18, <2>1 DEF Bash!ReadFails
<1>19. ASSUME NEW t \in BashThreads, Bash!CommandPrints(t)
      PROVE  BytesAccounted'
  <2>1. PICK amount \in 1 .. MaxPrinted - printed[t] : \E shown \in 0 .. amount :
            /\ bashPipe' = [bashPipe EXCEPT ![t] = Append(@, shown)]
            /\ visible' = [visible EXCEPT ![t] = @ + shown]
    BY <1>19 DEF Bash!CommandPrints
  <2>2. PICK shown \in 0 .. amount :
            /\ bashPipe' = [bashPipe EXCEPT ![t] = Append(@, shown)]
            /\ visible' = [visible EXCEPT ![t] = @ + shown]
    BY <2>1
  <2>0. UNCHANGED <<stdio, kept, bashPc, ended>> /\ bashPc[t] = "loop"
    BY <1>19 DEF Bash!CommandPrints
  <2>3. /\ stdio[t] \in Seq(Nat) /\ bashPipe[t] \in Seq(Nat) /\ kept[t] \in Nat
        /\ visible[t] \in Nat /\ shown \in Nat
    OBVIOUS
  <2>4. Unread[t] \in Seq(Nat)
    BY <2>3 DEF Unread
  <2>5. Unread'[t] = Append(Unread[t], shown)
    <3>1. bashPipe'[t] = Append(bashPipe[t], shown) /\ stdio' = stdio
      BY <2>0, <2>2
    <3>2. Unread'[t] = stdio[t] \o Append(bashPipe[t], shown)
      BY <3>1 DEF Unread
    <3>. QED  BY <2>3, <3>2, AppendConcat DEF Unread
  <2>6. LeadsFrom(Append(Unread[t], shown), kept[t], visible[t] + shown)
    BY <2>0, <2>3, <2>4, OneMore
  <2>7. visible'[t] = visible[t] + shown
    BY <2>2
  <2>8. \A u \in BashThreads : u # t =>
            stdio'[u] = stdio[u] /\ bashPipe'[u] = bashPipe[u] /\ visible'[u] = visible[u]
    BY <2>0, <2>2
  <2>9. \A u \in BashThreads : u # t => Unread'[u] = Unread[u]
    BY <2>8 DEF Unread
  <2>10. LeadsFrom(Unread'[t], kept'[t], visible'[t])
    BY <2>0, <2>5, <2>6, <2>7
  <2>. QED  BY <2>0, <2>8, <2>9, <2>10
<1>20. ASSUME NEW t \in BashThreads, Bash!CommandExits(t)
      PROVE  BytesAccounted'
  BY <1>20 DEF Bash!CommandExits, Unread
<1>21. ASSUME NEW t \in BashThreads, Bash!WritersClose(t)
      PROVE  BytesAccounted'
  BY <1>21 DEF Bash!WritersClose, Unread
<1>22. CASE UNCHANGED bashVars
  BY <1>22 DEF bashVars, Unread
<1>. QED
  BY <1>1, <1>2, <1>3, <1>4, <1>5, <1>6, <1>7, <1>8, <1>9, <1>10, <1>11, <1>12, <1>13, <1>14,
     <1>15, <1>16, <1>17, <1>18, <1>19, <1>20, <1>21, <1>22
  DEF Bash!Next, Bash!Tool

(* However commands, reads, interrupts and timeouts interleave: where the     *)
(* pipe was read to its end, every byte that was printed is in the tool's     *)
(* result, except those behind a NUL in their line, and a truncated result    *)
(* has as many as the limit allows; nothing is said of an output cut by an    *)
(* interrupt, a timeout or a read error. And the variables keep their types   *)
(* (tool_bash).                                                               *)
THEOREM OutputComplete ==
    ASSUME BashBounds
    PROVE  ServicesSpec => [](Bash!TypeOK /\ Bash!OutputAccounted)
<1>1. ServicesInit => Bash!TypeOK /\ BytesAccounted
  <2>. SUFFICES ASSUME Bash!Init  PROVE Bash!TypeOK /\ BytesAccounted
    BY DEF ServicesInit
  <2>1. <<>> \in Seq(0 .. MaxPrinted) /\ 0 \in 0 .. MaxPrinted /\ 0 \in 0 .. Limit
    BY DEF BashBounds
  <2>2. bashPipe \in [BashThreads -> Bash!Lines] /\ stdio \in [BashThreads -> Bash!Lines]
    BY <2>1 DEF Bash!Init, Bash!Lines
  <2>3. /\ printed \in [BashThreads -> 0 .. MaxPrinted] /\ visible \in [BashThreads -> Nat]
        /\ \A t \in BashThreads : visible[t] <= printed[t]
        /\ kept \in [BashThreads -> 0 .. Limit]
    BY <2>1 DEF Bash!Init
  <2>4. Bash!TypeOK
    BY <2>2, <2>3 DEF Bash!Init, Bash!TypeOK
  <2>. QED  BY <2>4 DEF Bash!Init, BytesAccounted, AccountedOf
<1>2. Bash!TypeOK /\ BytesAccounted /\ [ServicesNext]_serviceVars => (Bash!TypeOK /\ BytesAccounted)'
  <2>1. [ServicesNext]_serviceVars => [Bash!Next]_bashVars
    BY DEF ServicesNext, serviceVars, bashVars
  <2>. QED  BY <2>1, BashTypesStep, BytesAccountedStep
<1>3. BytesAccounted => Bash!OutputAccounted
  BY DEF BytesAccounted, AccountedOf, Bash!OutputAccounted
<1>. QED  BY <1>1, <1>2, <1>3, PTL DEF ServicesSpec

-----------------------------------------------------------------------------
(* The MCP client.                                                            *)
Forms == {"whole", "pieces", "long"}

McpBounds ==
    McpTurns \in Nat /\ McpRoom \in Nat /\ MaxNotices \in Nat /\ McpCuts \subseteq Forms

LEMMA ParsedIsLine ==
    ASSUME NEW s \in Seq(Mcp!Pieces)
    PROVE  /\ Mcp!Parsed(s) \in Mcp!Lines
           /\ Mcp!Parsed(s) = Mcp!Nothing \/ (s # <<>> /\ Mcp!Parsed(s) = s[1].line)
<1>1. Mcp!Nothing \in Mcp!Lines
  BY DEF Mcp!Nothing, Mcp!Lines
<1>2. s # <<>> => s[1].line \in Mcp!Lines
  <2>1. s # <<>> => 1 \in 1 .. Len(s)
    BY EmptySeq
  <2>2. s # <<>> => s[1] \in Mcp!Pieces
    BY <2>1, ElementOfSeq
  <2>. QED  BY <2>2 DEF Mcp!Pieces
<1>3. Mcp!Parsed(s) = Mcp!Nothing \/ (s # <<>> /\ Mcp!Parsed(s) = s[1].line)
  BY Zenon DEF Mcp!Parsed
<1>. QED  BY <1>1, <1>2, <1>3

LEMMA PiecesOfLine ==
    ASSUME NEW line \in Mcp!Lines, NEW form \in Forms
    PROVE  /\ Mcp!Line(line, form) \in Seq(Mcp!Pieces) /\ Mcp!Line(line, form) # <<>>
           /\ \A i \in DOMAIN Mcp!Line(line, form) :
                 /\ Mcp!Line(line, form)[i].line = line
                 /\ Mcp!Line(line, form)[i].part \in {"whole", "tail"} => i = Len(Mcp!Line(line, form))
<1>. DEFINE head == [line |-> line, part |-> "head"]  body == [line |-> line, part |-> "body"]
            tail == [line |-> line, part |-> "tail"]  whole == [line |-> line, part |-> "whole"]
<1>1. /\ {head, body, tail, whole} \subseteq Mcp!Pieces
      /\ head.part \notin {"whole", "tail"} /\ body.part \notin {"whole", "tail"}
      /\ head.line = line /\ body.line = line /\ tail.line = line /\ whole.line = line
  BY DEF Mcp!Pieces
<1>. HIDE DEF head, body, tail, whole
<1>2. CASE form = "whole"
  <2>1. Mcp!Line(line, form) = <<whole>>
    BY <1>2 DEF Mcp!Line, Mcp!Piece, whole
  <2>. QED  BY <1>1, <2>1
<1>3. CASE form = "pieces"
  <2>1. Mcp!Line(line, form) = <<head, tail>>
    BY <1>3 DEF Mcp!Line, Mcp!Piece, head, tail
  <2>. QED  BY <1>1, <2>1
<1>4. CASE form = "long"
  <2>1. Mcp!Line(line, form) = <<head, body, tail>>
    BY <1>4 DEF Mcp!Line, Mcp!Piece, head, body, tail
  <2>. QED  BY <1>1, <2>1
<1>. QED  BY <1>2, <1>3, <1>4 DEF Forms

LEMMA SendTypes ==
    ASSUME McpBounds, Mcp!TypeOK, NEW u \in Mcp!Users, NEW method \in Mcp!Methods,
           Mcp!Send(u, method)
    PROVE  Mcp!TypeOK'
<1>. USE DEF McpBounds, Mcp!TypeOK, Mcp!server, Mcp!calls
<1>. DEFINE none == [kind |-> "none", id |-> 0]
<1>0. /\ asked' = Append(asked, method) /\ own' = [own EXCEPT ![u] = Len(asked) + 1]
      /\ mcpPc' = [mcpPc EXCEPT ![u] = "writing"]
      /\ mcpOutcome' = [mcpOutcome EXCEPT ![u] = none] /\ disturbed' \in BOOLEAN
      /\ UNCHANGED <<phase, open, connected, tools, process, child, inbox, writing, mcpPipe,
                     notices, noise, mcpPolls, buffer>>
  BY Zenon DEF Mcp!Send, Mcp!Busy
<1>1. /\ Append(asked, method) \in Seq(Mcp!Methods) /\ Len(asked) \in Nat
      /\ Len(Append(asked, method)) = Len(asked) + 1
  OBVIOUS
<1>2. asked' \in Seq(Mcp!Methods) /\ inbox' \subseteq 1 .. Len(asked')
  BY <1>0, <1>1
<1>3. /\ mcpPc' \in [Mcp!Users -> {"idle", "writing", "polling", "read", "notifying"}]
      /\ own' \in [Mcp!Users -> Nat]
  BY <1>0, <1>1
<1>4. ASSUME NEW v \in Mcp!Users, mcpPc'[v] # "idle"  PROVE own'[v] \in 1 .. Len(asked')
  <2>1. v = u => own'[v] = Len(asked) + 1
    BY <1>0
  <2>2. v # u => own'[v] = own[v] /\ mcpPc'[v] = mcpPc[v]
    BY <1>0
  <2>. QED  BY <1>0, <1>1, <1>4, <2>1, <2>2
<1>5. mcpOutcome' \in [Mcp!Users -> [kind : {"none", "error", "empty", "answer"}, id : Nat]]
  <2>1. none \in [kind : {"none", "error", "empty", "answer"}, id : Nat]
    OBVIOUS
  <2>. QED  BY <1>0, <2>1
<1>. QED  BY <1>0, <1>2, <1>3, <1>4, <1>5

(* A call begins to wait for its answer, or one call is moved on.             *)
LEMMA MovesOnTypes ==
    ASSUME McpBounds, Mcp!TypeOK, NEW u \in Mcp!Users, mcpPc[u] # "idle",
           NEW to \in {"polling", "read", "notifying"}, mcpPc' = [mcpPc EXCEPT ![u] = to],
           UNCHANGED <<phase, open, connected, process, child, asked, writing, mcpPipe, notices,
                       noise, tools, own, buffer, mcpOutcome>>,
           (inbox \subseteq 1 .. Len(asked))', (mcpPolls \in [Mcp!Users -> 0 .. McpTurns])',
           (disturbed \in BOOLEAN)'
    PROVE  Mcp!TypeOK'
<1>1. mcpPc' \in [Mcp!Users -> {"idle", "writing", "polling", "read", "notifying"}]
  BY DEF Mcp!TypeOK
<1>2. \A v \in Mcp!Users : mcpPc'[v] # "idle" => mcpPc[v] # "idle"
  BY DEF Mcp!TypeOK
<1>. QED  BY <1>1, <1>2 DEF Mcp!TypeOK

LEMMA ReturnTypes ==
    ASSUME McpBounds, Mcp!TypeOK, NEW u \in Mcp!Users, NEW id \in Nat,
           NEW kind \in {"none", "error", "empty", "answer"}, Mcp!Return(u, kind, id),
           (phase \in Mcp!Phases)', (tools \in BOOLEAN)'
    PROVE  Mcp!TypeOK'
<1>. USE DEF McpBounds, Mcp!TypeOK, Mcp!server
<1>1. /\ mcpPc' \in [Mcp!Users -> {"idle", "writing", "polling", "read", "notifying"}]
      /\ mcpPolls' \in [Mcp!Users -> 0 .. McpTurns]
  BY DEF Mcp!Return
<1>2. buffer' \in [Mcp!Users -> Seq(Mcp!Pieces)] /\ \A v \in Mcp!Users : Len(buffer'[v]) <= McpRoom
  BY DEF Mcp!Return
<1>3. mcpOutcome' \in [Mcp!Users -> [kind : {"none", "error", "empty", "answer"}, id : Nat]]
  BY DEF Mcp!Return
<1>4. \A v \in Mcp!Users : mcpPc'[v] # "idle" => own'[v] \in 1 .. Len(asked')
  BY DEF Mcp!Return
<1>. QED  BY <1>1, <1>2, <1>3, <1>4 DEF Mcp!Return

LEMMA ServerTypes ==
    ASSUME McpBounds, Mcp!TypeOK, NEW next \in Seq(Mcp!Pieces), Mcp!ServerStep(next),
           (inbox \subseteq 1 .. Len(asked))', (notices \in 0 .. MaxNotices)',
           (disturbed \in BOOLEAN)'
    PROVE  Mcp!TypeOK'
<1>. USE DEF Mcp!TypeOK, Mcp!calls
<1>1. Append(mcpPipe, Head(next)) \in Seq(Mcp!Pieces) /\ Tail(next) \in Seq(Mcp!Pieces)
  BY DEF Mcp!ServerStep
<1>. QED  BY <1>1 DEF Mcp!ServerStep

LEMMA McpTypesStep ==
    ASSUME McpBounds, Mcp!TypeOK, [Mcp!Next]_mcpVars
    PROVE  Mcp!TypeOK'
<1>1. CASE Mcp!OpenPipe
  <2>1. phase' \in Mcp!Ends
    BY <1>1 DEF Mcp!OpenPipe, Mcp!NextPipe, Mcp!Ends
  <2>2. open' \subseteq {Mcp!Log} \cup UNION {Mcp!Both(e) : e \in Mcp!Ends}
    BY <1>1, <2>1 DEF Mcp!OpenPipe, Mcp!TypeOK
  <2>. QED  BY <1>1, <2>1, <2>2 DEF Mcp!OpenPipe, Mcp!TypeOK, Mcp!server, Mcp!calls, Mcp!Ends, Mcp!Phases
<1>2. CASE Mcp!Connect
  <2>1. open' \subseteq {Mcp!Log} \cup UNION {Mcp!Both(e) : e \in Mcp!Ends}
    BY <1>2 DEF Mcp!Connect, Mcp!TypeOK
  <2>. QED  BY <1>2, <2>1 DEF Mcp!Connect, Mcp!TypeOK, Mcp!calls, Mcp!Phases
<1>3. CASE Mcp!ConnectFails
  <2>1. open' \subseteq {Mcp!Log} \cup UNION {Mcp!Both(e) : e \in Mcp!Ends}
    BY <1>3 DEF Mcp!ConnectFails, Mcp!TypeOK
  <2>. QED  BY <1>3, <2>1 DEF Mcp!ConnectFails, Mcp!TypeOK, Mcp!server, Mcp!calls, Mcp!Phases
<1>4. CASE Mcp!StartHandshake
  BY <1>4, SendTypes DEF Mcp!StartHandshake, Mcp!Methods, Mcp!Users
<1>5. CASE Mcp!EndHandshake
  BY <1>5, ReturnTypes DEF Mcp!EndHandshake, Mcp!Users, Mcp!TypeOK, Mcp!Phases
<1>6. CASE Mcp!StartDiscovery
  BY <1>6, SendTypes DEF Mcp!StartDiscovery, Mcp!Methods, Mcp!Users
<1>7. CASE Mcp!SkipNotification
  BY <1>7, ReturnTypes DEF Mcp!SkipNotification, Mcp!Users, Mcp!TypeOK, Mcp!Phases
<1>8. CASE Mcp!StartNotification
  <2>1. "main" \in Mcp!Users /\ mcpPc["main"] # "idle"
    BY <1>8 DEF Mcp!StartNotification, Mcp!Users
  <2>. QED  BY <1>8, <2>1, MovesOnTypes DEF Mcp!StartNotification, Mcp!server, Mcp!TypeOK
<1>9. CASE Mcp!DiscoverTools
  <2>1. Mcp!Response("main") \in Mcp!Lines
    BY ParsedIsLine DEF Mcp!Response, Mcp!TypeOK, Mcp!Nothing, Mcp!Lines, Mcp!Users
  <2>2. Mcp!Response("main").id \in Nat
    BY <2>1 DEF Mcp!Lines
  <2>. QED  BY <1>9, <2>2, ReturnTypes DEF Mcp!DiscoverTools, Mcp!TypeOK, Mcp!Users, Mcp!Phases
<1>10. CASE Mcp!ServerAnswers
  <2>1. PICK r \in inbox, error \in BOOLEAN, form \in Forms :
            /\ inbox' = inbox \ {r}
            /\ Mcp!ServerStep(Mcp!Line([id |-> r, method |-> asked[r], error |-> error], form))
            /\ UNCHANGED <<notices, disturbed>>
    BY <1>10 DEF Mcp!ServerAnswers, Forms, McpBounds
  <2>2. [id |-> r, method |-> asked[r], error |-> error] \in Mcp!Lines
    BY DEF Mcp!TypeOK, Mcp!Lines
  <2>3. asked' = asked
    BY <2>1 DEF Mcp!ServerStep
  <2>. QED  BY <2>1, <2>2, <2>3, PiecesOfLine, ServerTypes DEF Mcp!TypeOK
<1>11. CASE Mcp!ServerNotifies
  <2>1. Mcp!Notice \in Mcp!Lines
    BY DEF Mcp!Notice, Mcp!Lines
  <2>2. asked' = asked /\ notices' \in 0 .. MaxNotices
    BY <1>11 DEF Mcp!ServerNotifies, Mcp!ServerStep, Mcp!TypeOK, McpBounds
  <2>. QED  BY <1>11, <2>1, <2>2, PiecesOfLine, ServerTypes DEF Mcp!ServerNotifies, Mcp!TypeOK, Forms
<1>12. CASE Mcp!ServerGoesOn
  <2>1. asked' = asked
    BY <1>12 DEF Mcp!ServerGoesOn, Mcp!ServerStep
  <2>. QED  BY <1>12, <2>1, ServerTypes DEF Mcp!ServerGoesOn, Mcp!TypeOK
<1>13. CASE Mcp!ServerExits
  BY <1>13 DEF Mcp!ServerExits, McpBounds, Mcp!TypeOK, Mcp!server, Mcp!calls, Mcp!Phases
<1>14. CASE Mcp!ServerComplains
  BY <1>14 DEF Mcp!ServerComplains, McpBounds, Mcp!TypeOK, Mcp!server, Mcp!calls, Mcp!Phases
<1>15. CASE Mcp!EarlyExit
  BY <1>15 DEF Mcp!EarlyExit, McpBounds, Mcp!TypeOK, Mcp!server, Mcp!calls, Mcp!Phases
<1>16. CASE Mcp!ReapInGrace
  BY <1>16 DEF Mcp!ReapInGrace, McpBounds, Mcp!TypeOK, Mcp!server, Mcp!calls, Mcp!Phases
<1>17. CASE Mcp!ForceKill
  BY <1>17 DEF Mcp!ForceKill, McpBounds, Mcp!TypeOK, Mcp!server, Mcp!calls, Mcp!Phases
<1>18. CASE Mcp!Disconnect
  <2>1. open' \subseteq open
    BY <1>18 DEF Mcp!Disconnect
  <2>2. open' \subseteq {Mcp!Log} \cup UNION {Mcp!Both(e) : e \in Mcp!Ends}
    BY <2>1 DEF Mcp!TypeOK
  <2>3. /\ phase' \in Mcp!Phases /\ inbox' = {} /\ writing' = <<>> /\ mcpPipe' = <<>>
        /\ noise' = FALSE /\ disturbed' \in BOOLEAN
        /\ UNCHANGED <<connected, process, asked, tools, child, notices, mcpPc, own, mcpPolls,
                       buffer, mcpOutcome>>
    BY <1>18 DEF Mcp!Disconnect, Mcp!calls, Mcp!Phases, Mcp!TypeOK
  <2>4. <<>> \in Seq(Mcp!Pieces)
    OBVIOUS
  <2>. QED  BY <2>2, <2>3, <2>4 DEF Mcp!TypeOK
<1>19. ASSUME NEW u \in Mcp!Users, Mcp!CallTool(u)
      PROVE  Mcp!TypeOK'
  BY <1>19, SendTypes DEF Mcp!CallTool, Mcp!Methods
<1>20. ASSUME NEW u \in Mcp!Users, Mcp!ListResources(u)
      PROVE  Mcp!TypeOK'
  BY <1>20, SendTypes DEF Mcp!ListResources, Mcp!Methods
<1>21. ASSUME NEW u \in Mcp!Users, Mcp!ReadResource(u)
      PROVE  Mcp!TypeOK'
  BY <1>21, SendTypes DEF Mcp!ReadResource, Mcp!Methods
<1>22. ASSUME NEW u \in Mcp!Users, Mcp!NotConnected(u)
      PROVE  Mcp!TypeOK'
  BY <1>22 DEF Mcp!NotConnected, McpBounds, Mcp!TypeOK, Mcp!server, Mcp!calls
<1>23. ASSUME NEW u \in Mcp!Users, Mcp!Write(u)
      PROVE  Mcp!TypeOK'
  <2>1. /\ mcpPc[u] = "writing" /\ mcpPc' = [mcpPc EXCEPT ![u] = "polling"]
        /\ mcpPolls' = [mcpPolls EXCEPT ![u] = McpTurns]
        /\ inbox' = inbox \cup {own[u]} /\ disturbed' = disturbed
        /\ UNCHANGED <<phase, open, connected, process, child, asked, writing, mcpPipe, notices,
                       noise, tools, own, buffer, mcpOutcome>>
    BY <1>23, Zenon DEF Mcp!Write, Mcp!Begin
  <2>2. own[u] \in 1 .. Len(asked) /\ McpTurns \in 0 .. McpTurns
    BY <2>1 DEF Mcp!TypeOK, McpBounds
  <2>3. /\ (inbox \subseteq 1 .. Len(asked))' /\ (mcpPolls \in [Mcp!Users -> 0 .. McpTurns])'
        /\ (disturbed \in BOOLEAN)'
    BY <2>1, <2>2 DEF Mcp!TypeOK
  <2>. QED  BY <2>1, <2>3, MovesOnTypes
<1>24. ASSUME NEW u \in Mcp!Users, Mcp!WriteFails(u)
      PROVE  Mcp!TypeOK'
  <2>1. /\ mcpPc[u] = "writing" /\ mcpPc' = [mcpPc EXCEPT ![u] = "polling"]
        /\ mcpPolls' = [mcpPolls EXCEPT ![u] = McpTurns]
        /\ inbox' = inbox /\ disturbed' = TRUE
        /\ UNCHANGED <<phase, open, connected, process, child, asked, writing, mcpPipe, notices,
                       noise, tools, own, buffer, mcpOutcome>>
    BY <1>24, Zenon DEF Mcp!WriteFails, Mcp!Begin
  <2>2. own[u] \in 1 .. Len(asked) /\ McpTurns \in 0 .. McpTurns
    BY <2>1 DEF Mcp!TypeOK, McpBounds
  <2>3. /\ (inbox \subseteq 1 .. Len(asked))' /\ (mcpPolls \in [Mcp!Users -> 0 .. McpTurns])'
        /\ (disturbed \in BOOLEAN)'
    BY <2>1, <2>2 DEF Mcp!TypeOK
  <2>. QED  BY <2>1, <2>3, MovesOnTypes
<1>25. ASSUME NEW u \in Mcp!Users, Mcp!WriteKills(u)
      PROVE  Mcp!TypeOK'
  BY <1>25 DEF Mcp!WriteKills, McpBounds, Mcp!TypeOK, Mcp!server, Mcp!calls
<1>26. ASSUME NEW u \in Mcp!Users, Mcp!ToolResult(u)
      PROVE  Mcp!TypeOK'
  <2>1. Mcp!Response(u) \in Mcp!Lines
    BY ParsedIsLine DEF Mcp!Response, Mcp!TypeOK, Mcp!Nothing, Mcp!Lines, Mcp!Users
  <2>2. Mcp!Response(u).id \in Nat
    BY <2>1 DEF Mcp!Lines
  <2>. QED  BY <1>26, <2>2, ReturnTypes DEF Mcp!ToolResult, Mcp!TypeOK, Mcp!Users
<1>27. ASSUME NEW u \in Mcp!Users, Mcp!ResourceList(u)
      PROVE  Mcp!TypeOK'
  <2>1. Mcp!Response(u) \in Mcp!Lines
    BY ParsedIsLine DEF Mcp!Response, Mcp!TypeOK, Mcp!Nothing, Mcp!Lines, Mcp!Users
  <2>2. Mcp!Response(u).id \in Nat
    BY <2>1 DEF Mcp!Lines
  <2>. QED  BY <1>27, <2>2, ReturnTypes DEF Mcp!ResourceList, Mcp!TypeOK, Mcp!Users
<1>28. ASSUME NEW u \in Mcp!Users, Mcp!ResourceContent(u)
      PROVE  Mcp!TypeOK'
  <2>1. Mcp!Response(u) \in Mcp!Lines
    BY ParsedIsLine DEF Mcp!Response, Mcp!TypeOK, Mcp!Nothing, Mcp!Lines, Mcp!Users
  <2>2. Mcp!Response(u).id \in Nat
    BY <2>1 DEF Mcp!Lines
  <2>. QED  BY <1>28, <2>2, ReturnTypes DEF Mcp!ResourceContent, Mcp!TypeOK, Mcp!Users
<1>29. ASSUME NEW u \in Mcp!Users, Mcp!DrainStderr(u)
      PROVE  Mcp!TypeOK'
  BY <1>29 DEF Mcp!DrainStderr, McpBounds, Mcp!TypeOK, Mcp!server, Mcp!calls
<1>30. ASSUME NEW u \in Mcp!Users, Mcp!Poll(u)
      PROVE  Mcp!TypeOK'
  <2>. DEFINE room == McpRoom - Len(buffer[u])
              n == IF Len(mcpPipe) < room THEN Len(mcpPipe) ELSE room
  <2>1. /\ Len(mcpPipe) \in Nat /\ Len(buffer[u]) \in Nat /\ n \in Nat /\ n <= Len(mcpPipe)
        /\ Len(buffer[u]) + n <= McpRoom
    BY <1>30 DEF Mcp!Poll, Mcp!TypeOK, McpBounds
  <2>. HIDE DEF n
  <2>2. SubSeq(mcpPipe, 1, n) \in Seq(Mcp!Pieces) /\ Len(SubSeq(mcpPipe, 1, n)) = n
        /\ SubSeq(mcpPipe, n + 1, Len(mcpPipe)) \in Seq(Mcp!Pieces)
    BY <2>1 DEF Mcp!TypeOK
  <2>3. buffer[u] \o SubSeq(mcpPipe, 1, n) \in Seq(Mcp!Pieces)
        /\ Len(buffer[u] \o SubSeq(mcpPipe, 1, n)) <= McpRoom
    BY <2>1, <2>2, ConcatProperties DEF Mcp!TypeOK
  <2>4. buffer' = [buffer EXCEPT ![u] = @ \o SubSeq(mcpPipe, 1, n)]
        /\ mcpPipe' = SubSeq(mcpPipe, n + 1, Len(mcpPipe))
    BY <1>30 DEF Mcp!Poll, n
  <2>5. buffer' \in [Mcp!Users -> Seq(Mcp!Pieces)] /\ \A v \in Mcp!Users : Len(buffer'[v]) <= McpRoom
    BY <2>3, <2>4 DEF Mcp!TypeOK
  <2>6. /\ mcpPc' \in [Mcp!Users -> {"idle", "writing", "polling", "read", "notifying"}]
        /\ \A v \in Mcp!Users : mcpPc'[v] # "idle" => mcpPc[v] # "idle"
        /\ mcpPolls' \in [Mcp!Users -> 0 .. McpTurns]
    <3>1. \/ mcpPc' = [mcpPc EXCEPT ![u] = "read"] /\ mcpPolls' = mcpPolls
          \/ mcpPc' = mcpPc /\ mcpPolls' = [mcpPolls EXCEPT ![u] = @ - 1]
      BY <1>30, Zenon DEF Mcp!Poll
    <3>2. mcpPolls[u] > 0 /\ mcpPolls[u] \in 0 .. McpTurns /\ mcpPc[u] = "polling"
      BY <1>30 DEF Mcp!Poll, Mcp!TypeOK
    <3>3. mcpPolls[u] - 1 \in 0 .. McpTurns
      BY <3>2 DEF McpBounds
    <3>. QED  BY <3>1, <3>2, <3>3 DEF Mcp!TypeOK
  <2>. QED  BY <1>30, <2>2, <2>4, <2>5, <2>6 DEF Mcp!Poll, Mcp!TypeOK
<1>31. ASSUME NEW u \in Mcp!Users, Mcp!PollNothing(u)
      PROVE  Mcp!TypeOK'
  BY <1>31 DEF Mcp!PollNothing, McpBounds, Mcp!TypeOK, Mcp!server, Mcp!calls
<1>32. ASSUME NEW u \in Mcp!Users, Mcp!GiveUp(u)
      PROVE  Mcp!TypeOK'
  <2>1. mcpPc[u] # "idle"
    BY <1>32 DEF Mcp!GiveUp
  <2>. QED  BY <1>32, <2>1, MovesOnTypes DEF Mcp!GiveUp, Mcp!server, Mcp!TypeOK
<1>33. CASE UNCHANGED mcpVars
  BY <1>33 DEF mcpVars, Mcp!TypeOK
<1>. QED
  BY <1>1, <1>2, <1>3, <1>4, <1>5, <1>6, <1>7, <1>8, <1>9, <1>10, <1>11, <1>12, <1>13, <1>14,
     <1>15, <1>16, <1>17, <1>18, <1>19, <1>20, <1>21, <1>22, <1>23, <1>24, <1>25, <1>26, <1>27, <1>28,
     <1>29, <1>30, <1>31, <1>32, <1>33
  DEF Mcp!Next, Mcp!Start, Mcp!Server, Mcp!Exit, Mcp!Caller, Mcp!Reader, Mcp!Returns, Mcp!Users

(* What claude-c holds of a server in each phase: the pipes made so far, both *)
(* ends; its own ends and perhaps the log, once the process runs; nothing     *)
(* afterwards. A child that was reaped stays reaped.                          *)
OurEnds == {Mcp!Ours("stdin"), Mcp!Ours("stdout"), Mcp!Ours("stderr"), Mcp!Log}

ClosedInOrder ==
    /\ phase = "start" => open = {}
    /\ phase = "stdin" => open \subseteq Mcp!Both("stdin")
    /\ phase = "stdout" => open \subseteq Mcp!Both("stdin") \cup Mcp!Both("stdout")
    /\ phase = "stderr" =>
          open \subseteq Mcp!Both("stdin") \cup Mcp!Both("stdout") \cup Mcp!Both("stderr")
    /\ phase \in {"handshake", "discover", "serving"} => open \subseteq OurEnds
    /\ phase \in {"closing", "reaped", "down"} => open = {}
    /\ phase \in {"start", "stdin", "stdout", "stderr"} => child = "none" /\ ~connected
    /\ phase = "down" => child \in {"none", "reaped"} /\ ~connected

LEMMA ClosedInOrderStep ==
    ASSUME ClosedInOrder, [Mcp!Next]_mcpVars
    PROVE  ClosedInOrder'
<1>. USE DEF ClosedInOrder, Mcp!server, Mcp!calls, Mcp!Send, Mcp!Begin, Mcp!Return, Mcp!ServerStep
<1>1. CASE Mcp!OpenPipe
  BY <1>1 DEF Mcp!OpenPipe, Mcp!NextPipe
<1>2. CASE Mcp!Connect
  BY <1>2 DEF Mcp!Connect, Mcp!Both, OurEnds
<1>3. CASE Mcp!ConnectFails
  BY <1>3 DEF Mcp!ConnectFails, Mcp!ClosedAfter
<1>4. CASE Mcp!StartHandshake
  BY <1>4 DEF Mcp!StartHandshake
<1>5. CASE Mcp!EndHandshake
  BY <1>5 DEF Mcp!EndHandshake
<1>6. CASE Mcp!StartDiscovery
  BY <1>6 DEF Mcp!StartDiscovery
<1>7. CASE Mcp!SkipNotification
  BY <1>7 DEF Mcp!SkipNotification
<1>8. CASE Mcp!StartNotification
  BY <1>8 DEF Mcp!StartNotification
<1>9. CASE Mcp!DiscoverTools
  BY <1>9 DEF Mcp!DiscoverTools
<1>10. CASE Mcp!ServerAnswers
  BY <1>10 DEF Mcp!ServerAnswers
<1>11. CASE Mcp!ServerNotifies
  BY <1>11 DEF Mcp!ServerNotifies
<1>12. CASE Mcp!ServerGoesOn
  BY <1>12 DEF Mcp!ServerGoesOn
<1>13. CASE Mcp!ServerExits
  BY <1>13 DEF Mcp!ServerExits
<1>14. CASE Mcp!ServerComplains
  BY <1>14 DEF Mcp!ServerComplains
<1>15. CASE Mcp!EarlyExit
  BY <1>15 DEF Mcp!EarlyExit
<1>16. CASE Mcp!ReapInGrace
  BY <1>16 DEF Mcp!ReapInGrace
<1>17. CASE Mcp!ForceKill
  BY <1>17 DEF Mcp!ForceKill
<1>18. CASE Mcp!Disconnect
  BY <1>18 DEF Mcp!Disconnect, OurEnds
<1>19. ASSUME NEW u \in Mcp!Users, Mcp!CallTool(u)
      PROVE  ClosedInOrder'
  BY <1>19 DEF Mcp!CallTool
<1>20. ASSUME NEW u \in Mcp!Users, Mcp!ListResources(u)
      PROVE  ClosedInOrder'
  BY <1>20 DEF Mcp!ListResources
<1>21. ASSUME NEW u \in Mcp!Users, Mcp!ReadResource(u)
      PROVE  ClosedInOrder'
  BY <1>21 DEF Mcp!ReadResource
<1>22. ASSUME NEW u \in Mcp!Users, Mcp!NotConnected(u)
      PROVE  ClosedInOrder'
  BY <1>22 DEF Mcp!NotConnected
<1>23. ASSUME NEW u \in Mcp!Users, Mcp!Write(u)
      PROVE  ClosedInOrder'
  BY <1>23 DEF Mcp!Write
<1>24. ASSUME NEW u \in Mcp!Users, Mcp!WriteFails(u)
      PROVE  ClosedInOrder'
  BY <1>24 DEF Mcp!WriteFails
<1>25. ASSUME NEW u \in Mcp!Users, Mcp!WriteKills(u)
      PROVE  ClosedInOrder'
  BY <1>25 DEF Mcp!WriteKills
<1>26. ASSUME NEW u \in Mcp!Users, Mcp!ToolResult(u)
      PROVE  ClosedInOrder'
  BY <1>26 DEF Mcp!ToolResult
<1>27. ASSUME NEW u \in Mcp!Users, Mcp!ResourceList(u)
      PROVE  ClosedInOrder'
  BY <1>27 DEF Mcp!ResourceList
<1>28. ASSUME NEW u \in Mcp!Users, Mcp!ResourceContent(u)
      PROVE  ClosedInOrder'
  BY <1>28 DEF Mcp!ResourceContent
<1>29. ASSUME NEW u \in Mcp!Users, Mcp!DrainStderr(u)
      PROVE  ClosedInOrder'
  BY <1>29 DEF Mcp!DrainStderr
<1>30. ASSUME NEW u \in Mcp!Users, Mcp!Poll(u)
      PROVE  ClosedInOrder'
  BY <1>30 DEF Mcp!Poll
<1>31. ASSUME NEW u \in Mcp!Users, Mcp!PollNothing(u)
      PROVE  ClosedInOrder'
  BY <1>31 DEF Mcp!PollNothing
<1>32. ASSUME NEW u \in Mcp!Users, Mcp!GiveUp(u)
      PROVE  ClosedInOrder'
  BY <1>32 DEF Mcp!GiveUp
<1>33. CASE UNCHANGED mcpVars
  BY <1>33 DEF mcpVars
<1>. QED
  BY <1>1, <1>2, <1>3, <1>4, <1>5, <1>6, <1>7, <1>8, <1>9, <1>10, <1>11, <1>12, <1>13, <1>14,
     <1>15, <1>16, <1>17, <1>18, <1>19, <1>20, <1>21, <1>22, <1>23, <1>24, <1>25, <1>26, <1>27, <1>28,
     <1>29, <1>30, <1>31, <1>32, <1>33
  DEF Mcp!Next, Mcp!Start, Mcp!Server, Mcp!Exit, Mcp!Caller, Mcp!Reader, Mcp!Returns, Mcp!Users

(* What is left of an answer to request n: the pieces of one line with its id.*)
AnswerTo(n, s) ==
    \E l \in Mcp!Lines, form \in Forms : l.id = n /\ s = Mcp!Line(l, form)

LEMMA AnswerIsThere ==
    ASSUME NEW n, NEW s, AnswerTo(n, s)
    PROVE  s \in Seq(Mcp!Pieces) /\ s # <<>>
BY PiecesOfLine DEF AnswerTo

LEMMA AnswerParsed ==
    ASSUME NEW n, NEW s, AnswerTo(n, s)
    PROVE  Mcp!Parsed(s).id \in {0, n}
<1>1. PICK l \in Mcp!Lines, form \in Forms : l.id = n /\ s = Mcp!Line(l, form)
  BY DEF AnswerTo
<1>2. s \in Seq(Mcp!Pieces) /\ s # <<>> /\ 1 \in DOMAIN s
  BY AnswerIsThere, EmptySeq
<1>3. s[1].line = l
  BY <1>1, <1>2, PiecesOfLine
<1>4. Mcp!Parsed(s) = Mcp!Nothing \/ Mcp!Parsed(s) = l
  BY <1>2, <1>3, ParsedIsLine
<1>. QED  BY <1>1, <1>4 DEF Mcp!Nothing

(* The newline of a line is its last piece: nothing follows it.               *)
LEMMA NewlineEndsAnswer ==
    ASSUME NEW n, NEW a \in Seq(Mcp!Pieces), NEW b \in Seq(Mcp!Pieces),
           AnswerTo(n, a \o b), Mcp!HasNewline(a)
    PROVE  b = <<>>
<1>1. PICK l \in Mcp!Lines, form \in Forms : l.id = n /\ a \o b = Mcp!Line(l, form)
  BY DEF AnswerTo
<1>2. PICK i \in DOMAIN a : a[i].part \in {"whole", "tail"}
  BY DEF Mcp!HasNewline
<1>3. /\ Len(a) \in Nat /\ Len(b) \in Nat /\ Len(a \o b) = Len(a) + Len(b)
      /\ i \in 1 .. Len(a) /\ (a \o b)[i] = a[i] /\ i \in DOMAIN (a \o b)
  BY ConcatProperties
<1>4. i = Len(a \o b)
  BY <1>1, <1>2, <1>3, PiecesOfLine
<1>5. Len(b) = 0
  BY <1>3, <1>4
<1>. QED  BY <1>5, EmptySeq

(* What a user has read, what it can read, and what is still to be written.   *)
Stream == [u \in Mcp!Users |-> buffer[u] \o (mcpPipe \o writing)]

OneAtATime == \A u, v \in Mcp!Users : Mcp!Busy(u) /\ Mcp!Busy(v) => u = v

Awaited ==
    \A u \in Mcp!Users : mcpPc[u] = "polling" =>
        \/ inbox = {own[u]} /\ Stream[u] = <<>>
        \/ inbox = {} /\ AnswerTo(own[u], Stream[u])

Arrived == \A u \in Mcp!Users : mcpPc[u] = "read" => AnswerTo(own[u], buffer[u])

Quiet ==
    (\A u \in Mcp!Users : mcpPc[u] # "polling") => inbox = {} /\ writing = <<>> /\ mcpPipe = <<>>

OwnOutcomes == \A u \in Mcp!Users : mcpOutcome[u].id \in {0, own[u]}

Emptied == \A u \in Mcp!Users : mcpPc[u] \in {"idle", "writing"} => buffer[u] = <<>>

Calm == ~disturbed => OneAtATime /\ Awaited /\ Arrived /\ Quiet /\ OwnOutcomes /\ Emptied

LEMMA SendCalm ==
    ASSUME Mcp!TypeOK, Calm, NEW u \in Mcp!Users, NEW method \in Mcp!Methods,
           Mcp!Send(u, method)
    PROVE  Calm'
<1>. DEFINE none == [kind |-> "none", id |-> 0]
<1>0. /\ mcpPc' = [mcpPc EXCEPT ![u] = "writing"] /\ own' = [own EXCEPT ![u] = Len(asked) + 1]
      /\ mcpOutcome' = [mcpOutcome EXCEPT ![u] = none]
      /\ disturbed' = (disturbed \/ \E v \in Mcp!Users : Mcp!Busy(v))
      /\ UNCHANGED <<inbox, writing, mcpPipe, buffer>>
  BY Zenon DEF Mcp!Send, Mcp!server
<1>. SUFFICES ASSUME ~disturbed'
     PROVE  (OneAtATime /\ Awaited /\ Arrived /\ Quiet /\ OwnOutcomes /\ Emptied)'
  BY DEF Calm
<1>1. ~disturbed /\ \A v \in Mcp!Users : mcpPc[v] = "idle"
  BY <1>0 DEF Mcp!Busy
<1>2. inbox = {} /\ writing = <<>> /\ mcpPipe = <<>> /\ \A v \in Mcp!Users : buffer[v] = <<>>
  BY <1>1 DEF Calm, Quiet, Emptied
<1>3. \A v \in Mcp!Users : mcpPc'[v] = (IF v = u THEN "writing" ELSE "idle")
  BY <1>0, <1>1 DEF Mcp!TypeOK
<1>4. OneAtATime' /\ Awaited' /\ Arrived' /\ Quiet' /\ Emptied'
  BY <1>0, <1>2, <1>3 DEF OneAtATime, Mcp!Busy, Awaited, Arrived, Quiet, Emptied
<1>5. OwnOutcomes'
  <2>1. ASSUME NEW v \in Mcp!Users  PROVE mcpOutcome'[v].id \in {0, own'[v]}
    <3>1. none.id = 0
      OBVIOUS
    <3>2. v = u => mcpOutcome'[v] = none
      BY <1>0 DEF Mcp!TypeOK
    <3>3. v # u => mcpOutcome'[v] = mcpOutcome[v] /\ own'[v] = own[v]
      BY <1>0 DEF Mcp!TypeOK
    <3>. QED  BY <3>1, <3>2, <3>3, <1>1 DEF Calm, OwnOutcomes
  <2>. QED  BY <2>1 DEF OwnOutcomes
<1>. QED  BY <1>4, <1>5

LEMMA ReturnCalm ==
    ASSUME Mcp!TypeOK, Calm, NEW u \in Mcp!Users, NEW kind, NEW id, Mcp!Return(u, kind, id),
           mcpPc[u] \in {"read", "notifying"}, ~disturbed => id \in {0, own[u]}
    PROVE  Calm'
<1>. SUFFICES ASSUME ~disturbed'
     PROVE  (OneAtATime /\ Awaited /\ Arrived /\ Quiet /\ OwnOutcomes /\ Emptied)'
  BY DEF Calm
<1>0. /\ mcpPc' = [mcpPc EXCEPT ![u] = "idle"] /\ buffer' = [buffer EXCEPT ![u] = <<>>]
      /\ mcpOutcome' = [mcpOutcome EXCEPT ![u] = [kind |-> kind, id |-> id]]
      /\ UNCHANGED <<inbox, writing, mcpPipe, own, disturbed>>
  BY DEF Mcp!Return, Mcp!server
<1>1. ~disturbed /\ \A v \in Mcp!Users : v # u => mcpPc[v] = "idle"
  BY <1>0 DEF Calm, OneAtATime, Mcp!Busy
<1>2. inbox = {} /\ writing = <<>> /\ mcpPipe = <<>>
      /\ \A v \in Mcp!Users : v # u => buffer[v] = <<>>
  BY <1>0, <1>1 DEF Calm, Quiet, Emptied
<1>3. \A v \in Mcp!Users : mcpPc'[v] = "idle" /\ buffer'[v] = <<>>
  BY <1>0, <1>1, <1>2 DEF Mcp!TypeOK
<1>4. OneAtATime' /\ Awaited' /\ Arrived' /\ Quiet' /\ Emptied'
  BY <1>0, <1>2, <1>3 DEF OneAtATime, Mcp!Busy, Awaited, Arrived, Quiet, Emptied
<1>5. OwnOutcomes'
  <2>1. ASSUME NEW v \in Mcp!Users  PROVE mcpOutcome'[v].id \in {0, own'[v]}
    <3>1. v = u => mcpOutcome'[v].id = id
      BY <1>0 DEF Mcp!TypeOK
    <3>2. v # u => mcpOutcome'[v] = mcpOutcome[v]
      BY <1>0 DEF Mcp!TypeOK
    <3>. QED  BY <3>1, <3>2, <1>0, <1>1 DEF Calm, OwnOutcomes
  <2>. QED  BY <2>1 DEF OwnOutcomes
<1>. QED  BY <1>4, <1>5

LEMMA ResponseIsOwn ==
    ASSUME Mcp!TypeOK, Calm, ~disturbed, NEW u \in Mcp!Users, mcpPc[u] = "read"
    PROVE  Mcp!Response(u).id \in {0, own[u]}
<1>1. AnswerTo(own[u], buffer[u])
  BY DEF Calm, Arrived
<1>2. Mcp!Parsed(buffer[u]).id \in {0, own[u]}
  BY <1>1, AnswerParsed
<1>3. Mcp!Response(u) = Mcp!Nothing \/ Mcp!Response(u) = Mcp!Parsed(buffer[u])
  BY Zenon DEF Mcp!Response
<1>. QED  BY <1>2, <1>3 DEF Mcp!Nothing

(* The server takes the next piece from what it has to write.                 *)
LEMMA ServerFeeds ==
    ASSUME Mcp!TypeOK, NEW next \in Seq(Mcp!Pieces), Mcp!ServerStep(next), NEW u \in Mcp!Users
    PROVE  Stream'[u] = buffer[u] \o (mcpPipe \o next)
<1>1. /\ buffer' = buffer /\ next # <<>>
      /\ mcpPipe' = Append(mcpPipe, Head(next)) /\ writing' = Tail(next)
  BY DEF Mcp!ServerStep, Mcp!calls
<1>2. Append(mcpPipe, Head(next)) \o Tail(next) = mcpPipe \o next
  <2>. DEFINE a == Append(mcpPipe, Head(next))  b == Tail(next)
  <2>1. /\ next \in Seq(Mcp!Pieces) /\ Len(next) \in Nat /\ Len(next) >= 1
        /\ mcpPipe \in Seq(Mcp!Pieces) /\ Len(mcpPipe) \in Nat
    BY <1>1, EmptySeq DEF Mcp!TypeOK
  <2>2. /\ a \in Seq(Mcp!Pieces) /\ Len(a) = Len(mcpPipe) + 1
        /\ \A i \in 1 .. Len(mcpPipe) : a[i] = mcpPipe[i]
        /\ a[Len(mcpPipe) + 1] = next[1]
    BY <1>1, <2>1
  <2>3. /\ b \in Seq(Mcp!Pieces) /\ Len(b) = Len(next) - 1
        /\ \A i \in 1 .. Len(next) - 1 : b[i] = next[i + 1]
    BY <1>1, <2>1
  <2>. HIDE DEF a, b
  <2>4. /\ a \o b \in Seq(Mcp!Pieces) /\ Len(a \o b) = Len(a) + Len(b)
        /\ \A i \in 1 .. Len(a) + Len(b) :
              (a \o b)[i] = (IF i <= Len(a) THEN a[i] ELSE b[i - Len(a)])
    BY <2>2, <2>3, ConcatProperties
  <2>5. /\ mcpPipe \o next \in Seq(Mcp!Pieces) /\ Len(mcpPipe \o next) = Len(mcpPipe) + Len(next)
        /\ \A i \in 1 .. Len(mcpPipe) + Len(next) :
              (mcpPipe \o next)[i] = (IF i <= Len(mcpPipe) THEN mcpPipe[i] ELSE next[i - Len(mcpPipe)])
    BY <2>1, ConcatProperties
  <2>6. Len(a \o b) = Len(mcpPipe \o next)
    BY <2>1, <2>2, <2>3, <2>4, <2>5
  <2>7. ASSUME NEW i \in 1 .. Len(a \o b)  PROVE (a \o b)[i] = (mcpPipe \o next)[i]
    <3>0. /\ i \in Nat /\ i \in 1 .. Len(a) + Len(b) /\ i \in 1 .. Len(mcpPipe) + Len(next)
          /\ Len(a) = Len(mcpPipe) + 1
      BY <2>1, <2>2, <2>4, <2>5, <2>6
    <3>1. CASE i <= Len(mcpPipe)
      <4>1. i <= Len(a) /\ i \in 1 .. Len(mcpPipe)
        BY <2>1, <3>0, <3>1
      <4>2. (a \o b)[i] = a[i] /\ (mcpPipe \o next)[i] = mcpPipe[i]
        BY <2>4, <2>5, <3>0, <3>1, <4>1, Zenon
      <4>. QED  BY <2>2, <4>1, <4>2, Zenon
    <3>2. CASE i = Len(mcpPipe) + 1
      <4>1. i <= Len(a) /\ ~(i <= Len(mcpPipe)) /\ i - Len(mcpPipe) = 1
        BY <2>1, <3>0, <3>2
      <4>2. (a \o b)[i] = a[i] /\ (mcpPipe \o next)[i] = next[1]
        BY <2>4, <2>5, <3>0, <4>1, Zenon
      <4>. QED  BY <2>2, <3>2, <4>2, Zenon
    <3>3. CASE i > Len(mcpPipe) + 1
      <4>1. /\ ~(i <= Len(a)) /\ ~(i <= Len(mcpPipe)) /\ i - Len(a) \in 1 .. Len(next) - 1
            /\ (i - Len(a)) + 1 = i - Len(mcpPipe)
        BY <2>1, <3>0, <3>3
      <4>2. (a \o b)[i] = b[i - Len(a)] /\ (mcpPipe \o next)[i] = next[i - Len(mcpPipe)]
        BY <2>4, <2>5, <3>0, <4>1, Zenon
      <4>3. b[i - Len(a)] = next[(i - Len(a)) + 1]
        BY <2>3, <4>1, Zenon
      <4>. QED  BY <4>1, <4>2, <4>3, Zenon
    <3>4. i <= Len(mcpPipe) \/ i = Len(mcpPipe) + 1 \/ i > Len(mcpPipe) + 1
      BY <2>1, <3>0
    <3>. QED  BY <3>1, <3>2, <3>3, <3>4
  <2>. QED  BY <2>4, <2>5, <2>6, <2>7, SeqEqual DEF a, b
<1>. QED  BY <1>1, <1>2 DEF Stream

(* What is cut in two is put together again.                                  *)
LEMMA CutConcat ==
    ASSUME NEW S, NEW s \in Seq(S), NEW n \in 1 .. Len(s)
    PROVE  /\ SubSeq(s, 1, n) \in Seq(S) /\ SubSeq(s, n + 1, Len(s)) \in Seq(S)
           /\ s = SubSeq(s, 1, n) \o SubSeq(s, n + 1, Len(s))
<1>. DEFINE a == SubSeq(s, 1, n)  b == SubSeq(s, n + 1, Len(s))
<1>1. Len(s) \in Nat /\ n \in Nat /\ n <= Len(s)
  OBVIOUS
<1>2. a \in Seq(S) /\ Len(a) = n /\ \A i \in 1 .. n : a[i] = s[i]
  BY <1>1, SubSeqProperties
<1>3. b \in Seq(S) /\ Len(b) = Len(s) - n /\ \A i \in 1 .. Len(s) - n : b[i] = s[n + i]
  <2>1. CASE n < Len(s)
    BY <1>1, <2>1, SubSeqProperties
  <2>2. CASE n = Len(s)
    BY <1>1, <2>2, SubSeqProperties
  <2>. QED  BY <1>1, <2>1, <2>2
<1>. HIDE DEF a, b
<1>4. /\ a \o b \in Seq(S) /\ Len(a \o b) = Len(s)
      /\ \A i \in 1 .. Len(s) : (a \o b)[i] = (IF i <= n THEN a[i] ELSE b[i - n])
  <2>1. Len(a) + Len(b) = Len(s)
    BY <1>1, <1>2, <1>3
  <2>2. /\ a \o b \in Seq(S) /\ Len(a \o b) = Len(a) + Len(b)
        /\ \A i \in 1 .. Len(a) + Len(b) : (a \o b)[i] = (IF i <= Len(a) THEN a[i] ELSE b[i - Len(a)])
    BY <1>2, <1>3, ConcatProperties, Zenon
  <2>. QED  BY <1>2, <2>1, <2>2
<1>5. ASSUME NEW i \in 1 .. Len(s)  PROVE (a \o b)[i] = s[i]
  <2>1. i <= n => a[i] = s[i]
    BY <1>2
  <2>2. i > n => b[i - n] = s[n + (i - n)] /\ n + (i - n) = i
    BY <1>1, <1>3
  <2>. QED  BY <1>1, <1>4, <2>1, <2>2
<1>6. a \o b = s
  BY <1>4, <1>5, SeqEqual
<1>. QED  BY <1>2, <1>3, <1>6 DEF a, b

LEMMA CalmStep ==
    ASSUME McpBounds, Mcp!TypeOK, Calm, [Mcp!Next]_mcpVars
    PROVE  Calm'
<1>1. CASE Mcp!OpenPipe
  BY <1>1 DEF Mcp!OpenPipe, Mcp!server, Mcp!calls, Calm, OneAtATime, Mcp!Busy, Awaited, Stream,
       Arrived, Quiet, OwnOutcomes, Emptied
<1>2. CASE Mcp!Connect
  BY <1>2 DEF Mcp!Connect, Mcp!server, Mcp!calls, Calm, OneAtATime, Mcp!Busy, Awaited, Stream,
       Arrived, Quiet, OwnOutcomes, Emptied
<1>3. CASE Mcp!ConnectFails
  BY <1>3 DEF Mcp!ConnectFails, Mcp!server, Mcp!calls, Calm, OneAtATime, Mcp!Busy, Awaited,
       Stream, Arrived, Quiet, OwnOutcomes, Emptied
<1>4. CASE Mcp!StartHandshake
  BY <1>4, SendCalm DEF Mcp!StartHandshake, Mcp!Methods, Mcp!Users
<1>5. CASE Mcp!EndHandshake
  BY <1>5, ReturnCalm DEF Mcp!EndHandshake, Mcp!Users
<1>6. CASE Mcp!StartDiscovery
  BY <1>6, SendCalm DEF Mcp!StartDiscovery, Mcp!Methods, Mcp!Users
<1>7. CASE Mcp!SkipNotification
  BY <1>7, ReturnCalm DEF Mcp!SkipNotification, Mcp!Users
<1>8. CASE Mcp!StartNotification
  <2>1. /\ "main" \in Mcp!Users /\ mcpPc["main"] = "read"
        /\ mcpPc' = [mcpPc EXCEPT !["main"] = "notifying"]
        /\ UNCHANGED <<own, buffer, mcpOutcome, inbox, writing, mcpPipe, disturbed>>
    BY <1>8 DEF Mcp!StartNotification, Mcp!server, Mcp!Users
  <2>2. \A v \in Mcp!Users : mcpPc'[v] = (IF v = "main" THEN "notifying" ELSE mcpPc[v])
    BY <2>1 DEF Mcp!TypeOK
  <2>3. ~disturbed => \A v \in Mcp!Users : v # "main" => mcpPc[v] = "idle"
    BY <2>1 DEF Calm, OneAtATime, Mcp!Busy
  <2>. QED
    BY <2>1, <2>2, <2>3
    DEF Calm, OneAtATime, Mcp!Busy, Awaited, Arrived, Quiet, OwnOutcomes, Emptied
<1>9. CASE Mcp!DiscoverTools
  <2>1. mcpPc["main"] = "read"
    BY <1>9 DEF Mcp!DiscoverTools
  <2>. QED  BY <1>9, <2>1, ReturnCalm, ResponseIsOwn DEF Mcp!DiscoverTools, Mcp!Users
<1>10. CASE Mcp!ServerAnswers
  <2>1. PICK r \in inbox, error \in BOOLEAN, form \in Forms :
            /\ writing = <<>> /\ inbox' = inbox \ {r}
            /\ Mcp!ServerStep(Mcp!Line([id |-> r, method |-> asked[r], error |-> error], form))
            /\ UNCHANGED disturbed
    BY <1>10 DEF Mcp!ServerAnswers, Forms, McpBounds
  <2>. DEFINE l == [id |-> r, method |-> asked[r], error |-> error]
  <2>2. l \in Mcp!Lines /\ l.id = r
    BY DEF Mcp!TypeOK, Mcp!Lines
  <2>. HIDE DEF l
  <2>. DEFINE line == Mcp!Line(l, form)
  <2>3. line \in Seq(Mcp!Pieces) /\ AnswerTo(r, line)
    BY <2>2, PiecesOfLine DEF AnswerTo
  <2>4. Mcp!ServerStep(line)
    BY <2>1 DEF l
  <2>. HIDE DEF line
  <2>5. \A u \in Mcp!Users : Stream'[u] = buffer[u] \o (mcpPipe \o line)
    BY <2>3, <2>4, ServerFeeds
  <2>6. UNCHANGED <<mcpPc, own, buffer, mcpOutcome>>
    BY <2>4 DEF Mcp!ServerStep, Mcp!calls
  <2>. SUFFICES ASSUME ~disturbed  PROVE (OneAtATime /\ Awaited /\ Arrived /\ Quiet /\ OwnOutcomes /\ Emptied)'
    BY <2>1 DEF Calm
  <2>7. PICK u \in Mcp!Users : mcpPc[u] = "polling"
    BY <2>1 DEF Calm, Quiet
  <2>8. \A v \in Mcp!Users : v # u => mcpPc[v] = "idle"
    BY <2>7 DEF Calm, OneAtATime, Mcp!Busy
  <2>9. inbox = {own[u]} /\ Stream[u] = <<>>
    BY <2>1, <2>7 DEF Calm, Awaited
  <2>10. buffer[u] = <<>> /\ mcpPipe = <<>>
    BY <2>1, <2>9, ConcatProperties, EmptySeq DEF Stream, Mcp!TypeOK
  <2>11. Stream'[u] = line
    BY <2>3, <2>5, <2>10, ConcatEmptySeq
  <2>12. inbox' = {} /\ r = own[u]
    BY <2>1, <2>9
  <2>13. Awaited'
    BY <2>3, <2>6, <2>8, <2>11, <2>12 DEF Awaited
  <2>14. Quiet'
    BY <2>6, <2>7 DEF Quiet
  <2>. QED  BY <2>6, <2>13, <2>14 DEF Calm, OneAtATime, Mcp!Busy, Arrived, OwnOutcomes, Emptied
<1>11. CASE Mcp!ServerNotifies
  BY <1>11 DEF Mcp!ServerNotifies, Calm
<1>12. CASE Mcp!ServerGoesOn
  <2>1. Mcp!ServerStep(writing) /\ UNCHANGED <<inbox, disturbed>> /\ writing # <<>>
        /\ UNCHANGED <<mcpPc, own, buffer, mcpOutcome>>
    BY <1>12 DEF Mcp!ServerGoesOn, Mcp!ServerStep, Mcp!calls
  <2>2. \A u \in Mcp!Users : Stream'[u] = Stream[u]
    BY <2>1, ServerFeeds DEF Stream, Mcp!TypeOK
  <2>3. Calm => (~disturbed => Quiet')
    BY <2>1 DEF Calm, Quiet
  <2>. QED  BY <2>1, <2>2, <2>3 DEF Calm, OneAtATime, Mcp!Busy, Awaited, Arrived, OwnOutcomes, Emptied
<1>13. CASE Mcp!ServerExits
  BY <1>13 DEF Mcp!ServerExits, Mcp!server, Mcp!calls, Calm, OneAtATime, Mcp!Busy, Awaited,
       Stream, Arrived, Quiet, OwnOutcomes, Emptied
<1>14. CASE Mcp!ServerComplains
  BY <1>14 DEF Mcp!ServerComplains, Mcp!server, Mcp!calls, Calm, OneAtATime, Mcp!Busy, Awaited,
       Stream, Arrived, Quiet, OwnOutcomes, Emptied
<1>15. CASE Mcp!EarlyExit
  BY <1>15 DEF Mcp!EarlyExit, Mcp!server, Mcp!calls, Calm, OneAtATime, Mcp!Busy, Awaited,
       Stream, Arrived, Quiet, OwnOutcomes, Emptied
<1>16. CASE Mcp!ReapInGrace
  BY <1>16 DEF Mcp!ReapInGrace, Mcp!server, Mcp!calls, Calm, OneAtATime, Mcp!Busy, Awaited,
       Stream, Arrived, Quiet, OwnOutcomes, Emptied
<1>17. CASE Mcp!ForceKill
  BY <1>17 DEF Mcp!ForceKill, Mcp!server, Mcp!calls, Calm, OneAtATime, Mcp!Busy, Awaited,
       Stream, Arrived, Quiet, OwnOutcomes, Emptied
<1>18. CASE Mcp!Disconnect
  <2>1. /\ inbox' = {} /\ writing' = <<>> /\ mcpPipe' = <<>>
        /\ disturbed' = (disturbed \/ \E u \in Mcp!Users : mcpPc[u] # "idle")
        /\ UNCHANGED <<mcpPc, own, buffer, mcpOutcome>>
    BY <1>18 DEF Mcp!Disconnect, Mcp!calls, Mcp!Busy
  <2>. QED
    BY <2>1 DEF Calm, OneAtATime, Mcp!Busy, Awaited, Arrived, Quiet, OwnOutcomes, Emptied
<1>19. ASSUME NEW u \in Mcp!Users, Mcp!CallTool(u)
      PROVE  Calm'
  BY <1>19, SendCalm DEF Mcp!CallTool, Mcp!Methods, Mcp!Users
<1>20. ASSUME NEW u \in Mcp!Users, Mcp!ListResources(u)
      PROVE  Calm'
  BY <1>20, SendCalm DEF Mcp!ListResources, Mcp!Methods, Mcp!Users
<1>21. ASSUME NEW u \in Mcp!Users, Mcp!ReadResource(u)
      PROVE  Calm'
  BY <1>21, SendCalm DEF Mcp!ReadResource, Mcp!Methods, Mcp!Users
<1>22. ASSUME NEW u \in Mcp!Users, Mcp!NotConnected(u)
      PROVE  Calm'
  <2>1. /\ u \in Mcp!Users
        /\ mcpOutcome' = [mcpOutcome EXCEPT ![u] = [kind |-> "error", id |-> 0]]
        /\ UNCHANGED <<mcpPc, own, buffer, inbox, writing, mcpPipe, disturbed>>
    BY <1>22, Zenon DEF Mcp!NotConnected, Mcp!server
  <2>2. ~disturbed => OwnOutcomes'
    <3>1. ASSUME ~disturbed, NEW v \in Mcp!Users  PROVE mcpOutcome'[v].id \in {0, own[v]}
      <4>1. v = u => mcpOutcome'[v].id = 0
        BY <2>1 DEF Mcp!TypeOK
      <4>2. v # u => mcpOutcome'[v] = mcpOutcome[v]
        BY <2>1 DEF Mcp!TypeOK
      <4>. QED  BY <3>1, <4>1, <4>2 DEF Calm, OwnOutcomes
    <3>. QED  BY <2>1, <3>1 DEF OwnOutcomes
  <2>. QED
    BY <2>1, <2>2 DEF Calm, OneAtATime, Mcp!Busy, Awaited, Stream, Arrived, Quiet, Emptied
<1>23. ASSUME NEW u \in Mcp!Users, Mcp!Write(u)
      PROVE  Calm'
  <2>1. /\ mcpPc[u] = "writing" /\ mcpPc' = [mcpPc EXCEPT ![u] = "polling"]
        /\ inbox' = inbox \cup {own[u]}
        /\ UNCHANGED <<own, buffer, mcpOutcome, writing, mcpPipe, disturbed>>
    BY <1>23 DEF Mcp!Write, Mcp!Begin
  <2>. SUFFICES ASSUME ~disturbed
       PROVE  (OneAtATime /\ Awaited /\ Arrived /\ Quiet /\ OwnOutcomes /\ Emptied)'
    BY <2>1 DEF Calm
  <2>2. \A v \in Mcp!Users : v # u => mcpPc[v] = "idle"
    BY <2>1 DEF Calm, OneAtATime, Mcp!Busy
  <2>3. \A v \in Mcp!Users : mcpPc'[v] = (IF v = u THEN "polling" ELSE "idle")
    BY <2>1, <2>2 DEF Mcp!TypeOK
  <2>4. inbox = {} /\ writing = <<>> /\ mcpPipe = <<>> /\ buffer[u] = <<>>
    BY <2>1, <2>2 DEF Calm, Quiet, Emptied
  <2>5. inbox' = {own'[u]} /\ Stream'[u] = <<>>
    BY <2>1, <2>4 DEF Stream
  <2>6. OwnOutcomes' /\ Emptied'
    BY <2>1, <2>3 DEF Calm, OwnOutcomes, Emptied
  <2>. QED
    BY <2>3, <2>5, <2>6 DEF OneAtATime, Mcp!Busy, Awaited, Arrived, Quiet
<1>24. ASSUME NEW u \in Mcp!Users, Mcp!WriteFails(u)
      PROVE  Calm'
  BY <1>24 DEF Mcp!WriteFails, Calm
<1>25. ASSUME NEW u \in Mcp!Users, Mcp!WriteKills(u)
      PROVE  Calm'
  BY <1>25 DEF Mcp!WriteKills, Mcp!server, Mcp!calls, Calm, OneAtATime, Mcp!Busy, Awaited,
       Stream, Arrived, Quiet, OwnOutcomes, Emptied
<1>26. ASSUME NEW u \in Mcp!Users, Mcp!ToolResult(u)
      PROVE  Calm'
  BY <1>26, ReturnCalm, ResponseIsOwn DEF Mcp!ToolResult
<1>27. ASSUME NEW u \in Mcp!Users, Mcp!ResourceList(u)
      PROVE  Calm'
  BY <1>27, ReturnCalm, ResponseIsOwn DEF Mcp!ResourceList
<1>28. ASSUME NEW u \in Mcp!Users, Mcp!ResourceContent(u)
      PROVE  Calm'
  BY <1>28, ReturnCalm, ResponseIsOwn DEF Mcp!ResourceContent
<1>29. ASSUME NEW u \in Mcp!Users, Mcp!DrainStderr(u)
      PROVE  Calm'
  BY <1>29 DEF Mcp!DrainStderr, Mcp!server, Mcp!calls, Calm, OneAtATime, Mcp!Busy, Awaited,
       Stream, Arrived, Quiet, OwnOutcomes, Emptied
<1>30. ASSUME NEW u \in Mcp!Users, Mcp!Poll(u)
      PROVE  Calm'
  <2>. DEFINE room == McpRoom - Len(buffer[u])
              n == IF Len(mcpPipe) < room THEN Len(mcpPipe) ELSE room
              got == SubSeq(mcpPipe, 1, n)  left == SubSeq(mcpPipe, n + 1, Len(mcpPipe))
  <2>1. /\ mcpPc[u] = "polling" /\ n > 0
        /\ buffer' = [buffer EXCEPT ![u] = @ \o got] /\ mcpPipe' = left
        /\ UNCHANGED <<inbox, writing, own, mcpOutcome, disturbed>>
    BY <1>30 DEF Mcp!Poll
  <2>2. /\ Len(mcpPipe) \in Nat /\ n \in 1 .. Len(mcpPipe)
    BY <1>30 DEF Mcp!Poll, Mcp!TypeOK, McpBounds
  <2>3. /\ got \in Seq(Mcp!Pieces) /\ left \in Seq(Mcp!Pieces) /\ mcpPipe = got \o left
    <3>. HIDE DEF n
    <3>. QED  BY <2>2, CutConcat DEF Mcp!TypeOK
  <2>4. buffer'[u] = buffer[u] \o got /\ buffer'[u] \in Seq(Mcp!Pieces)
    <3>1. buffer'[u] = buffer[u] \o got /\ buffer[u] \in Seq(Mcp!Pieces)
      BY <2>1 DEF Mcp!TypeOK
    <3>. HIDE DEF got
    <3>. QED  BY <2>3, <3>1, ConcatProperties
  <2>5. \/ mcpPc' = [mcpPc EXCEPT ![u] = "read"] /\ Mcp!HasNewline(buffer'[u])
        \/ mcpPc' = mcpPc
    BY <1>30, Zenon DEF Mcp!Poll
  <2>. HIDE DEF got, left, n
  <2>. SUFFICES ASSUME ~disturbed  PROVE (OneAtATime /\ Awaited /\ Arrived /\ Quiet /\ OwnOutcomes /\ Emptied)'
    BY <2>1 DEF Calm
  <2>6. Stream[u] = buffer'[u] \o (left \o writing)
    <3>1. writing \in Seq(Mcp!Pieces) /\ buffer[u] \in Seq(Mcp!Pieces)
      BY DEF Mcp!TypeOK
    <3>2. left \o writing \in Seq(Mcp!Pieces)
      BY <2>3, <3>1, ConcatProperties
    <3>3. (got \o left) \o writing = got \o (left \o writing)
      BY <2>3, <3>1, ConcatAssociative
    <3>4. (buffer[u] \o got) \o (left \o writing) = buffer[u] \o (got \o (left \o writing))
      <4>. DEFINE rest == left \o writing  mine == buffer[u]
      <4>1. rest \in Seq(Mcp!Pieces) /\ mine \in Seq(Mcp!Pieces) /\ got \in Seq(Mcp!Pieces)
        BY <2>3, <3>1, <3>2
      <4>. HIDE DEF rest, mine
      <4>2. (mine \o got) \o rest = mine \o (got \o rest)
        BY <4>1, ConcatAssociative
      <4>. QED  BY <4>2 DEF rest, mine
    <3>5. Stream[u] = buffer[u] \o (mcpPipe \o writing)
      BY DEF Stream
    <3>. QED  BY <2>3, <2>4, <3>3, <3>4, <3>5, Zenon
  <2>7. Stream'[u] = Stream[u]
    BY <2>1, <2>6 DEF Stream
  <2>8. \A v \in Mcp!Users : v # u => mcpPc[v] = "idle"
    BY <2>1 DEF Calm, OneAtATime, Mcp!Busy
  <2>9. inbox = {} /\ AnswerTo(own[u], Stream[u])
    <3>1. Stream[u] # <<>>
      <4>1. Len(mcpPipe) > 0 /\ mcpPipe # <<>>
        BY <2>2
      <4>. QED  BY <4>1, ConcatProperties, EmptySeq DEF Stream, Mcp!TypeOK
    <3>. QED  BY <2>1, <3>1 DEF Calm, Awaited
  <2>10. OwnOutcomes' /\ Emptied'
    <3>1. \A v \in Mcp!Users : v # u => buffer'[v] = buffer[v]
      BY <2>1 DEF Mcp!TypeOK
    <3>2. mcpPc'[u] \notin {"idle", "writing"}
      BY <2>1, <2>5 DEF Mcp!TypeOK
    <3>3. \A v \in Mcp!Users : v # u => mcpPc'[v] = mcpPc[v]
      BY <2>5 DEF Mcp!TypeOK
    <3>. QED  BY <2>1, <3>1, <3>2, <3>3 DEF Calm, OwnOutcomes, Emptied
  <2>11. CASE mcpPc' = mcpPc
    <3>1. Awaited'
      BY <2>1, <2>7, <2>8, <2>9, <2>11 DEF Awaited
    <3>2. OneAtATime' /\ Arrived' /\ Quiet'
      BY <2>1, <2>8, <2>11 DEF OneAtATime, Mcp!Busy, Arrived, Quiet
    <3>. QED  BY <2>10, <3>1, <3>2
  <2>12. CASE mcpPc' = [mcpPc EXCEPT ![u] = "read"] /\ Mcp!HasNewline(buffer'[u])
    <3>1. left \o writing \in Seq(Mcp!Pieces)
      BY <2>3, ConcatProperties DEF Mcp!TypeOK
    <3>2. left \o writing = <<>>
      BY <2>4, <2>6, <2>9, <2>12, <3>1, NewlineEndsAnswer
    <3>3. left = <<>> /\ writing = <<>>
      BY <2>3, <3>2, ConcatProperties, EmptySeq DEF Mcp!TypeOK
    <3>4. buffer'[u] = Stream[u]
      BY <2>4, <2>6, <3>2, ConcatEmptySeq
    <3>5. mcpPc'[u] = "read" /\ \A v \in Mcp!Users : v # u => mcpPc'[v] = "idle"
      BY <2>8, <2>12 DEF Mcp!TypeOK
    <3>6. OneAtATime' /\ Awaited' /\ Arrived' /\ Quiet'
      BY <2>1, <2>9, <3>3, <3>4, <3>5 DEF OneAtATime, Mcp!Busy, Awaited, Arrived, Quiet
    <3>. QED  BY <2>10, <3>6
  <2>. QED  BY <2>5, <2>11, <2>12
<1>31. ASSUME NEW u \in Mcp!Users, Mcp!PollNothing(u)
      PROVE  Calm'
  BY <1>31 DEF Mcp!PollNothing, Mcp!server, Mcp!calls, Calm, OneAtATime, Mcp!Busy, Awaited,
       Stream, Arrived, Quiet, OwnOutcomes, Emptied
<1>32. ASSUME NEW u \in Mcp!Users, Mcp!GiveUp(u)
      PROVE  Calm'
  BY <1>32 DEF Mcp!GiveUp, Calm
<1>33. CASE UNCHANGED mcpVars
  BY <1>33 DEF mcpVars, Mcp!server, Mcp!calls, Calm, OneAtATime, Mcp!Busy, Awaited, Stream,
       Arrived, Quiet, OwnOutcomes, Emptied
<1>. QED
  BY <1>1, <1>2, <1>3, <1>4, <1>5, <1>6, <1>7, <1>8, <1>9, <1>10, <1>11, <1>12, <1>13,
     <1>14, <1>15, <1>16, <1>17, <1>18, <1>19, <1>20, <1>21, <1>22, <1>23, <1>24, <1>25,
     <1>26, <1>27, <1>28, <1>29, <1>30, <1>31, <1>32, <1>33
  DEF Mcp!Next, Mcp!Start, Mcp!Server, Mcp!Exit, Mcp!Caller, Mcp!Reader, Mcp!Returns, Mcp!Users

(* What a call to an MCP server returns is made of the answer to its own      *)
(* request, and nothing of it is left for the next call, as long as no        *)
(* timeout, notification, second reader or disconnection came between; for    *)
(* any number of callers, polls and room in the buffer (mcp_send_request).    *)
THEOREM OwnAnswers ==
    ASSUME McpBounds
    PROVE  ServicesSpec => [](Mcp!TypeOK /\ OwnAnswerWhenCalm)
<1>1. ServicesInit => Mcp!TypeOK /\ Calm
  <2>. SUFFICES ASSUME Mcp!Init  PROVE Mcp!TypeOK /\ Calm
    BY DEF ServicesInit
  <2>1. /\ <<>> \in Seq(Mcp!Pieces) /\ <<>> \in Seq(Mcp!Methods) /\ Len(<<>>) = 0
        /\ 0 \in 0 .. McpTurns /\ 0 \in 0 .. MaxNotices /\ 0 <= McpRoom
    BY DEF McpBounds
  <2>2. mcpOutcome \in [Mcp!Users -> [kind : {"none", "error", "empty", "answer"}, id : Nat]]
        /\ \A u \in Mcp!Users : mcpOutcome[u].id = 0
    BY DEF Mcp!Init
  <2>3. buffer \in [Mcp!Users -> Seq(Mcp!Pieces)] /\ \A u \in Mcp!Users : Len(buffer[u]) <= McpRoom
    BY <2>1 DEF Mcp!Init
  <2>4. Mcp!TypeOK
    BY <2>1, <2>2, <2>3 DEF Mcp!Init, Mcp!TypeOK, Mcp!Phases
  <2>5. Calm
    BY <2>2 DEF Mcp!Init, Calm, OneAtATime, Mcp!Busy, Awaited, Arrived, Quiet, OwnOutcomes, Emptied
  <2>. QED  BY <2>4, <2>5
<1>2. Mcp!TypeOK /\ Calm /\ [ServicesNext]_serviceVars => (Mcp!TypeOK /\ Calm)'
  <2>1. [ServicesNext]_serviceVars => [Mcp!Next]_mcpVars
    BY DEF ServicesNext, serviceVars, mcpVars
  <2>. QED  BY <2>1, McpTypesStep, CalmStep
<1>3. Calm => OwnAnswerWhenCalm
  BY DEF Calm, Quiet, OwnOutcomes, OwnAnswerWhenCalm, Mcp!OwnAnswerWhenCalm
<1>. QED  BY <1>1, <1>2, <1>3, PTL DEF ServicesSpec

(* A server that is down, because a step of the connection failed or because  *)
(* it was disconnected at the exit, whoever was still calling, has no end of  *)
(* a pipe open, no child running and no zombie; stderr is the terminal's      *)
(* again whenever no Bash tool runs, unless redirections overlapped or were   *)
(* cut short, or a dup or freopen failed (mcp_connect_server,                 *)
(* mcp_disconnect_server, tool_bash).                                         *)
THEOREM AllReturned == ServicesSpec => []ResourcesReturned
<1>. DEFINE IInv == Descriptors /\ OneRedirection /\ ClosedInOrder
<1>1. ServicesInit => IInv
  <2>1. Bash!Init => Descriptors /\ OneRedirection
    BY DEF Bash!Init, Descriptors, OneRedirection
  <2>2. Mcp!Init => ClosedInOrder
    BY DEF Mcp!Init, ClosedInOrder
  <2>. QED  BY <2>1, <2>2 DEF ServicesInit
<1>2. IInv /\ [ServicesNext]_serviceVars => IInv'
  <2>1. [ServicesNext]_serviceVars => [Bash!Next]_bashVars
    BY DEF ServicesNext, serviceVars, bashVars
  <2>2. [ServicesNext]_serviceVars => [Mcp!Next]_mcpVars
    BY DEF ServicesNext, serviceVars, mcpVars
  <2>. QED  BY <2>1, <2>2, OneRedirectionStep, ClosedInOrderStep
<1>3. IInv => ResourcesReturned
  <2>1. OneRedirection => Bash!StderrRestored
    BY DEF OneRedirection, Redirecting, Bash!StderrRestored
  <2>2. ClosedInOrder => Mcp!NothingLeftBehind
    BY DEF ClosedInOrder, Mcp!NothingLeftBehind
  <2>. QED  BY <2>1, <2>2 DEF ResourcesReturned
<1>. QED  BY <1>1, <1>2, <1>3, PTL DEF ServicesSpec

-----------------------------------------------------------------------------
(* The names of the tools.                                                    *)
(* The names of servers and tools are sequences of words, none of them empty. *)
WordNames ==
    /\ ServerNames \subseteq Seq(STRING) \ {<<>>} /\ ToolNames \subseteq Seq(STRING) \ {<<>>}
    /\ MaxServers \in Nat

Configured ==
    /\ stage \in {"unread", "connecting", "ready"} /\ enabled \in BOOLEAN
    /\ \E n \in Nat :
          servers \in [1 .. n -> [name : ServerNames, connected : BOOLEAN, tools : SUBSET ToolNames]]
    /\ stage # "ready" => called = Routing!Nowhere /\ reached = Routing!Nowhere

LEMMA ConfiguredStep ==
    ASSUME WordNames, Configured, [Routing!Next]_routingVars
    PROVE  Configured'
<1>1. CASE Routing!LoadConfig
  <2>1. PICK names \in UNION {[1 .. n -> ServerNames] : n \in 0 .. MaxServers}, on \in BOOLEAN :
            /\ stage = "unread" /\ stage' = "connecting" /\ enabled' = on
            /\ servers' = IF ~on THEN <<>>
                          ELSE [i \in DOMAIN names |->
                                   [name |-> names[i], connected |-> FALSE, tools |-> {}]]
            /\ UNCHANGED <<called, reached>>
    BY <1>1 DEF Routing!LoadConfig
  <2>2. PICK n \in Nat : names \in [1 .. n -> ServerNames]
    BY WordNames DEF WordNames
  <2>3. CASE ~on
    <3>1. servers' \in [1 .. 0 -> [name : ServerNames, connected : BOOLEAN, tools : SUBSET ToolNames]]
      BY <2>1, <2>3
    <3>. QED  BY <2>1, <3>1 DEF Configured
  <2>4. CASE on
    <3>1. servers' \in [1 .. n -> [name : ServerNames, connected : BOOLEAN, tools : SUBSET ToolNames]]
      BY <2>1, <2>2, <2>4
    <3>. QED  BY <2>1, <2>2, <3>1 DEF Configured
  <2>. QED  BY <2>3, <2>4
<1>2. CASE Routing!ConnectServers
  <2>1. PICK n \in Nat :
            servers \in [1 .. n -> [name : ServerNames, connected : BOOLEAN, tools : SUBSET ToolNames]]
    BY DEF Configured
  <2>2. PICK up \in SUBSET (DOMAIN servers), listed \in [DOMAIN servers -> SUBSET ToolNames] :
            servers' = [i \in DOMAIN servers |->
                           [servers[i] EXCEPT !.connected = i \in up, !.tools = listed[i]]]
    BY <1>2 DEF Routing!ConnectServers
  <2>3. servers' \in [1 .. n -> [name : ServerNames, connected : BOOLEAN, tools : SUBSET ToolNames]]
    <3>1. \A i \in 1 .. n :
             [servers[i] EXCEPT !.connected = i \in up, !.tools = listed[i]]
             \in [name : ServerNames, connected : BOOLEAN, tools : SUBSET ToolNames]
      <4>. SUFFICES ASSUME NEW i \in 1 .. n
                    PROVE  [servers[i] EXCEPT !.connected = i \in up, !.tools = listed[i]]
                           \in [name : ServerNames, connected : BOOLEAN, tools : SUBSET ToolNames]
        OBVIOUS
      <4>1. servers[i] \in [name : ServerNames, connected : BOOLEAN, tools : SUBSET ToolNames]
        BY <2>1
      <4>2. listed[i] \in SUBSET ToolNames /\ (i \in up) \in BOOLEAN
        BY <2>1
      <4>. QED  BY <4>1, <4>2
    <3>. QED  BY <2>1, <2>2, <3>1
  <2>4. called = Routing!Nowhere /\ reached = Routing!Nowhere /\ stage' = "ready"
    BY <1>2 DEF Configured, Routing!ConnectServers
  <2>. QED  BY <1>2, <2>1, <2>3, <2>4 DEF Configured, Routing!ConnectServers
<1>3. CASE Routing!Execute
  BY <1>3 DEF Configured, Routing!Execute
<1>4. CASE Routing!CallMcpTool
  BY <1>4 DEF Configured, Routing!CallMcpTool
<1>5. CASE UNCHANGED routingVars
  BY <1>5 DEF Configured, routingVars
<1>. QED  BY <1>1, <1>2, <1>3, <1>4, <1>5 DEF Routing!Next

LEMMA FirstIsTheOnly ==
    ASSUME Configured, Routing!DistinctNames, NEW i \in DOMAIN servers
    PROVE  Routing!FirstNamed(servers[i].name) = i
<1>. DEFINE named == {j \in DOMAIN servers : servers[j].name = servers[i].name}
<1>1. named = {i}
  BY DEF Routing!DistinctNames
<1>2. i \in Nat /\ i <= i
  BY DEF Configured
<1>3. (CHOOSE j \in named : \A k \in named : j <= k) = i
  BY <1>1, <1>2
<1>. QED  BY <1>1, <1>3 DEF Routing!FirstNamed

(* The words of a prefixed name: "mcp", the server's word, those of the tool. *)
LEMMA Pair == \A a, b : <<a>> \o <<b>> = <<a, b>>
<1>. SUFFICES ASSUME NEW a, NEW b  PROVE <<a>> \o <<b>> = <<a, b>>
  OBVIOUS
<1>1. <<a>> \in Seq({a, b}) /\ <<b>> \in Seq({a, b}) /\ <<a, b>> \in Seq({a, b})
  OBVIOUS
<1>2. Len(<<a>>) = 1 /\ Len(<<b>>) = 1 /\ Len(<<a, b>>) = 2 /\ <<a, b>>[1] = a /\ <<a, b>>[2] = b
  OBVIOUS
<1>3. <<a>>[1] = a /\ <<b>>[1] = b
  OBVIOUS
<1>. DEFINE S == {a, b}
<1>. HIDE DEF S
<1>4. /\ <<a>> \o <<b>> \in Seq(S) /\ Len(<<a>> \o <<b>>) = 2
      /\ (<<a>> \o <<b>>)[1] = a /\ (<<a>> \o <<b>>)[2] = b
  BY <1>1, <1>2, <1>3, ConcatProperties DEF S
<1>5. \A i \in 1 .. 2 : i = 1 \/ i = 2
  OBVIOUS
<1>6. \A i \in 1 .. 2 : (<<a>> \o <<b>>)[i] = <<a, b>>[i]
  BY <1>2, <1>4, <1>5, Zenon
<1>7. <<a, b>> \in Seq(S)
  BY <1>1 DEF S
<1>. HIDE DEF S
<1>. DEFINE ab == <<a, b>>  c == <<a>> \o <<b>>
<1>8. c \in Seq(S) /\ ab \in Seq(S) /\ Len(c) = 2 /\ Len(ab) = 2 /\ \A i \in 1 .. 2 : c[i] = ab[i]
  BY <1>2, <1>4, <1>6, <1>7, Zenon
<1>. HIDE DEF ab, c
<1>9. c = ab
  BY <1>8, SeqEqual
<1>. QED  BY <1>9 DEF ab, c

LEMMA WordsOfName ==
    ASSUME WordNames, Configured, Routing!OneWordNames,
           NEW i \in DOMAIN servers, NEW tool \in ToolNames
    PROVE  LET name == Routing!WholeName(i, tool)
           IN  /\ Len(name) >= 3 /\ name[1] = "mcp" /\ <<name[2]>> = servers[i].name
               /\ name[2] = servers[i].name[1]
               /\ SubSeq(name, 3, Len(name)) = tool
<1>. DEFINE w == servers[i].name[1]
            name == Routing!WholeName(i, tool)
<1>1. servers[i].name \in Seq(STRING) /\ Len(servers[i].name) = 1
  BY DEF WordNames, Configured, Routing!OneWordNames
<1>2. servers[i].name = <<w>> /\ w \in STRING
  BY <1>1
<1>3. tool \in Seq(STRING) /\ Len(tool) \in Nat \ {0}
  BY EmptySeq, LenProperties DEF WordNames
<1>. HIDE DEF w
<1>4. name = <<"mcp", w>> \o tool
  <2>1. <<"mcp">> \o <<w>> = <<"mcp", w>>
    BY Pair, Zenon
  <2>. QED  BY <1>2, <2>1 DEF Routing!WholeName
<1>. DEFINE Words == STRING \cup {"mcp"}
<1>5. <<"mcp", w>> \in Seq(Words) /\ Len(<<"mcp", w>>) = 2 /\ tool \in Seq(Words)
  <2>1. "mcp" \in Words /\ w \in Words /\ STRING \subseteq Words
    BY <1>2
  <2>. HIDE DEF Words
  <2>2. <<"mcp", w>> \in Seq(Words) /\ Len(<<"mcp", w>>) = 2
    BY <2>1
  <2>. QED  BY <1>3, <2>1, <2>2, SeqMonotonic
<1>6. name \in Seq(Words) /\ Len(name) = Len(tool) + 2 /\ name[1] = "mcp" /\ name[2] = w
  BY <1>3, <1>4, <1>5, ConcatProperties
<1>7. SubSeq(name, 3, Len(name)) = tool
  <2>1. \A k \in 1 .. Len(tool) : name[k + 2] = tool[k]
    BY <1>3, <1>4, <1>5, ConcatProperties
  <2>2. SubSeq(name, 3, Len(name)) \in Seq(Words) /\ Len(SubSeq(name, 3, Len(name))) = Len(tool)
    BY <1>3, <1>6
  <2>3. \A k \in 1 .. Len(tool) : SubSeq(name, 3, Len(name))[k] = tool[k]
    BY <1>3, <1>6, <2>1
  <2>. QED  BY <1>3, <1>5, <2>2, <2>3, SeqEqual
<1>. QED  BY <1>2, <1>3, <1>6, <1>7 DEF w

(* What is advertised is reached under its name, if that is short enough.     *)
LEMMA NameLeadsBack ==
    ASSUME WordNames, Configured, Routing!OneWordNames, Routing!DistinctNames,
           NEW t \in Routing!Advertised, Routing!Short(t)
    PROVE  Routing!Route(Routing!NameOf(t)) = t
<1>1. ASSUME NEW word \in Routing!Tools, t = Routing!BuiltIn(word)
      PROVE  Routing!Route(Routing!NameOf(t)) = t
  BY <1>1 DEF Routing!Route, Routing!NameOf, Routing!BuiltIn
<1>2. ASSUME t \in Routing!AdvertisedMcpTools
      PROVE  Routing!Route(Routing!NameOf(t)) = t
  <2>1. PICK i \in DOMAIN servers, tool \in ToolNames : t = [server |-> i, tool |-> tool]
    BY <1>2 DEF Routing!AdvertisedMcpTools, Routing!McpTools
  <2>. DEFINE name == Routing!WholeName(i, tool)
  <2>2. i \in Nat \ {0}
    BY DEF Configured
  <2>8. Routing!Fits(name) /\ ~Routing!TooLong(servers[i].name[1])
    BY <2>1, <2>2 DEF Routing!Short
  <2>3. Routing!NameOf(t) = name
    <3>1. Routing!NameOf(t) = Routing!Fitted(name)
      BY <2>1, <2>2 DEF Routing!NameOf, Routing!PrefixedName
    <3>. QED  BY <2>8, <3>1 DEF Routing!Fitted
  <2>4. /\ Len(name) >= 3 /\ name[1] = "mcp" /\ <<name[2]>> = servers[i].name
        /\ name[2] = servers[i].name[1] /\ SubSeq(name, 3, Len(name)) = tool
    BY WordsOfName
  <2>9. Len(name) \in Nat
    BY WordNames DEF Routing!WholeName, Configured, WordNames
  <2>. HIDE DEF name
  <2>5. name \notin Routing!Tools
    <3>1. \A word \in Routing!Tools : Len(word) = 1
      BY DEF Routing!Tools, Routing!ResourceTools
    <3>2. ~(1 >= 3)
      OBVIOUS
    <3>. QED  BY <2>4, <3>1, <3>2
  <2>6. Routing!FindToolServer(name) = i
    <3>1. ~(Len(name) < 3)
      BY <2>4, <2>9
    <3>2. ~Routing!TooLong(name[2])
      BY <2>4, <2>8
    <3>. QED  BY <2>4, <3>1, <3>2, FirstIsTheOnly DEF Routing!FindToolServer
  <2>. QED  BY <2>1, <2>2, <2>3, <2>4, <2>5, <2>6 DEF Routing!Route
<1>. QED
  BY <1>1, <1>2 DEF Routing!Advertised, Routing!AdvertisedBuiltIns, Routing!AdvertisedHelpers,
                    Routing!Tools

RoutesBack ==
    stage = "ready" /\ Routing!OneWordNames /\ Routing!DistinctNames /\ Routing!Short(called) =>
        reached = called

LEMMA RoutesBackStep ==
    ASSUME WordNames, Configured, RoutesBack, [Routing!Next]_routingVars
    PROVE  RoutesBack'
<1>1. CASE Routing!LoadConfig
  BY <1>1 DEF RoutesBack, Routing!LoadConfig
<1>2. CASE Routing!ConnectServers
  BY <1>2 DEF RoutesBack, Configured, Routing!ConnectServers
<1>3. CASE Routing!Execute
  <2>. SUFFICES ASSUME Routing!OneWordNames', Routing!DistinctNames', Routing!Short(called)'
                PROVE  reached' = called'
    BY DEF RoutesBack
  <2>1. PICK t \in Routing!Advertised :
            called' = t /\ reached' = Routing!Route(Routing!NameOf(t)) /\ servers' = servers
    BY <1>3 DEF Routing!Execute
  <2>2. Routing!OneWordNames /\ Routing!DistinctNames
    BY <2>1 DEF Routing!OneWordNames, Routing!DistinctNames
  <2>3. Routing!Short(t)
    BY <2>1 DEF Routing!Short, Routing!WholeName
  <2>. QED  BY <2>1, <2>2, <2>3, NameLeadsBack
<1>4. CASE Routing!CallMcpTool
  <2>. SUFFICES ASSUME Routing!DistinctNames'
                PROVE  reached' = called'
    BY DEF RoutesBack
  <2>1. PICK t \in Routing!AdvertisedMcpTools :
            /\ called' = t /\ servers' = servers
            /\ reached' = [server |-> Routing!FirstNamed(servers[t.server].name), tool |-> t.tool]
    BY <1>4 DEF Routing!CallMcpTool
  <2>2. PICK i \in DOMAIN servers, tool \in ToolNames : t = [server |-> i, tool |-> tool]
    BY DEF Routing!AdvertisedMcpTools, Routing!McpTools
  <2>3. Routing!DistinctNames
    BY <2>1 DEF Routing!DistinctNames
  <2>. QED  BY <2>1, <2>2, <2>3, FirstIsTheOnly
<1>5. CASE UNCHANGED routingVars
  BY <1>5 DEF RoutesBack, routingVars, Routing!OneWordNames, Routing!DistinctNames, Routing!Short,
              Routing!WholeName
<1>. QED  BY <1>1, <1>2, <1>3, <1>4, <1>5 DEF Routing!Next

(* A tool that is advertised is the one that its name reaches, and no other   *)
(* such tool has that name, whatever words the names are made of and however  *)
(* many servers there are, while each server's name is one word and given     *)
(* once, as long as that name is shorter than the buffer it is copied to and  *)
(* the prefixed one than its own (mcp_get_all_tools, mcp_find_tool_server).   *)
THEOREM ToolsReached ==
    ASSUME WordNames
    PROVE  ServicesSpec => []RoutesHome
<1>1. ServicesInit => Configured /\ RoutesBack
  <2>1. <<>> \in [1 .. 0 -> [name : ServerNames, connected : BOOLEAN, tools : SUBSET ToolNames]]
    OBVIOUS
  <2>. QED  BY <2>1 DEF ServicesInit, Routing!Init, Configured, RoutesBack
<1>2. Configured /\ RoutesBack /\ [ServicesNext]_serviceVars => (Configured /\ RoutesBack)'
  <2>1. [ServicesNext]_serviceVars => [Routing!Next]_routingVars
    BY DEF ServicesNext, serviceVars, routingVars
  <2>. QED  BY <2>1, ConfiguredStep, RoutesBackStep
<1>3. Configured /\ RoutesBack => RoutesHome
  <2>. SUFFICES ASSUME Configured, RoutesBack, stage = "ready", Routing!OneWordNames,
                       Routing!DistinctNames,
                       NEW s \in Routing!Advertised, NEW t \in Routing!Advertised,
                       Routing!Short(s), Routing!Short(t), Routing!NameOf(s) = Routing!NameOf(t)
                PROVE  s = t
    BY DEF RoutesHome, Routing!RoutesHome, RoutesBack
  <2>1. Routing!Route(Routing!NameOf(s)) = s /\ Routing!Route(Routing!NameOf(t)) = t
    BY NameLeadsBack
  <2>. QED  BY <2>1
<1>. QED  BY <1>1, <1>2, <1>3, PTL DEF ServicesSpec

(* Where a name leads is one of the servers there are, or none.               *)
LEMMA FirstNamedIs ==
    ASSUME NEW n \in Nat, DOMAIN servers = 1 .. n, NEW name
    PROVE  Routing!FirstNamed(name) \in 0 .. n
<1>. DEFINE named == {i \in DOMAIN servers : servers[i].name = name}
<1>1. CASE named = {}
  BY <1>1 DEF Routing!FirstNamed
<1>2. CASE named # {}
  <2>1. named \subseteq Nat /\ named \subseteq 1 .. n
    OBVIOUS
  <2>. HIDE DEF named
  <2>2. PICK k \in named : \A other \in named : ~(<<other, k>> \in Below)
    BY <1>2, <2>1, BelowWellFounded, WFMin, Zenon
  <2>3. \A other \in named : k <= other
    <3>. SUFFICES ASSUME NEW other \in named  PROVE k <= other
      OBVIOUS
    <3>1. k \in Nat /\ other \in Nat /\ ~(<<other, k>> \in Below)
      BY <2>1, <2>2
    <3>. QED  BY <3>1 DEF Below
  <2>4. Routing!FirstNamed(name) = CHOOSE i \in named : \A j \in named : i <= j
    BY <1>2 DEF Routing!FirstNamed, named
  <2>5. Routing!FirstNamed(name) \in named
    BY <2>3, <2>4
  <2>6. Routing!FirstNamed(name) \in 1 .. n
    BY <2>1, <2>5, Zenon
  <2>. QED  BY <2>6
<1>. QED  BY <1>1, <1>2

LEMMA RouteIs ==
    ASSUME Configured, NEW name
    PROVE  Routing!Route(name).server \in 0 .. Len(servers)
<1>1. PICK n \in Nat : servers \in [1 .. n -> [name : ServerNames, connected : BOOLEAN, tools : SUBSET ToolNames]]
  BY DEF Configured
<1>2. Len(servers) = n /\ DOMAIN servers = 1 .. n /\ 0 \in 0 .. n
  BY <1>1
<1>3. Routing!FindToolServer(name) \in 0 .. n
  BY <1>2, FirstNamedIs DEF Routing!FindToolServer
<1>4. Routing!Route(name).server \in {0, Routing!FindToolServer(name)}
  BY DEF Routing!Route, Routing!BuiltIn, Routing!Nowhere
<1>. QED  BY <1>2, <1>3, <1>4

LEMMA AdvertisedIs ==
    ASSUME Configured, NEW t \in Routing!Advertised
    PROVE  t.server \in 0 .. Len(servers)
<1>1. PICK n \in Nat : servers \in [1 .. n -> [name : ServerNames, connected : BOOLEAN, tools : SUBSET ToolNames]]
  BY DEF Configured
<1>2. Len(servers) = n /\ DOMAIN servers = 1 .. n /\ 0 \in 0 .. n /\ 1 .. n \subseteq 0 .. n
  BY <1>1
<1>3. t.server = 0 \/ t.server \in DOMAIN servers
  BY DEF Routing!Advertised, Routing!AdvertisedBuiltIns, Routing!AdvertisedHelpers, Routing!BuiltIn,
         Routing!AdvertisedMcpTools, Routing!McpTools
<1>. QED  BY <1>2, <1>3

LEMMA RoutingTypesStep ==
    ASSUME WordNames, Configured, Routing!TypeOK, [Routing!Next]_routingVars
    PROVE  Routing!TypeOK'
<1>0. (called.server = 0 /\ reached.server = 0) \/ stage = "ready"
  BY DEF Configured, Routing!Nowhere
<1>1. CASE Routing!LoadConfig
  <2>1. PICK names \in UNION {[1 .. n -> ServerNames] : n \in 0 .. MaxServers}, on \in BOOLEAN :
            /\ stage = "unread" /\ stage' = "connecting" /\ enabled' = on
            /\ servers' = IF ~on THEN <<>>
                          ELSE [i \in DOMAIN names |->
                                   [name |-> names[i], connected |-> FALSE, tools |-> {}]]
            /\ UNCHANGED <<called, reached>>
    BY <1>1 DEF Routing!LoadConfig
  <2>2. PICK n \in 0 .. MaxServers : names \in [1 .. n -> ServerNames]
    OBVIOUS
  <2>3. CASE ~on
    <3>1. Len(servers') <= MaxServers /\ DOMAIN servers' = {} /\ Len(servers') = 0
      BY <2>1, <2>3 DEF WordNames
    <3>2. 0 \in 0 .. Len(servers')
      BY <3>1
    <3>. QED  BY <1>0, <2>1, <3>1, <3>2 DEF Routing!TypeOK
  <2>4. CASE on
    <3>1. servers' = [i \in 1 .. n |-> [name |-> names[i], connected |-> FALSE, tools |-> {}]]
      BY <2>1, <2>2, <2>4
    <3>2. Len(servers') = n /\ n <= MaxServers /\ DOMAIN servers' = 1 .. n
      BY <3>1, WordNames DEF WordNames
    <3>3. \A i \in DOMAIN servers' :
             /\ servers'[i].name \in ServerNames /\ servers'[i].connected \in BOOLEAN
             /\ servers'[i].tools \subseteq ToolNames
      BY <2>2, <3>1
    <3>4. 0 \in 0 .. Len(servers')
      BY <3>2
    <3>. QED  BY <1>0, <2>1, <3>2, <3>3, <3>4 DEF Routing!TypeOK
  <2>. QED  BY <2>3, <2>4
<1>2. CASE Routing!ConnectServers
  <2>1. PICK n \in Nat :
            servers \in [1 .. n -> [name : ServerNames, connected : BOOLEAN, tools : SUBSET ToolNames]]
    BY DEF Configured
  <2>2. PICK up \in SUBSET (DOMAIN servers), listed \in [DOMAIN servers -> SUBSET ToolNames] :
            servers' = [i \in DOMAIN servers |->
                           [servers[i] EXCEPT !.connected = i \in up, !.tools = listed[i]]]
    BY <1>2 DEF Routing!ConnectServers
  <2>. DEFINE Server == [name : ServerNames, connected : BOOLEAN, tools : SUBSET ToolNames]
  <2>3. servers' \in [1 .. n -> Server]
    <3>. SUFFICES ASSUME NEW i \in 1 .. n
                  PROVE  [servers[i] EXCEPT !.connected = i \in up, !.tools = listed[i]] \in Server
      BY <2>1, <2>2
    <3>1. servers[i] \in Server
      BY <2>1
    <3>2. listed[i] \in SUBSET ToolNames /\ (i \in up) \in BOOLEAN
      BY <2>1
    <3>. QED  BY <3>1, <3>2
  <2>4. DOMAIN servers' = 1 .. n /\ Len(servers') = n /\ Len(servers) = n
    BY <2>1, <2>3
  <2>5. Len(servers') <= MaxServers
    BY <2>4 DEF Routing!TypeOK
  <2>6. \A i \in DOMAIN servers' :
           /\ servers'[i].name \in ServerNames /\ servers'[i].connected \in BOOLEAN
           /\ servers'[i].tools \subseteq ToolNames
    BY <2>3, <2>4
  <2>7. Len(servers') = Len(servers) /\ stage' = "ready" /\ UNCHANGED <<enabled, called, reached>>
    BY <1>2, <2>4 DEF Routing!ConnectServers
  <2>. QED  BY <2>5, <2>6, <2>7 DEF Routing!TypeOK
<1>3. CASE Routing!Execute
  <2>1. PICK t \in Routing!Advertised :
            /\ called' = t /\ reached' = Routing!Route(Routing!NameOf(t))
            /\ UNCHANGED <<stage, enabled, servers>>
    BY <1>3 DEF Routing!Execute
  <2>. QED  BY <2>1, RouteIs, AdvertisedIs DEF Routing!TypeOK
<1>4. CASE Routing!CallMcpTool
  <2>1. PICK t \in Routing!AdvertisedMcpTools :
            /\ called' = t /\ UNCHANGED <<stage, enabled, servers>>
            /\ reached' = [server |-> Routing!FirstNamed(servers[t.server].name), tool |-> t.tool]
    BY <1>4 DEF Routing!CallMcpTool
  <2>2. t \in Routing!Advertised
    BY DEF Routing!Advertised
  <2>3. \A name : Routing!FirstNamed(name) \in 0 .. Len(servers)
    BY FirstNamedIs DEF Configured
  <2>. QED  BY <2>1, <2>2, <2>3, AdvertisedIs DEF Routing!TypeOK
<1>5. CASE UNCHANGED routingVars
  BY <1>5 DEF Routing!TypeOK, routingVars
<1>. QED  BY <1>1, <1>2, <1>3, <1>4, <1>5 DEF Routing!Next

-----------------------------------------------------------------------------
(* The todo list.                                                             *)

(* The recursive definition of Kept defines something.                        *)
KeptFunction(s, table, n) ==
    table = [i \in 0 .. n |->
              IF i = 0 THEN <<>>
              ELSE IF s[i].valid THEN Append(table[i - 1], s[i]) ELSE table[i - 1]]

LEMMA KeptExists ==
    ASSUME NEW s, NEW n \in Nat
    PROVE  \E table : KeptFunction(s, table, n)
<1>. DEFINE S == {m \in Nat : \E table : KeptFunction(s, table, m)}
<1>1. 0 \in S
  <2>1. \A i \in 0 .. 0 : i = 0
    OBVIOUS
  <2>2. KeptFunction(s, [i \in 0 .. 0 |-> <<>>], 0)
    BY <2>1 DEF KeptFunction
  <2>. QED  BY <2>2
<1>2. ASSUME NEW m \in Nat, m \in S  PROVE m + 1 \in S
  <2>1. PICK table : KeptFunction(s, table, m)
    BY <1>2
  <2>. DEFINE last == IF s[m + 1].valid THEN Append(table[m], s[m + 1]) ELSE table[m]
              more == [i \in 0 .. m + 1 |-> IF i = m + 1 THEN last ELSE table[i]]
  <2>2. KeptFunction(s, more, m + 1)
    <3>. SUFFICES ASSUME NEW i \in 0 .. m + 1
                  PROVE  more[i] = IF i = 0 THEN <<>>
                                   ELSE IF s[i].valid THEN Append(more[i - 1], s[i]) ELSE more[i - 1]
      BY DEF KeptFunction
    <3>1. CASE i = 0
      BY <2>1, <3>1 DEF KeptFunction
    <3>2. CASE i = m + 1
      <4>1. i # 0 /\ i - 1 = m /\ m \in 0 .. m + 1 /\ m # m + 1
        BY <3>2
      <4>. QED  BY <3>2, <4>1
    <3>3. CASE i # 0 /\ i # m + 1
      <4>1. i \in 0 .. m /\ i - 1 \in 0 .. m + 1 /\ i - 1 # m + 1
        BY <3>3
      <4>2. more[i] = table[i] /\ more[i - 1] = table[i - 1]
        BY <3>3, <4>1
      <4>3. table[i] = IF s[i].valid THEN Append(table[i - 1], s[i]) ELSE table[i - 1]
        BY <2>1, <3>3, <4>1 DEF KeptFunction
      <4>. QED  BY <3>3, <4>2, <4>3
    <3>. QED  BY <3>1, <3>2, <3>3
  <2>. QED  BY <2>2
<1>. HIDE DEF S
<1>3. n \in S
  BY <1>1, <1>2, AllNaturals
<1>. QED  BY <1>3 DEF S

LEMMA KeptStep ==
    ASSUME NEW S, NEW s \in Seq(S)
    PROVE  /\ Todo!Kept(s)[0] = <<>>
           /\ \A i \in 1 .. Len(s) :
                 Todo!Kept(s)[i] = IF s[i].valid THEN Append(Todo!Kept(s)[i - 1], s[i])
                                   ELSE Todo!Kept(s)[i - 1]
<1>1. Len(s) \in Nat
  OBVIOUS
<1>2. Todo!Kept(s) = CHOOSE table : KeptFunction(s, table, Len(s))
  BY DEF Todo!Kept, KeptFunction
<1>3. KeptFunction(s, Todo!Kept(s), Len(s))
  BY <1>1, <1>2, KeptExists
<1>4. 0 \in 0 .. Len(s) /\ \A i \in 1 .. Len(s) : i \in 0 .. Len(s) /\ i # 0
  BY <1>1
<1>. HIDE DEF Todo!Kept
<1>. QED  BY <1>3, <1>4 DEF KeptFunction

(* The list has room for an item from the start; items are counted.           *)
TodoBounds == InitialCapacity \in Nat \ {0} /\ MaxItems \in Nat

TodoItems == [by : TodoThreads \cup {"nobody"}, n : Nat, valid : BOOLEAN]

TodoTypes ==
    /\ count \in Nat /\ capacity \in Nat \ {0} /\ items \in [1 .. capacity -> TodoItems]
    /\ todoPc \in [TodoThreads -> {"idle", "clear", "add", "store", "count", "done"}]
    /\ todo \in [TodoThreads -> Seq(TodoItems)] /\ wanted \in [TodoThreads -> Seq(TodoItems)]
    /\ added \in [TodoThreads -> Nat] /\ rendered \in [TodoThreads -> Seq(TodoItems)]
    /\ failed \in [TodoThreads -> BOOLEAN] /\ crowded \in BOOLEAN

(* What a call has still to look at is the end of what it was given, and the  *)
(* item it is adding has a known status.                                      *)
RestOf(t) ==
    /\ Len(wanted[t]) <= MaxItems /\ added[t] + Len(todo[t]) <= Len(wanted[t])
    /\ todoPc[t] \in {"idle", "clear"} => added[t] = 0 /\ todo[t] = wanted[t]
    /\ \A i \in 1 .. Len(todo[t]) :
          todo[t][i] = wanted[t][Len(wanted[t]) - Len(todo[t]) + i]
    /\ todoPc[t] \in {"store", "count"} => todo[t] # <<>> /\ Head(todo[t]).valid

Rest == \A t \in TodoThreads : RestOf(t)

(* An item less to look at.                                                   *)
LEMMA OneLeft ==
    ASSUME NEW S, NEW s \in Seq(S), s # <<>>
    PROVE  /\ Tail(s) \in Seq(S) /\ Len(s) \in Nat \ {0} /\ Len(Tail(s)) = Len(s) - 1
           /\ Head(s) = s[1] /\ Head(s) \in S
           /\ \A i \in 1 .. Len(Tail(s)) : i + 1 \in 1 .. Len(s) /\ Tail(s)[i] = s[i + 1]
<1>1. Len(s) \in Nat \ {0} /\ Len(Tail(s)) = Len(s) - 1 /\ Tail(s) \in Seq(S)
  OBVIOUS
<1>2. \A i \in 1 .. Len(Tail(s)) : Tail(s)[i] = s[i + 1]
  OBVIOUS
<1>3. Head(s) = s[1] /\ Head(s) \in S
  OBVIOUS
<1>. QED  BY <1>1, <1>2, <1>3

LEMMA TodoTypesStep ==
    ASSUME TodoBounds, TodoTypes, Rest, [Todo!Next]_todoVars
    PROVE  TodoTypes'
<1>. USE DEF TodoBounds, TodoTypes, Todo!Go, Todo!list
<1>1. CASE Todo!ClearConversation
  <2>1. Todo!NoItem \in TodoItems
    BY DEF Todo!NoItem, TodoItems
  <2>. QED  BY <1>1, <2>1 DEF Todo!ClearConversation, Todo!EmptyList
<1>2. ASSUME NEW t \in TodoThreads, Todo!TodoWrite(t)
      PROVE  TodoTypes'
  <2>0. PICK n \in 0 .. MaxItems : \E valid \in [1 .. n -> BOOLEAN] :
          /\ wanted' = [wanted EXCEPT ![t] = [i \in 1 .. n |-> Todo!Item(t, i, valid[i])]]
          /\ todo' = [todo EXCEPT ![t] = wanted'[t]]
    BY <1>2 DEF Todo!TodoWrite
  <2>1. PICK valid \in [1 .. n -> BOOLEAN] :
          /\ wanted' = [wanted EXCEPT ![t] = [i \in 1 .. n |-> Todo!Item(t, i, valid[i])]]
          /\ todo' = [todo EXCEPT ![t] = wanted'[t]]
    BY <2>0
  <2>. DEFINE new == [i \in 1 .. n |-> Todo!Item(t, i, valid[i])]
  <2>2. new \in Seq(TodoItems)
    <3>1. \A i \in 1 .. n : Todo!Item(t, i, valid[i]) \in TodoItems
      BY <2>1 DEF Todo!Item, TodoItems
    <3>2. n \in Nat
      OBVIOUS
    <3>. QED  BY <3>1, <3>2
  <2>. HIDE DEF new
  <2>3. wanted' = [wanted EXCEPT ![t] = new] /\ todo' = [todo EXCEPT ![t] = new]
    BY <2>1 DEF new
  <2>4. (\E u \in TodoThreads : Todo!Running(u)) \in BOOLEAN
    OBVIOUS
  <2>. QED  BY <1>2, <2>2, <2>3, <2>4 DEF Todo!TodoWrite
<1>3. ASSUME NEW t \in TodoThreads, Todo!Clear(t)
      PROVE  TodoTypes'
  BY <1>3 DEF Todo!Clear, Todo!ClearItems
<1>4. ASSUME NEW t \in TodoThreads, Todo!SkipInvalid(t)
      PROVE  TodoTypes'
  <2>1. todo[t] \in Seq(TodoItems) /\ todo[t] # <<>>
    BY <1>4 DEF Todo!SkipInvalid, Todo!Next1, Rest, RestOf
  <2>2. /\ Tail(todo[t]) \in Seq(TodoItems)
    BY <2>1, OneLeft
  <2>. QED  BY <1>4, <2>1, <2>2 DEF Todo!SkipInvalid
<1>5. ASSUME NEW t \in TodoThreads, Todo!HasRoom(t)
      PROVE  TodoTypes'
  BY <1>5 DEF Todo!HasRoom
<1>6. ASSUME NEW t \in TodoThreads, Todo!Expand(t)
      PROVE  TodoTypes'
  <2>1. Todo!NoItem \in TodoItems
    BY DEF Todo!NoItem, TodoItems
  <2>2. capacity' = 2 * capacity /\ 2 * capacity \in Nat \ {0}
    BY <1>6 DEF Todo!Expand
  <2>3. items' \in [1 .. capacity' -> TodoItems]
    BY <1>6, <2>1, <2>2 DEF Todo!Expand
  <2>. QED  BY <1>6, <2>2, <2>3 DEF Todo!Expand
<1>7. ASSUME NEW t \in TodoThreads, Todo!AllocationFails(t)
      PROVE  TodoTypes'
  <2>1. todo[t] \in Seq(TodoItems) /\ todo[t] # <<>>
    BY <1>7 DEF Todo!AllocationFails, Todo!Next1, Rest, RestOf
  <2>2. /\ Tail(todo[t]) \in Seq(TodoItems)
    BY <2>1, OneLeft
  <2>. QED  BY <1>7, <2>1, <2>2 DEF Todo!AllocationFails
<1>8. ASSUME NEW t \in TodoThreads, Todo!Store(t)
      PROVE  TodoTypes'
  <2>1. todo[t] \in Seq(TodoItems) /\ todo[t] # <<>>
    BY <1>8 DEF Todo!Store, Rest, RestOf
  <2>2. Head(todo[t]) \in TodoItems
    BY <2>1, OneLeft
  <2>. QED  BY <1>8, <2>2 DEF Todo!Store
<1>9. ASSUME NEW t \in TodoThreads, Todo!CountItem(t)
      PROVE  TodoTypes'
  <2>1. todo[t] \in Seq(TodoItems) /\ todo[t] # <<>>
    BY <1>9 DEF Todo!CountItem, Todo!Next1, Rest, RestOf
  <2>2. /\ Tail(todo[t]) \in Seq(TodoItems)
    BY <2>1, OneLeft
  <2>. QED  BY <1>9, <2>1, <2>2 DEF Todo!CountItem
<1>10. ASSUME NEW t \in TodoThreads, Todo!Render(t)
      PROVE  TodoTypes'
  <2>1. items \in Seq(TodoItems) /\ Len(items) = capacity
    OBVIOUS
  <2>2. count <= capacity => SubSeq(items, 1, count) \in Seq(TodoItems)
    BY <2>1
  <2>. QED  BY <1>10, <2>1, <2>2 DEF Todo!Render, Todo!Shown
<1>11. CASE UNCHANGED todoVars
  BY <1>11 DEF todoVars
<1>. QED
  BY <1>1, <1>2, <1>3, <1>4, <1>5, <1>6, <1>7, <1>8, <1>9, <1>10, <1>11
  DEF Todo!Next, Todo!Write

LEMMA RestStep ==
    ASSUME TodoBounds, TodoTypes, Rest, [Todo!Next]_todoVars
    PROVE  Rest'
<1>. USE DEF TodoBounds, TodoTypes, Rest, RestOf, Todo!Go, Todo!list
<1>1. CASE Todo!ClearConversation
  BY <1>1 DEF Todo!ClearConversation, Todo!EmptyList
<1>2. ASSUME NEW t \in TodoThreads, Todo!TodoWrite(t)
      PROVE  Rest'
  <2>1. PICK n \in 0 .. MaxItems : \E valid \in [1 .. n -> BOOLEAN] :
          /\ wanted' = [wanted EXCEPT ![t] = [i \in 1 .. n |-> Todo!Item(t, i, valid[i])]]
          /\ todo' = [todo EXCEPT ![t] = wanted'[t]]
    BY <1>2 DEF Todo!TodoWrite
  <2>2. PICK valid \in [1 .. n -> BOOLEAN] :
          /\ wanted' = [wanted EXCEPT ![t] = [i \in 1 .. n |-> Todo!Item(t, i, valid[i])]]
          /\ todo' = [todo EXCEPT ![t] = wanted'[t]]
    BY <2>1
  <2>. DEFINE new == [i \in 1 .. n |-> Todo!Item(t, i, valid[i])]
  <2>3. new \in Seq(TodoItems) /\ Len(new) = n /\ n \in Nat
    <3>1. \A i \in 1 .. n : Todo!Item(t, i, valid[i]) \in TodoItems
      BY <2>2 DEF Todo!Item, TodoItems
    <3>2. n \in Nat
      OBVIOUS
    <3>. QED  BY <3>1, <3>2
  <2>. HIDE DEF new
  <2>4. wanted' = [wanted EXCEPT ![t] = new] /\ todo' = [todo EXCEPT ![t] = new]
    BY <2>2 DEF new
  <2>5. added' = added /\ todoPc[t] = "idle" /\ todoPc' = [todoPc EXCEPT ![t] = "clear"]
    BY <1>2 DEF Todo!TodoWrite
  <2>6. added[t] = 0 /\ n <= MaxItems /\ 0 + n <= n
    BY <2>3, <2>5
  <2>7. \A i \in 1 .. n : n - n + i = i
    BY <2>3
  <2>. SUFFICES ASSUME NEW u \in TodoThreads  PROVE RestOf(u)'
    BY DEF Rest
  <2>8. CASE u = t
    BY <2>3, <2>4, <2>5, <2>6, <2>7, <2>8
  <2>9. CASE u # t
    BY <2>4, <2>5, <2>9
  <2>. QED  BY <2>8, <2>9
<1>3. ASSUME NEW t \in TodoThreads, Todo!Clear(t)
      PROVE  Rest'
  BY <1>3 DEF Todo!Clear, Todo!ClearItems
<1>4. ASSUME NEW t \in TodoThreads, Todo!SkipInvalid(t)
      PROVE  Rest'
  <2>. DEFINE s == todo[t]  l == Len(todo[t])  w == Len(wanted[t])
  <2>1. s \in Seq(TodoItems) /\ s # <<>>
    BY <1>4 DEF Todo!SkipInvalid, Todo!Next1
  <2>2. todo' = [todo EXCEPT ![t] = Tail(s)] /\ wanted' = wanted
    BY <1>4 DEF Todo!SkipInvalid
  <2>3. added' = added /\ todoPc[t] = "add" /\ todoPc' = todoPc
    BY <1>4 DEF Todo!SkipInvalid, Todo!Next1
  <2>4. /\ Tail(s) \in Seq(TodoItems) /\ l \in Nat \ {0} /\ Len(Tail(s)) = l - 1
        /\ \A i \in 1 .. Len(Tail(s)) : i + 1 \in 1 .. l /\ Tail(s)[i] = s[i + 1]
    BY <2>1, OneLeft
  <2>5. w \in Nat /\ added[t] \in Nat /\ added[t] + l <= w
    OBVIOUS
  <2>6. added'[t] + Len(Tail(s)) <= w /\ added'[t] \in Nat
    BY <2>3, <2>4, <2>5
  <2>7. \A i \in 1 .. Len(Tail(s)) : Tail(s)[i] = wanted[t][w - l + (i + 1)]
    BY <2>4
  <2>8. \A i \in 1 .. Len(Tail(s)) : w - l + (i + 1) = w - Len(Tail(s)) + i
    BY <2>4, <2>5
  <2>9. \A i \in 1 .. Len(Tail(s)) : Tail(s)[i] = wanted[t][w - Len(Tail(s)) + i]
    BY <2>7, <2>8
  <2>. SUFFICES ASSUME NEW u \in TodoThreads  PROVE RestOf(u)'
    BY DEF Rest
  <2>10. CASE u = t
    <3>1. todo'[u] = Tail(s) /\ wanted'[u] = wanted[t] /\ todoPc'[u] \in {"add"}
      BY <2>2, <2>3, <2>10
    <3>2. Len(wanted'[u]) <= MaxItems /\ added'[u] + Len(todo'[u]) <= Len(wanted'[u])
      BY <3>1, <2>6, <2>10
    <3>3. \A i \in 1 .. Len(todo'[u]) :
             todo'[u][i] = wanted'[u][Len(wanted'[u]) - Len(todo'[u]) + i]
      BY <3>1, <2>9, Zenon
    <3>4. todoPc'[u] \notin {"idle", "clear", "store", "count"}
      BY <3>1
    <3>. QED  BY <3>2, <3>3, <3>4, Zenon
  <2>11. CASE u # t
    BY <2>2, <2>3, <2>11
  <2>. QED  BY <2>10, <2>11
<1>5. ASSUME NEW t \in TodoThreads, Todo!HasRoom(t)
      PROVE  Rest'
  BY <1>5 DEF Todo!HasRoom, Todo!Next1
<1>6. ASSUME NEW t \in TodoThreads, Todo!Expand(t)
      PROVE  Rest'
  BY <1>6 DEF Todo!Expand, Todo!Next1
<1>7. ASSUME NEW t \in TodoThreads, Todo!AllocationFails(t)
      PROVE  Rest'
  <2>. DEFINE s == todo[t]  l == Len(todo[t])  w == Len(wanted[t])
  <2>1. s \in Seq(TodoItems) /\ s # <<>>
    BY <1>7 DEF Todo!AllocationFails, Todo!Next1
  <2>2. todo' = [todo EXCEPT ![t] = Tail(s)] /\ wanted' = wanted
    BY <1>7 DEF Todo!AllocationFails
  <2>3. added' = added /\ todoPc[t] \in {"add", "store"} /\ todoPc' = [todoPc EXCEPT ![t] = "add"]
    BY <1>7 DEF Todo!AllocationFails, Todo!Next1
  <2>4. /\ Tail(s) \in Seq(TodoItems) /\ l \in Nat \ {0} /\ Len(Tail(s)) = l - 1
        /\ \A i \in 1 .. Len(Tail(s)) : i + 1 \in 1 .. l /\ Tail(s)[i] = s[i + 1]
    BY <2>1, OneLeft
  <2>5. w \in Nat /\ added[t] \in Nat /\ added[t] + l <= w
    OBVIOUS
  <2>6. added'[t] + Len(Tail(s)) <= w /\ added'[t] \in Nat
    BY <2>3, <2>4, <2>5
  <2>7. \A i \in 1 .. Len(Tail(s)) : Tail(s)[i] = wanted[t][w - l + (i + 1)]
    BY <2>4
  <2>8. \A i \in 1 .. Len(Tail(s)) : w - l + (i + 1) = w - Len(Tail(s)) + i
    BY <2>4, <2>5
  <2>9. \A i \in 1 .. Len(Tail(s)) : Tail(s)[i] = wanted[t][w - Len(Tail(s)) + i]
    BY <2>7, <2>8
  <2>. SUFFICES ASSUME NEW u \in TodoThreads  PROVE RestOf(u)'
    BY DEF Rest
  <2>10. CASE u = t
    <3>1. todo'[u] = Tail(s) /\ wanted'[u] = wanted[t] /\ todoPc'[u] \in {"add"}
      BY <2>2, <2>3, <2>10
    <3>2. Len(wanted'[u]) <= MaxItems /\ added'[u] + Len(todo'[u]) <= Len(wanted'[u])
      BY <3>1, <2>6, <2>10
    <3>3. \A i \in 1 .. Len(todo'[u]) :
             todo'[u][i] = wanted'[u][Len(wanted'[u]) - Len(todo'[u]) + i]
      BY <3>1, <2>9, Zenon
    <3>4. todoPc'[u] \notin {"idle", "clear", "store", "count"}
      BY <3>1
    <3>. QED  BY <3>2, <3>3, <3>4, Zenon
  <2>11. CASE u # t
    BY <2>2, <2>3, <2>11
  <2>. QED  BY <2>10, <2>11
<1>8. ASSUME NEW t \in TodoThreads, Todo!Store(t)
      PROVE  Rest'
  BY <1>8 DEF Todo!Store
<1>9. ASSUME NEW t \in TodoThreads, Todo!CountItem(t)
      PROVE  Rest'
  <2>. DEFINE s == todo[t]  l == Len(todo[t])  w == Len(wanted[t])
  <2>1. s \in Seq(TodoItems) /\ s # <<>>
    BY <1>9 DEF Todo!CountItem, Todo!Next1
  <2>2. todo' = [todo EXCEPT ![t] = Tail(s)] /\ wanted' = wanted
    BY <1>9 DEF Todo!CountItem
  <2>3. added' = [added EXCEPT ![t] = added[t] + 1] /\ todoPc[t] = "count" /\ todoPc' = [todoPc EXCEPT ![t] = "add"]
    BY <1>9 DEF Todo!CountItem, Todo!Next1
  <2>4. /\ Tail(s) \in Seq(TodoItems) /\ l \in Nat \ {0} /\ Len(Tail(s)) = l - 1
        /\ \A i \in 1 .. Len(Tail(s)) : i + 1 \in 1 .. l /\ Tail(s)[i] = s[i + 1]
    BY <2>1, OneLeft
  <2>5. w \in Nat /\ added[t] \in Nat /\ added[t] + l <= w
    OBVIOUS
  <2>6. added'[t] + Len(Tail(s)) <= w /\ added'[t] \in Nat
    BY <2>3, <2>4, <2>5
  <2>7. \A i \in 1 .. Len(Tail(s)) : Tail(s)[i] = wanted[t][w - l + (i + 1)]
    BY <2>4
  <2>8. \A i \in 1 .. Len(Tail(s)) : w - l + (i + 1) = w - Len(Tail(s)) + i
    BY <2>4, <2>5
  <2>9. \A i \in 1 .. Len(Tail(s)) : Tail(s)[i] = wanted[t][w - Len(Tail(s)) + i]
    BY <2>7, <2>8
  <2>. SUFFICES ASSUME NEW u \in TodoThreads  PROVE RestOf(u)'
    BY DEF Rest
  <2>10. CASE u = t
    <3>1. todo'[u] = Tail(s) /\ wanted'[u] = wanted[t] /\ todoPc'[u] \in {"add"}
      BY <2>2, <2>3, <2>10
    <3>2. Len(wanted'[u]) <= MaxItems /\ added'[u] + Len(todo'[u]) <= Len(wanted'[u])
      BY <3>1, <2>6, <2>10
    <3>3. \A i \in 1 .. Len(todo'[u]) :
             todo'[u][i] = wanted'[u][Len(wanted'[u]) - Len(todo'[u]) + i]
      BY <3>1, <2>9, Zenon
    <3>4. todoPc'[u] \notin {"idle", "clear", "store", "count"}
      BY <3>1
    <3>. QED  BY <3>2, <3>3, <3>4, Zenon
  <2>11. CASE u # t
    BY <2>2, <2>3, <2>11
  <2>. QED  BY <2>10, <2>11
<1>10. ASSUME NEW t \in TodoThreads, Todo!Render(t)
      PROVE  Rest'
  BY <1>10 DEF Todo!Render
<1>11. CASE UNCHANGED todoVars
  BY <1>11 DEF todoVars
<1>. QED
  BY <1>1, <1>2, <1>3, <1>4, <1>5, <1>6, <1>7, <1>8, <1>9, <1>10, <1>11
  DEF Todo!Next, Todo!Write

(* As long as no two users of the list overlapped: one call at most runs, and *)
(* unless an allocation failed the list is what it has kept so far.           *)
ListIs(shown) ==
    shown \in Seq(TodoItems) /\ Len(shown) = count /\ \A j \in 1 .. count : items[j] = shown[j]

Written(t) ==
    /\ todoPc[t] \in {"add", "store", "count"} =>
          /\ added[t] = count
          /\ ~failed[t] => ListIs(Todo!Kept(wanted[t])[Len(wanted[t]) - Len(todo[t])])
    /\ todoPc[t] = "store" => count < capacity
    /\ todoPc[t] = "count" => count < capacity /\ items[count + 1] = Head(todo[t])
    /\ todoPc[t] = "done" =>
          /\ added[t] = Len(rendered[t])
          /\ ~failed[t] => rendered[t] = Todo!Valid(wanted[t])

OneWrites == \A t, u \in TodoThreads : Todo!Running(t) /\ Todo!Running(u) => t = u

ListAlone ==
    ~crowded => count <= capacity /\ OneWrites /\ \A t \in TodoThreads : Written(t)

(* The first item still to be looked at, and what is kept when it has been.   *)
LEMMA KeptNext ==
    ASSUME TodoTypes, Rest, NEW t \in TodoThreads, todo[t] # <<>>
    PROVE  LET seen == Len(wanted[t]) - Len(todo[t])
               seenNext == Len(wanted[t]) - Len(Tail(todo[t]))
           IN  Todo!Kept(wanted[t])[seenNext] =
                  IF Head(todo[t]).valid THEN Append(Todo!Kept(wanted[t])[seen], Head(todo[t]))
                  ELSE Todo!Kept(wanted[t])[seen]
<1>. DEFINE s == todo[t]  w == wanted[t]  k == Len(w) - Len(s)
<1>1. s \in Seq(TodoItems) /\ w \in Seq(TodoItems) /\ s # <<>> /\ added[t] \in Nat
  BY DEF TodoTypes
<1>2. added[t] + Len(s) <= Len(w) /\ \A i \in 1 .. Len(s) : s[i] = w[k + i]
  BY DEF Rest, RestOf
<1>. HIDE DEF s, w, k
<1>3. Len(s) \in Nat \ {0} /\ Len(w) \in Nat /\ Len(Tail(s)) = Len(s) - 1 /\ Head(s) = s[1]
  BY <1>1, OneLeft
<1>4. k \in Nat /\ k + 1 \in 1 .. Len(w) /\ Len(w) - Len(Tail(s)) = k + 1 /\ (k + 1) - 1 = k
  BY <1>1, <1>2, <1>3 DEF k
<1>5. 1 \in 1 .. Len(s)
  BY <1>3
<1>6. Head(s) = w[k + 1]
  BY <1>2, <1>3, <1>5
<1>7. Todo!Kept(w)[k + 1] = IF w[k + 1].valid THEN Append(Todo!Kept(w)[(k + 1) - 1], w[k + 1])
                            ELSE Todo!Kept(w)[(k + 1) - 1]
  BY <1>1, <1>4, KeptStep
<1>8. Todo!Kept(w)[Len(w) - Len(Tail(s))] =
        IF Head(s).valid THEN Append(Todo!Kept(w)[k], Head(s)) ELSE Todo!Kept(w)[k]
  BY <1>4, <1>6, <1>7
<1>. QED  BY <1>8 DEF s, w, k

LEMMA ListAloneStep ==
    ASSUME TodoBounds, TodoTypes, Rest, ListAlone, [Todo!Next]_todoVars
    PROVE  ListAlone'
<1>. USE DEF TodoBounds, TodoTypes, Todo!Go, Todo!list
<1>1. CASE Todo!ClearConversation
  <2>. SUFFICES ASSUME ~crowded'
                PROVE  (count <= capacity)' /\ OneWrites' /\ \A u \in TodoThreads : Written(u)'
    BY DEF ListAlone
  <2>1. /\ count' = 0 /\ capacity' = InitialCapacity
        /\ UNCHANGED <<todoPc, todo, wanted, added, failed, rendered>>
        /\ ~crowded /\ \A u \in TodoThreads : ~Todo!Running(u)
    BY <1>1 DEF Todo!ClearConversation, Todo!EmptyList
  <2>2. \A u \in TodoThreads : todoPc[u] \in {"idle", "done"}
    BY <2>1 DEF Todo!Running
  <2>3. OneWrites'
    BY <2>1 DEF OneWrites, Todo!Running
  <2>. QED  BY <2>1, <2>2, <2>3 DEF ListAlone, Written
<1>2. ASSUME NEW t \in TodoThreads, Todo!TodoWrite(t)
      PROVE  ListAlone'
  <2>. SUFFICES ASSUME ~crowded'
                PROVE  (count <= capacity)' /\ OneWrites' /\ \A u \in TodoThreads : Written(u)'
    BY DEF ListAlone
  <2>1. /\ todoPc[t] = "idle" /\ todoPc' = [todoPc EXCEPT ![t] = "clear"]
        /\ UNCHANGED <<items, count, capacity, added, failed, rendered>>
        /\ \A u \in TodoThreads : ~Todo!Running(u)
        /\ ~crowded
    BY <1>2 DEF Todo!TodoWrite
  <2>2. \A u \in TodoThreads \ {t} : wanted'[u] = wanted[u] /\ todo'[u] = todo[u]
    BY <1>2 DEF Todo!TodoWrite
  <2>3. OneWrites'
    BY <2>1 DEF OneWrites, Todo!Running
  <2>4. \A u \in TodoThreads \ {t} : todoPc'[u] \in {"idle", "done"} /\ todoPc'[u] = todoPc[u]
    BY <2>1 DEF Todo!Running
  <2>5. Written(t)'
    BY <2>1 DEF Written
  <2>6. ASSUME NEW u \in TodoThreads \ {t}  PROVE Written(u)'
    BY <2>1, <2>2, <2>4 DEF ListAlone, Written
  <2>. QED  BY <2>1, <2>3, <2>5, <2>6 DEF ListAlone
<1>3. ASSUME NEW t \in TodoThreads, Todo!Clear(t)
      PROVE  ListAlone'
  <2>. SUFFICES ASSUME ~crowded'
                PROVE  (count <= capacity)' /\ OneWrites' /\ \A u \in TodoThreads : Written(u)'
    BY DEF ListAlone
  <2>1. /\ todoPc[t] \in {"clear"} /\ todoPc' = [todoPc EXCEPT ![t] = "add"]
        /\ UNCHANGED <<wanted, crowded>> /\ ~crowded
    BY <1>3 DEF Todo!Clear, Todo!Next1
  <2>2. count' = 0 /\ UNCHANGED <<items, capacity, todo, added, failed, rendered>>
    BY <1>3 DEF Todo!Clear, Todo!ClearItems
  <2>3. count <= capacity /\ OneWrites /\ \A u \in TodoThreads : Written(u)
    BY <2>1 DEF ListAlone
  <2>4. \A u \in TodoThreads \ {t} : todoPc[u] \in {"idle", "done"}
    BY <2>1, <2>3 DEF OneWrites, Todo!Running
  <2>5. OneWrites'
    BY <2>1, <2>4 DEF OneWrites, Todo!Running
  <2>6. ASSUME NEW u \in TodoThreads \ {t}  PROVE Written(u)'
    BY <2>1, <2>2, <2>3, <2>4 DEF Written
  <2>7. (count <= capacity)'
    BY <2>2
  <2>8. Written(t)'
    <3>1. added[t] = 0 /\ todo[t] = wanted[t] /\ wanted[t] \in Seq(TodoItems)
      BY <2>1 DEF Rest, RestOf
    <3>2. Len(wanted[t]) - Len(todo[t]) = 0
      BY <3>1
    <3>3. Todo!Kept(wanted[t])[0] = <<>>
      BY <3>1, KeptStep
    <3>4. ListIs(<<>>)'
      BY <2>2 DEF ListIs
    <3>. QED  BY <2>1, <2>2, <3>1, <3>2, <3>3, <3>4 DEF Written
  <2>. QED  BY <2>5, <2>6, <2>7, <2>8
<1>4. ASSUME NEW t \in TodoThreads, Todo!SkipInvalid(t)
      PROVE  ListAlone'
  <2>. SUFFICES ASSUME ~crowded'
                PROVE  (count <= capacity)' /\ OneWrites' /\ \A u \in TodoThreads : Written(u)'
    BY DEF ListAlone
  <2>1. /\ todoPc[t] \in {"add"} /\ todoPc' = [todoPc EXCEPT ![t] = "add"]
        /\ UNCHANGED <<wanted, crowded>> /\ ~crowded
    BY <1>4 DEF Todo!SkipInvalid, Todo!Next1
  <2>2. /\ todo[t] # <<>> /\ ~Head(todo[t]).valid /\ todo' = [todo EXCEPT ![t] = Tail(todo[t])]
        /\ UNCHANGED <<items, count, capacity, added, failed, rendered>>
    BY <1>4 DEF Todo!SkipInvalid
  <2>3. count <= capacity /\ OneWrites /\ \A u \in TodoThreads : Written(u)
    BY <2>1 DEF ListAlone
  <2>4. \A u \in TodoThreads \ {t} : todoPc[u] \in {"idle", "done"}
    BY <2>1, <2>3 DEF OneWrites, Todo!Running
  <2>5. OneWrites'
    BY <2>1, <2>4 DEF OneWrites, Todo!Running
  <2>6. ASSUME NEW u \in TodoThreads \ {t}  PROVE Written(u)'
    BY <2>1, <2>2, <2>3, <2>4 DEF Written
  <2>7. (count <= capacity)'
    BY <2>2, <2>3
  <2>8. Written(t)'
    <3>1. Todo!Kept(wanted[t])[Len(wanted[t]) - Len(Tail(todo[t]))] =
          Todo!Kept(wanted[t])[Len(wanted[t]) - Len(todo[t])]
      BY <2>2, KeptNext
    <3>2. todo'[t] = Tail(todo[t]) /\ wanted'[t] = wanted[t]
      BY <2>1, <2>2
    <3>3. added[t] = count /\ (~failed[t] => ListIs(Todo!Kept(wanted[t])[Len(wanted[t]) - Len(todo[t])]))
      BY <2>1, <2>3 DEF Written
    <3>. QED  BY <2>1, <2>2, <3>1, <3>2, <3>3 DEF Written, ListIs
  <2>. QED  BY <2>5, <2>6, <2>7, <2>8
<1>5. ASSUME NEW t \in TodoThreads, Todo!HasRoom(t)
      PROVE  ListAlone'
  <2>. SUFFICES ASSUME ~crowded'
                PROVE  (count <= capacity)' /\ OneWrites' /\ \A u \in TodoThreads : Written(u)'
    BY DEF ListAlone
  <2>1. /\ todoPc[t] \in {"add"} /\ todoPc' = [todoPc EXCEPT ![t] = "store"]
        /\ UNCHANGED <<wanted, crowded>> /\ ~crowded
    BY <1>5 DEF Todo!HasRoom, Todo!Next1
  <2>2. count < capacity /\ UNCHANGED <<items, count, capacity, todo, added, failed, rendered>>
    BY <1>5 DEF Todo!HasRoom
  <2>3. count <= capacity /\ OneWrites /\ \A u \in TodoThreads : Written(u)
    BY <2>1 DEF ListAlone
  <2>4. \A u \in TodoThreads \ {t} : todoPc[u] \in {"idle", "done"}
    BY <2>1, <2>3 DEF OneWrites, Todo!Running
  <2>5. OneWrites'
    BY <2>1, <2>4 DEF OneWrites, Todo!Running
  <2>6. ASSUME NEW u \in TodoThreads \ {t}  PROVE Written(u)'
    BY <2>1, <2>2, <2>3, <2>4 DEF Written
  <2>7. (count <= capacity)'
    BY <2>2, <2>3
  <2>8. Written(t)'
    BY <2>1, <2>2, <2>3 DEF Written, ListIs
  <2>. QED  BY <2>5, <2>6, <2>7, <2>8
<1>6. ASSUME NEW t \in TodoThreads, Todo!Expand(t)
      PROVE  ListAlone'
  <2>. SUFFICES ASSUME ~crowded'
                PROVE  (count <= capacity)' /\ OneWrites' /\ \A u \in TodoThreads : Written(u)'
    BY DEF ListAlone
  <2>1. /\ todoPc[t] \in {"add"} /\ todoPc' = [todoPc EXCEPT ![t] = "store"]
        /\ UNCHANGED <<wanted, crowded>> /\ ~crowded
    BY <1>6 DEF Todo!Expand, Todo!Next1
  <2>2. /\ count >= capacity /\ capacity' = 2 * capacity
        /\ items' = [i \in 1 .. 2 * capacity |-> IF i <= capacity THEN items[i] ELSE Todo!NoItem]
        /\ UNCHANGED <<count, todo, added, failed, rendered>>
    BY <1>6 DEF Todo!Expand
  <2>3. count <= capacity /\ OneWrites /\ \A u \in TodoThreads : Written(u)
    BY <2>1 DEF ListAlone
  <2>4. \A u \in TodoThreads \ {t} : todoPc[u] \in {"idle", "done"}
    BY <2>1, <2>3 DEF OneWrites, Todo!Running
  <2>5. OneWrites'
    BY <2>1, <2>4 DEF OneWrites, Todo!Running
  <2>6. ASSUME NEW u \in TodoThreads \ {t}  PROVE Written(u)'
    BY <2>1, <2>2, <2>3, <2>4 DEF Written
  <2>7. (count <= capacity)' /\ count' < capacity'
    BY <2>2, <2>3
  <2>8. Written(t)'
    <3>1. \A j \in 1 .. count : items'[j] = items[j]
      BY <2>2, <2>3
    <3>. QED  BY <2>1, <2>2, <2>3, <2>7, <3>1 DEF Written, ListIs
  <2>. QED  BY <2>5, <2>6, <2>7, <2>8
<1>7. ASSUME NEW t \in TodoThreads, Todo!AllocationFails(t)
      PROVE  ListAlone'
  <2>. SUFFICES ASSUME ~crowded'
                PROVE  (count <= capacity)' /\ OneWrites' /\ \A u \in TodoThreads : Written(u)'
    BY DEF ListAlone
  <2>1. /\ todoPc[t] \in {"add", "store"} /\ todoPc' = [todoPc EXCEPT ![t] = "add"]
        /\ UNCHANGED <<wanted, crowded>> /\ ~crowded
    BY <1>7 DEF Todo!AllocationFails, Todo!Next1
  <2>2. /\ todo' = [todo EXCEPT ![t] = Tail(todo[t])] /\ failed' = [failed EXCEPT ![t] = TRUE]
        /\ UNCHANGED <<items, count, capacity, added, rendered>>
    BY <1>7 DEF Todo!AllocationFails
  <2>3. count <= capacity /\ OneWrites /\ \A u \in TodoThreads : Written(u)
    BY <2>1 DEF ListAlone
  <2>4. \A u \in TodoThreads \ {t} : todoPc[u] \in {"idle", "done"}
    BY <2>1, <2>3 DEF OneWrites, Todo!Running
  <2>5. OneWrites'
    BY <2>1, <2>4 DEF OneWrites, Todo!Running
  <2>6. ASSUME NEW u \in TodoThreads \ {t}  PROVE Written(u)'
    BY <2>1, <2>2, <2>3, <2>4 DEF Written
  <2>7. (count <= capacity)'
    BY <2>2, <2>3
  <2>8. Written(t)'
    BY <2>1, <2>2, <2>3 DEF Written
  <2>. QED  BY <2>5, <2>6, <2>7, <2>8
<1>8. ASSUME NEW t \in TodoThreads, Todo!Store(t)
      PROVE  ListAlone'
  <2>. SUFFICES ASSUME ~crowded'
                PROVE  (count <= capacity)' /\ OneWrites' /\ \A u \in TodoThreads : Written(u)'
    BY DEF ListAlone
  <2>1. /\ todoPc[t] \in {"store"} /\ todoPc' = [todoPc EXCEPT ![t] = "count"]
        /\ UNCHANGED <<wanted, crowded>> /\ ~crowded
    BY <1>8 DEF Todo!Store, Todo!Next1
  <2>2. /\ items' = IF count < capacity THEN [items EXCEPT ![count + 1] = Head(todo[t])] ELSE items
        /\ UNCHANGED <<count, capacity, todo, added, failed, rendered>>
    BY <1>8 DEF Todo!Store
  <2>3. count <= capacity /\ OneWrites /\ \A u \in TodoThreads : Written(u)
    BY <2>1 DEF ListAlone
  <2>4. \A u \in TodoThreads \ {t} : todoPc[u] \in {"idle", "done"}
    BY <2>1, <2>3 DEF OneWrites, Todo!Running
  <2>5. OneWrites'
    BY <2>1, <2>4 DEF OneWrites, Todo!Running
  <2>6. ASSUME NEW u \in TodoThreads \ {t}  PROVE Written(u)'
    BY <2>1, <2>2, <2>3, <2>4 DEF Written
  <2>7. (count <= capacity)'
    BY <2>2, <2>3
  <2>8. Written(t)'
    <3>1. count < capacity /\ count + 1 \in 1 .. capacity
      BY <2>1, <2>3 DEF Written
    <3>2. items'[count + 1] = Head(todo[t]) /\ \A j \in 1 .. count : items'[j] = items[j]
      BY <2>2, <3>1
    <3>. QED  BY <2>1, <2>2, <2>3, <3>1, <3>2 DEF Written, ListIs
  <2>. QED  BY <2>5, <2>6, <2>7, <2>8
<1>9. ASSUME NEW t \in TodoThreads, Todo!CountItem(t)
      PROVE  ListAlone'
  <2>. SUFFICES ASSUME ~crowded'
                PROVE  (count <= capacity)' /\ OneWrites' /\ \A u \in TodoThreads : Written(u)'
    BY DEF ListAlone
  <2>1. /\ todoPc[t] \in {"count"} /\ todoPc' = [todoPc EXCEPT ![t] = "add"]
        /\ UNCHANGED <<wanted, crowded>> /\ ~crowded
    BY <1>9 DEF Todo!CountItem, Todo!Next1
  <2>2. /\ count' = count + 1 /\ added' = [added EXCEPT ![t] = added[t] + 1]
        /\ todo' = [todo EXCEPT ![t] = Tail(todo[t])] /\ UNCHANGED <<items, capacity, failed, rendered>>
    BY <1>9 DEF Todo!CountItem
  <2>3. count <= capacity /\ OneWrites /\ \A u \in TodoThreads : Written(u)
    BY <2>1 DEF ListAlone
  <2>4. \A u \in TodoThreads \ {t} : todoPc[u] \in {"idle", "done"}
    BY <2>1, <2>3 DEF OneWrites, Todo!Running
  <2>5. OneWrites'
    BY <2>1, <2>4 DEF OneWrites, Todo!Running
  <2>6. ASSUME NEW u \in TodoThreads \ {t}  PROVE Written(u)'
    BY <2>1, <2>2, <2>3, <2>4 DEF Written
  <2>7. (count <= capacity)'
    BY <2>1, <2>2, <2>3 DEF Written
  <2>8. Written(t)'
    <3>. DEFINE before == Todo!Kept(wanted[t])[Len(wanted[t]) - Len(todo[t])]  item == Head(todo[t])
    <3>1. todo[t] # <<>> /\ Head(todo[t]).valid /\ todo[t] \in Seq(TodoItems)
      BY <2>1 DEF Rest, RestOf
    <3>2. Todo!Kept(wanted[t])[Len(wanted[t]) - Len(Tail(todo[t]))] = Append(before, item)
      BY <3>1, KeptNext
    <3>3. added[t] = count /\ items[count + 1] = item /\ (~failed[t] => ListIs(before))
      BY <2>1, <2>3 DEF Written
    <3>4. item \in TodoItems
      BY <3>1
    <3>5. todo'[t] = Tail(todo[t]) /\ wanted'[t] = wanted[t] /\ failed'[t] = failed[t]
          /\ added'[t] = count + 1 /\ todoPc'[t] = "add"
      BY <2>1, <2>2, <3>3
    <3>. HIDE DEF before, item
    <3>6. ASSUME ~failed[t]
          PROVE  ListIs(Todo!Kept(wanted[t])[Len(wanted[t]) - Len(todo[t])])'
      <4>1. before \in Seq(TodoItems) /\ Len(before) = count /\ \A j \in 1 .. count : items[j] = before[j]
        BY <3>3, <3>6 DEF ListIs
      <4>2. /\ Append(before, item) \in Seq(TodoItems) /\ Len(Append(before, item)) = count + 1
            /\ Append(before, item)[count + 1] = item
            /\ \A j \in 1 .. count : Append(before, item)[j] = before[j]
        BY <3>4, <4>1
      <4>3. \A j \in 1 .. count + 1 : items[j] = Append(before, item)[j]
        <5>1. \A j \in 1 .. count + 1 : j = count + 1 \/ j \in 1 .. count
          OBVIOUS
        <5>. QED  BY <3>3, <4>1, <4>2, <5>1
      <4>4. Todo!Kept(wanted'[t])[Len(wanted'[t]) - Len(todo'[t])] = Append(before, item)
        BY <3>2, <3>5
      <4>. QED  BY <2>2, <4>2, <4>3, <4>4 DEF ListIs
    <3>. QED  BY <2>2, <3>5, <3>6 DEF Written
  <2>. QED  BY <2>5, <2>6, <2>7, <2>8
<1>10. ASSUME NEW t \in TodoThreads, Todo!Render(t)
      PROVE  ListAlone'
  <2>. SUFFICES ASSUME ~crowded'
                PROVE  (count <= capacity)' /\ OneWrites' /\ \A u \in TodoThreads : Written(u)'
    BY DEF ListAlone
  <2>1. /\ todoPc[t] \in {"add"} /\ todoPc' = [todoPc EXCEPT ![t] = "done"]
        /\ UNCHANGED <<wanted, crowded>> /\ ~crowded
    BY <1>10 DEF Todo!Render, Todo!Next1
  <2>2. /\ todo[t] = <<>>
        /\ rendered' = [rendered EXCEPT ![t] = IF count <= capacity THEN SubSeq(items, 1, count) ELSE items]
        /\ UNCHANGED <<items, count, capacity, todo, added, failed>>
    BY <1>10 DEF Todo!Render, Todo!Shown
  <2>3. count <= capacity /\ OneWrites /\ \A u \in TodoThreads : Written(u)
    BY <2>1 DEF ListAlone
  <2>4. \A u \in TodoThreads \ {t} : todoPc[u] \in {"idle", "done"}
    BY <2>1, <2>3 DEF OneWrites, Todo!Running
  <2>5. OneWrites'
    BY <2>1, <2>4 DEF OneWrites, Todo!Running
  <2>6. ASSUME NEW u \in TodoThreads \ {t}  PROVE Written(u)'
    BY <2>1, <2>2, <2>3, <2>4 DEF Written
  <2>7. (count <= capacity)'
    BY <2>2, <2>3
  <2>8. Written(t)'
    <3>. DEFINE shown == SubSeq(items, 1, count)  all == Todo!Kept(wanted[t])[Len(wanted[t])]
    <3>1. items \in Seq(TodoItems) /\ Len(items) = capacity
      OBVIOUS
    <3>2. shown \in Seq(TodoItems) /\ Len(shown) = count /\ \A j \in 1 .. count : shown[j] = items[j]
      BY <2>3, <3>1
    <3>3. Len(wanted[t]) - Len(todo[t]) = Len(wanted[t])
      BY <2>2
    <3>4. added[t] = count /\ (~failed[t] => ListIs(all))
      BY <2>1, <2>3, <3>3 DEF Written
    <3>5. rendered'[t] = shown /\ added'[t] = added[t] /\ failed'[t] = failed[t] /\ todoPc'[t] = "done"
          /\ wanted'[t] = wanted[t]
      BY <2>1, <2>2, <2>3
    <3>. HIDE DEF shown, all
    <3>6. ASSUME ~failed[t]  PROVE shown = all
      <4>1. all \in Seq(TodoItems) /\ Len(all) = count /\ \A j \in 1 .. count : items[j] = all[j]
        BY <3>4, <3>6 DEF ListIs
      <4>. QED  BY <3>2, <4>1, SeqEqual
    <3>7. Todo!Valid(wanted[t]) = all
      BY DEF Todo!Valid, all
    <3>. QED  BY <3>2, <3>4, <3>5, <3>6, <3>7 DEF Written
  <2>. QED  BY <2>5, <2>6, <2>7, <2>8
<1>11. CASE UNCHANGED todoVars
  BY <1>11 DEF todoVars, ListAlone, Written, OneWrites, Todo!Running, ListIs
<1>. QED
  BY <1>1, <1>2, <1>3, <1>4, <1>5, <1>6, <1>7, <1>8, <1>9, <1>10, <1>11
  DEF Todo!Next, Todo!Write

(* A TodoWrite that has the list to itself shows the items with a known       *)
(* status it was given, in their order, and counts them, for any number of    *)
(* threads and items, whatever allocations fail and whatever was on the list  *)
(* before; and the variables keep their types (tool_todo_write, todo.c).      *)
THEOREM ListShown ==
    ASSUME TodoBounds
    PROVE  ServicesSpec => [](Todo!TypeOK /\ Todo!ShowsWhatWasWritten)
<1>. DEFINE Inv == TodoTypes /\ Rest /\ ListAlone
<1>1. ServicesInit => Inv
  <2>. SUFFICES ASSUME Todo!Init  PROVE Inv
    BY DEF ServicesInit
  <2>1. <<>> \in Seq(TodoItems) /\ Len(<<>>) = 0
    OBVIOUS
  <2>2. Todo!NoItem \in TodoItems
    BY DEF Todo!NoItem, TodoItems
  <2>3. TodoTypes
    BY <2>1, <2>2 DEF TodoBounds, Todo!Init, TodoTypes
  <2>4. Rest
    BY <2>1 DEF TodoBounds, Todo!Init, Rest, RestOf
  <2>5. ListAlone
    BY DEF TodoBounds, Todo!Init, ListAlone, OneWrites, Written, Todo!Running
  <2>. QED  BY <2>3, <2>4, <2>5
<1>2. Inv /\ [ServicesNext]_serviceVars => Inv'
  <2>1. [ServicesNext]_serviceVars => [Todo!Next]_todoVars
    BY DEF ServicesNext, serviceVars, todoVars
  <2>. QED  BY <2>1, TodoTypesStep, RestStep, ListAloneStep
<1>3. Inv => Todo!TypeOK /\ Todo!ShowsWhatWasWritten
  <2>. SUFFICES ASSUME Inv  PROVE Todo!TypeOK /\ Todo!ShowsWhatWasWritten
    OBVIOUS
  <2>1. ASSUME NEW t \in TodoThreads
        PROVE  Len(todo[t]) <= MaxItems /\ Len(wanted[t]) <= MaxItems /\ added[t] <= MaxItems
    <3>1. /\ Len(wanted[t]) <= MaxItems /\ added[t] + Len(todo[t]) <= Len(wanted[t])
      BY DEF Rest, RestOf
    <3>2. Len(wanted[t]) \in Nat /\ Len(todo[t]) \in Nat /\ added[t] \in Nat
      BY DEF TodoTypes
    <3>. QED  BY <3>1, <3>2 DEF TodoBounds
  <2>2. Todo!TypeOK
    BY <2>1 DEF Todo!TypeOK, TodoTypes
  <2>. QED  BY <2>2 DEF ListAlone, Written, Todo!ShowsWhatWasWritten
<1>. QED  BY <1>1, <1>2, <1>3, PTL DEF ServicesSpec

-----------------------------------------------------------------------------
(* The tools that change files.                                               *)
(* strstr finds the first match there is.                                     *)
LEMMA FindFirst ==
    ASSUME NEW S, NEW s \in Seq(S), NEW pattern, Len(pattern) \in Nat, NEW i \in Nat \ {0}
    PROVE  LET at == Files!Find(s, pattern, i)
           IN  \/ at = 0 /\ \A k \in Nat : k >= i => ~Files!Matches(s, pattern, k)
               \/ /\ at \in Nat /\ i <= at /\ at <= Len(s) + 1 /\ Files!Matches(s, pattern, at)
                  /\ \A k \in Nat : i <= k /\ k < at => ~Files!Matches(s, pattern, k)
<1>. DEFINE matches == {k \in i .. Len(s) + 1 : Files!Matches(s, pattern, k)}
<1>1. Len(s) \in Nat
  OBVIOUS
<1>2. \A k \in Nat : Files!Matches(s, pattern, k) => k <= Len(s) + 1
  BY <1>1 DEF Files!Matches
<1>3. CASE matches = {}
  <2>1. Files!Find(s, pattern, i) = 0
    BY <1>3 DEF Files!Find
  <2>2. \A k \in Nat : k >= i /\ Files!Matches(s, pattern, k) => k \in matches
    BY <1>1, <1>2
  <2>. QED  BY <1>3, <2>1, <2>2
<1>4. CASE matches # {}
  <2>1. matches \subseteq Nat
    BY <1>1
  <2>. HIDE DEF matches
  <2>2. PICK k \in matches : \A other \in matches : ~(<<other, k>> \in Below)
    BY <1>4, <2>1, BelowWellFounded, WFMin, Zenon
  <2>3. \A other \in matches : k <= other
    <3>. SUFFICES ASSUME NEW other \in matches  PROVE k <= other
      OBVIOUS
    <3>1. k \in Nat /\ other \in Nat /\ ~(<<other, k>> \in Below)
      BY <2>1, <2>2
    <3>. QED  BY <3>1 DEF Below
  <2>4. PICK at : at = Files!Find(s, pattern, i)
    OBVIOUS
  <2>5. at = CHOOSE k0 \in matches : \A other \in matches : k0 <= other
    BY <1>4, <2>4 DEF Files!Find, matches
  <2>6. at \in matches /\ \A other \in matches : at <= other
    BY <2>3, <2>5
  <2>7. at \in Nat /\ at \in i .. Len(s) + 1 /\ Files!Matches(s, pattern, at)
    BY <2>1, <2>6 DEF matches
  <2>8. ASSUME NEW other \in Nat, i <= other, other < at, Files!Matches(s, pattern, other)
        PROVE  FALSE
    <3>1. other \in matches
      BY <1>1, <1>2, <2>8 DEF matches
    <3>2. at <= other
      BY <2>6, <3>1
    <3>. QED  BY <2>7, <2>8, <3>2
  <2>. QED  BY <1>1, <2>4, <2>7, <2>8
<1>. QED  BY <1>3, <1>4

(* A recursion that goes up to an end defines something.                      *)
GoesUp(g, low, N, rest, part, jump) ==
    g = [i \in low .. N |-> IF jump[i] = 0 THEN rest[i] ELSE part[i] \o g[jump[i]]]

LEMMA RecursionToEnd ==
    ASSUME NEW N \in Nat, NEW rest, NEW part, NEW jump,
           \A i \in 1 .. N : jump[i] # 0 => jump[i] \in i + 1 .. N
    PROVE  \E g : GoesUp(g, 1, N, rest, part, jump)
<1>. DEFINE S == {m \in Nat : m <= N => \E g : GoesUp(g, N - m + 1, N, rest, part, jump)}
<1>1. 0 \in S
  <2>1. \A i \in N - 0 + 1 .. N : FALSE
    OBVIOUS
  <2>2. GoesUp([i \in N - 0 + 1 .. N |-> 0], N - 0 + 1, N, rest, part, jump)
    BY <2>1 DEF GoesUp
  <2>. QED  BY <2>2
<1>2. ASSUME NEW m \in Nat, m \in S  PROVE m + 1 \in S
  <2>. SUFFICES ASSUME m + 1 <= N
                PROVE  \E g : GoesUp(g, N - (m + 1) + 1, N, rest, part, jump)
    OBVIOUS
  <2>1. PICK g : GoesUp(g, N - m + 1, N, rest, part, jump)
    BY <1>2
  <2>. DEFINE low == N - m
              new == IF jump[low] = 0 THEN rest[low] ELSE part[low] \o g[jump[low]]
              more == [i \in low .. N |-> IF i = low THEN new ELSE g[i]]
  <2>2. low \in 1 .. N /\ N - (m + 1) + 1 = low /\ N - m + 1 = low + 1
    OBVIOUS
  <2>. HIDE DEF low
  <2>3. \A i \in low + 1 .. N : g[i] = IF jump[i] = 0 THEN rest[i] ELSE part[i] \o g[jump[i]]
    BY <2>1, <2>2 DEF GoesUp
  <2>4. ASSUME NEW i \in low .. N
        PROVE  more[i] = IF jump[i] = 0 THEN rest[i] ELSE part[i] \o more[jump[i]]
    <3>1. i \in 1 .. N
      BY <2>2
    <3>2. jump[i] # 0 => more[jump[i]] = g[jump[i]]
      <4>1. jump[i] # 0 => jump[i] \in i + 1 .. N
        BY <3>1
      <4>2. jump[i] # 0 => jump[i] \in low .. N /\ jump[i] # low
        BY <2>2, <4>1
      <4>. QED  BY <4>2
    <3>3. CASE i = low
      BY <2>2, <3>2, <3>3
    <3>4. CASE i # low
      <4>1. i \in low + 1 .. N
        BY <2>2, <3>4
      <4>. QED  BY <2>3, <3>2, <3>4, <4>1
    <3>. QED  BY <3>3, <3>4
  <2>5. GoesUp(more, N - (m + 1) + 1, N, rest, part, jump)
    <3>1. more = [i \in low .. N |-> IF jump[i] = 0 THEN rest[i] ELSE part[i] \o more[jump[i]]]
      BY <2>4
    <3>. QED  BY <2>2, <3>1 DEF GoesUp
  <2>. QED  BY <2>5
<1>. HIDE DEF S
<1>3. N \in S
  BY <1>1, <1>2, AllNaturals
<1>4. PICK g : GoesUp(g, N - N + 1, N, rest, part, jump)
  BY <1>3 DEF S
<1>5. N - N + 1 = 1
  OBVIOUS
<1>. QED  BY <1>4, <1>5

(* What find_last_occurrence and regex_find_pos have seen from a place on:    *)
(* matches, the first of which is the first there is, and no match behind the *)
(* last of them.                                                              *)
Listed(q, s, pattern, i) ==
    /\ q \in Seq(Nat) /\ \A n \in 1 .. Len(q) : Files!Matches(s, pattern, q[n])
    /\ q = <<>> => \A k \in Nat : k >= i => ~Files!Matches(s, pattern, k)
    /\ q # <<>> =>
          /\ \A k \in Nat : i <= k /\ k < q[1] => ~Files!Matches(s, pattern, k)
          /\ \A k \in Nat : k >= q[Len(q)] + Len(pattern) => ~Files!Matches(s, pattern, k)

LEMMA ListedNext ==
    ASSUME NEW s, NEW pattern, Len(pattern) \in Nat, NEW i \in Nat, NEW at \in Nat, i <= at,
           Files!Matches(s, pattern, at),
           \A k \in Nat : i <= k /\ k < at => ~Files!Matches(s, pattern, k),
           NEW q, Listed(q, s, pattern, at + Len(pattern))
    PROVE  Listed(<<at>> \o q, s, pattern, i)
<1>1. q \in Seq(Nat)
  BY DEF Listed
<1>2. PICK all : all = <<at>> \o q
  OBVIOUS
<1>3. all \in Seq(Nat) /\ Len(all) = Len(q) + 1 /\ all[1] = at /\ Len(q) \in Nat
  BY <1>1, <1>2
<1>4. \A n \in 1 .. Len(q) : all[n + 1] = q[n]
  BY <1>1, <1>2
<1>5. ASSUME NEW n \in 1 .. Len(all)  PROVE Files!Matches(s, pattern, all[n])
  <2>1. CASE n = 1
    BY <1>3, <2>1
  <2>2. CASE n # 1
    <3>1. n - 1 \in 1 .. Len(q) /\ (n - 1) + 1 = n
      BY <1>3, <2>2
    <3>2. all[n] = q[n - 1]
      BY <1>4, <3>1
    <3>. QED  BY <3>1, <3>2 DEF Listed
  <2>. QED  BY <2>1, <2>2
<1>6. all # <<>>
  BY <1>3
<1>7. ASSUME NEW k \in Nat, k >= all[Len(all)] + Len(pattern)
      PROVE  ~Files!Matches(s, pattern, k)
  <2>1. CASE q = <<>>
    <3>1. all[Len(all)] = at
      BY <1>3, <2>1
    <3>. QED  BY <1>7, <2>1, <3>1 DEF Listed
  <2>2. CASE q # <<>>
    <3>1. Len(q) \in 1 .. Len(q) /\ Len(q) + 1 = Len(all)
      BY <1>1, <1>3, <2>2
    <3>2. all[Len(all)] = q[Len(q)]
      BY <1>4, <3>1
    <3>. QED  BY <1>7, <2>2, <3>2 DEF Listed
  <2>. QED  BY <2>1, <2>2
<1>8. Listed(all, s, pattern, i)
  BY <1>3, <1>5, <1>6, <1>7 DEF Listed
<1>. QED  BY <1>2, <1>8

LEMMA OccurrencesListed ==
    ASSUME NEW S, NEW s \in Seq(S), NEW P, NEW pattern \in Seq(P), pattern # <<>>
    PROVE  Listed(Files!Occurrences(s, pattern), s, pattern, 1)
<1>. DEFINE N == Len(s) + 1  L == Len(pattern)
            Is(from) == from = [i \in 1 .. N |->
                LET at == Files!Find(s, pattern, i)
                IN  IF at = 0 THEN <<>> ELSE <<at>> \o from[at + Len(pattern)]]
<1>1. N \in Nat /\ L \in Nat \ {0} /\ 1 \in 1 .. N /\ Len(s) \in Nat
  OBVIOUS
<1>2. Files!Occurrences(s, pattern) = (CHOOSE from : Is(from))[1]
  BY DEF Files!Occurrences
<1>3. \A i \in 1 .. N : Files!Find(s, pattern, i) # 0 =>
         /\ Files!Find(s, pattern, i) \in Nat /\ i <= Files!Find(s, pattern, i)
         /\ Files!Find(s, pattern, i) + L \in i + 1 .. N
  <2>. SUFFICES ASSUME NEW i \in 1 .. N, NEW at, at = Files!Find(s, pattern, i), at # 0
                PROVE  at \in Nat /\ i <= at /\ at + L \in i + 1 .. N
    OBVIOUS
  <2>1. at \in Nat /\ i <= at /\ Files!Matches(s, pattern, at)
    BY <1>1, FindFirst
  <2>2. at + L - 1 <= Len(s)
    BY <2>1 DEF Files!Matches
  <2>. QED  BY <1>1, <2>1, <2>2
<1>4. \E from : Is(from)
  <2>. DEFINE rest == [i \in 1 .. N |-> <<>>]
              part == [i \in 1 .. N |-> <<Files!Find(s, pattern, i)>>]
              jump == [i \in 1 .. N |-> IF Files!Find(s, pattern, i) = 0 THEN 0
                                        ELSE Files!Find(s, pattern, i) + L]
  <2>1. \A i \in 1 .. N : jump[i] # 0 => jump[i] \in i + 1 .. N
    BY <1>3
  <2>2. \A i \in 1 .. N : /\ rest[i] = <<>> /\ part[i] = <<Files!Find(s, pattern, i)>>
                          /\ jump[i] = 0 <=> Files!Find(s, pattern, i) = 0
                          /\ jump[i] # 0 => jump[i] = Files!Find(s, pattern, i) + L
    <3>. SUFFICES ASSUME NEW i \in 1 .. N, NEW at, at = Files!Find(s, pattern, i),
                         at # 0 => at \in Nat
                  PROVE  /\ rest[i] = <<>> /\ part[i] = <<at>> /\ jump[i] = 0 <=> at = 0
                         /\ jump[i] # 0 => jump[i] = at + L
      BY <1>3
    <3>. QED  BY <1>1
  <2>. HIDE DEF rest, part, jump, N, L
  <2>3. PICK g : GoesUp(g, 1, N, rest, part, jump)
    BY <1>1, <2>1, RecursionToEnd
  <2>4. Is(g)
    BY <2>2, <2>3, Zenon DEF GoesUp, L
  <2>. QED  BY <2>4
<1>5. PICK from : Is(from) /\ Files!Occurrences(s, pattern) = from[1]
  BY <1>2, <1>4, Zenon
<1>6. \A i \in 1 .. N :
         LET at == Files!Find(s, pattern, i)
         IN  from[i] = IF at = 0 THEN <<>> ELSE <<at>> \o from[at + Len(pattern)]
  BY <1>5
<1>. DEFINE Done == {m \in Nat : \A i \in 1 .. N : i > N - m => Listed(from[i], s, pattern, i)}
<1>7. 0 \in Done
  BY <1>1
<1>8. ASSUME NEW m \in Nat, m \in Done  PROVE m + 1 \in Done
  <2>. SUFFICES ASSUME NEW i \in 1 .. N, i > N - (m + 1)  PROVE Listed(from[i], s, pattern, i)
    OBVIOUS
  <2>1. PICK at : at = Files!Find(s, pattern, i)
    OBVIOUS
  <2>2. i \in Nat \ {0}
    BY <1>1
  <2>3. \/ at = 0 /\ \A k \in Nat : k >= i => ~Files!Matches(s, pattern, k)
        \/ /\ at \in Nat /\ i <= at /\ at <= Len(s) + 1 /\ Files!Matches(s, pattern, at)
           /\ \A k \in Nat : i <= k /\ k < at => ~Files!Matches(s, pattern, k)
    BY <1>1, <2>1, <2>2, FindFirst
  <2>4. from[i] = IF at = 0 THEN <<>> ELSE <<at>> \o from[at + L]
    BY <1>6, <2>1
  <2>5. CASE at = 0
    <3>1. \A k \in Nat : k >= i => ~Files!Matches(s, pattern, k)
      BY <2>2, <2>3, <2>5
    <3>2. from[i] = <<>> /\ <<>> \in Seq(Nat) /\ Len(<<>>) = 0
      BY <2>4, <2>5
    <3>. QED  BY <3>1, <3>2 DEF Listed
  <2>6. CASE at # 0
    <3>1. at + L \in 1 .. N /\ at + L > N - m
      <4>1. at + L \in i + 1 .. N
        BY <1>3, <2>1, <2>6
      <4>. QED  BY <1>1, <4>1
    <3>2. Listed(from[at + L], s, pattern, at + L)
      BY <1>8, <3>1
    <3>3. Listed(<<at>> \o from[at + L], s, pattern, i)
      BY <1>1, <2>2, <2>3, <2>6, <3>2, ListedNext
    <3>. QED  BY <2>4, <2>6, <3>3
  <2>. QED  BY <2>5, <2>6
<1>. HIDE DEF Done
<1>9. N \in Done
  BY <1>1, <1>7, <1>8, AllNaturals
<1>10. 1 > N - N
  BY <1>1
<1>. QED  BY <1>1, <1>5, <1>9, <1>10 DEF Done

(* A text is another one with matches taken out and a line put in, if there   *)
(* is a walk over both: by the pattern's length where the line is, by one     *)
(* elsewhere.                                                                 *)
Walk(st, before, after, line, pattern, i) ==
    /\ st \in [0 .. Len(after) -> Nat] /\ st[0] = i /\ st[Len(after)] = Len(before) + 1
    /\ \A j \in 1 .. Len(after) :
          /\ st[j] = st[j - 1] + (IF after[j] = line THEN Len(pattern) ELSE 1)
          /\ IF after[j] = line THEN Files!Matches(before, pattern, st[j - 1])
             ELSE before[st[j - 1]] = after[j]

LEMMA WalkTakesBack ==
    ASSUME NEW before, NEW S, NEW after \in Seq(S), NEW line, NEW pattern,
           NEW st, Walk(st, before, after, line, pattern, 1)
    PROVE  Files!TakenBack(before, after, line, pattern)
<1>. DEFINE N == Len(after)
            Is(start) == start = [i \in 0 .. Len(after) |->
                IF i = 0 THEN 1
                ELSE start[i - 1] + (IF after[i] = line THEN Len(pattern) ELSE 1)]
<1>1. N \in Nat /\ DOMAIN after = 1 .. N
  OBVIOUS
<1>. HIDE DEF N
<1>2. Is(st)
  <2>1. st = [i \in 0 .. Len(after) |-> st[i]]
    BY DEF Walk
  <2>2. ASSUME NEW i \in 0 .. Len(after)
        PROVE  st[i] = IF i = 0 THEN 1 ELSE st[i - 1] + (IF after[i] = line THEN Len(pattern) ELSE 1)
    <3>1. i = 0 \/ i \in 1 .. Len(after)
      BY <1>1 DEF N
    <3>. QED  BY <3>1 DEF Walk
  <2>. QED  BY <2>1, <2>2
<1>3. PICK start : start = CHOOSE g : Is(g)
  OBVIOUS
<1>4. Is(start)
  BY <1>2, <1>3, Zenon
<1>. DEFINE Same == {m \in Nat : m <= N => start[m] = st[m]}
<1>5. 0 \in Same
  <2>1. 0 \in 0 .. Len(after)
    BY <1>1 DEF N
  <2>2. start[0] = 1
    BY <1>4, <2>1
  <2>. QED  BY <2>2 DEF Walk
<1>6. ASSUME NEW m \in Nat, m \in Same  PROVE m + 1 \in Same
  <2>. SUFFICES ASSUME m + 1 <= N  PROVE start[m + 1] = st[m + 1]
    OBVIOUS
  <2>1. m + 1 \in 0 .. Len(after) /\ m + 1 \in 1 .. Len(after) /\ m + 1 # 0 /\ (m + 1) - 1 = m /\ m <= N
    BY <1>1 DEF N
  <2>2. start[m] = st[m]
    BY <1>6, <2>1
  <2>3. start[m + 1] = start[m] + (IF after[m + 1] = line THEN Len(pattern) ELSE 1)
    BY <1>4, <2>1
  <2>4. st[m + 1] = st[m] + (IF after[m + 1] = line THEN Len(pattern) ELSE 1)
    <3>1. st[m + 1] = st[(m + 1) - 1] + (IF after[m + 1] = line THEN Len(pattern) ELSE 1)
      BY <2>1, Zenon DEF Walk
    <3>. QED  BY <2>1, <3>1
  <2>. QED  BY <2>2, <2>3, <2>4
<1>. HIDE DEF Same
<1>7. \A m \in Nat : m \in Same
  BY <1>5, <1>6, AllNaturals
<1>8. \A m \in 0 .. N : start[m] = st[m]
  BY <1>1, <1>7 DEF Same
<1>9. start[Len(after)] = Len(before) + 1
  BY <1>1, <1>8 DEF N, Walk
<1>10. ASSUME NEW i \in DOMAIN after
       PROVE  IF after[i] = line THEN Files!Matches(before, pattern, start[i - 1])
              ELSE before[start[i - 1]] = after[i]
  <2>1. i \in 1 .. Len(after) /\ i - 1 \in 0 .. N
    BY <1>1 DEF N
  <2>2. start[i - 1] = st[i - 1]
    BY <1>8, <2>1
  <2>. QED  BY <2>1, <2>2, Zenon DEF Walk
<1>. QED  BY <1>3, <1>9, <1>10, Zenon DEF Files!TakenBack

LEMMA Concatenated ==
    ASSUME NEW S, NEW p \in Seq(S), NEW q \in Seq(S), NEW both, both = p \o q
    PROVE  /\ both \in Seq(S) /\ Len(both) = Len(p) + Len(q) /\ Len(p) \in Nat /\ Len(q) \in Nat
           /\ \A i \in 1 .. Len(p) : both[i] = p[i]
           /\ \A i \in 1 .. Len(q) : both[Len(p) + i] = q[i]
           /\ \A i \in Len(p) + 1 .. Len(both) : i - Len(p) \in 1 .. Len(q) /\ both[i] = q[i - Len(p)]
<1>1. Len(p) \in Nat /\ Len(q) \in Nat
  OBVIOUS
<1>2. both \in Seq(S) /\ Len(both) = Len(p) + Len(q)
  BY ConcatProperties
<1>3. \A i \in 1 .. Len(p) : both[i] = p[i]
  OBVIOUS
<1>4. \A i \in 1 .. Len(q) : both[Len(p) + i] = q[i]
  OBVIOUS
<1>5. \A i \in Len(p) + 1 .. Len(both) : i - Len(p) \in 1 .. Len(q) /\ Len(p) + (i - Len(p)) = i
  BY <1>1, <1>2
<1>. QED  BY <1>1, <1>2, <1>3, <1>4, <1>5

(* One line put where a match was, at a place given by its position.          *)
Spliced(before, at, line, taken) ==
    SubSeq(before, 1, at - 1) \o <<line>> \o SubSeq(before, at + taken, Len(before))

Exchanged(S, before, line, pattern, at, after) ==
    /\ before \in Seq(S) /\ line \notin S /\ Len(pattern) \in Nat
    /\ at \in Nat \ {0} /\ at + Len(pattern) <= Len(before) + 1
    /\ Files!Matches(before, pattern, at) /\ after = Spliced(before, at, line, Len(pattern))

OneMade(S, before, line, pattern, at, after) ==
    /\ after \in Seq(S \cup {line}) /\ at \in DOMAIN after
    /\ Len(after) = Len(before) - Len(pattern) + 1
    /\ Files!Places(after, line) = {at}
    /\ Files!TakenBack(before, after, line, pattern)

LEMMA OneTakenBack ==
    ASSUME NEW S, NEW before, NEW line, NEW pattern, NEW at, NEW after,
           Exchanged(S, before, line, pattern, at, after)
    PROVE  OneMade(S, before, line, pattern, at, after)
<1>0. /\ before \in Seq(S) /\ line \notin S /\ Len(pattern) \in Nat
      /\ at \in Nat \ {0} /\ at + Len(pattern) <= Len(before) + 1
      /\ Files!Matches(before, pattern, at) /\ after = Spliced(before, at, line, Len(pattern))
  BY DEF Exchanged
<1>. USE <1>0
<1>1. PICK L, N, M, T : /\ L = Len(pattern) /\ N = Len(before) /\ M = Len(after)
                        /\ T = S \cup {line} /\ L \in Nat /\ N \in Nat
  <2>1. Len(before) \in Nat
    OBVIOUS
  <2>. QED  BY <2>1, Zenon
<1>2. PICK head, last : head = SubSeq(before, 1, at - 1) /\ last = SubSeq(before, at + L, N)
  OBVIOUS
<1>3. at - 1 \in Nat /\ at \in Nat /\ at - 1 <= N /\ at + L \in 1 .. N + 1 /\ N \in 0 .. N
  BY <1>1
<1>4. /\ head \in Seq(S) /\ Len(head) = at - 1
      /\ \A i \in 1 .. at - 1 : head[i] = before[i]
  BY <1>1, <1>2, <1>3
<1>5. /\ last \in Seq(S) /\ Len(last) = N - (at + L) + 1
      /\ \A i \in 1 .. N - (at + L) + 1 : last[i] = before[at + L + i - 1]
  <2>1. PICK low \in 1 .. N + 1 : low = at + L
    BY <1>3
  <2>2. last = SubSeq(before, low, Len(before)) /\ Len(before) = N
    BY <1>1, <1>2, <2>1
  <2>3. last \in Seq(S) /\ Len(last) = N - low + 1
    BY <1>1, <2>1, <2>2
  <2>4. \A i \in 1 .. N - low + 1 : last[i] = before[low + i - 1]
    BY <1>1, <2>1, <2>2
  <2>. QED  BY <2>1, <2>3, <2>4
<1>6. head \in Seq(T) /\ last \in Seq(T) /\ <<line>> \in Seq(T) /\ Len(<<line>>) = 1 /\ <<line>>[1] = line
  BY <1>1, <1>4, <1>5
<1>7. PICK some : some = head \o <<line>>
  OBVIOUS
<1>8. /\ some \in Seq(T) /\ Len(some) = at /\ some[at] = line
      /\ \A i \in 1 .. at - 1 : some[i] = before[i]
  <2>1. PICK one : one = <<line>>
    OBVIOUS
  <2>0. /\ some \in Seq(T) /\ Len(some) = Len(head) + Len(one)
        /\ \A i \in 1 .. Len(head) : some[i] = head[i]
        /\ \A i \in 1 .. Len(one) : some[Len(head) + i] = one[i]
    BY <1>6, <1>7, <2>1, Concatenated
  <2>2. /\ some \in Seq(T) /\ Len(some) = (at - 1) + 1 /\ \A i \in 1 .. at - 1 : some[i] = head[i]
        /\ \A i \in 1 .. 1 : some[(at - 1) + i] = one[i]
    BY <1>4, <1>6, <2>0, <2>1, Zenon
  <2>3. (at - 1) + 1 = at /\ 1 \in 1 .. 1
    BY <1>3
  <2>4. some[(at - 1) + 1] = one[1]
    BY <2>2, <2>3
  <2>. QED  BY <1>4, <1>6, <2>1, <2>2, <2>3, <2>4
<1>9. after = some \o last
  BY <1>1, <1>2, <1>7 DEF Spliced
<1>10. /\ after \in Seq(T) /\ M = at + Len(last)
       /\ \A i \in 1 .. at : after[i] = some[i]
       /\ \A i \in at + 1 .. M : i - at \in 1 .. Len(last) /\ after[i] = last[i - at]
  <2>1. /\ after \in Seq(T) /\ Len(after) = Len(some) + Len(last)
        /\ \A i \in 1 .. Len(some) : after[i] = some[i]
        /\ \A i \in Len(some) + 1 .. Len(after) :
              i - Len(some) \in 1 .. Len(last) /\ after[i] = last[i - Len(some)]
    <3>1. some \in Seq(T) /\ last \in Seq(T)
      BY <1>6, <1>8
    <3>2. /\ after \in Seq(T) /\ Len(after) = Len(some) + Len(last)
          /\ \A i \in 1 .. Len(some) : after[i] = some[i]
      BY <1>9, <3>1, Concatenated
    <3>3. \A i \in Len(some) + 1 .. Len(after) :
             i - Len(some) \in 1 .. Len(last) /\ after[i] = last[i - Len(some)]
      BY <1>9, <3>1, Concatenated
    <3>. QED  BY <3>2, <3>3
  <2>. QED  BY <1>1, <1>8, <2>1, Zenon
<1>11. M = N - L + 1 /\ M \in Nat /\ at \in 1 .. M
  BY <1>1, <1>3, <1>5, <1>10
<1>12. \A i \in 1 .. at - 1 : after[i] = before[i] /\ before[i] \in S
  <2>1. \A i \in 1 .. at - 1 : i \in 1 .. at /\ i \in 1 .. Len(before)
    BY <1>1, <1>3
  <2>. QED  BY <1>8, <1>10, <2>1
<1>13. \A i \in at + 1 .. M : after[i] = before[i - 1 + L] /\ before[i - 1 + L] \in S
  <2>1. \A i \in at + 1 .. M : /\ i - at \in 1 .. N - (at + L) + 1 /\ i - 1 + L \in 1 .. Len(before)
                               /\ at + L + (i - at) - 1 = i - 1 + L
    BY <1>1, <1>3, <1>10, <1>11
  <2>. QED  BY <1>5, <1>10, <2>1
<1>14. after[at] = line
  BY <1>3, <1>8, <1>10, <1>11
<1>15. \A i \in 1 .. M : i \in 1 .. at - 1 \/ i = at \/ i \in at + 1 .. M
  BY <1>3, <1>11
<1>16. \A i \in 1 .. M : after[i] = line <=> i = at
  <2>. SUFFICES ASSUME NEW i \in 1 .. M  PROVE after[i] = line <=> i = at
    OBVIOUS
  <2>1. CASE i \in 1 .. at - 1
    <3>1. i # at
      BY <1>3, <2>1
    <3>. QED  BY <1>12, <2>1, <3>1
  <2>2. CASE i = at
    BY <1>14, <2>2
  <2>3. CASE i \in at + 1 .. M
    <3>1. i # at
      BY <1>1, <1>11, <2>3
    <3>. QED  BY <1>13, <2>3, <3>1
  <2>. QED  BY <1>15, <2>1, <2>2, <2>3
<1>17. DOMAIN after = 1 .. M
  <2>1. after \in Seq(T)
    BY <1>10
  <2>. QED  BY <1>1, <2>1, LenProperties, Zenon
<1>18. Files!Places(after, line) = {at}
  <2>1. Files!Places(after, line) = {i \in 1 .. M : after[i] = line}
    BY <1>17 DEF Files!Places
  <2>2. {i \in 1 .. M : after[i] = line} = {at}
    BY <1>11, <1>16
  <2>. QED  BY <2>1, <2>2
<1>19. Files!TakenBack(before, after, line, pattern)
  <2>. DEFINE st == [i \in 0 .. M |-> IF i < at THEN i + 1 ELSE i + L]
  <2>1. st \in [0 .. M -> Nat] /\ st[0] = 1 /\ st[M] = N + 1
    <3>1. M \in Nat /\ at \in Nat \ {0} /\ L \in Nat /\ M + L = N + 1 /\ at <= M
      BY <1>1, <1>3, <1>11
    <3>2. 0 \in 0 .. M /\ M \in 0 .. M /\ 0 < at /\ 0 + 1 = 1
      BY <3>1
    <3>3. \A i \in 0 .. M : i + 1 \in Nat /\ i + L \in Nat
      BY <3>1
    <3>4. st[0] = 1
      BY <3>2
    <3>5. st[M] = N + 1
      <4>1. CASE M < at
        <5>1. FALSE
          BY <3>1, <4>1
        <5>. QED  BY <5>1
      <4>2. CASE ~(M < at)
        BY <3>1, <3>2, <4>2
      <4>. QED  BY <4>1, <4>2
    <3>. QED  BY <3>3, <3>4, <3>5
  <2>2. ASSUME NEW j \in 1 .. M
        PROVE  /\ st[j] = st[j - 1] + (IF after[j] = line THEN L ELSE 1)
               /\ IF after[j] = line THEN Files!Matches(before, pattern, st[j - 1])
                  ELSE before[st[j - 1]] = after[j]
    <3>1. j \in 0 .. M /\ j - 1 \in 0 .. M /\ j \in Nat /\ M \in Nat
      BY <1>11
    <3>2. CASE j \in 1 .. at - 1
      <4>1. st[j] = j + 1 /\ st[j - 1] = (j - 1) + 1 /\ (j - 1) + 1 = j /\ j # at
        BY <1>1, <3>1, <3>2
      <4>. QED  BY <1>12, <1>16, <3>2, <4>1
    <3>3. CASE j = at
      <4>1. st[j] = at + L /\ st[j - 1] = at
        BY <1>1, <3>1, <3>3
      <4>. QED  BY <1>16, <3>3, <4>1
    <3>4. CASE j \in at + 1 .. M
      <4>1. st[j] = j + L /\ st[j - 1] = (j - 1) + L /\ (j - 1) + L = j - 1 + L /\ j # at
            /\ j + L = ((j - 1) + L) + 1
        BY <1>1, <3>1, <3>4
      <4>. QED  BY <1>13, <1>16, <3>4, <4>1
    <3>. QED  BY <1>15, <3>2, <3>3, <3>4
  <2>. HIDE DEF st
  <2>3. Walk(st, before, after, line, pattern, 1)
    BY <1>1, <2>1, <2>2 DEF Walk
  <2>. QED  BY <1>10, <2>3, WalkTakesBack
<1>20. at \in DOMAIN after /\ Len(after) = Len(before) - Len(pattern) + 1
  BY <1>1, <1>11, <1>17, Zenon
<1>. QED  BY <1>1, <1>10, <1>18, <1>19, <1>20, Zenon DEF OneMade

(* What str_replace_all makes of the text from a place on: the text with every*)
(* match replaced, and none left.                                             *)
Remade(r, S, s, line, pattern, i) ==
    /\ r \in Seq(S \cup {line}) /\ \E st : Walk(st, s, r, line, pattern, i)
    /\ \A j \in 1 .. Len(r) : ~Files!Matches(r, pattern, j)
    /\ Files!Find(s, pattern, i) # 0 => \E j \in 1 .. Len(r) : r[j] = line

Unmatched(s, pattern, from, to) ==
    \A k \in Nat : from <= k /\ k < to => ~Files!Matches(s, pattern, k)

(* r is h lines of s from i on, the line, and q.                              *)
Joined(r, s, i, h, line, q) ==
    /\ Len(r) = h + 1 + Len(q) /\ r[h + 1] = line
    /\ \A j \in 1 .. h : r[j] = s[i + j - 1]
    /\ \A j \in 1 .. Len(q) : r[h + 1 + j] = q[j]

LEMMA MatchesAt ==
    ASSUME NEW s, NEW P, NEW pattern \in Seq(P), NEW k, NEW N, NEW L, N = Len(s), L = Len(pattern)
    PROVE  Files!Matches(s, pattern, k) <=>
              /\ k >= 1 /\ k + L - 1 <= N
              /\ \A n \in 1 .. L : s[k + n - 1] \in pattern[n]
<1>1. DOMAIN pattern = 1 .. L
  OBVIOUS
<1>. QED  BY <1>1, Zenon DEF Files!Matches

LEMMA RemadeRest ==
    ASSUME NEW S, NEW s \in Seq(S), NEW line, line \notin S, NEW P, NEW pattern \in Seq(P),
           NEW i \in 1 .. Len(s) + 1, Files!Find(s, pattern, i) = 0,
           Unmatched(s, pattern, i, Len(s) + 2),
           NEW r \in Seq(S), Len(r) = Len(s) - i + 1, \A j \in 1 .. Len(r) : r[j] = s[i + j - 1]
    PROVE  Remade(r, S, s, line, pattern, i)
<1>1. PICK N, M, L : /\ N = Len(s) /\ M = Len(r) /\ L = Len(pattern)
                     /\ N \in Nat /\ M \in Nat /\ L \in Nat
  <2>1. Len(s) \in Nat /\ Len(r) \in Nat /\ Len(pattern) \in Nat
    OBVIOUS
  <2>. QED  BY <2>1
<1>2. i \in Nat \ {0} /\ M = N - i + 1 /\ DOMAIN pattern = 1 .. L
  BY <1>1
<1>3. \A j \in 1 .. M : r[j] # line /\ r[j] = s[i + j - 1]
  <2>1. \A j \in 1 .. M : r[j] \in S
    BY <1>1
  <2>. QED  BY <1>1, <2>1
<1>. DEFINE st == [j \in 0 .. M |-> i + j]
<1>4. Walk(st, s, r, line, pattern, i)
  <2>1. st \in [0 .. M -> Nat] /\ st[0] = i /\ st[M] = N + 1
    BY <1>1, <1>2
  <2>2. \A j \in 1 .. M : st[j] = st[j - 1] + 1 /\ st[j - 1] = i + j - 1
    <3>. SUFFICES ASSUME NEW j \in 1 .. M  PROVE st[j] = st[j - 1] + 1 /\ st[j - 1] = i + j - 1
      OBVIOUS
    <3>1. j \in 0 .. M /\ j - 1 \in 0 .. M /\ j \in Nat
      BY <1>1
    <3>2. st[j] = i + j /\ st[j - 1] = i + (j - 1)
      BY <3>1
    <3>. QED  BY <1>2, <3>1, <3>2
  <2>. HIDE DEF st
  <2>. QED  BY <1>1, <1>3, <2>1, <2>2 DEF Walk
<1>5. ASSUME NEW j \in 1 .. M, Files!Matches(r, pattern, j)  PROVE FALSE
  <2>1. /\ j \in Nat /\ j + L - 1 <= M
        /\ \A n \in 1 .. L : r[j + n - 1] \in pattern[n]
    <3>1. /\ j + L - 1 <= M
          /\ \A n \in 1 .. L : r[j + n - 1] \in pattern[n]
      BY <1>1, <1>5, MatchesAt, Zenon
    <3>. QED  BY <1>1, <3>1
  <2>2. i + j - 1 \in Nat /\ i + j - 1 >= i /\ i + j - 1 >= 1 /\ (i + j - 1) + L - 1 <= N
    BY <1>1, <1>2, <1>5, <2>1
  <2>3. \A n \in 1 .. L : s[(i + j - 1) + n - 1] \in pattern[n]
    <3>. SUFFICES ASSUME NEW n \in 1 .. L  PROVE s[(i + j - 1) + n - 1] \in pattern[n]
      OBVIOUS
    <3>1. j + n - 1 \in 1 .. M /\ i + (j + n - 1) - 1 = (i + j - 1) + n - 1
      BY <1>1, <1>2, <1>5, <2>1
    <3>. QED  BY <1>3, <2>1, <3>1
  <2>4. Files!Matches(s, pattern, i + j - 1)
    <3>1. PICK k : k = i + j - 1
      OBVIOUS
    <3>2. k >= 1 /\ k + L - 1 <= N /\ \A n \in 1 .. L : s[k + n - 1] \in pattern[n]
      BY <2>2, <2>3, <3>1
    <3>. QED  BY <1>1, <3>1, <3>2, MatchesAt
  <2>5. i + j - 1 < N + 2
    BY <1>1, <1>2, <2>2
  <2>. QED  BY <1>1, <2>2, <2>4, <2>5 DEF Unmatched
<1>. HIDE DEF st
<1>6. r \in Seq(S \cup {line})
  OBVIOUS
<1>. QED  BY <1>1, <1>4, <1>5, <1>6 DEF Remade

LEMMA RemadeNext ==
    ASSUME NEW S, NEW s \in Seq(S), NEW line, line \notin S, NEW pattern \in Seq(SUBSET S),
           pattern # <<>>,
           NEW i \in Nat \ {0}, NEW at \in Nat, i <= at, at <= Len(s) + 1,
           Files!Matches(s, pattern, at),
           Unmatched(s, pattern, i, at),
           NEW q, Remade(q, S, s, line, pattern, at + Len(pattern)),
           NEW h \in Nat, h = at - i,
           NEW r \in Seq(S \cup {line}), Joined(r, s, i, h, line, q)
    PROVE  Remade(r, S, s, line, pattern, i)
<1>1. PICK N, M, Q, L : /\ N = Len(s) /\ M = Len(r) /\ Q = Len(q) /\ L = Len(pattern)
                        /\ N \in Nat /\ M \in Nat /\ Q \in Nat /\ L \in Nat \ {0}
  <2>1. q \in Seq(S \cup {line})
    BY DEF Remade
  <2>2. Len(s) \in Nat /\ Len(r) \in Nat /\ Len(q) \in Nat /\ Len(pattern) \in Nat \ {0}
    BY <2>1
  <2>. QED  BY <2>2
<1>2. /\ M = h + 1 + Q /\ h + i = at /\ at <= N + 1 /\ r[h + 1] = line
      /\ \A j \in 1 .. h : r[j] = s[i + j - 1]
      /\ \A j \in 1 .. Q : r[h + 1 + j] = q[j]
  BY <1>1 DEF Joined
<1>20. M = h + 1 + Q /\ h + i = at /\ at <= N + 1
  BY <1>2
<1>3. \A n \in 1 .. L : line \notin pattern[n]
  <2>1. \A n \in 1 .. L : pattern[n] \in SUBSET S
    BY <1>1
  <2>. QED  BY <2>1
<1>4. \A j \in 1 .. h : r[j] # line
  <2>1. \A j \in 1 .. h : i + j - 1 \in 1 .. N
    BY <1>1, <1>2
  <2>2. \A j \in 1 .. N : s[j] \in S
    BY <1>1
  <2>. QED  BY <1>2, <2>1, <2>2
<1>5. PICK old : Walk(old, s, q, line, pattern, at + L)
  BY <1>1 DEF Remade
<1>6. /\ old \in [0 .. Q -> Nat] /\ old[0] = at + L /\ old[Q] = N + 1
      /\ \A j \in 1 .. Q :
            /\ old[j] = old[j - 1] + (IF q[j] = line THEN L ELSE 1)
            /\ IF q[j] = line THEN Files!Matches(s, pattern, old[j - 1])
               ELSE s[old[j - 1]] = q[j]
  BY <1>1, <1>5, Zenon DEF Walk
<1>. DEFINE st == [j \in 0 .. M |-> IF j <= h THEN i + j ELSE old[j - h - 1]]
<1>7. Walk(st, s, r, line, pattern, i)
  <2>1. \A j \in 0 .. M : IF j <= h THEN st[j] = i + j
                          ELSE j - h - 1 \in 0 .. Q /\ st[j] = old[j - h - 1]
    <3>. SUFFICES ASSUME NEW j \in 0 .. M
                  PROVE  IF j <= h THEN st[j] = i + j
                         ELSE j - h - 1 \in 0 .. Q /\ st[j] = old[j - h - 1]
      OBVIOUS
    <3>1. ~(j <= h) => j - h - 1 \in 0 .. Q
      <4>1. j \in Nat /\ j <= M
        BY <1>1
      <4>. QED  BY <1>1, <1>20, <4>1
    <3>. QED  BY <3>1
  <2>2. \A j \in 0 .. M : st[j] \in Nat
    <3>. SUFFICES ASSUME NEW j \in 0 .. M  PROVE st[j] \in Nat
      OBVIOUS
    <3>1. j \in Nat
      BY <1>1
    <3>2. CASE j <= h
      BY <2>1, <3>1, <3>2
    <3>3. CASE ~(j <= h)
      BY <1>6, <2>1, <3>1, <3>3
    <3>. QED  BY <3>2, <3>3
  <2>3. st = [j \in 0 .. M |-> st[j]]
    OBVIOUS
  <2>. HIDE DEF st
  <2>4. st \in [0 .. M -> Nat]
    BY <2>2, <2>3
  <2>5. st[0] = i
    <3>1. 0 \in 0 .. M /\ 0 <= h /\ i + 0 = i
      BY <1>1
    <3>. QED  BY <2>1, <3>1
  <2>6. st[M] = N + 1
    <3>1. M \in 0 .. M /\ ~(M <= h) /\ M - h - 1 = Q
      BY <1>1, <1>2
    <3>. QED  BY <1>6, <2>1, <3>1
  <2>7. ASSUME NEW j \in 1 .. M
        PROVE  /\ st[j] = st[j - 1] + (IF r[j] = line THEN L ELSE 1)
               /\ IF r[j] = line THEN Files!Matches(s, pattern, st[j - 1])
                  ELSE s[st[j - 1]] = r[j]
    <3>1. j \in 0 .. M /\ j - 1 \in 0 .. M /\ j \in Nat
      BY <1>1
    <3>2. CASE j <= h
      <4>1. j - 1 <= h /\ i + (j - 1) = i + j - 1 /\ i + j = (i + (j - 1)) + 1 /\ j \in 1 .. h
        BY <3>1, <3>2
      <4>2. st[j] = i + j /\ st[j - 1] = i + (j - 1)
        BY <2>1, <3>1, <3>2, <4>1, Zenon
      <4>3. r[j] # line /\ r[j] = s[i + j - 1]
        BY <1>2, <1>4, <4>1, Zenon
      <4>. QED  BY <4>1, <4>2, <4>3, Zenon
    <3>3. CASE j = h + 1
      <4>1. ~(j <= h) /\ j - 1 <= h /\ j - h - 1 = 0 /\ i + (j - 1) = at
        BY <1>2, <3>1, <3>3
      <4>2. st[j] = at + L /\ st[j - 1] = at
        <5>1. st[j] = old[j - h - 1] /\ st[j - 1] = i + (j - 1)
          BY <2>1, <3>1, <4>1, Zenon
        <5>. QED  BY <1>6, <4>1, <5>1, Zenon
      <4>3. r[j] = line
        BY <1>2, <3>3, Zenon
      <4>. QED  BY <1>1, <4>2, <4>3, Zenon
    <3>4. CASE j > h + 1
      <4>1. PICK n : n = j - h - 1
        OBVIOUS
      <4>2. n \in 1 .. Q /\ h + 1 + n = j /\ ~(j <= h) /\ ~(j - 1 <= h) /\ (j - 1) - h - 1 = n - 1
        <5>1. M = h + 1 + Q /\ j <= M
          BY <1>1, <1>2
        <5>. QED  BY <1>1, <3>1, <3>4, <4>1, <5>1
      <4>3. st[j] = old[n] /\ st[j - 1] = old[n - 1]
        BY <2>1, <3>1, <4>1, <4>2, Zenon
      <4>4. r[j] = q[n]
        BY <1>2, <4>2, Zenon
      <4>. QED  BY <1>6, <4>2, <4>3, <4>4, Zenon
    <3>. QED  BY <3>1, <3>2, <3>3, <3>4
  <2>. QED  BY <1>1, <2>4, <2>5, <2>6, <2>7 DEF Walk
<1>8. ASSUME NEW k \in 1 .. M, Files!Matches(r, pattern, k)  PROVE FALSE
  <2>1. /\ k \in Nat \ {0} /\ k + L - 1 <= M
        /\ \A n \in 1 .. L : r[k + n - 1] \in pattern[n]
    <3>1. /\ k >= 1 /\ k + L - 1 <= M
          /\ \A n \in 1 .. L : r[k + n - 1] \in pattern[n]
      BY <1>1, <1>8, MatchesAt
    <3>. QED  BY <1>1, <3>1
  <2>2. CASE k + L - 1 <= h /\ k <= h
    <3>1. i + k - 1 \in Nat /\ i <= i + k - 1 /\ i + k - 1 < at /\ (i + k - 1) + L - 1 <= N
          /\ i + k - 1 >= 1
      BY <1>1, <1>2, <2>1, <2>2
    <3>2. \A n \in 1 .. L : s[(i + k - 1) + n - 1] \in pattern[n]
      <4>. SUFFICES ASSUME NEW n \in 1 .. L  PROVE s[(i + k - 1) + n - 1] \in pattern[n]
        OBVIOUS
      <4>1. k + n - 1 \in 1 .. h /\ i + (k + n - 1) - 1 = (i + k - 1) + n - 1
        <5>1. k \in Nat \ {0} /\ n \in Nat \ {0} /\ n <= L
          BY <1>1
        <5>. QED  BY <1>1, <2>2, <5>1
      <4>2. r[k + n - 1] = s[i + (k + n - 1) - 1]
        BY <1>2, <4>1, Zenon
      <4>. QED  BY <2>1, <4>1, <4>2, Zenon
    <3>3. Files!Matches(s, pattern, i + k - 1)
      <4>1. PICK p : p = i + k - 1
        OBVIOUS
      <4>2. p >= 1 /\ p + L - 1 <= N /\ \A n \in 1 .. L : s[p + n - 1] \in pattern[n]
        BY <3>1, <3>2, <4>1, Zenon
      <4>. QED  BY <1>1, <4>1, <4>2, MatchesAt
    <3>. QED  BY <3>1, <3>3, Zenon DEF Unmatched
  <2>3. CASE k <= h + 1 /\ h + 1 <= k + L - 1
    <3>1. h + 2 - k \in 1 .. L /\ k + (h + 2 - k) - 1 = h + 1
      BY <1>1, <2>1, <2>3
    <3>. QED  BY <1>2, <1>3, <2>1, <3>1, Zenon
  <2>4. CASE k > h + 1
    <3>1. PICK m : m = k - h - 1
      OBVIOUS
    <3>2. m \in 1 .. Q /\ m >= 1 /\ m + L - 1 <= Q /\ m \in Nat
      <4>1. M = h + 1 + Q
        BY <1>2
      <4>2. k + L - 1 <= M /\ k \in Nat
        BY <2>1
      <4>. QED  BY <1>1, <2>4, <3>1, <4>1, <4>2
    <3>3. \A n \in 1 .. L : q[m + n - 1] \in pattern[n]
      <4>. SUFFICES ASSUME NEW n \in 1 .. L  PROVE q[m + n - 1] \in pattern[n]
        OBVIOUS
      <4>1. m + n - 1 \in 1 .. Q /\ h + 1 + (m + n - 1) = k + n - 1
        BY <1>1, <1>2, <2>1, <3>1, <3>2
      <4>2. r[h + 1 + (m + n - 1)] = q[m + n - 1]
        BY <1>2, <4>1, Zenon
      <4>. QED  BY <2>1, <4>1, <4>2, Zenon
    <3>4. Files!Matches(q, pattern, m)
      BY <1>1, <3>2, <3>3, MatchesAt
    <3>. QED  BY <1>1, <3>2, <3>4, Zenon DEF Remade
  <2>5. (k + L - 1 <= h /\ k <= h) \/ (k <= h + 1 /\ h + 1 <= k + L - 1) \/ k > h + 1
    <3>1. k \in Nat \ {0}
      BY <2>1
    <3>. QED  BY <1>1, <3>1
  <2>. QED  BY <2>2, <2>3, <2>4, <2>5, Zenon
<1>9. h + 1 \in 1 .. M
  BY <1>1, <1>20
<1>. HIDE DEF st
<1>. QED  BY <1>1, <1>2, <1>7, <1>8, <1>9, Zenon DEF Remade

Remains(s, i) == SubSeq(s, i, Len(s))
Part(s, i, at, line) == SubSeq(s, i, at - 1) \o <<line>>

LEMMA RemainsIs ==
    ASSUME NEW S, NEW s \in Seq(S), NEW i \in 1 .. Len(s) + 1
    PROVE  /\ Remains(s, i) \in Seq(S) /\ Len(Remains(s, i)) = Len(s) - i + 1
           /\ \A j \in 1 .. Len(Remains(s, i)) : Remains(s, i)[j] = s[i + j - 1]
<1>1. Len(s) \in Nat /\ i \in Nat
  OBVIOUS
<1>. QED  BY <1>1 DEF Remains

LEMMA JoinedIs ==
    ASSUME NEW S, NEW s \in Seq(S), NEW line, NEW i \in Nat \ {0}, NEW at \in Nat, i <= at,
           at <= Len(s) + 1, NEW q \in Seq(S \cup {line}), NEW r, r = Part(s, i, at, line) \o q,
           NEW h, h = at - i
    PROVE  h \in Nat /\ r \in Seq(S \cup {line}) /\ Joined(r, s, i, h, line, q)
<1>1. PICK T, N, one, head : T = S \cup {line} /\ N = Len(s) /\ one = <<line>> /\ head = SubSeq(s, i, at - 1)
  OBVIOUS
<1>2. h \in Nat /\ N \in Nat /\ (at - 1) - i + 1 = h
  BY <1>1
<1>3. head \in Seq(S) /\ Len(head) = h /\ \A j \in 1 .. h : head[j] = s[i + j - 1]
  <2>1. PICK to : to = at - 1
    OBVIOUS
  <2>2. to \in Int /\ to - i + 1 = h /\ to <= N /\ i <= to + 1
    BY <1>1, <1>2, <2>1
  <2>3. head = SubSeq(s, i, to)
    BY <1>1, <2>1
  <2>4. head \in Seq(S) /\ Len(head) = (IF i <= to THEN to - i + 1 ELSE 0)
    BY <1>1, <2>2, <2>3
  <2>5. Len(head) = h
    BY <1>2, <2>2, <2>4
  <2>6. \A j \in 1 .. h : head[j] = s[i + j - 1]
    BY <1>1, <1>2, <2>2, <2>3
  <2>. QED  BY <2>4, <2>5, <2>6
<1>4. one \in Seq(T) /\ Len(one) = 1 /\ one[1] = line /\ head \in Seq(T) /\ q \in Seq(T)
  BY <1>1, <1>3
<1>5. PICK some : some = head \o one
  OBVIOUS
<1>6. /\ some \in Seq(T) /\ Len(some) = h + 1
      /\ \A j \in 1 .. h : some[j] = head[j]
      /\ some[h + 1] = line
  <2>1. /\ some \in Seq(T) /\ Len(some) = Len(head) + Len(one)
        /\ \A j \in 1 .. Len(head) : some[j] = head[j]
        /\ \A j \in 1 .. Len(one) : some[Len(head) + j] = one[j]
    <3>1. head \in Seq(T) /\ one \in Seq(T)
      BY <1>4
    <3>2. /\ some \in Seq(T) /\ Len(some) = Len(head) + Len(one)
          /\ \A j \in 1 .. Len(head) : some[j] = head[j]
      BY <1>5, <3>1, Concatenated
    <3>3. \A j \in 1 .. Len(one) : some[Len(head) + j] = one[j]
      BY <1>5, <3>1, Concatenated
    <3>. QED  BY <3>2, <3>3
  <2>2. some[h + 1] = one[1]
    BY <1>3, <1>4, <2>1
  <2>. QED  BY <1>3, <1>4, <2>1, <2>2, Zenon
<1>7. r = some \o q
  BY <1>1, <1>5 DEF Part
<1>8. /\ r \in Seq(T) /\ Len(r) = h + 1 + Len(q)
      /\ \A j \in 1 .. h + 1 : r[j] = some[j]
      /\ \A j \in 1 .. Len(q) : r[h + 1 + j] = q[j]
  <2>1. /\ r \in Seq(T) /\ Len(r) = Len(some) + Len(q)
        /\ \A j \in 1 .. Len(some) : r[j] = some[j]
        /\ \A j \in 1 .. Len(q) : r[Len(some) + j] = q[j]
    <3>1. some \in Seq(T) /\ q \in Seq(T)
      BY <1>4, <1>6
    <3>2. /\ r \in Seq(T) /\ Len(r) = Len(some) + Len(q)
          /\ \A j \in 1 .. Len(some) : r[j] = some[j]
      BY <1>7, <3>1, Concatenated
    <3>3. \A j \in 1 .. Len(q) : r[Len(some) + j] = q[j]
      BY <1>7, <3>1, Concatenated
    <3>. QED  BY <3>2, <3>3
  <2>. QED  BY <1>6, <2>1, Zenon
<1>9. h + 1 \in 1 .. h + 1 /\ \A j \in 1 .. h : j \in 1 .. h + 1
  BY <1>2
<1>10. \A j \in 1 .. h : r[j] = s[i + j - 1]
  BY <1>3, <1>6, <1>8, <1>9, Zenon
<1>11. r[h + 1] = line
  BY <1>6, <1>8, <1>9, Zenon
<1>. QED  BY <1>1, <1>2, <1>8, <1>10, <1>11, Zenon DEF Joined

(* str_replace_all as a recursion: the rest of the text where nothing matches *)
(* any more, else the part up to the match, the line, and the same behind it. *)
Rewrites(from, s, pattern, line) ==
    /\ \A i \in 1 .. Len(s) + 1 : Files!Find(s, pattern, i) # 0 =>
          Files!Find(s, pattern, i) + Len(pattern) \in i + 1 .. Len(s) + 1
    /\ \A i \in 1 .. Len(s) + 1 :
          from[i] = IF Files!Find(s, pattern, i) = 0 THEN Remains(s, i)
                    ELSE Part(s, i, Files!Find(s, pattern, i), line)
                         \o from[Files!Find(s, pattern, i) + Len(pattern)]

LEMMA ReplacedAllRewrites ==
    ASSUME NEW S, NEW s \in Seq(S), NEW line, NEW P, NEW pattern \in Seq(P), pattern # <<>>,
           NEW c, c.old = pattern
    PROVE  \E from : Rewrites(from, s, pattern, line) /\ Files!ReplacedAll(s, c, line) = from[1]
<1>. DEFINE N == Len(s) + 1  L == Len(pattern)
            Is(from) == from = [i \in 1 .. N |->
                LET at == Files!Find(s, pattern, i)
                IN  IF at = 0 THEN SubSeq(s, i, Len(s))
                    ELSE SubSeq(s, i, at - 1) \o <<line>> \o from[at + Len(pattern)]]
<1>1. N \in Nat /\ L \in Nat \ {0} /\ 1 \in 1 .. N /\ Len(s) \in Nat
  OBVIOUS
<1>2. Files!ReplacedAll(s, c, line) = (CHOOSE from : Is(from))[1]
  BY DEF Files!ReplacedAll
<1>3. \A i \in 1 .. N : Files!Find(s, pattern, i) # 0 =>
         /\ Files!Find(s, pattern, i) \in Nat /\ i <= Files!Find(s, pattern, i)
         /\ Files!Find(s, pattern, i) + L \in i + 1 .. N
  <2>. SUFFICES ASSUME NEW i \in 1 .. N, NEW at, at = Files!Find(s, pattern, i), at # 0
                PROVE  at \in Nat /\ i <= at /\ at + L \in i + 1 .. N
    OBVIOUS
  <2>1. at \in Nat /\ i <= at /\ Files!Matches(s, pattern, at)
    BY <1>1, FindFirst
  <2>2. at + L - 1 <= Len(s)
    BY <2>1 DEF Files!Matches
  <2>. QED  BY <1>1, <2>1, <2>2
<1>4. \E from : Is(from)
  <2>. DEFINE rest == [i \in 1 .. N |-> Remains(s, i)]
              part == [i \in 1 .. N |-> Part(s, i, Files!Find(s, pattern, i), line)]
              jump == [i \in 1 .. N |-> IF Files!Find(s, pattern, i) = 0 THEN 0
                                        ELSE Files!Find(s, pattern, i) + L]
  <2>1. \A i \in 1 .. N : jump[i] # 0 => jump[i] \in i + 1 .. N
    BY <1>3
  <2>2. \A i \in 1 .. N : /\ rest[i] = Remains(s, i)
                          /\ part[i] = Part(s, i, Files!Find(s, pattern, i), line)
                          /\ jump[i] = 0 <=> Files!Find(s, pattern, i) = 0
                          /\ jump[i] # 0 => jump[i] = Files!Find(s, pattern, i) + L
    <3>. SUFFICES ASSUME NEW i \in 1 .. N, NEW at, at = Files!Find(s, pattern, i),
                         at # 0 => at \in Nat
                  PROVE  /\ rest[i] = Remains(s, i) /\ part[i] = Part(s, i, at, line)
                         /\ jump[i] = 0 <=> at = 0
                         /\ jump[i] # 0 => jump[i] = at + L
      BY <1>3
    <3>. QED  BY <1>1
  <2>. HIDE DEF rest, part, jump, N, L
  <2>3. PICK g : GoesUp(g, 1, N, rest, part, jump)
    BY <1>1, <2>1, RecursionToEnd
  <2>4. Is(g)
    BY <2>2, <2>3, Zenon DEF GoesUp, L, Remains, Part
  <2>. QED  BY <2>4
<1>5. PICK from : Is(from) /\ Files!ReplacedAll(s, c, line) = from[1]
  BY <1>2, <1>4, Zenon
<1>6. \A i \in 1 .. N :
         from[i] = IF Files!Find(s, pattern, i) = 0 THEN Remains(s, i)
                   ELSE Part(s, i, Files!Find(s, pattern, i), line)
                        \o from[Files!Find(s, pattern, i) + Len(pattern)]
  BY <1>5, Zenon DEF Remains, Part
<1>. HIDE DEF Is
<1>. QED  BY <1>3, <1>5, <1>6, Zenon DEF Rewrites

LEMMA AllMade ==
    ASSUME NEW S, NEW s \in Seq(S), NEW line, line \notin S,
           NEW pattern \in Seq(SUBSET S), pattern # <<>>, NEW c, c.old = pattern
    PROVE  Remade(Files!ReplacedAll(s, c, line), S, s, line, pattern, 1)
<1>1. PICK from : Rewrites(from, s, pattern, line) /\ Files!ReplacedAll(s, c, line) = from[1]
  BY ReplacedAllRewrites
<1>2. PICK N, L : N = Len(s) + 1 /\ L = Len(pattern)
  OBVIOUS
<1>3. N \in Nat /\ L \in Nat \ {0} /\ 1 \in 1 .. N /\ Len(s) = N - 1
  BY <1>2
<1>. DEFINE Done == {m \in Nat : \A i \in 1 .. N : i > N - m => Remade(from[i], S, s, line, pattern, i)}
<1>4. 0 \in Done
  BY <1>3
<1>5. ASSUME NEW m \in Nat, m \in Done  PROVE m + 1 \in Done
  <2>. SUFFICES ASSUME NEW i \in 1 .. N, i > N - (m + 1)
                PROVE  Remade(from[i], S, s, line, pattern, i)
    OBVIOUS
  <2>1. PICK at : at = Files!Find(s, pattern, i)
    OBVIOUS
  <2>2. i \in Nat \ {0} /\ i \in 1 .. Len(s) + 1
    BY <1>2, <1>3
  <2>3. \/ at = 0 /\ \A k \in Nat : k >= i => ~Files!Matches(s, pattern, k)
        \/ /\ at \in Nat /\ i <= at /\ at <= Len(s) + 1 /\ Files!Matches(s, pattern, at)
           /\ \A k \in Nat : i <= k /\ k < at => ~Files!Matches(s, pattern, k)
    BY <1>2, <1>3, <2>1, <2>2, FindFirst
  <2>4. from[i] = IF at = 0 THEN Remains(s, i) ELSE Part(s, i, at, line) \o from[at + L]
    BY <1>1, <1>2, <2>1, <2>2 DEF Rewrites
  <2>5. CASE at = 0
    <3>1. Unmatched(s, pattern, i, Len(s) + 2)
      BY <2>2, <2>3, <2>5 DEF Unmatched
    <3>2. from[i] = Remains(s, i)
      BY <2>4, <2>5
    <3>3. /\ from[i] \in Seq(S) /\ Len(from[i]) = Len(s) - i + 1
          /\ \A j \in 1 .. Len(from[i]) : from[i][j] = s[i + j - 1]
      BY <2>2, <3>2, RemainsIs
    <3>. HIDE DEF Done
    <3>. QED  BY <2>1, <2>2, <2>5, <3>1, <3>2, <3>3, RemadeRest
  <2>6. CASE at # 0
    <3>1. at + L \in 1 .. N /\ at + L > N - m
      <4>1. at + L \in i + 1 .. N
        BY <1>1, <1>2, <2>1, <2>2, <2>6 DEF Rewrites
      <4>. QED  BY <1>3, <2>2, <4>1
    <3>2. Remade(from[at + L], S, s, line, pattern, at + L)
      BY <1>5, <3>1
    <3>3. from[at + L] \in Seq(S \cup {line})
      BY <3>2 DEF Remade
    <3>4. PICK h : h = at - i
      OBVIOUS
    <3>5. /\ at \in Nat /\ i <= at /\ at <= Len(s) + 1 /\ Files!Matches(s, pattern, at)
          /\ Unmatched(s, pattern, i, at)
      BY <2>3, <2>6 DEF Unmatched
    <3>. HIDE DEF Done
    <3>6. h \in Nat /\ from[i] \in Seq(S \cup {line}) /\ Joined(from[i], s, i, h, line, from[at + L])
      BY <2>2, <2>4, <2>6, <3>3, <3>4, <3>5, JoinedIs
    <3>. QED  BY <1>2, <2>2, <3>2, <3>4, <3>5, <3>6, RemadeNext
  <2>. QED  BY <2>5, <2>6
<1>. HIDE DEF Done
<1>6. N \in Done
  BY <1>3, <1>4, <1>5, AllNaturals
<1>7. 1 > N - N
  BY <1>3
<1>. QED  BY <1>1, <1>3, <1>6, <1>7 DEF Done

(* insert_mode: the position belongs to the anchor that was asked for.        *)
LEMMA AnchorIs ==
    ASSUME NEW S, NEW s \in Seq(S), NEW P, NEW c, c.old \in Seq(P), c.old # <<>>,
           NEW a, a = Files!Anchor(s, c), a # 0
    PROVE  a \in Nat /\ Files!BesideAnchor(c, s, a)
<1>1. PICK all, old : all = Files!Occurrences(s, old) /\ old = c.old
  OBVIOUS
<1>2. Listed(all, s, old, 1)
  BY <1>1, OccurrencesListed
<1>3. /\ all \in Seq(Nat) /\ Len(all) \in Nat /\ DOMAIN all = 1 .. Len(all) /\ Len(old) \in Nat
      /\ \A n \in 1 .. Len(all) : all[n] \in Nat /\ Files!Matches(s, old, all[n])
  <2>1. all \in Seq(Nat) /\ \A n \in 1 .. Len(all) : Files!Matches(s, old, all[n])
    BY <1>2 DEF Listed
  <2>2. \A n \in 1 .. Len(all) : all[n] \in Nat
    BY <2>1
  <2>. QED  BY <1>1, <2>1, <2>2
<1>4. a = IF c.which = 0 /\ all # <<>> THEN all[Len(all)]
          ELSE IF c.which \in DOMAIN all THEN all[c.which] ELSE 0
  BY <1>1 DEF Files!Anchor
<1>5. PICK n \in 1 .. Len(all) : a = all[n] /\ (c.which = 0 => n = Len(all)) /\ (c.which = 1 => n = 1)
  <2>1. CASE c.which = 0 /\ all # <<>>
    <3>1. Len(all) \in 1 .. Len(all)
      BY <1>3, <2>1
    <3>. QED  BY <1>4, <2>1, <3>1
  <2>2. CASE ~(c.which = 0 /\ all # <<>>)
    <3>1. c.which \in 1 .. Len(all) /\ a = all[c.which]
      BY <1>3, <1>4, <2>2
    <3>2. c.which # 0
      BY <1>3, <3>1
    <3>. QED  BY <3>1, <3>2
  <2>. QED  BY <2>1, <2>2
<1>6. a \in Nat /\ Files!Matches(s, old, a) /\ all # <<>>
  <2>1. a \in Nat /\ Files!Matches(s, old, a)
    BY <1>3, <1>5, Zenon
  <2>2. all # <<>>
    <3>1. n \in 1 .. Len(all) /\ Len(all) \in Nat
      BY <1>3
    <3>2. Len(all) # 0
      BY <3>1
    <3>. QED  BY <3>2
  <2>. QED  BY <2>1, <2>2
<1>7. ASSUME c.which = 0, NEW j \in a + Len(old) .. Len(s)  PROVE ~Files!Matches(s, old, j)
  <2>1. j \in Nat /\ j >= a + Len(old)
    BY <1>3, <1>6
  <2>. QED  BY <1>2, <1>5, <1>6, <1>7, <2>1 DEF Listed
<1>8. ASSUME c.which = 1, NEW j \in 1 .. a - 1  PROVE ~Files!Matches(s, old, j)
  <2>1. j \in Nat /\ 1 <= j /\ j < a
    BY <1>6
  <2>. QED  BY <1>2, <1>5, <1>6, <1>8, <2>1 DEF Listed
<1>. QED  BY <1>1, <1>6, <1>7, <1>8 DEF Files!BesideAnchor

LEMMA InsertedAsAsked ==
    ASSUME NEW S, NEW s \in Seq(S), NEW line, line \notin S, NEW P, NEW c, c.old \in Seq(P),
           c.old # <<>>, c.kind = "insert", Files!HasMatch(s, c), NEW r, r = Files!NewText(s, c, line)
    PROVE  r \in Seq(S \cup {line}) /\ Files!AsAsked(c, s, r, line)
<1>1. PICK at, a, L : at = Files!InsertPosition(s, c) /\ a = Files!Anchor(s, c) /\ L = Len(c.old)
  OBVIOUS
<1>2. L \in Nat /\ Len(s) \in Nat
  BY <1>1
<1>3. at = IF a = 0 THEN Len(s) + 1 ELSE a + (IF c.after THEN L ELSE 0)
  BY <1>1 DEF Files!InsertPosition
<1>4. a = 0 => c.eof
  BY <1>1 DEF Files!HasMatch
<1>5. a # 0 => /\ a \in Nat /\ Files!BesideAnchor(c, s, a) /\ a >= 1 /\ a + L - 1 <= Len(s)
  <2>1. ASSUME a # 0  PROVE a \in Nat /\ Files!BesideAnchor(c, s, a)
    BY <1>1, <2>1, AnchorIs
  <2>2. Files!BesideAnchor(c, s, a) => a >= 1 /\ a + L - 1 <= Len(s)
    BY <1>1 DEF Files!BesideAnchor, Files!Matches
  <2>. QED  BY <2>1, <2>2
<1>6. at \in Nat \ {0} /\ at <= Len(s) + 1
  BY <1>2, <1>3, <1>5
<1>7. r = Spliced(s, at, line, 0)
  <2>1. r = SubSeq(s, 1, at - 1) \o <<line>> \o SubSeq(s, at, Len(s))
    BY <1>1 DEF Files!NewText, Files!Inserted
  <2>2. at + 0 = at
    BY <1>6
  <2>. QED  BY <2>1, <2>2 DEF Spliced
<1>8. PICK none : none = <<>> /\ Len(none) = 0 /\ none \in Seq(P)
  <2>1. <<>> \in Seq(P) /\ Len(<<>>) = 0
    OBVIOUS
  <2>. QED  BY <2>1, Zenon
<1>9. Files!Matches(s, none, at) /\ at + Len(none) <= Len(s) + 1
  <2>1. DOMAIN none = {}
    BY <1>8
  <2>. QED  BY <1>2, <1>6, <1>8, <2>1 DEF Files!Matches
<1>10. /\ r \in Seq(S \cup {line}) /\ at \in DOMAIN r /\ Len(r) = Len(s) - Len(none) + 1
       /\ Files!Places(r, line) = {at} /\ Files!TakenBack(s, r, line, none)
  <2>1. Len(none) \in Nat /\ r = Spliced(s, at, line, Len(none))
    BY <1>7, <1>8, Zenon
  <2>2. Exchanged(S, s, line, none, at, r)
    BY <1>6, <1>9, <2>1, Zenon DEF Exchanged
  <2>3. OneMade(S, s, line, none, at, r)
    BY <2>2, OneTakenBack, Zenon
  <2>. QED  BY <2>3, Zenon DEF OneMade
<1>11. \/ Files!BesideAnchor(c, s, IF c.after THEN at - Len(c.old) ELSE at)
       \/ c.eof /\ at = Len(r)
  <2>1. CASE a = 0
    <3>1. c.eof /\ at = Len(s) + 1 /\ Len(none) = 0 /\ Len(r) = Len(s) - Len(none) + 1
      BY <1>3, <1>4, <1>8, <1>10, <2>1, Zenon
    <3>. QED  BY <1>2, <3>1
  <2>2. CASE a # 0
    <3>1. (IF c.after THEN at - Len(c.old) ELSE at) = a
      BY <1>1, <1>2, <1>3, <1>5, <2>2
    <3>. QED  BY <1>5, <2>2, <3>1
  <2>. QED  BY <2>1, <2>2
<1>12. /\ Files!TakenBack(s, r, line, <<>>)
       /\ \E i \in DOMAIN r :
             /\ Files!Places(r, line) = {i}
             /\ \/ Files!BesideAnchor(c, s, IF c.after THEN i - Len(c.old) ELSE i)
                \/ c.eof /\ i = Len(r)
  BY <1>8, <1>10, <1>11, Zenon
<1>. QED  BY <1>10, <1>12, Zenon DEF Files!AsAsked

LEMMA ReplacedAsAsked ==
    ASSUME NEW S, NEW s \in Seq(S), NEW line, line \notin S, NEW P, NEW c, c.old \in Seq(P),
           c.kind = "replace", Files!HasMatch(s, c), NEW r, r = Files!NewText(s, c, line)
    PROVE  r \in Seq(S \cup {line}) /\ Files!AsAsked(c, s, r, line)
<1>1. PICK at, old : at = Files!Find(s, old, 1) /\ old = c.old
  OBVIOUS
<1>2. at # 0
  BY <1>1 DEF Files!HasMatch
<1>3. Len(old) \in Nat /\ Len(s) \in Nat /\ old \in Seq(P)
  BY <1>1
<1>4. /\ at \in Nat /\ 1 <= at /\ Files!Matches(s, old, at)
      /\ \A k \in Nat : 1 <= k /\ k < at => ~Files!Matches(s, old, k)
  BY <1>1, <1>2, <1>3, FindFirst
<1>5. at \in Nat \ {0} /\ at + Len(old) <= Len(s) + 1
  <2>1. at + Len(old) - 1 <= Len(s)
    BY <1>4 DEF Files!Matches
  <2>. QED  BY <1>3, <1>4, <2>1
<1>6. r = Spliced(s, at, line, Len(old))
  BY <1>1 DEF Files!NewText, Files!Replaced, Spliced
<1>7. /\ r \in Seq(S \cup {line}) /\ at \in DOMAIN r
      /\ Files!Places(r, line) = {at} /\ Files!TakenBack(s, r, line, old)
  <2>1. Exchanged(S, s, line, old, at, r)
    BY <1>3, <1>4, <1>5, <1>6, Zenon DEF Exchanged
  <2>2. OneMade(S, s, line, old, at, r)
    BY <2>1, OneTakenBack, Zenon
  <2>. QED  BY <2>2, Zenon DEF OneMade
<1>8. \A j \in 1 .. at - 1 : ~Files!Matches(s, old, j)
  BY <1>4
<1>9. /\ Files!TakenBack(s, r, line, c.old)
      /\ \E i \in DOMAIN r : /\ Files!Places(r, line) = {i}
                             /\ \A j \in 1 .. i - 1 : ~Files!Matches(s, c.old, j)
  BY <1>1, <1>7, <1>8, Zenon
<1>. QED  BY <1>7, <1>9, Zenon DEF Files!AsAsked

LEMMA AllAsAsked ==
    ASSUME NEW S, NEW s \in Seq(S), NEW line, line \notin S, NEW c, c.old \in Seq(SUBSET S),
           c.old # <<>>, c.kind = "all", Files!HasMatch(s, c), NEW r, r = Files!NewText(s, c, line)
    PROVE  r \in Seq(S \cup {line}) /\ Files!AsAsked(c, s, r, line)
<1>1. PICK old : old = c.old /\ old \in Seq(SUBSET S)
  OBVIOUS
<1>2. Files!Find(s, old, 1) # 0
  BY <1>1 DEF Files!HasMatch
<1>3. r = Files!ReplacedAll(s, c, line)
  BY DEF Files!NewText
<1>4. Remade(r, S, s, line, old, 1)
  BY <1>1, <1>3, AllMade
<1>5. r \in Seq(S \cup {line}) /\ DOMAIN r = 1 .. Len(r)
  <2>1. r \in Seq(S \cup {line})
    BY <1>4 DEF Remade
  <2>. QED  BY <2>1
<1>6. PICK st : Walk(st, s, r, line, old, 1)
  BY <1>4 DEF Remade
<1>7. Files!TakenBack(s, r, line, old)
  BY <1>5, <1>6, WalkTakesBack
<1>8. /\ \A j \in 1 .. Len(r) : ~Files!Matches(r, old, j)
      /\ \E j \in 1 .. Len(r) : r[j] = line
  BY <1>2, <1>4 DEF Remade
<1>9. Files!Places(r, line) # {}
  BY <1>5, <1>8 DEF Files!Places
<1>10. /\ Files!TakenBack(s, r, line, c.old) /\ Files!Places(r, line) # {}
       /\ \A i \in DOMAIN r : ~Files!Matches(r, c.old, i)
  BY <1>1, <1>5, <1>7, <1>8, <1>9, Zenon
<1>. QED  BY <1>5, <1>10, Zenon DEF Files!AsAsked

(* The new text is what the tool was asked for, provided the pattern was      *)
(* there to find.                                                             *)
LEMMA NewTextAsAsked ==
    ASSUME NEW S, NEW s \in Seq(S), NEW line, line \notin S, NEW c, c.old \in Seq(SUBSET S),
           c.old # <<>>, Files!HasMatch(s, c), NEW r, r = Files!NewText(s, c, line)
    PROVE  r \in Seq(S \cup {line}) /\ Files!AsAsked(c, s, r, line)
<1>1. c.kind \in {"insert", "replace", "all"}
  BY DEF Files!HasMatch
<1>2. CASE c.kind = "insert"
  BY <1>2, InsertedAsAsked
<1>3. CASE c.kind = "replace"
  BY <1>3, ReplacedAsAsked
<1>4. CASE c.kind = "all"
  BY <1>4, AllAsAsked
<1>. QED  BY <1>1, <1>2, <1>3, <1>4

(* The new text is a text, also where tools meet at one file.                 *)
LEMMA AllTyped ==
    ASSUME NEW S, NEW s \in Seq(S), NEW line \in S, NEW P, NEW pattern \in Seq(P), pattern # <<>>,
           NEW c, c.old = pattern
    PROVE  Files!ReplacedAll(s, c, line) \in Seq(S)
<1>1. PICK from : Rewrites(from, s, pattern, line) /\ Files!ReplacedAll(s, c, line) = from[1]
  BY ReplacedAllRewrites
<1>2. PICK N, L : N = Len(s) + 1 /\ L = Len(pattern)
  OBVIOUS
<1>3. N \in Nat /\ L \in Nat \ {0} /\ 1 \in 1 .. N /\ Len(s) = N - 1 /\ S \cup {line} = S
  BY <1>2
<1>. DEFINE Done == {m \in Nat : \A i \in 1 .. N : i > N - m => from[i] \in Seq(S)}
<1>4. 0 \in Done
  BY <1>3
<1>5. ASSUME NEW m \in Nat, m \in Done  PROVE m + 1 \in Done
  <2>. SUFFICES ASSUME NEW i \in 1 .. N, i > N - (m + 1)
                PROVE  from[i] \in Seq(S)
    OBVIOUS
  <2>1. PICK at : at = Files!Find(s, pattern, i)
    OBVIOUS
  <2>2. i \in Nat \ {0} /\ i \in 1 .. Len(s) + 1
    BY <1>2, <1>3
  <2>3. at # 0 => at \in Nat /\ i <= at /\ at <= Len(s) + 1
    BY <1>2, <1>3, <2>1, <2>2, FindFirst
  <2>4. from[i] = IF at = 0 THEN Remains(s, i) ELSE Part(s, i, at, line) \o from[at + L]
    BY <1>1, <1>2, <2>1, <2>2 DEF Rewrites
  <2>5. CASE at = 0
    <3>1. from[i] = Remains(s, i)
      BY <2>4, <2>5
    <3>. HIDE DEF Done
    <3>. QED  BY <2>2, <3>1, RemainsIs
  <2>6. CASE at # 0
    <3>1. at + L \in i + 1 .. N
      BY <1>1, <1>2, <2>1, <2>2, <2>6 DEF Rewrites
    <3>2. at + L \in 1 .. N /\ at + L > N - m
      BY <1>3, <2>2, <3>1
    <3>3. from[at + L] \in Seq(S \cup {line})
      BY <1>3, <1>5, <3>2
    <3>4. PICK h : h = at - i
      OBVIOUS
    <3>. HIDE DEF Done
    <3>5. from[i] \in Seq(S \cup {line})
      BY <2>2, <2>3, <2>4, <2>6, <3>3, <3>4, JoinedIs
    <3>. QED  BY <1>3, <3>5
  <2>. QED  BY <2>5, <2>6
<1>. HIDE DEF Done
<1>6. N \in Done
  BY <1>3, <1>4, <1>5, AllNaturals
<1>7. from[1] \in Seq(S)
  <2>1. 1 > N - N
    BY <1>3
  <2>. QED  BY <1>3, <1>6, <2>1 DEF Done
<1>. QED  BY <1>1, <1>7

LEMMA SplicedTyped ==
    ASSUME NEW S, NEW s \in Seq(S), NEW line \in S, NEW at \in Nat \ {0}, NEW taken \in Nat,
           at + taken <= Len(s) + 1
    PROVE  SubSeq(s, 1, at - 1) \o <<line>> \o SubSeq(s, at + taken, Len(s)) \in Seq(S)
<1>1. SubSeq(s, 1, at - 1) \in Seq(S) /\ <<line>> \in Seq(S) /\ SubSeq(s, at + taken, Len(s)) \in Seq(S)
  OBVIOUS
<1>. QED  BY <1>1

LEMMA NewTextTyped ==
    ASSUME NEW S, NEW s \in Seq(S), NEW line \in S, NEW c, NEW P, c.old \in Seq(P),
           c.old # <<>>, Files!HasMatch(s, c)
    PROVE  Files!NewText(s, c, line) \in Seq(S)
<1>1. PICK old : old = c.old /\ old \in Seq(P) /\ Len(old) \in Nat
  OBVIOUS
<1>2. Len(s) \in Nat
  OBVIOUS
<1>3. CASE c.kind = "insert"
  <2>1. PICK at, a : at = Files!InsertPosition(s, c) /\ a = Files!Anchor(s, c)
    OBVIOUS
  <2>2. at = IF a = 0 THEN Len(s) + 1 ELSE a + (IF c.after THEN Len(old) ELSE 0)
    BY <1>1, <2>1 DEF Files!InsertPosition
  <2>3. a # 0 => a \in Nat /\ a >= 1 /\ a + Len(old) - 1 <= Len(s)
    <3>. SUFFICES ASSUME a # 0  PROVE a \in Nat /\ a >= 1 /\ a + Len(old) - 1 <= Len(s)
      OBVIOUS
    <3>1. a \in Nat /\ Files!BesideAnchor(c, s, a)
      BY <2>1, AnchorIs
    <3>. QED  BY <1>1, <3>1 DEF Files!BesideAnchor, Files!Matches
  <2>4. at \in Nat \ {0} /\ at + 0 <= Len(s) + 1 /\ at + 0 = at
    BY <1>1, <1>2, <2>2, <2>3
  <2>5. Files!NewText(s, c, line) = SubSeq(s, 1, at - 1) \o <<line>> \o SubSeq(s, at + 0, Len(s))
    BY <1>3, <2>1, <2>4 DEF Files!NewText, Files!Inserted
  <2>. QED  BY <2>4, <2>5, SplicedTyped
<1>4. CASE c.kind = "replace"
  <2>1. PICK at : at = Files!Find(s, old, 1)
    OBVIOUS
  <2>2. at # 0
    BY <1>1, <1>4, <2>1 DEF Files!HasMatch
  <2>3. at \in Nat /\ 1 <= at /\ Files!Matches(s, old, at)
    BY <1>1, <2>1, <2>2, FindFirst
  <2>4. at \in Nat \ {0} /\ at + Len(old) <= Len(s) + 1
    <3>1. at + Len(old) - 1 <= Len(s)
      BY <2>3 DEF Files!Matches
    <3>. QED  BY <1>1, <1>2, <2>3, <3>1
  <2>5. Files!NewText(s, c, line) = SubSeq(s, 1, at - 1) \o <<line>> \o SubSeq(s, at + Len(old), Len(s))
    BY <1>1, <1>4, <2>1 DEF Files!NewText, Files!Replaced
  <2>. QED  BY <1>1, <2>4, <2>5, SplicedTyped
<1>5. CASE c.kind = "all"
  <2>1. Files!NewText(s, c, line) = Files!ReplacedAll(s, c, line)
    BY <1>5 DEF Files!NewText
  <2>. QED  BY <1>1, <2>1, AllTyped
<1>. QED  BY <1>3, <1>4, <1>5 DEF Files!HasMatch

(* The calls and the files at the start are over some set of lines. The line  *)
(* a tool puts in is a new one, so that it can be told from what was there. A *)
(* patch names each of its files once, and what is searched for has a line.   *)
(* What was left in memory is not a tool's line.                              *)
WorldOf(lines) ==
    /\ lines \cap FileThreads = {} /\ Leftovers \subseteq lines
    /\ \A d \in FileDisks : \A f \in DOMAIN d : d[f] \in Seq(lines)
    /\ \A t \in FileThreads : \A c \in FileCalls[t] :
          /\ Len(c.changes) \in Nat \ {0} /\ DOMAIN c.changes = 1 .. Len(c.changes)
          /\ \A i, j \in DOMAIN c.changes : c.changes[i].file = c.changes[j].file => i = j
          /\ \A i \in DOMAIN c.changes : c.changes[i].kind # "write" =>
                c.changes[i].old \in Seq(SUBSET lines) /\ c.changes[i].old # <<>>

FileWorld == \E lines : WorldOf(lines)

OldLines == CHOOSE lines : WorldOf(lines)
Lines == OldLines \cup FileThreads
Without(t) == Lines \ {t}

LEMMA World == FileWorld => WorldOf(OldLines)
BY Zenon DEF FileWorld, OldLines

(* What a call sees of its files: whether each is there, and its text.        *)
Seen(c, files) ==
    [f \in Files!FilesOf(c) |-> [there |-> {f} \cap DOMAIN files, text |-> Files!Text(files, f)]]

(* What a tool has to itself, from the point of view of its call: was and now *)
(* are what it saw when it began and what it sees now, at its step, with the  *)
(* length it measured, its text, the changes it lost a part of or made to     *)
(* another text than the file's, and its outcome.                             *)
Lost(t) == [cut |-> cut[t], misread |-> misread[t]]

AskedOf(t, c, i, was, after) ==
    Files!AsAsked(c.changes[i], was[c.changes[i].file].text, after, t)
MadeOf(t, c, i, was, now) == AskedOf(t, c, i, was, now[c.changes[i].file].text)
KeptOf(c, i, was, now) == now[c.changes[i].file] = was[c.changes[i].file]
EmptyOf(c, i, now) == now[c.changes[i].file].text = <<>>
ThereOf(c, i, now) == now[c.changes[i].file].there = {c.changes[i].file}
BegunOf(t, c, i, was, now, lost) ==
    \E part \in lost.cut :
        /\ part.change = i /\ AskedOf(t, c, i, was, part.text)
        /\ \E n \in 0 .. Len(part.text) : now[c.changes[i].file].text = SubSeq(part.text, 1, n)
ExceptOf(i, lost) == i \in lost.misread

DidOf(t, c, i, was, now, lost) ==
    MadeOf(t, c, i, was, now) \/ BegunOf(t, c, i, was, now, lost) \/ ExceptOf(i, lost)

AtOf(t, place, c, i, was, now, len, new, lost) ==
    \/ place = "size" /\ KeptOf(c, i, was, now)
    \/ /\ place = "read" /\ KeptOf(c, i, was, now) /\ ThereOf(c, i, now)
       /\ len = Len(now[c.changes[i].file].text)
    \/ /\ place = "change" /\ KeptOf(c, i, was, now) /\ ThereOf(c, i, now)
       /\ new = now[c.changes[i].file].text \/ ExceptOf(i, lost)
    \/ /\ place = "open" /\ KeptOf(c, i, was, now)
       /\ AskedOf(t, c, i, was, new) \/ ExceptOf(i, lost)
    \/ /\ place = "fill" /\ EmptyOf(c, i, now) /\ ThereOf(c, i, now)
       /\ AskedOf(t, c, i, was, new) \/ ExceptOf(i, lost)

ToldOf(t, c, i, k, was, now, lost, told) ==
    \/ ExceptOf(i, lost)
    \/ i <= k /\ BegunOf(t, c, i, was, now, lost)
    \/ c.valid /\ (told = "success" \/ i < k) /\ MadeOf(t, c, i, was, now)
    \/ told # "success" /\ i >= k /\ KeptOf(c, i, was, now)

GoingOf(t, c, k, was, now, lost) ==
    /\ c.valid
    /\ \A i \in DOMAIN c.changes : i < k => DidOf(t, c, i, was, now, lost)
    /\ \A i \in DOMAIN c.changes : i > k => KeptOf(c, i, was, now)

EndedOf(t, c, k, was, now, lost, told) ==
    \A i \in DOMAIN c.changes : ToldOf(t, c, i, k, was, now, lost, told)

(* What was lost stays lost, and what was done stays done where its file is   *)
(* not touched.                                                               *)
Less(lost, next) == lost.cut \subseteq next.cut /\ lost.misread \subseteq next.misread

LEMMA StaysDone ==
    ASSUME NEW t, NEW c, NEW i, NEW was, NEW now, NEW next, NEW lost, NEW lostNext,
           Less(lost, lostNext), next[c.changes[i].file] = now[c.changes[i].file],
           DidOf(t, c, i, was, now, lost)
    PROVE  DidOf(t, c, i, was, next, lostNext)
<1>1. CASE MadeOf(t, c, i, was, now)
  BY <1>1, Zenon DEF DidOf, MadeOf
<1>2. CASE BegunOf(t, c, i, was, now, lost)
  <2>1. BegunOf(t, c, i, was, next, lostNext)
    BY <1>2, Zenon DEF BegunOf, Less
  <2>. QED  BY <2>1 DEF DidOf
<1>3. CASE ExceptOf(i, lost)
  BY <1>3 DEF DidOf, ExceptOf, Less
<1>. QED  BY <1>1, <1>2, <1>3 DEF DidOf

(* The tool ends at a change whose file is as it was.                         *)
LEMMA EndsUntouched ==
    ASSUME NEW t, NEW c, DOMAIN c.changes \subseteq Nat, NEW k \in Nat, NEW was, NEW now, NEW lost,
           NEW told, told # "success", GoingOf(t, c, k, was, now, lost), KeptOf(c, k, was, now)
    PROVE  EndedOf(t, c, k, was, now, lost, told)
<1>. SUFFICES ASSUME NEW i \in DOMAIN c.changes  PROVE ToldOf(t, c, i, k, was, now, lost, told)
  BY DEF EndedOf
<1>1. i \in Nat /\ ((i < k /\ i <= k) \/ i = k \/ i > k)
  OBVIOUS
<1>2. CASE i < k /\ i <= k
  BY <1>2, Zenon DEF GoingOf, DidOf, ToldOf
<1>3. CASE i = k \/ i > k
  <2>1. KeptOf(c, i, was, now)
    BY <1>3, Zenon DEF GoingOf
  <2>2. i >= k
    BY <1>1, <1>3
  <2>. QED  BY <2>1, <2>2, Zenon DEF ToldOf
<1>. QED  BY <1>1, <1>2, <1>3

(* It ends at a file of whose new text the first part was written.            *)
LEMMA EndsBegun ==
    ASSUME NEW t, NEW c, DOMAIN c.changes \subseteq Nat, NEW k \in Nat, NEW was, NEW now, NEW lost,
           NEW told, told # "success", GoingOf(t, c, k, was, now, lost),
           BegunOf(t, c, k, was, now, lost) \/ ExceptOf(k, lost)
    PROVE  EndedOf(t, c, k, was, now, lost, told)
<1>. SUFFICES ASSUME NEW i \in DOMAIN c.changes  PROVE ToldOf(t, c, i, k, was, now, lost, told)
  BY DEF EndedOf
<1>1. i \in Nat /\ ((i < k /\ i <= k) \/ (i = k /\ i <= k) \/ i > k)
  OBVIOUS
<1>2. CASE i < k /\ i <= k
  BY <1>2, Zenon DEF GoingOf, DidOf, ToldOf
<1>3. CASE i = k /\ i <= k
  BY <1>3, Zenon DEF ToldOf
<1>4. CASE i > k
  <2>1. KeptOf(c, i, was, now)
    BY <1>4, Zenon DEF GoingOf
  <2>2. i >= k /\ told # "success"
    BY <1>1, <1>4
  <2>. QED  BY <2>1, <2>2, Zenon DEF ToldOf
<1>. QED  BY <1>1, <1>2, <1>3, <1>4

(* It ends with its last change done.                                         *)
LEMMA EndsDone ==
    ASSUME NEW t, NEW c, DOMAIN c.changes \subseteq Nat, NEW k \in Nat,
           \A i \in DOMAIN c.changes : i <= k, NEW was, NEW now, NEW lost,
           GoingOf(t, c, k, was, now, lost), DidOf(t, c, k, was, now, lost)
    PROVE  EndedOf(t, c, k, was, now, lost, "success")
<1>. SUFFICES ASSUME NEW i \in DOMAIN c.changes
              PROVE  ToldOf(t, c, i, k, was, now, lost, "success")
  BY DEF EndedOf
<1>1. (i < k \/ i = k) /\ i <= k
  OBVIOUS
<1>2. DidOf(t, c, i, was, now, lost) /\ c.valid
  BY <1>1, Zenon DEF GoingOf
<1>. QED  BY <1>1, <1>2, Zenon DEF DidOf, ToldOf

(* It goes on to its next change.                                             *)
LEMMA GoesOn ==
    ASSUME NEW t, NEW c, DOMAIN c.changes \subseteq Nat, NEW k \in Nat, k + 1 \in DOMAIN c.changes,
           NEW was, NEW now, NEW lost,
           GoingOf(t, c, k, was, now, lost), DidOf(t, c, k, was, now, lost)
    PROVE  GoingOf(t, c, k + 1, was, now, lost) /\ KeptOf(c, k + 1, was, now)
<1>1. ASSUME NEW i \in DOMAIN c.changes, i < k + 1  PROVE DidOf(t, c, i, was, now, lost)
  <2>1. i < k \/ i = k
    BY <1>1
  <2>. QED  BY <2>1, Zenon DEF GoingOf
<1>2. ASSUME NEW i \in DOMAIN c.changes, i >= k + 1  PROVE KeptOf(c, i, was, now)
  <2>1. i > k
    BY <1>2
  <2>. QED  BY <2>1, Zenon DEF GoingOf
<1>3. k + 1 >= k + 1 /\ \A i \in DOMAIN c.changes : i > k + 1 => i >= k + 1
  OBVIOUS
<1>4. c.valid
  BY DEF GoingOf
<1>. QED  BY <1>1, <1>2, <1>3, <1>4, Zenon DEF GoingOf

(* A step at one file leaves what was done and what is to come as it was.     *)
LEMMA OnlyItsFile ==
    ASSUME NEW t, NEW c, DOMAIN c.changes \subseteq Nat, NEW k \in DOMAIN c.changes,
           NEW was, NEW now, NEW next, NEW lost, NEW lostNext, Less(lost, lostNext),
           \A i \in DOMAIN c.changes : i # k => next[c.changes[i].file] = now[c.changes[i].file],
           GoingOf(t, c, k, was, now, lost)
    PROVE  GoingOf(t, c, k, was, next, lostNext)
<1>1. ASSUME NEW i \in DOMAIN c.changes, i < k  PROVE DidOf(t, c, i, was, next, lostNext)
  <2>1. i # k
    BY <1>1
  <2>2. DidOf(t, c, i, was, now, lost)
    BY <1>1 DEF GoingOf
  <2>. QED  BY <2>1, <2>2, StaysDone
<1>2. ASSUME NEW i \in DOMAIN c.changes, i > k  PROVE KeptOf(c, i, was, next)
  <2>1. i # k
    BY <1>2
  <2>2. KeptOf(c, i, was, now)
    BY <1>2 DEF GoingOf
  <2>. QED  BY <2>1, <2>2, Zenon DEF KeptOf
<1>3. c.valid
  BY DEF GoingOf
<1>. QED  BY <1>1, <1>2, <1>3 DEF GoingOf

Idle == {v \in FileThreads : filePc[v] = "idle"}
Fit(x, idle) == x \in Seq(Lines) /\ \A v \in idle : x \in Seq(Without(v))
Busy == {"size", "read", "change", "open", "fill"}

FileTypes ==
    /\ filePc \in [FileThreads -> {"idle", "done"} \cup Busy]
    /\ DOMAIN call = FileThreads /\ DOMAIN step = FileThreads /\ DOMAIN size = FileThreads
    /\ DOMAIN text = FileThreads /\ DOMAIN fileOutcome = FileThreads
    /\ DOMAIN found = FileThreads /\ DOMAIN cut = FileThreads /\ DOMAIN misread = FileThreads
    /\ \A t \in FileThreads :
          /\ step[t] \in Nat \ {0}
          /\ filePc[t] = "idle" => step[t] = 1
          /\ filePc[t] # "idle" =>
                call[t] \in FileCalls[t] /\ Files!FilesOf(call[t]) \subseteq DOMAIN user
          /\ filePc[t] \in Busy => step[t] \in DOMAIN call[t].changes

(* The line of a tool that has not begun is nowhere.                          *)
Clean ==
    /\ \A f \in DOMAIN disk : Fit(disk[f], Idle)
    /\ \A t \in FileThreads : Fit(text[t], Idle)
    /\ \A t \in FileThreads : filePc[t] # "idle" =>
          \A f \in DOMAIN found[t] : found[t][f] \in Seq(Without(t))

Mine(t) == \A f \in Files!FilesOf(call[t]) : user[f] = t
Owns == \A t \in FileThreads : filePc[t] \in Busy => Mine(t)

Ledger(t) ==
    LET was == Seen(call[t], found[t])
        now == Seen(call[t], disk)
    IN  /\ filePc[t] = "done" =>
              EndedOf(t, call[t], step[t], was, now, Lost(t), fileOutcome[t])
        /\ filePc[t] \in Busy =>
              /\ GoingOf(t, call[t], step[t], was, now, Lost(t))
              /\ AtOf(t, filePc[t], call[t], step[t], was, now, size[t], text[t], Lost(t))

Peace == ~fileDisturbed => Clean /\ Owns /\ \A t \in FileThreads : Mine(t) => Ledger(t)

(* A step of a tool after its beginning.                                      *)
OthersWait(t) ==
    \A u \in FileThreads : u # t =>
        /\ filePc'[u] = filePc[u] /\ step'[u] = step[u] /\ size'[u] = size[u]
        /\ text'[u] = text[u] /\ fileOutcome'[u] = fileOutcome[u]
        /\ cut'[u] = cut[u] /\ misread'[u] = misread[u]

Worked(t) ==
    /\ call' = call /\ found' = found /\ user' = user
    /\ fileDisturbed' = fileDisturbed \/ fileDisturbed' = TRUE
    /\ filePc[t] \in Busy /\ filePc'[t] \in Busy \cup {"done"}
    /\ filePc' \in [FileThreads -> {"idle", "done"} \cup Busy]
    /\ DOMAIN step' = FileThreads /\ DOMAIN size' = FileThreads
    /\ DOMAIN text' = FileThreads /\ DOMAIN fileOutcome' = FileThreads
    /\ DOMAIN cut' = FileThreads /\ DOMAIN misread' = FileThreads
    /\ step'[t] \in Nat \ {0} /\ (filePc'[t] \in Busy => step'[t] \in DOMAIN call[t].changes)
    /\ OthersWait(t)

(* Nothing but one file can look different.                                   *)
OnlyFile(g) ==
    \A f : f # g => /\ {f} \cap DOMAIN disk' = {f} \cap DOMAIN disk
                    /\ Files!Text(disk', f) = Files!Text(disk, f)

LEMMA SameDisk == ASSUME disk' = disk, NEW g PROVE OnlyFile(g)
BY DEF OnlyFile

LEMMA MeasureWorks ==
    ASSUME FileTypes, NEW t \in FileThreads, Files!Measure(t)  PROVE Worked(t) /\ disk' = disk
BY DEF FileTypes, Busy, Files!Measure, Files!GoOn, Files!Same, Worked, OthersWait

LEMMA CannotReadWorks ==
    ASSUME FileTypes, NEW t \in FileThreads, Files!CannotRead(t)  PROVE Worked(t) /\ disk' = disk
BY DEF FileTypes, Busy, Files!CannotRead, Files!End, Files!Same, Worked, OthersWait

LEMMA LoadWorks ==
    ASSUME FileTypes, NEW t \in FileThreads, Files!Load(t)  PROVE Worked(t) /\ disk' = disk
BY DEF FileTypes, Busy, Files!Load, Files!GoOn, Files!Same, Worked, OthersWait

LEMMA MakeTextWorks ==
    ASSUME FileTypes, NEW t \in FileThreads, Files!MakeText(t)  PROVE Worked(t) /\ disk' = disk
BY DEF FileTypes, Busy, Files!MakeText, Files!GoOn, Files!Same, Worked, OthersWait

LEMMA OverrunWorks ==
    ASSUME FileTypes, NEW t \in FileThreads, Files!Overrun(t)  PROVE Worked(t) /\ disk' = disk
<1>1. PICK new : text' = [text EXCEPT ![t] = new]
  BY DEF Files!Overrun
<1>. QED
  BY <1>1 DEF FileTypes, Busy, Files!Overrun, Files!GoOn, Worked, OthersWait

LEMMA CannotMakeWorks ==
    ASSUME FileTypes, NEW t \in FileThreads, Files!CannotMake(t)  PROVE Worked(t) /\ disk' = disk
BY DEF FileTypes, Busy, Files!CannotMake, Files!End, Files!Same, Worked, OthersWait

LEMMA TruncateWorks ==
    ASSUME FileTypes, NEW t \in FileThreads, Files!Truncate(t)
    PROVE  Worked(t) /\ OnlyFile(Files!Change(t).file)
<1>1. Worked(t)
  BY DEF FileTypes, Busy, Files!Truncate, Files!GoOn, Files!Same, Worked, OthersWait
<1>2. PICK g : g = Files!Change(t).file
  OBVIOUS
<1>3. disk' = [f \in DOMAIN disk \cup {g} |-> IF f = g THEN <<>> ELSE disk[f]]
  BY <1>2 DEF Files!Truncate
<1>4. OnlyFile(g)
  BY <1>3 DEF OnlyFile, Files!Text
<1>. QED  BY <1>1, <1>2, <1>4

LEMMA CannotOpenWorks ==
    ASSUME FileTypes, NEW t \in FileThreads, Files!CannotOpen(t)  PROVE Worked(t) /\ disk' = disk
BY DEF FileTypes, Busy, Files!CannotOpen, Files!End, Files!Same, Worked, OthersWait

LEMMA SucceedWorks ==
    ASSUME FileTypes, FileWorld, NEW t \in FileThreads, Files!Succeed(t),
           Files!Same, size' = size, text' = text, DOMAIN cut' = FileThreads, misread' = misread,
           \A u \in FileThreads : u # t => cut'[u] = cut[u]
    PROVE  Worked(t)
<1>1. filePc[t] = "fill" /\ call[t] \in FileCalls[t] /\ step[t] \in DOMAIN call[t].changes
  BY DEF Files!Succeed, FileTypes, Busy
<1>2. Len(call[t].changes) \in Nat /\ DOMAIN call[t].changes = 1 .. Len(call[t].changes)
  BY <1>1, World DEF WorldOf
<1>3. CASE /\ step[t] < Len(call[t].changes) /\ Files!GoOn(t, "fill", "size")
           /\ step' = [step EXCEPT ![t] = @ + 1]
  <2>1. step[t] + 1 \in DOMAIN call[t].changes /\ step[t] + 1 \in Nat \ {0}
    BY <1>1, <1>2, <1>3
  <2>. QED
    BY <1>1, <1>3, <2>1 DEF FileTypes, Busy, Files!GoOn, Files!Same, Worked, OthersWait
<1>4. CASE step[t] = Len(call[t].changes) /\ Files!End(t, "success") /\ step' = step
  BY <1>1, <1>4 DEF FileTypes, Busy, Files!End, Files!Same, Worked, OthersWait
<1>. QED  BY <1>3, <1>4 DEF Files!Succeed

LEMMA FillWorks ==
    ASSUME FileTypes, FileWorld, NEW t \in FileThreads, Files!Fill(t)
    PROVE  Worked(t) /\ OnlyFile(Files!Change(t).file)
<1>1. Worked(t)
  BY SucceedWorks DEF Files!Fill, FileTypes
<1>2. PICK g : g = Files!Change(t).file
  OBVIOUS
<1>3. disk' = [disk EXCEPT ![g] = Files!Over(text[t], @)]
  BY <1>2 DEF Files!Fill
<1>4. OnlyFile(g)
  BY <1>3 DEF OnlyFile, Files!Text
<1>. QED  BY <1>1, <1>2, <1>4

LEMMA PartOnly ==
    ASSUME NEW t, Files!WritePart(t)  PROVE OnlyFile(Files!Change(t).file)
<1>1. PICK g : g = Files!Change(t).file
  OBVIOUS
<1>2. PICK n : disk' = [disk EXCEPT ![g] = Files!Over(SubSeq(text[t], 1, n), @)]
  BY <1>1 DEF Files!WritePart
<1>. QED  BY <1>1, <1>2 DEF OnlyFile, Files!Text

LEMMA FlushFailsWorks ==
    ASSUME FileTypes, FileWorld, NEW t \in FileThreads, Files!FlushFails(t)
    PROVE  Worked(t) /\ OnlyFile(Files!Change(t).file)
BY SucceedWorks, PartOnly DEF Files!FlushFails, Files!WritePart, FileTypes

LEMMA WriteFailsWorks ==
    ASSUME FileTypes, NEW t \in FileThreads, Files!WriteFails(t)
    PROVE  Worked(t) /\ OnlyFile(Files!Change(t).file)
BY PartOnly DEF FileTypes, Busy, Files!WriteFails, Files!WritePart, Files!End, Files!Same, Worked,
     OthersWait

LEMMA CancelWorks ==
    ASSUME FileTypes, NEW t \in FileThreads, Files!Cancel(t)
    PROVE  Worked(t) /\ OnlyFile(Files!Change(t).file) /\ (filePc[t] # "fill" => disk' = disk)
<1>1. Worked(t)
  BY DEF FileTypes, Busy, Files!Cancel, Files!Running, Files!WritePart, Files!End, Files!Same,
       Worked, OthersWait
<1>2. OnlyFile(Files!Change(t).file)
  BY PartOnly, SameDisk DEF Files!Cancel
<1>. QED  BY <1>1, <1>2 DEF Files!Cancel

LEMMA WorkedTypes ==
    ASSUME FileTypes, NEW t \in FileThreads, Worked(t)  PROVE FileTypes'
<1>1. ASSUME NEW u \in FileThreads
      PROVE  /\ step'[u] \in Nat \ {0}
             /\ filePc'[u] = "idle" => step'[u] = 1
             /\ filePc'[u] # "idle" =>
                   call'[u] \in FileCalls[u] /\ Files!FilesOf(call'[u]) \subseteq DOMAIN user'
             /\ filePc'[u] \in Busy => step'[u] \in DOMAIN call'[u].changes
  <2>1. CASE u = t
    BY <2>1 DEF FileTypes, Worked, Busy
  <2>2. CASE u # t
    BY <2>2 DEF FileTypes, Worked, OthersWait
  <2>. QED  BY <2>1, <2>2
<1>. QED  BY <1>1 DEF FileTypes, Worked

LEMMA SeenApart ==
    ASSUME NEW c, NEW g, g \notin Files!FilesOf(c), OnlyFile(g)
    PROVE  Seen(c, disk') = Seen(c, disk)
<1>1. \A f \in Files!FilesOf(c) : f # g
  OBVIOUS
<1>. QED  BY <1>1 DEF OnlyFile, Seen

LEMMA ChangesItsFile ==
    ASSUME FileTypes, NEW t \in FileThreads, filePc[t] \in Busy
    PROVE  Files!Change(t).file \in Files!FilesOf(call[t])
BY DEF FileTypes, Files!Change, Files!FilesOf

(* The others still own what they owned and see what they saw.                *)
LEMMA WorkedOthers ==
    ASSUME FileTypes, NEW t \in FileThreads, Worked(t), OnlyFile(Files!Change(t).file),
           Owns, NEW u \in FileThreads, u # t, Mine(u)', Mine(u) => Ledger(u)
    PROVE  Ledger(u)'
<1>1. call'[u] = call[u] /\ Mine(u) /\ Ledger(u) /\ Mine(t)
  BY DEF Worked, Mine, Owns
<1>2. Files!Change(t).file \notin Files!FilesOf(call[u])
  <2>1. Files!Change(t).file \in Files!FilesOf(call[t])
    BY ChangesItsFile DEF Worked
  <2>. QED  BY <1>1, <2>1 DEF Mine
<1>3. Seen(call[u], disk)' = Seen(call[u], disk)
  <2>1. Seen(call[u], disk)' = Seen(call[u], disk')
    BY <1>1
  <2>. QED  BY <1>2, <2>1, SeenApart
<1>4. Seen(call[u], found[u])' = Seen(call[u], found[u])
  BY DEF Worked
<1>5. /\ filePc'[u] = filePc[u] /\ step'[u] = step[u] /\ size'[u] = size[u]
      /\ text'[u] = text[u] /\ fileOutcome'[u] = fileOutcome[u]
      /\ Lost(u)' = Lost(u)
  BY DEF Worked, OthersWait, Lost
<1>. QED  BY <1>1, <1>3, <1>4, <1>5 DEF Ledger

(* The rest of Peace after such a step: what remains to be shown is what the  *)
(* tool itself knows, and that what it has put somewhere is fit.              *)
LEMMA WorkedPeace ==
    ASSUME FileTypes, Peace, NEW t \in FileThreads, Worked(t), OnlyFile(Files!Change(t).file),
           ~fileDisturbed =>
              /\ Fit(text'[t], Idle) /\ \A f \in DOMAIN disk' : Fit(disk'[f], Idle)
              /\ Ledger(t)'
    PROVE  Peace'
<1>. SUFFICES ASSUME ~fileDisturbed'  PROVE (Clean /\ Owns /\ \A u \in FileThreads : Mine(u) => Ledger(u))'
  BY DEF Peace
<1>1. ~fileDisturbed /\ Clean /\ Owns /\ \A u \in FileThreads : Mine(u) => Ledger(u)
  BY DEF Worked, Peace
<1>2. Idle' \subseteq Idle
  BY DEF Idle, Worked, OthersWait, Busy
<1>3. \A x : Fit(x, Idle) => Fit(x, Idle')
  BY <1>2 DEF Fit
<1>4. Clean'
  <2>1. \A f \in DOMAIN disk' : Fit(disk'[f], Idle')
    BY <1>1, <1>3
  <2>2. \A u \in FileThreads : Fit(text'[u], Idle')
    <3>1. \A u \in FileThreads : Fit(text'[u], Idle)
      BY <1>1 DEF Clean, Worked, OthersWait
    <3>. QED  BY <1>3, <3>1
  <2>3. ASSUME NEW u \in FileThreads, filePc'[u] # "idle"
        PROVE  \A f \in DOMAIN found'[u] : found'[u][f] \in Seq(Without(u))
    <3>1. found'[u] = found[u] /\ filePc[u] # "idle"
      BY <2>3 DEF Worked, OthersWait, Busy
    <3>. QED  BY <1>1, <3>1 DEF Clean
  <2>. QED  BY <2>1, <2>2, <2>3 DEF Clean
<1>5. Owns'
  <2>. SUFFICES ASSUME NEW u \in FileThreads, filePc'[u] \in Busy  PROVE Mine(u)'
    BY DEF Owns
  <2>1. filePc[u] \in Busy
    BY DEF Worked, OthersWait
  <2>. QED  BY <1>1, <2>1 DEF Owns, Mine, Worked
<1>6. ASSUME NEW u \in FileThreads, Mine(u)'  PROVE Ledger(u)'
  <2>1. CASE u = t
    BY <1>1, <2>1
  <2>2. CASE u # t
    BY <1>1, <1>6, <2>2, WorkedOthers
  <2>. QED  BY <2>1, <2>2
<1>. QED  BY <1>4, <1>5, <1>6

(* What a tool that runs knows of its call and its files.                     *)
Standing(t, c, k, was, now) ==
    /\ c = call[t] /\ k = step[t] /\ was = Seen(call[t], found[t]) /\ now = Seen(call[t], disk)
    /\ DOMAIN c.changes \subseteq Nat /\ k \in DOMAIN c.changes
    /\ GoingOf(t, c, k, was, now, Lost(t))
    /\ AtOf(t, filePc[t], c, k, was, now, size[t], text[t], Lost(t))

LEMMA Knows ==
    ASSUME FileTypes, FileWorld, Peace, ~fileDisturbed, NEW t \in FileThreads, filePc[t] \in Busy
    PROVE  \E c, k, was, now : Standing(t, c, k, was, now)
<1>1. Ledger(t)
  BY DEF Peace, Owns
<1>2. call[t] \in FileCalls[t] /\ step[t] \in DOMAIN call[t].changes
  BY DEF FileTypes, Busy
<1>3. DOMAIN call[t].changes \subseteq Nat
  <2>1. /\ Len(call[t].changes) \in Nat /\ DOMAIN call[t].changes = 1 .. Len(call[t].changes)
    BY <1>2, World DEF WorldOf
  <2>. QED  BY <2>1
<1>. QED  BY <1>1, <1>2, <1>3, Zenon DEF Ledger, Standing

LEMMA LedgerBusy ==
    ASSUME NEW t \in FileThreads, Worked(t), NEW c, NEW k, NEW was, NEW now,
           Standing(t, c, k, was, now), filePc'[t] \in Busy,
           NEW kNext, kNext = step'[t], NEW nowNext, nowNext = Seen(call[t], disk'),
           GoingOf(t, c, kNext, was, nowNext, Lost(t)'),
           AtOf(t, filePc'[t], c, kNext, was, nowNext, size'[t], text'[t], Lost(t)')
    PROVE  Ledger(t)'
<1>1. call'[t] = c /\ Seen(call[t], found[t])' = was /\ Seen(call[t], disk)' = nowNext
  BY DEF Worked, Standing
<1>2. filePc'[t] # "done"
  BY DEF Busy
<1>. QED  BY <1>1, <1>2 DEF Ledger

LEMMA LedgerDone ==
    ASSUME NEW t \in FileThreads, Worked(t), NEW c, NEW k, NEW was, NEW now,
           Standing(t, c, k, was, now), filePc'[t] = "done",
           NEW nowNext, nowNext = Seen(call[t], disk'),
           EndedOf(t, c, step'[t], was, nowNext, Lost(t)', fileOutcome'[t])
    PROVE  Ledger(t)'
<1>1. call'[t] = c /\ Seen(call[t], found[t])' = was /\ Seen(call[t], disk)' = nowNext
  BY DEF Worked, Standing
<1>2. filePc'[t] \notin Busy
  BY DEF Busy
<1>. QED  BY <1>1, <1>2 DEF Ledger

Looks(c, i, g, files, now) ==
    i \in DOMAIN c.changes /\ g = c.changes[i].file /\ now = Seen(c, files)

LEMMA SeenAt ==
    ASSUME NEW c, NEW i, NEW g, NEW files, NEW now, Looks(c, i, g, files, now)
    PROVE  now[g].text = Files!Text(files, g) /\ (ThereOf(c, i, now) <=> g \in DOMAIN files)
<1>1. g \in Files!FilesOf(c) /\ g = c.changes[i].file /\ now = Seen(c, files)
  BY DEF Files!FilesOf, Looks
<1>2. now[g].text = Files!Text(files, g) /\ now[g].there = {g} \cap DOMAIN files
  BY <1>1 DEF Seen
<1>. QED  BY <1>1, <1>2 DEF ThereOf

LEMMA StandingAt ==
    ASSUME NEW t, NEW c, NEW k, NEW was, NEW now, Standing(t, c, k, was, now),
           NEW g, g = c.changes[k].file
    PROVE  /\ now[g].text = Files!Text(disk, g) /\ was[g].text = Files!Text(found[t], g)
           /\ ThereOf(c, k, now) <=> g \in DOMAIN disk
<1>1. Looks(c, k, g, disk, now) /\ Looks(c, k, g, found[t], was)
  BY DEF Standing, Looks
<1>2. now[g].text = Files!Text(disk, g) /\ (ThereOf(c, k, now) <=> g \in DOMAIN disk)
  BY <1>1, SeenAt
<1>3. was[g].text = Files!Text(found[t], g)
  BY <1>1, SeenAt
<1>. QED  BY <1>2, <1>3

(* The files and texts are fit where they do not change.                      *)
LEMMA FitAsBefore ==
    ASSUME Peace, ~fileDisturbed, NEW t \in FileThreads
    PROVE  Fit(text[t], Idle) /\ \A f \in DOMAIN disk : Fit(disk[f], Idle)
BY DEF Peace, Clean

LEMMA MeasurePeace ==
    ASSUME FileTypes, FileWorld, Peace, NEW t \in FileThreads, Files!Measure(t)
    PROVE  Peace'
<1>1. Worked(t) /\ disk' = disk
  BY MeasureWorks
<1>. SUFFICES ASSUME ~fileDisturbed  PROVE Fit(text'[t], Idle) /\ Ledger(t)'
  BY <1>1, SameDisk, FitAsBefore, WorkedPeace
<1>2. PICK c, k, was, now : Standing(t, c, k, was, now)
  BY <1>1, Knows DEF Worked
<1>3. /\ text'[t] = text[t] /\ step'[t] = k /\ Lost(t)' = Lost(t)
      /\ filePc[t] = "size" /\ filePc'[t] = "read"
      /\ c.changes[k].file \in DOMAIN disk /\ size'[t] = Len(disk[c.changes[k].file])
  BY <1>2 DEF Files!Measure, Files!GoOn, Files!Change, FileTypes, Standing, Lost
<1>4. PICK g : g = c.changes[k].file
  OBVIOUS
<1>5. now[g].text = disk[g] /\ ThereOf(c, k, now)
  <2>1. now[g].text = Files!Text(disk, g) /\ (ThereOf(c, k, now) <=> g \in DOMAIN disk)
    BY <1>2, <1>4, StandingAt
  <2>. QED  BY <1>3, <1>4, <2>1 DEF Files!Text
<1>6. AtOf(t, "read", c, k, was, now, size'[t], text'[t], Lost(t)')
  BY <1>2, <1>3, <1>4, <1>5 DEF Standing, AtOf
<1>7. now = Seen(call[t], disk')
  BY <1>1, <1>2 DEF Standing
<1>8. Ledger(t)'
  BY <1>1, <1>2, <1>3, <1>6, <1>7, LedgerBusy DEF Standing, Busy
<1>. QED  BY <1>3, <1>8, FitAsBefore

(* What is read is over the lines of the file and what was left in memory.    *)
LEMMA ReadTyped ==
    ASSUME NEW S, NEW now \in Seq(S), NEW n \in Nat, NEW got \in 0 .. Len(now), NEW rest \in S
    PROVE  Files!Buffer(now, n, got, rest) \in Seq(S)
<1>1. PICK all : all = [i \in 1 .. n |-> IF i <= got THEN now[i] ELSE rest]
  OBVIOUS
<1>2. all \in Seq(S)
  <2>1. \A i \in 1 .. n : (IF i <= got THEN now[i] ELSE rest) \in S
    OBVIOUS
  <2>. QED  BY <1>1, <2>1
<1>3. PICK nuls : nuls = {i \in DOMAIN all : all[i] = Files!Nul}
  OBVIOUS
<1>4. PICK first : first = CHOOSE i \in nuls : \A j \in nuls : i <= j
  OBVIOUS
<1>5. Files!UpToNul(all) = IF nuls = {} THEN all ELSE SubSeq(all, 1, first - 1)
  BY <1>3, <1>4 DEF Files!UpToNul
<1>6. Files!Buffer(now, n, got, rest) = Files!UpToNul(all)
  BY <1>1 DEF Files!Buffer
<1>7. CASE nuls # {}
  <2>1. nuls \subseteq Nat
    BY <1>2, <1>3
  <2>2. \E i \in nuls : \A j \in nuls : i <= j
    BY <1>7, <2>1, LeastOf
  <2>3. first \in nuls
    BY <1>4, <2>2
  <2>4. first - 1 \in 0 .. Len(all)
    BY <1>2, <1>3, <2>3
  <2>5. SubSeq(all, 1, first - 1) \in Seq(S)
    BY <1>2, <2>4
  <2>. QED  BY <1>5, <1>6, <1>7, <2>5
<1>. QED  BY <1>2, <1>5, <1>6, <1>7

LEMMA LoadIs ==
    ASSUME NEW t, Files!Load(t), NEW now, now = disk[Files!Change(t).file]
    PROVE  \E got \in 0 .. Len(now), rest \in Leftovers :
              /\ text' = [text EXCEPT ![t] = Files!Buffer(now, size[t], got, rest)]
              /\ misread' = IF text'[t] = now THEN misread
                            ELSE [misread EXCEPT ![t] = @ \cup {step[t]}]
BY DEF Files!Load

LEMMA LoadPeace ==
    ASSUME FileTypes, FileWorld, Peace, NEW t \in FileThreads, Files!Load(t)
    PROVE  Peace'
<1>1. Worked(t) /\ disk' = disk
  BY LoadWorks
<1>. SUFFICES ASSUME ~fileDisturbed  PROVE Fit(text'[t], Idle) /\ Ledger(t)'
  BY <1>1, SameDisk, FitAsBefore, WorkedPeace
<1>2. PICK c, k, was, now : Standing(t, c, k, was, now)
  BY <1>1, Knows DEF Worked
<1>3. PICK g : g = c.changes[k].file
  OBVIOUS
<1>4. PICK got \in 0 .. Len(disk[g]), rest \in Leftovers :
         /\ text' = [text EXCEPT ![t] = Files!Buffer(disk[g], size[t], got, rest)]
         /\ misread' = IF text'[t] = disk[g] THEN misread
                       ELSE [misread EXCEPT ![t] = @ \cup {step[t]}]
  <2>1. disk[g] = disk[Files!Change(t).file]
    BY <1>2, <1>3 DEF Files!Change, Standing
  <2>. QED  BY <2>1, LoadIs
<1>5. /\ step'[t] = k /\ size'[t] = size[t] /\ cut'[t] = cut[t]
      /\ filePc[t] = "read" /\ filePc'[t] = "change"
      /\ misread[t] \subseteq misread'[t] /\ (text'[t] = disk[g] \/ k \in misread'[t])
      /\ text'[t] = Files!Buffer(disk[g], size[t], got, rest)
  BY <1>2, <1>3, <1>4 DEF Files!Load, Files!GoOn, FileTypes, Standing
<1>6. KeptOf(c, k, was, now) /\ ThereOf(c, k, now) /\ size[t] = Len(now[g].text)
  BY <1>2, <1>3, <1>5 DEF Standing, AtOf
<1>7. g \in DOMAIN disk /\ now[g].text = disk[g]
  <2>1. now[g].text = Files!Text(disk, g) /\ (ThereOf(c, k, now) <=> g \in DOMAIN disk)
    BY <1>2, <1>3, StandingAt
  <2>. QED  BY <1>6, <2>1 DEF Files!Text
<1>8. Fit(text'[t], Idle)
  <2>1. Fit(disk[g], Idle)
    BY <1>7, FitAsBefore
  <2>2. size[t] \in Nat
    BY <1>6, <1>7, <2>1 DEF Fit
  <2>3. rest \in Lines /\ \A v \in Idle : rest \in Without(v)
    BY World DEF WorldOf, Lines, Without, Idle
  <2>4. ASSUME NEW S, disk[g] \in Seq(S), rest \in S  PROVE text'[t] \in Seq(S)
    BY <1>5, <2>2, <2>4, ReadTyped
  <2>. QED  BY <2>1, <2>3, <2>4 DEF Fit
<1>9. text'[t] = now[g].text \/ ExceptOf(k, Lost(t)')
  BY <1>5, <1>7 DEF ExceptOf, Lost
<1>10. AtOf(t, "change", c, k, was, now, size'[t], text'[t], Lost(t)')
  BY <1>3, <1>6, <1>9 DEF AtOf
<1>11. now = Seen(call[t], disk')
  BY <1>1, <1>2 DEF Standing
<1>12. GoingOf(t, c, k, was, now, Lost(t)')
  <2>1. Less(Lost(t), Lost(t)')
    BY <1>5 DEF Less, Lost
  <2>2. /\ DOMAIN c.changes \subseteq Nat /\ k \in DOMAIN c.changes
        /\ GoingOf(t, c, k, was, now, Lost(t))
    BY <1>2 DEF Standing
  <2>. QED  BY <2>1, <2>2, OnlyItsFile
<1>13. Ledger(t)'
  BY <1>1, <1>2, <1>5, <1>10, <1>11, <1>12, LedgerBusy DEF Busy
<1>. QED  BY <1>8, <1>13

(* A tool ends where its file is as it was.                                   *)
LEMMA EndPeace ==
    ASSUME FileTypes, FileWorld, Peace, NEW t \in FileThreads, Worked(t), disk' = disk,
           text'[t] = text[t], step'[t] = step[t], Lost(t)' = Lost(t), filePc[t] # "fill",
           filePc'[t] = "done", fileOutcome'[t] \in {"error", "cancelled"}
    PROVE  Peace'
<1>. SUFFICES ASSUME ~fileDisturbed  PROVE Fit(text'[t], Idle) /\ Ledger(t)'
  BY SameDisk, FitAsBefore, WorkedPeace
<1>2. PICK c, k, was, now : Standing(t, c, k, was, now)
  BY Knows DEF Worked
<1>3. now = Seen(call[t], disk') /\ step'[t] = k /\ k \in Nat
  BY <1>2 DEF Standing
<1>4. /\ GoingOf(t, c, k, was, now, Lost(t)) /\ DOMAIN c.changes \subseteq Nat
      /\ KeptOf(c, k, was, now)
  BY <1>2 DEF Standing, AtOf
<1>5. EndedOf(t, c, k, was, now, Lost(t)', fileOutcome'[t])
  BY <1>3, <1>4, EndsUntouched
<1>6. Ledger(t)'
  BY <1>2, <1>3, <1>5, LedgerDone
<1>. QED  BY <1>6, FitAsBefore

LEMMA EndsPeace ==
    ASSUME FileTypes, FileWorld, Peace, NEW t \in FileThreads,
           \/ Files!CannotRead(t) \/ Files!CannotMake(t) \/ Files!CannotOpen(t)
           \/ Files!Cancel(t) /\ filePc[t] # "fill"
    PROVE  Peace'
<1>1. Worked(t) /\ disk' = disk
  BY CannotReadWorks, CannotMakeWorks, CannotOpenWorks, CancelWorks
<1>2. /\ text'[t] = text[t] /\ step'[t] = step[t] /\ Lost(t)' = Lost(t) /\ filePc[t] # "fill"
      /\ filePc'[t] = "done" /\ fileOutcome'[t] \in {"error", "cancelled"}
  BY DEF Files!CannotRead, Files!CannotMake, Files!CannotOpen, Files!Cancel, Files!End, FileTypes,
    Lost
<1>. QED  BY <1>1, <1>2, EndPeace

(* Once a tool wrote past its buffer nothing more is said.                    *)
LEMMA OverrunPeace == ASSUME NEW t, Files!Overrun(t) PROVE Peace'
BY DEF Files!Overrun, Peace

LEMMA SeqOfBoth ==
    ASSUME NEW S, NEW T, NEW x, x \in Seq(S), x \in Seq(T)
    PROVE  x \in Seq(S \cap T)
<1>1. \A i \in 1 .. Len(x) : x[i] \in S \cap T
  OBVIOUS
<1>2. x = [i \in 1 .. Len(x) |-> x[i]] /\ Len(x) \in Nat
  OBVIOUS
<1>. QED  BY <1>1, <1>2

LEMMA OldSequences ==
    ASSUME FileWorld, NEW W, OldLines \subseteq W, NEW old \in Seq(SUBSET OldLines)
    PROVE  old \in Seq(SUBSET W)
<1>1. SUBSET OldLines \subseteq SUBSET W
  OBVIOUS
<1>2. \A i \in 1 .. Len(old) : old[i] \in SUBSET W
  BY <1>1
<1>3. old = [i \in 1 .. Len(old) |-> old[i]] /\ Len(old) \in Nat
  OBVIOUS
<1>. QED  BY <1>2, <1>3

LEMMA MakeTextPeace ==
    ASSUME FileTypes, FileWorld, Peace, NEW t \in FileThreads, Files!MakeText(t)
    PROVE  Peace'
<1>1. Worked(t) /\ disk' = disk
  BY MakeTextWorks
<1>. SUFFICES ASSUME ~fileDisturbed  PROVE Fit(text'[t], Idle) /\ Ledger(t)'
  BY <1>1, SameDisk, FitAsBefore, WorkedPeace
<1>2. PICK c, k, was, now : Standing(t, c, k, was, now)
  BY <1>1, Knows DEF Worked
<1>3. PICK g, change : g = c.changes[k].file /\ change = c.changes[k]
  OBVIOUS
<1>4. PICK s, r : s = text[t] /\ r = Files!NewText(s, change, t)
  OBVIOUS
<1>5. /\ step'[t] = k /\ Lost(t)' = Lost(t) /\ size'[t] = size[t]
      /\ filePc[t] = "change" /\ filePc'[t] = "open"
      /\ text'[t] = r /\ Files!HasMatch(s, change)
  BY <1>2, <1>3, <1>4 DEF Files!MakeText, Files!GoOn, Files!Change, FileTypes, Standing, Lost
<1>6. KeptOf(c, k, was, now) /\ ThereOf(c, k, now) /\ (s = now[g].text \/ ExceptOf(k, Lost(t)))
  BY <1>2, <1>3, <1>4, <1>5 DEF Standing, AtOf
<1>7. s = now[g].text => was[g].text = s /\ s = Files!Text(found[t], g)
  BY <1>2, <1>3, <1>6, StandingAt DEF KeptOf
<1>8. Fit(s, Idle)
  BY <1>4, FitAsBefore
<1>9. change.old \in Seq(SUBSET OldLines) /\ change.old # <<>>
  <2>1. change.kind # "write"
    BY <1>5 DEF Files!HasMatch
  <2>2. c \in FileCalls[t] /\ k \in DOMAIN c.changes
    BY <1>2, <1>5 DEF Standing, FileTypes
  <2>. QED  BY <1>3, <2>1, <2>2, World, Zenon DEF WorldOf
<1>10. \A v \in FileThreads : v \notin OldLines
  BY World DEF WorldOf
<1>11. ASSUME NEW W, s \in Seq(W), t \in W  PROVE r \in Seq(W)
  BY <1>4, <1>5, <1>9, <1>11, NewTextTyped
<1>12. Fit(r, Idle)
  <2>1. t \in Lines /\ \A v \in Idle : t \in Without(v)
    BY <1>5 DEF Lines, Without, Idle
  <2>. QED  BY <1>8, <1>11, <2>1 DEF Fit
<1>13. s = now[g].text => Files!AsAsked(change, s, r, t)
  <2>. SUFFICES ASSUME s = now[g].text  PROVE Files!AsAsked(change, s, r, t)
    OBVIOUS
  <2>1. s \in Seq(Without(t))
    <3>1. \A f \in DOMAIN found[t] : found[t][f] \in Seq(Without(t))
      BY <1>5 DEF Peace, Clean
    <3>2. <<>> \in Seq(Without(t))
      OBVIOUS
    <3>. QED  BY <1>7, <3>1, <3>2 DEF Files!Text
  <2>2. OldLines \subseteq Without(t) /\ t \notin Without(t)
    BY <1>10 DEF Without, Lines
  <2>3. change.old \in Seq(SUBSET Without(t))
    BY <1>9, <2>2, OldSequences
  <2>. QED  BY <1>4, <1>5, <1>9, <2>1, <2>2, <2>3, NewTextAsAsked
<1>16. AtOf(t, "open", c, k, was, now, size'[t], text'[t], Lost(t)')
  <2>1. AskedOf(t, c, k, was, r) \/ ExceptOf(k, Lost(t))
    BY <1>3, <1>6, <1>7, <1>13, Zenon DEF AskedOf
  <2>. QED  BY <1>5, <1>6, <2>1, Zenon DEF AtOf
<1>17. now = Seen(call[t], disk')
  BY <1>1, <1>2 DEF Standing
<1>18. Ledger(t)'
  BY <1>1, <1>2, <1>5, <1>16, <1>17, LedgerBusy DEF Standing, Busy
<1>. QED  BY <1>5, <1>12, <1>18

(* The file a step changes is none of the others of the call.                 *)
LEMMA OthersSeen ==
    ASSUME FileTypes, FileWorld, NEW t \in FileThreads, filePc[t] \in Busy,
           NEW c, NEW k, NEW was, NEW now, Standing(t, c, k, was, now),
           NEW g, OnlyFile(g), g = c.changes[k].file, NEW nowNext, nowNext = Seen(c, disk')
    PROVE  \A i \in DOMAIN c.changes : i # k => nowNext[c.changes[i].file] = now[c.changes[i].file]
<1>. SUFFICES ASSUME NEW i \in DOMAIN c.changes, i # k
              PROVE  nowNext[c.changes[i].file] = now[c.changes[i].file]
  OBVIOUS
<1>1. c \in FileCalls[t] /\ k \in DOMAIN c.changes /\ now = Seen(c, disk)
  BY DEF Standing, FileTypes, Busy
<1>2. c.changes[i].file # c.changes[k].file
  BY <1>1, World, Zenon DEF WorldOf
<1>3. PICK f : f = c.changes[i].file
  OBVIOUS
<1>4. f \in Files!FilesOf(c)
  BY <1>3 DEF Files!FilesOf
<1>5. {f} \cap DOMAIN disk' = {f} \cap DOMAIN disk /\ Files!Text(disk', f) = Files!Text(disk, f)
  BY <1>2, <1>3 DEF OnlyFile
<1>. QED  BY <1>1, <1>3, <1>4, <1>5 DEF Seen

LEMMA TruncatePeace ==
    ASSUME FileTypes, FileWorld, Peace, NEW t \in FileThreads, Files!Truncate(t)
    PROVE  Peace'
<1>1. Worked(t) /\ OnlyFile(Files!Change(t).file)
  BY TruncateWorks
<1>. SUFFICES ASSUME ~fileDisturbed
              PROVE  /\ Fit(text'[t], Idle) /\ \A f \in DOMAIN disk' : Fit(disk'[f], Idle)
                     /\ Ledger(t)'
  BY <1>1, WorkedPeace
<1>2. PICK c, k, was, now : Standing(t, c, k, was, now)
  BY <1>1, Knows DEF Worked
<1>3. PICK g : g = c.changes[k].file
  OBVIOUS
<1>4. /\ step'[t] = k /\ Lost(t)' = Lost(t) /\ size'[t] = size[t] /\ text'[t] = text[t]
      /\ filePc[t] = "open" /\ filePc'[t] = "fill"
      /\ disk' = [f \in DOMAIN disk \cup {g} |-> IF f = g THEN <<>> ELSE disk[f]]
      /\ Files!Change(t).file = g
  BY <1>2, <1>3 DEF Files!Truncate, Files!GoOn, Files!Change, FileTypes, Standing, Lost
<1>5. PICK nowNext : nowNext = Seen(c, disk')
  OBVIOUS
<1>6. GoingOf(t, c, k, was, nowNext, Lost(t)')
  <2>1. \A i \in DOMAIN c.changes : i # k => nowNext[c.changes[i].file] = now[c.changes[i].file]
    <3>1. filePc[t] \in Busy /\ OnlyFile(g)
      BY <1>1, <1>4 DEF Worked
    <3>. QED  BY <1>2, <1>3, <1>5, <3>1, OthersSeen
  <2>2. /\ DOMAIN c.changes \subseteq Nat /\ k \in DOMAIN c.changes
        /\ GoingOf(t, c, k, was, now, Lost(t))
    BY <1>2 DEF Standing
  <2>3. Less(Lost(t), Lost(t)')
    BY <1>4 DEF Less
  <2>. QED  BY <1>4, <2>1, <2>2, <2>3, OnlyItsFile
<1>7. g \in DOMAIN disk' /\ disk'[g] = <<>>
  BY <1>4
<1>8. ThereOf(c, k, nowNext) /\ nowNext[g].text = <<>>
  <2>1. k \in DOMAIN c.changes
    BY <1>2 DEF Standing
  <2>2. nowNext[g].text = Files!Text(disk', g) /\ (ThereOf(c, k, nowNext) <=> g \in DOMAIN disk')
    <3>1. Looks(c, k, g, disk', nowNext)
      BY <1>3, <1>5, <2>1, Zenon DEF Looks
    <3>. QED  BY <3>1, SeenAt
  <2>. QED  BY <1>7, <2>2 DEF Files!Text
<1>9. AskedOf(t, c, k, was, text[t]) \/ ExceptOf(k, Lost(t))
  BY <1>2, <1>4 DEF Standing, AtOf
<1>10. AtOf(t, "fill", c, k, was, nowNext, size'[t], text'[t], Lost(t)')
  BY <1>3, <1>4, <1>8, <1>9, Zenon DEF AtOf, EmptyOf
<1>11. nowNext = Seen(call[t], disk')
  BY <1>2, <1>5 DEF Standing
<1>12. Ledger(t)'
  BY <1>1, <1>2, <1>4, <1>6, <1>10, <1>11, LedgerBusy DEF Busy
<1>13. \A f \in DOMAIN disk' : Fit(disk'[f], Idle)
  <2>1. Fit(<<>>, Idle)
    BY DEF Fit
  <2>. QED  BY <1>4, <2>1, FitAsBefore
<1>. QED  BY <1>4, <1>12, <1>13, FitAsBefore

LEMMA OverNothing ==
    ASSUME NEW S, NEW s \in Seq(S)
    PROVE  Files!Over(s, <<>>) = s
<1>1. SubSeq(<<>>, Len(s) + 1, Len(<<>>)) = <<>>
  <2>1. Len(s) + 1 \in Int /\ Len(<<>>) = 0 /\ 0 \in Int /\ 0 < Len(s) + 1
    OBVIOUS
  <2>. QED  BY <2>1, SubSeqEmpty
<1>2. s \o <<>> = s
  OBVIOUS
<1>. QED  BY <1>1, <1>2 DEF Files!Over

(* A change is done, or its write was lost and nobody noticed.                *)
LEMMA SucceedLedger ==
    ASSUME FileTypes, FileWorld, NEW t \in FileThreads, Worked(t), Files!Succeed(t),
           NEW c, NEW k, NEW was, NEW now, Standing(t, c, k, was, now),
           NEW nowNext, nowNext = Seen(call[t], disk'),
           GoingOf(t, c, k, was, nowNext, Lost(t)'), DidOf(t, c, k, was, nowNext, Lost(t)')
    PROVE  Ledger(t)'
<1>1. /\ c = call[t] /\ k = step[t] /\ DOMAIN c.changes \subseteq Nat /\ k \in DOMAIN c.changes
      /\ c \in FileCalls[t] /\ k \in Nat
  BY DEF Standing, Worked, FileTypes, Busy
<1>2. Len(c.changes) \in Nat /\ DOMAIN c.changes = 1 .. Len(c.changes)
  BY <1>1, World DEF WorldOf
<1>3. CASE step[t] < Len(call[t].changes) /\ Files!GoOn(t, "fill", "size")
           /\ step' = [step EXCEPT ![t] = @ + 1]
  <2>1. k + 1 \in DOMAIN c.changes
    BY <1>1, <1>2, <1>3
  <2>2. step'[t] = k + 1 /\ filePc'[t] = "size"
    BY <1>1, <1>3 DEF FileTypes, Files!GoOn
  <2>3. /\ GoingOf(t, c, k + 1, was, nowNext, Lost(t)')
        /\ KeptOf(c, k + 1, was, nowNext)
    BY <1>1, <2>1, GoesOn
  <2>4. AtOf(t, "size", c, k + 1, was, nowNext, size'[t], text'[t], Lost(t)')
    BY <2>3 DEF AtOf
  <2>. QED  BY <2>2, <2>3, <2>4, LedgerBusy DEF Busy
<1>4. CASE step[t] = Len(call[t].changes) /\ Files!End(t, "success") /\ step' = step
  <2>1. \A i \in DOMAIN c.changes : i <= k
    BY <1>1, <1>2, <1>4
  <2>2. step'[t] = k /\ filePc'[t] = "done" /\ fileOutcome'[t] = "success"
    BY <1>1, <1>4 DEF FileTypes, Files!End
  <2>3. EndedOf(t, c, k, was, nowNext, Lost(t)', "success")
    BY <1>1, <2>1, EndsDone
  <2>. QED  BY <2>2, <2>3, LedgerDone
<1>. QED  BY <1>3, <1>4 DEF Files!Succeed

(* A part of the new text, or all of it, is written into the emptied file.    *)
Writes(t, n) ==
    disk' = [disk EXCEPT ![Files!Change(t).file] = Files!Over(SubSeq(text[t], 1, n), @)]

LEMMA PartWritten ==
    ASSUME FileTypes, FileWorld, Peace, ~fileDisturbed, NEW t \in FileThreads, Worked(t),
           OnlyFile(Files!Change(t).file), filePc[t] = "fill",
           NEW n \in 0 .. Len(text[t]), Writes(t, n), Less(Lost(t), Lost(t)'),
           NEW c, NEW k, NEW was, NEW now, Standing(t, c, k, was, now),
           NEW nowNext, nowNext = Seen(call[t], disk')
    PROVE  /\ \A f \in DOMAIN disk' : Fit(disk'[f], Idle)
           /\ GoingOf(t, c, k, was, nowNext, Lost(t)')
           /\ nowNext[c.changes[k].file].text = SubSeq(text[t], 1, n)
           /\ AskedOf(t, c, k, was, text[t]) \/ ExceptOf(k, Lost(t)')
<1>1. PICK g, part : g = c.changes[k].file /\ part = SubSeq(text[t], 1, n)
  OBVIOUS
<1>2. Files!Change(t).file = g /\ disk' = [disk EXCEPT ![g] = Files!Over(part, @)] /\ c = call[t]
  BY <1>1 DEF Files!Change, Standing, Writes
<1>3. /\ EmptyOf(c, k, now) /\ ThereOf(c, k, now)
      /\ AskedOf(t, c, k, was, text[t]) \/ ExceptOf(k, Lost(t))
  BY DEF Standing, AtOf
<1>4. g \in DOMAIN disk /\ disk[g] = <<>>
  <2>1. now[g].text = Files!Text(disk, g) /\ (ThereOf(c, k, now) <=> g \in DOMAIN disk)
    BY <1>1, StandingAt
  <2>. QED  BY <1>1, <1>3, <2>1 DEF EmptyOf, Files!Text
<1>5. Fit(text[t], Idle) /\ \A f \in DOMAIN disk : Fit(disk[f], Idle)
  BY FitAsBefore
<1>6. Fit(part, Idle)
  <2>1. ASSUME NEW S, text[t] \in Seq(S)  PROVE part \in Seq(S)
    BY <1>1, <2>1
  <2>. QED  BY <1>5, <2>1 DEF Fit
<1>7. disk' = [disk EXCEPT ![g] = part]
  <2>1. Files!Over(part, <<>>) = part
    BY <1>6, OverNothing DEF Fit
  <2>. QED  BY <1>2, <1>4, <2>1
<1>8. \A f \in DOMAIN disk' : Fit(disk'[f], Idle)
  BY <1>5, <1>6, <1>7
<1>9. GoingOf(t, c, k, was, nowNext, Lost(t)')
  <2>1. \A i \in DOMAIN c.changes : i # k => nowNext[c.changes[i].file] = now[c.changes[i].file]
    <3>1. filePc[t] \in Busy /\ OnlyFile(g) /\ nowNext = Seen(c, disk')
      BY <1>2 DEF Worked
    <3>. QED  BY <1>1, <3>1, OthersSeen
  <2>2. /\ DOMAIN c.changes \subseteq Nat /\ k \in DOMAIN c.changes
        /\ GoingOf(t, c, k, was, now, Lost(t))
    BY DEF Standing
  <2>. QED  BY <2>1, <2>2, OnlyItsFile
<1>10. nowNext[g].text = part
  <2>1. k \in DOMAIN c.changes
    BY DEF Standing
  <2>2. Looks(c, k, g, disk', nowNext)
    BY <1>1, <1>2, <2>1, Zenon DEF Looks
  <2>3. nowNext[g].text = Files!Text(disk', g)
    BY <2>2, SeenAt
  <2>4. Files!Text(disk', g) = part
    BY <1>4, <1>7 DEF Files!Text
  <2>. QED  BY <2>3, <2>4
<1>11. AskedOf(t, c, k, was, text[t]) \/ ExceptOf(k, Lost(t)')
  BY <1>3 DEF ExceptOf, Less
<1>. QED  BY <1>1, <1>8, <1>9, <1>10, <1>11

LEMMA FillPeace ==
    ASSUME FileTypes, FileWorld, Peace, NEW t \in FileThreads, Files!Fill(t)
    PROVE  Peace'
<1>1. Worked(t) /\ OnlyFile(Files!Change(t).file)
  BY FillWorks
<1>. SUFFICES ASSUME ~fileDisturbed
              PROVE  /\ Fit(text'[t], Idle) /\ \A f \in DOMAIN disk' : Fit(disk'[f], Idle)
                     /\ Ledger(t)'
  BY <1>1, WorkedPeace
<1>2. PICK c, k, was, now : Standing(t, c, k, was, now)
  BY <1>1, Knows DEF Worked
<1>3. PICK nowNext : nowNext = Seen(call[t], disk')
  OBVIOUS
<1>4. /\ Lost(t)' = Lost(t) /\ text'[t] = text[t] /\ filePc[t] = "fill" /\ Files!Succeed(t)
      /\ disk' = [disk EXCEPT ![Files!Change(t).file] = Files!Over(text[t], @)]
  BY DEF Files!Fill, Files!Succeed, Files!GoOn, Lost
<1>5. text[t] \in Seq(Lines) /\ Fit(text[t], Idle)
  BY FitAsBefore DEF Fit
<1>6. PICK n : n = Len(text[t])
  OBVIOUS
<1>7. SubSeq(text[t], 1, n) = text[t]
  BY <1>5, <1>6
<1>8. n \in 0 .. Len(text[t]) /\ Writes(t, n) /\ Less(Lost(t), Lost(t)')
  <2>1. n \in 0 .. Len(text[t])
    BY <1>5, <1>6
  <2>2. Writes(t, n)
    BY <1>4, <1>7, Zenon DEF Writes
  <2>3. Less(Lost(t), Lost(t)')
    BY <1>4 DEF Less
  <2>. QED  BY <2>1, <2>2, <2>3
<1>9. /\ \A f \in DOMAIN disk' : Fit(disk'[f], Idle)
      /\ GoingOf(t, c, k, was, nowNext, Lost(t)')
      /\ nowNext[c.changes[k].file].text = text[t]
      /\ AskedOf(t, c, k, was, text[t]) \/ ExceptOf(k, Lost(t)')
  <2>1. /\ \A f \in DOMAIN disk' : Fit(disk'[f], Idle)
        /\ GoingOf(t, c, k, was, nowNext, Lost(t)')
        /\ nowNext[c.changes[k].file].text = SubSeq(text[t], 1, n)
        /\ AskedOf(t, c, k, was, text[t]) \/ ExceptOf(k, Lost(t)')
    <3>1. filePc[t] = "fill"
      BY <1>4
    <3>. QED  BY <1>1, <1>2, <1>3, <1>8, <3>1, PartWritten
  <2>. QED  BY <1>7, <2>1
<1>10. DidOf(t, c, k, was, nowNext, Lost(t)')
  BY <1>9, Zenon DEF DidOf, MadeOf
<1>11. Ledger(t)'
  BY <1>1, <1>2, <1>3, <1>4, <1>9, <1>10, SucceedLedger
<1>. QED  BY <1>4, <1>5, <1>9, <1>11

(* The same for a part of the text, which the tool has on its list.           *)
LEMMA PartBegun ==
    ASSUME FileTypes, FileWorld, Peace, ~fileDisturbed, NEW t \in FileThreads, Worked(t),
           OnlyFile(Files!Change(t).file), filePc[t] = "fill", Files!WritePart(t),
           NEW c, NEW k, NEW was, NEW now, Standing(t, c, k, was, now),
           NEW nowNext, nowNext = Seen(call[t], disk')
    PROVE  /\ Fit(text'[t], Idle) /\ \A f \in DOMAIN disk' : Fit(disk'[f], Idle)
           /\ GoingOf(t, c, k, was, nowNext, Lost(t)')
           /\ BegunOf(t, c, k, was, nowNext, Lost(t)') \/ ExceptOf(k, Lost(t)')
<1>1. PICK n \in 0 .. Len(text[t]) : Writes(t, n)
  BY DEF Files!WritePart, Writes
<1>2. PICK part : part = [change |-> k, text |-> text[t]]
  OBVIOUS
<1>3. /\ cut'[t] = cut[t] \cup {part} /\ misread'[t] = misread[t] /\ text'[t] = text[t]
  BY <1>2 DEF Files!WritePart, FileTypes, Standing
<1>4. Less(Lost(t), Lost(t)')
  BY <1>3 DEF Less, Lost
<1>5. /\ \A f \in DOMAIN disk' : Fit(disk'[f], Idle)
      /\ GoingOf(t, c, k, was, nowNext, Lost(t)')
      /\ nowNext[c.changes[k].file].text = SubSeq(text[t], 1, n)
      /\ AskedOf(t, c, k, was, text[t]) \/ ExceptOf(k, Lost(t)')
  BY <1>1, <1>4, PartWritten
<1>6. part \in Lost(t)'.cut /\ part.change = k /\ part.text = text[t]
  BY <1>2, <1>3 DEF Lost
<1>7. AskedOf(t, c, k, was, text[t]) => BegunOf(t, c, k, was, nowNext, Lost(t)')
  BY <1>1, <1>5, <1>6, Zenon DEF BegunOf
<1>. QED  BY <1>3, <1>5, <1>7, FitAsBefore

LEMMA FlushFailsPeace ==
    ASSUME FileTypes, FileWorld, Peace, NEW t \in FileThreads, Files!FlushFails(t)
    PROVE  Peace'
<1>1. Worked(t) /\ OnlyFile(Files!Change(t).file)
  BY FlushFailsWorks
<1>. SUFFICES ASSUME ~fileDisturbed
              PROVE  /\ Fit(text'[t], Idle) /\ \A f \in DOMAIN disk' : Fit(disk'[f], Idle)
                     /\ Ledger(t)'
  BY <1>1, WorkedPeace
<1>2. PICK c, k, was, now : Standing(t, c, k, was, now)
  BY <1>1, Knows DEF Worked
<1>3. PICK nowNext : nowNext = Seen(call[t], disk')
  OBVIOUS
<1>4. filePc[t] = "fill" /\ Files!Succeed(t) /\ Files!WritePart(t)
  BY DEF Files!FlushFails, Files!Succeed
<1>5. /\ Fit(text'[t], Idle) /\ \A f \in DOMAIN disk' : Fit(disk'[f], Idle)
      /\ GoingOf(t, c, k, was, nowNext, Lost(t)')
      /\ BegunOf(t, c, k, was, nowNext, Lost(t)') \/ ExceptOf(k, Lost(t)')
  BY <1>1, <1>2, <1>3, <1>4, PartBegun
<1>6. DidOf(t, c, k, was, nowNext, Lost(t)')
  BY <1>5, Zenon DEF DidOf
<1>7. Ledger(t)'
  BY <1>1, <1>2, <1>3, <1>4, <1>5, <1>6, SucceedLedger
<1>. QED  BY <1>5, <1>7

LEMMA StopsPeace ==
    ASSUME FileTypes, FileWorld, Peace, NEW t \in FileThreads,
           Files!WriteFails(t) \/ (Files!Cancel(t) /\ filePc[t] = "fill")
    PROVE  Peace'
<1>1. Worked(t) /\ OnlyFile(Files!Change(t).file)
  BY WriteFailsWorks, CancelWorks
<1>. SUFFICES ASSUME ~fileDisturbed
              PROVE  /\ Fit(text'[t], Idle) /\ \A f \in DOMAIN disk' : Fit(disk'[f], Idle)
                     /\ Ledger(t)'
  BY <1>1, WorkedPeace
<1>2. PICK c, k, was, now : Standing(t, c, k, was, now)
  BY <1>1, Knows DEF Worked
<1>3. PICK nowNext : nowNext = Seen(call[t], disk')
  OBVIOUS
<1>4. /\ filePc[t] = "fill" /\ Files!WritePart(t) /\ step' = step
      /\ filePc'[t] = "done" /\ fileOutcome'[t] \in {"error", "cancelled"}
  BY DEF Files!WriteFails, Files!Cancel, Files!End, FileTypes
<1>5. /\ Fit(text'[t], Idle) /\ \A f \in DOMAIN disk' : Fit(disk'[f], Idle)
      /\ GoingOf(t, c, k, was, nowNext, Lost(t)')
      /\ BegunOf(t, c, k, was, nowNext, Lost(t)') \/ ExceptOf(k, Lost(t)')
  BY <1>1, <1>2, <1>3, <1>4, PartBegun
<1>6. step'[t] = k /\ k \in Nat /\ DOMAIN c.changes \subseteq Nat
  BY <1>2, <1>4 DEF Standing
<1>7. EndedOf(t, c, k, was, nowNext, Lost(t)', fileOutcome'[t])
  BY <1>4, <1>5, <1>6, EndsBegun
<1>8. Ledger(t)'
  BY <1>1, <1>2, <1>3, <1>4, <1>6, <1>7, LedgerDone
<1>. QED  BY <1>5, <1>8

(* What a tool that begins leaves of the others.                              *)
LEMMA BeginsWith ==
    ASSUME FileTypes, FileWorld, NEW t \in FileThreads, NEW c \in FileCalls[t], Files!Enter(t, c),
           call' = [call EXCEPT ![t] = c]
    PROVE  /\ filePc' \in [FileThreads -> {"idle", "done"} \cup Busy] /\ filePc[t] = "idle"
           /\ \A u \in FileThreads : u # t =>
                 filePc'[u] = filePc[u] /\ fileOutcome'[u] = fileOutcome[u] /\ call'[u] = call[u]
           /\ call'[t] = c /\ DOMAIN call' = FileThreads /\ DOMAIN fileOutcome' = FileThreads
           /\ \/ c.valid /\ filePc'[t] = "size"
              \/ c.valid /\ filePc'[t] = "open" /\ c.changes[1].kind = "write"
              \/ filePc'[t] = "done" /\ fileOutcome'[t] = "error"
BY DEF FileTypes, Busy, Files!Enter, Files!End, Files!GoOn

LEMMA FirstChange ==
    ASSUME FileWorld, NEW t \in FileThreads, NEW c \in FileCalls[t]
    PROVE  1 \in DOMAIN c.changes /\ DOMAIN c.changes \subseteq Nat \ {0}
<1>1. Len(c.changes) \in Nat \ {0} /\ DOMAIN c.changes = 1 .. Len(c.changes)
  BY World DEF WorldOf
<1>. QED  BY <1>1

LEMMA BeginTypes ==
    ASSUME FileTypes, FileWorld, NEW t \in FileThreads, Files!Begin(t)
    PROVE  FileTypes'
<1>1. PICK c \in FileCalls[t] :
         /\ Files!Enter(t, c) /\ call' = [call EXCEPT ![t] = c]
         /\ text' = [text EXCEPT ![t] = <<t>>] /\ found' = [found EXCEPT ![t] = disk]
         /\ user' = [f \in Files!FilesOf(c) \cup DOMAIN user |->
                        IF f \in Files!FilesOf(c) THEN t ELSE user[f]]
         /\ UNCHANGED <<disk, step, size, cut, misread>>
  BY DEF Files!Begin
<1>2. /\ filePc' \in [FileThreads -> {"idle", "done"} \cup Busy] /\ filePc[t] = "idle"
      /\ \A u \in FileThreads : u # t => filePc'[u] = filePc[u] /\ call'[u] = call[u]
      /\ call'[t] = c /\ DOMAIN call' = FileThreads /\ DOMAIN fileOutcome' = FileThreads
      /\ filePc'[t] # "idle"
  BY <1>1, BeginsWith
<1>3. 1 \in DOMAIN c.changes
  BY FirstChange
<1>4. DOMAIN user' = Files!FilesOf(c) \cup DOMAIN user
  BY <1>1
<1>5. ASSUME NEW u \in FileThreads
      PROVE  /\ step'[u] \in Nat \ {0}
             /\ filePc'[u] = "idle" => step'[u] = 1
             /\ filePc'[u] # "idle" =>
                   call'[u] \in FileCalls[u] /\ Files!FilesOf(call'[u]) \subseteq DOMAIN user'
             /\ filePc'[u] \in Busy => step'[u] \in DOMAIN call'[u].changes
  <2>1. step' = step
    BY <1>1
  <2>2. CASE u = t
    BY <1>2, <1>3, <1>4, <2>1, <2>2 DEF FileTypes
  <2>3. CASE u # t
    BY <1>2, <1>4, <2>1, <2>3 DEF FileTypes
  <2>. QED  BY <2>2, <2>3
<1>6. /\ DOMAIN step' = FileThreads /\ DOMAIN size' = FileThreads /\ DOMAIN text' = FileThreads
      /\ DOMAIN found' = FileThreads /\ DOMAIN cut' = FileThreads /\ DOMAIN misread' = FileThreads
  BY <1>1 DEF FileTypes
<1>. QED  BY <1>2, <1>5, <1>6 DEF FileTypes

LEMMA BeginPeace ==
    ASSUME FileTypes, FileWorld, Peace, NEW t \in FileThreads, Files!Begin(t)
    PROVE  Peace'
<1>1. PICK c \in FileCalls[t] :
         /\ Files!Enter(t, c) /\ call' = [call EXCEPT ![t] = c]
         /\ text' = [text EXCEPT ![t] = <<t>>] /\ found' = [found EXCEPT ![t] = disk]
         /\ user' = [f \in Files!FilesOf(c) \cup DOMAIN user |->
                        IF f \in Files!FilesOf(c) THEN t ELSE user[f]]
         /\ fileDisturbed' = (fileDisturbed \/ \E u \in FileThreads :
                          Files!Running(u) /\ Files!FilesOf(call[u]) \cap Files!FilesOf(c) # {})
         /\ disk' = disk /\ step' = step /\ size' = size /\ cut' = cut /\ misread' = misread
  BY DEF Files!Begin
<1>. SUFFICES ASSUME ~fileDisturbed'  PROVE (Clean /\ Owns /\ \A u \in FileThreads : Mine(u) => Ledger(u))'
  BY DEF Peace
<1>2. /\ Clean /\ Owns /\ \A u \in FileThreads : Mine(u) => Ledger(u)
      /\ \A u \in FileThreads : filePc[u] \in Busy =>
            Files!FilesOf(call[u]) \cap Files!FilesOf(c) = {}
  BY <1>1 DEF Peace, Files!Running, Busy
<1>3. /\ filePc' \in [FileThreads -> {"idle", "done"} \cup Busy] /\ filePc[t] = "idle"
      /\ \A u \in FileThreads : u # t =>
            filePc'[u] = filePc[u] /\ fileOutcome'[u] = fileOutcome[u] /\ call'[u] = call[u]
      /\ call'[t] = c
      /\ \/ c.valid /\ filePc'[t] = "size"
         \/ c.valid /\ filePc'[t] = "open" /\ c.changes[1].kind = "write"
         \/ filePc'[t] = "done" /\ fileOutcome'[t] = "error"
  BY <1>1, BeginsWith
<1>4. /\ text'[t] = <<t>> /\ found'[t] = disk /\ step'[t] = 1
      /\ \A u \in FileThreads : u # t => text'[u] = text[u] /\ found'[u] = found[u]
  BY <1>1, <1>3 DEF FileTypes
<1>5. Clean'
  <2>1. Idle' \subseteq Idle /\ t \in Idle /\ t \notin Idle'
    BY <1>3 DEF Idle
  <2>2. \A x : Fit(x, Idle) => Fit(x, Idle')
    BY <2>1 DEF Fit
  <2>3. \A f \in DOMAIN disk' : Fit(disk'[f], Idle')
    BY <1>1, <1>2, <2>2 DEF Clean
  <2>4. Fit(<<t>>, Idle')
    <3>1. \A v \in Idle' : t \in Without(v)
      BY <2>1 DEF Without, Lines, Idle
    <3>2. t \in Lines
      BY DEF Lines
    <3>. QED  BY <3>1, <3>2 DEF Fit
  <2>5. \A u \in FileThreads : Fit(text'[u], Idle')
    BY <1>2, <1>4, <2>2, <2>4 DEF Clean
  <2>6. ASSUME NEW u \in FileThreads, filePc'[u] # "idle"
        PROVE  \A f \in DOMAIN found'[u] : found'[u][f] \in Seq(Without(u))
    <3>1. CASE u = t
      BY <1>2, <1>4, <2>1, <3>1 DEF Clean, Fit
    <3>2. CASE u # t
      BY <1>2, <1>3, <1>4, <2>6, <3>2 DEF Clean
    <3>. QED  BY <3>1, <3>2
  <2>. QED  BY <2>3, <2>5, <2>6 DEF Clean
<1>6. Owns'
  <2>. SUFFICES ASSUME NEW u \in FileThreads, filePc'[u] \in Busy  PROVE Mine(u)'
    BY DEF Owns
  <2>1. CASE u = t
    BY <1>1, <1>3, <2>1 DEF Mine
  <2>2. CASE u # t
    <3>1. filePc[u] \in Busy /\ call'[u] = call[u]
      BY <1>3, <2>2
    <3>2. Mine(u) /\ Files!FilesOf(call[u]) \subseteq DOMAIN user
      BY <1>2, <3>1 DEF Owns, FileTypes, Busy
    <3>. QED  BY <1>1, <1>2, <3>1, <3>2 DEF Mine
  <2>. QED  BY <2>1, <2>2
<1>7. ASSUME NEW u \in FileThreads, u # t, Mine(u)'  PROVE Ledger(u)'
  <2>1. CASE filePc[u] = "idle"
    BY <1>3, <1>7, <2>1 DEF Ledger, Busy
  <2>2. CASE filePc[u] # "idle"
    <3>1. Files!FilesOf(call[u]) \subseteq DOMAIN user /\ call'[u] = call[u]
      BY <1>3, <1>7, <2>2 DEF FileTypes
    <3>2. Mine(u)
      BY <1>1, <1>7, <3>1 DEF Mine
    <3>3. Ledger(u)
      BY <1>2, <3>2
    <3>. QED  BY <1>1, <1>3, <1>4, <1>7, <3>3 DEF Ledger, Lost
  <2>. QED  BY <2>1, <2>2
<1>8. Ledger(t)'
  <2>1. PICK was : was = Seen(c, disk)
    OBVIOUS
  <2>2. Seen(call[t], found[t])' = was /\ Seen(call[t], disk)' = was
    BY <1>1, <1>3, <1>4, <2>1
  <2>3. DOMAIN c.changes \subseteq Nat \ {0}
    BY FirstChange
  <2>4. \A i : KeptOf(c, i, was, was)
    BY DEF KeptOf
  <2>5. CASE filePc'[t] = "done" /\ fileOutcome'[t] = "error"
    <3>1. \A i \in DOMAIN c.changes : i >= 1
      BY <2>3
    <3>2. EndedOf(t, c, 1, was, was, Lost(t)', "error")
      BY <2>4, <3>1 DEF EndedOf, ToldOf
    <3>. QED  BY <1>3, <1>4, <2>2, <2>5, <3>2 DEF Ledger, Busy
  <2>6. CASE c.valid /\ filePc'[t] \in {"size", "open"}
    <3>1. \A i \in DOMAIN c.changes : ~(i < 1)
      BY <2>3
    <3>2. GoingOf(t, c, 1, was, was, Lost(t)')
      BY <2>4, <2>6, <3>1 DEF GoingOf
    <3>3. AtOf(t, filePc'[t], c, 1, was, was, size'[t], text'[t], Lost(t)')
      BY <1>3, <1>4, <2>4, <2>6 DEF AtOf, AskedOf, Files!AsAsked
    <3>. QED  BY <1>3, <1>4, <2>2, <2>6, <3>2, <3>3 DEF Ledger
  <2>. QED  BY <1>3, <2>5, <2>6
<1>. QED  BY <1>5, <1>6, <1>7, <1>8

LEMMA FilesBegin == ASSUME FileWorld, Files!Init PROVE FileTypes /\ Peace
<1>1. FileTypes
  BY DEF Files!Init, FileTypes, Busy
<1>2. ASSUME NEW v \in FileThreads, NEW x \in Seq(OldLines)  PROVE x \in Seq(Without(v)) /\ x \in Seq(Lines)
  <2>1. v \notin OldLines
    BY World DEF WorldOf
  <2>2. OldLines \subseteq Without(v) /\ OldLines \subseteq Lines
    BY <2>1 DEF Without, Lines
  <2>. QED  BY <1>2, <2>2
<1>3. ASSUME NEW x \in Seq(OldLines)  PROVE Fit(x, Idle)
  <2>1. CASE FileThreads = {}
    <3>1. OldLines \subseteq Lines
      BY DEF Lines
    <3>. QED  BY <1>3, <2>1, <3>1 DEF Fit, Idle
  <2>2. CASE FileThreads # {}
    BY <1>2, <2>2 DEF Fit, Idle
  <2>. QED  BY <2>1, <2>2
<1>4. \A f \in DOMAIN disk : Fit(disk[f], Idle)
  BY <1>3, World DEF WorldOf, Files!Init
<1>5. \A t \in FileThreads : Fit(text[t], Idle)
  <2>1. <<>> \in Seq(OldLines)
    OBVIOUS
  <2>. QED  BY <1>3, <2>1 DEF Files!Init
<1>6. \A t \in FileThreads : filePc[t] = "idle"
  BY DEF Files!Init
<1>7. Clean
  BY <1>4, <1>5, <1>6 DEF Clean
<1>8. Owns /\ \A t \in FileThreads : Ledger(t)
  BY <1>6 DEF Owns, Ledger, Busy
<1>. QED  BY <1>1, <1>7, <1>8 DEF Peace

LEMMA FilesStep ==
    ASSUME FileWorld, FileTypes, Peace, [Files!Next]_fileVars
    PROVE  FileTypes' /\ Peace'
<1>1. CASE UNCHANGED fileVars
  <2>1. FileTypes'
    BY <1>1 DEF fileVars, FileTypes
  <2>2. Peace'
    BY <1>1 DEF fileVars, Peace, Clean, Owns, Mine, Ledger, Idle, Lost
  <2>. QED  BY <2>1, <2>2
<1>2. ASSUME NEW t \in FileThreads, Files!Tool(t)  PROVE FileTypes' /\ Peace'
  <2>1. CASE Files!Begin(t)
    BY <2>1, BeginTypes, BeginPeace
  <2>2. CASE Files!Measure(t)
    BY <2>2, MeasureWorks, WorkedTypes, MeasurePeace
  <2>3. CASE Files!CannotRead(t)
    BY <2>3, CannotReadWorks, WorkedTypes, EndsPeace
  <2>4. CASE Files!Load(t)
    BY <2>4, LoadWorks, WorkedTypes, LoadPeace
  <2>5. CASE Files!MakeText(t)
    BY <2>5, MakeTextWorks, WorkedTypes, MakeTextPeace
  <2>6. CASE Files!CannotMake(t)
    BY <2>6, CannotMakeWorks, WorkedTypes, EndsPeace
  <2>7. CASE Files!Truncate(t)
    BY <2>7, TruncateWorks, WorkedTypes, TruncatePeace
  <2>8. CASE Files!CannotOpen(t)
    BY <2>8, CannotOpenWorks, WorkedTypes, EndsPeace
  <2>9. CASE Files!Fill(t)
    BY <2>9, FillWorks, WorkedTypes, FillPeace
  <2>10. CASE Files!FlushFails(t)
    BY <2>10, FlushFailsWorks, WorkedTypes, FlushFailsPeace
  <2>11. CASE Files!WriteFails(t)
    BY <2>11, WriteFailsWorks, WorkedTypes, StopsPeace
  <2>12. CASE Files!Cancel(t)
    BY <2>12, CancelWorks, WorkedTypes, EndsPeace, StopsPeace
  <2>13. CASE Files!Overrun(t)
    BY <2>13, OverrunWorks, WorkedTypes, OverrunPeace
  <2>. QED
    BY <1>2, <2>1, <2>2, <2>3, <2>4, <2>5, <2>6, <2>7, <2>8, <2>9, <2>10, <2>11, <2>12, <2>13
    DEF Files!Tool
<1>. QED  BY <1>1, <1>2 DEF Files!Next

(* What the files and the buffers hold, also where tools meet.                *)
Reports == {"none", "success", "error", "cancelled"}

FileShapes ==
    /\ \A f \in DOMAIN disk : disk[f] \in Seq(Lines)
    /\ \A t \in FileThreads :
          /\ text[t] \in Seq(Lines) /\ size[t] \in Nat
          /\ fileOutcome[t] \in Reports
          /\ filePc[t] = "idle" => call[t] = Files!NoCall
          /\ filePc[t] = "done" => step[t] <= Len(call[t].changes)
          /\ filePc[t] = "read" => Files!Change(t).file \in DOMAIN disk
    /\ fileDisturbed \in BOOLEAN

LEMMA ShapesBegin == ASSUME FileWorld, Files!Init PROVE FileShapes
<1>1. OldLines \subseteq Lines
  BY DEF Lines
<1>2. ASSUME NEW f \in DOMAIN disk  PROVE disk[f] \in Seq(Lines)
  <2>1. disk[f] \in Seq(OldLines)
    BY World DEF WorldOf, Files!Init
  <2>. QED  BY <1>1, <2>1, SeqMonotonic
<1>3. <<>> \in Seq(Lines)
  OBVIOUS
<1>. QED  BY <1>2, <1>3 DEF Files!Init, FileShapes, Reports

(* What remains to be shown of a step of a tool after its beginning.          *)
LEMMA WorkedShapes ==
    ASSUME FileTypes, FileWorld, FileShapes, NEW t \in FileThreads, Worked(t),
           \A f \in DOMAIN disk' : disk'[f] \in Seq(Lines), DOMAIN disk \subseteq DOMAIN disk',
           text'[t] \in Seq(Lines), size'[t] \in Nat, fileOutcome'[t] \in Reports,
           filePc'[t] = "done" => step'[t] = step[t],
           filePc'[t] = "read" => step'[t] = step[t] /\ Files!Change(t).file \in DOMAIN disk
    PROVE  FileShapes'
<1>1. call' = call /\ fileDisturbed' \in BOOLEAN /\ OthersWait(t) /\ filePc'[t] # "idle"
  BY DEF Worked, Busy, FileShapes
<1>2. filePc'[t] = "done" => step'[t] <= Len(call[t].changes)
  <2>1. call[t] \in FileCalls[t] /\ step[t] \in DOMAIN call[t].changes
    BY DEF Worked, FileTypes, Busy
  <2>2. Len(call[t].changes) \in Nat /\ DOMAIN call[t].changes = 1 .. Len(call[t].changes)
    BY <2>1, World DEF WorldOf
  <2>. QED  BY <2>1, <2>2
<1>3. filePc'[t] = "read" => (Files!Change(t).file \in DOMAIN disk)'
  BY <1>1 DEF Files!Change
<1>4. ASSUME NEW u \in FileThreads, u # t
      PROVE  /\ text'[u] \in Seq(Lines) /\ size'[u] \in Nat
             /\ fileOutcome'[u] \in Reports
             /\ filePc'[u] = "idle" => call'[u] = Files!NoCall
             /\ filePc'[u] = "done" => step'[u] <= Len(call'[u].changes)
             /\ filePc'[u] = "read" => (Files!Change(u).file \in DOMAIN disk)'
  BY <1>1, <1>4 DEF FileShapes, OthersWait, Files!Change
<1>. QED  BY <1>1, <1>2, <1>3, <1>4 DEF FileShapes

(* A tool that ends, or goes on, without a file or its text.                  *)
LEMMA SameShapes ==
    ASSUME FileTypes, FileWorld, FileShapes, NEW t \in FileThreads, Worked(t), disk' = disk,
           text' = text, size' = size, step' = step, fileOutcome'[t] \in Reports,
           filePc'[t] # "read"
    PROVE  FileShapes'
BY WorkedShapes DEF FileShapes

LEMMA EndReported ==
    ASSUME FileTypes, NEW t \in FileThreads, NEW told \in Reports, Files!End(t, told)
    PROVE  fileOutcome'[t] \in Reports /\ filePc'[t] = "done"
BY DEF FileTypes, Files!End

LEMMA MeasureShapes ==
    ASSUME FileTypes, FileWorld, FileShapes, NEW t \in FileThreads, Files!Measure(t)
    PROVE  FileShapes'
<1>1. Worked(t) /\ disk' = disk
  BY MeasureWorks
<1>2. /\ Files!Change(t).file \in DOMAIN disk /\ step' = step /\ text' = text
      /\ fileOutcome' = fileOutcome
      /\ size'[t] = Len(disk[Files!Change(t).file])
  BY DEF FileTypes, Files!Measure, Files!GoOn
<1>3. size'[t] \in Nat
  BY <1>2 DEF FileShapes
<1>. QED  BY <1>1, <1>2, <1>3, WorkedShapes DEF FileShapes

LEMMA LoadShapes ==
    ASSUME FileTypes, FileWorld, FileShapes, NEW t \in FileThreads, Files!Load(t)
    PROVE  FileShapes'
<1>1. Worked(t) /\ disk' = disk
  BY LoadWorks
<1>2. PICK now : now = disk[Files!Change(t).file]
  OBVIOUS
<1>3. PICK got \in 0 .. Len(now), rest \in Leftovers :
         text' = [text EXCEPT ![t] = Files!Buffer(now, size[t], got, rest)]
  BY <1>2, LoadIs
<1>4. /\ filePc[t] = "read" /\ filePc'[t] = "change" /\ step' = step /\ size' = size
      /\ fileOutcome' = fileOutcome
      /\ text'[t] = Files!Buffer(now, size[t], got, rest)
  BY <1>3 DEF FileTypes, Files!Load, Files!GoOn
<1>5. now \in Seq(Lines) /\ size[t] \in Nat /\ rest \in Lines
  BY <1>2, <1>4, World DEF FileShapes, WorldOf, Lines
<1>6. text'[t] \in Seq(Lines)
  BY <1>4, <1>5, ReadTyped
<1>. QED  BY <1>1, <1>4, <1>6, WorkedShapes DEF FileShapes

LEMMA MakeTextShapes ==
    ASSUME FileTypes, FileWorld, FileShapes, NEW t \in FileThreads,
           Files!MakeText(t) \/ Files!Overrun(t)
    PROVE  FileShapes'
<1>1. Worked(t) /\ disk' = disk
  BY MakeTextWorks, OverrunWorks
<1>2. PICK change : change = Files!Change(t)
  OBVIOUS
<1>3. /\ filePc[t] = "change" /\ filePc'[t] = "open" /\ step' = step /\ size' = size
      /\ fileOutcome' = fileOutcome
      /\ Files!HasMatch(text[t], change)
      /\ \/ text'[t] = Files!NewText(text[t], change, t)
         \/ \E other \in Leftovers : text'[t] = <<other>>
  BY <1>2 DEF FileTypes, Files!MakeText, Files!Overrun, Files!GoOn
<1>4. change.old \in Seq(SUBSET OldLines) /\ change.old # <<>>
  <2>1. change.kind # "write"
    BY <1>3 DEF Files!HasMatch
  <2>2. call[t] \in FileCalls[t] /\ step[t] \in DOMAIN call[t].changes
    BY <1>3 DEF FileTypes, Busy
  <2>. QED  BY <1>2, <2>1, <2>2, World DEF WorldOf, Files!Change
<1>5. text[t] \in Seq(Lines) /\ t \in Lines
  BY DEF FileShapes, Lines
<1>6. Leftovers \subseteq Lines
  BY World DEF WorldOf, Lines
<1>7. text'[t] \in Seq(Lines)
  <2>1. Files!NewText(text[t], change, t) \in Seq(Lines)
    BY <1>3, <1>4, <1>5, NewTextTyped
  <2>2. \A other \in Leftovers : <<other>> \in Seq(Lines)
    BY <1>6
  <2>. QED  BY <1>3, <2>1, <2>2
<1>. QED  BY <1>1, <1>3, <1>7, WorkedShapes DEF FileShapes

LEMMA TruncateShapes ==
    ASSUME FileTypes, FileWorld, FileShapes, NEW t \in FileThreads, Files!Truncate(t)
    PROVE  FileShapes'
<1>1. Worked(t)
  BY TruncateWorks
<1>2. PICK g : g = Files!Change(t).file
  OBVIOUS
<1>3. /\ disk' = [f \in DOMAIN disk \cup {g} |-> IF f = g THEN <<>> ELSE disk[f]]
      /\ filePc'[t] = "fill" /\ step' = step /\ size' = size /\ text' = text
      /\ fileOutcome' = fileOutcome
  BY <1>2 DEF FileTypes, Files!Truncate, Files!GoOn
<1>4. \A f \in DOMAIN disk' : disk'[f] \in Seq(Lines)
  <2>1. <<>> \in Seq(Lines)
    OBVIOUS
  <2>. QED  BY <1>3, <2>1 DEF FileShapes
<1>. QED  BY <1>1, <1>3, <1>4, WorkedShapes DEF FileShapes

LEMMA SucceedShapes ==
    ASSUME FileTypes, FileWorld, FileShapes, NEW t \in FileThreads, Worked(t), Files!Succeed(t),
           \A f \in DOMAIN disk' : disk'[f] \in Seq(Lines), DOMAIN disk \subseteq DOMAIN disk',
           text' = text, size' = size
    PROVE  FileShapes'
<1>1. \/ filePc'[t] = "size" /\ fileOutcome' = fileOutcome
      \/ filePc'[t] = "done" /\ fileOutcome'[t] = "success" /\ step' = step
  BY DEF FileTypes, Files!Succeed, Files!GoOn, Files!End
<1>2. fileOutcome'[t] \in Reports
  BY <1>1 DEF FileShapes, Reports
<1>. QED  BY <1>1, <1>2, WorkedShapes DEF FileShapes

(* A text written over another.                                               *)
LEMMA OverShapes ==
    ASSUME FileShapes, NEW g, NEW s \in Seq(Lines), disk' = [disk EXCEPT ![g] = Files!Over(s, @)]
    PROVE  DOMAIN disk' = DOMAIN disk /\ \A f \in DOMAIN disk' : disk'[f] \in Seq(Lines)
<1>1. ASSUME NEW below \in Seq(Lines)  PROVE Files!Over(s, below) \in Seq(Lines)
  <2>1. SubSeq(below, Len(s) + 1, Len(below)) \in Seq(Lines)
    OBVIOUS
  <2>. QED  BY <2>1 DEF Files!Over
<1>. QED  BY <1>1 DEF FileShapes

LEMMA FillShapes ==
    ASSUME FileTypes, FileWorld, FileShapes, NEW t \in FileThreads, Files!Fill(t)
    PROVE  FileShapes'
<1>1. Worked(t)
  BY FillWorks
<1>2. PICK g : g = Files!Change(t).file
  OBVIOUS
<1>3. /\ disk' = [disk EXCEPT ![g] = Files!Over(text[t], @)] /\ Files!Succeed(t)
      /\ size' = size /\ text' = text
  BY <1>2 DEF Files!Fill
<1>4. DOMAIN disk' = DOMAIN disk /\ \A f \in DOMAIN disk' : disk'[f] \in Seq(Lines)
  BY <1>3, OverShapes DEF FileShapes
<1>. QED  BY <1>1, <1>3, <1>4, SucceedShapes DEF FileShapes

LEMMA PartShapes ==
    ASSUME FileShapes, NEW t \in FileThreads, Files!WritePart(t)
    PROVE  /\ DOMAIN disk' = DOMAIN disk /\ \A f \in DOMAIN disk' : disk'[f] \in Seq(Lines)
           /\ size' = size /\ text' = text
<1>1. PICK g : g = Files!Change(t).file
  OBVIOUS
<1>2. text[t] \in Seq(Lines)
  BY DEF FileShapes
<1>3. PICK n \in 0 .. Len(text[t]) : disk' = [disk EXCEPT ![g] = Files!Over(SubSeq(text[t], 1, n), @)]
  BY <1>1 DEF Files!WritePart
<1>4. SubSeq(text[t], 1, n) \in Seq(Lines)
  BY <1>2
<1>. QED  BY <1>3, <1>4, OverShapes DEF Files!WritePart

LEMMA BeginShapes ==
    ASSUME FileTypes, FileWorld, FileShapes, NEW t \in FileThreads, Files!Begin(t)
    PROVE  FileShapes'
<1>1. PICK c \in FileCalls[t] :
         /\ Files!Enter(t, c) /\ call' = [call EXCEPT ![t] = c]
         /\ text' = [text EXCEPT ![t] = <<t>>]
         /\ fileDisturbed' = (fileDisturbed \/ \E u \in FileThreads :
                          Files!Running(u) /\ Files!FilesOf(call[u]) \cap Files!FilesOf(c) # {})
         /\ disk' = disk /\ step' = step /\ size' = size /\ cut' = cut /\ misread' = misread
  BY DEF Files!Begin
<1>2. /\ \A u \in FileThreads : u # t =>
            filePc'[u] = filePc[u] /\ fileOutcome'[u] = fileOutcome[u] /\ call'[u] = call[u]
      /\ call'[t] = c /\ filePc[t] = "idle"
      /\ \/ filePc'[t] \in {"size", "open"}
         \/ filePc'[t] = "done" /\ fileOutcome'[t] = "error"
  BY <1>1, BeginsWith
<1>3. fileOutcome'[t] \in Reports
  <2>1. fileOutcome'[t] \in {"error", fileOutcome[t]}
    BY <1>1 DEF FileTypes, Files!Enter, Files!End, Files!GoOn
  <2>. QED  BY <2>1 DEF FileShapes, Reports
<1>4. step'[t] <= Len(c.changes) /\ filePc'[t] \notin {"idle", "read"}
  <2>1. step'[t] = 1
    BY <1>1, <1>2 DEF FileTypes
  <2>2. Len(c.changes) \in Nat \ {0}
    BY World DEF WorldOf
  <2>. QED  BY <1>2, <2>1, <2>2
<1>5. text'[t] \in Seq(Lines)
  <2>1. t \in Lines /\ text'[t] = <<t>>
    BY <1>1 DEF FileTypes, Lines
  <2>. QED  BY <2>1
<1>6. \A u \in FileThreads : u # t => text'[u] = text[u]
  BY <1>1
<1>7. fileDisturbed' \in BOOLEAN
  BY <1>1 DEF FileShapes
<1>8. ASSUME NEW u \in FileThreads, u # t
      PROVE  /\ text'[u] \in Seq(Lines) /\ size'[u] \in Nat
             /\ fileOutcome'[u] \in Reports
             /\ filePc'[u] = "idle" => call'[u] = Files!NoCall
             /\ filePc'[u] = "done" => step'[u] <= Len(call'[u].changes)
             /\ filePc'[u] = "read" => (Files!Change(u).file \in DOMAIN disk)'
  BY <1>1, <1>2, <1>6, <1>8 DEF FileShapes, Files!Change
<1>. QED  BY <1>1, <1>2, <1>3, <1>4, <1>5, <1>7, <1>8 DEF FileShapes

LEMMA ShapesStep ==
    ASSUME FileWorld, FileTypes, FileShapes, [Files!Next]_fileVars
    PROVE  FileShapes'
<1>1. CASE UNCHANGED fileVars
  BY <1>1 DEF fileVars, FileShapes, Files!Change
<1>2. ASSUME NEW t \in FileThreads, Files!Tool(t)  PROVE FileShapes'
  <2>1. {"success", "error", "cancelled"} \subseteq Reports /\ fileOutcome[t] \in Reports
    BY DEF FileShapes, Reports
  <2>2. CASE Files!Begin(t)
    BY <2>2, BeginShapes
  <2>3. CASE Files!Measure(t)
    BY <2>3, MeasureShapes
  <2>4. CASE Files!CannotRead(t) \/ Files!CannotMake(t) \/ Files!CannotOpen(t)
    <3>1. /\ Files!End(t, "error") /\ text' = text /\ size' = size /\ step' = step
         
      BY <2>4 DEF Files!CannotRead, Files!CannotMake, Files!CannotOpen
    <3>2. Worked(t) /\ disk' = disk
      BY <2>4, CannotReadWorks, CannotMakeWorks, CannotOpenWorks
    <3>3. fileOutcome'[t] \in Reports /\ filePc'[t] = "done"
      BY <2>1, <3>1, EndReported
    <3>. QED  BY <2>1, <3>1, <3>2, <3>3, SameShapes
  <2>5. CASE Files!Load(t)
    BY <2>5, LoadShapes
  <2>6. CASE Files!MakeText(t) \/ Files!Overrun(t)
    BY <2>6, MakeTextShapes
  <2>7. CASE Files!Truncate(t)
    BY <2>7, TruncateShapes
  <2>8. CASE Files!Fill(t)
    BY <2>8, FillShapes
  <2>9. CASE Files!FlushFails(t)
    <3>1. Files!Succeed(t) /\ Files!WritePart(t)
      BY <2>9 DEF Files!FlushFails
    <3>2. Worked(t)
      BY <2>9, FlushFailsWorks
    <3>. QED  BY <3>1, <3>2, PartShapes, SucceedShapes
  <2>10. CASE Files!WriteFails(t)
    <3>1. Files!End(t, "error") /\ Files!WritePart(t) /\ step' = step
      BY <2>10 DEF Files!WriteFails
    <3>2. Worked(t)
      BY <2>10, WriteFailsWorks
    <3>3. fileOutcome'[t] \in Reports /\ filePc'[t] = "done"
      BY <2>1, <3>1, EndReported
    <3>. QED  BY <3>1, <3>2, <3>3, PartShapes, WorkedShapes DEF FileShapes
  <2>11. CASE Files!Cancel(t)
    <3>1. /\ Files!End(t, "cancelled") /\ step' = step
          /\ Files!WritePart(t) \/ (disk' = disk /\ size' = size /\ text' = text)
      BY <2>11 DEF Files!Cancel
    <3>2. Worked(t)
      BY <2>11, CancelWorks
    <3>3. fileOutcome'[t] \in Reports /\ filePc'[t] = "done"
      BY <2>1, <3>1, EndReported
    <3>. QED  BY <3>1, <3>2, <3>3, PartShapes, WorkedShapes DEF FileShapes
  <2>. QED
    BY <1>2, <2>2, <2>3, <2>4, <2>5, <2>6, <2>7, <2>8, <2>9, <2>10, <2>11 DEF Files!Tool
<1>. QED  BY <1>1, <1>2 DEF Files!Next

Reported ==
    /\ fileOutcome \in [FileThreads -> Reports]
    /\ misread \in [FileThreads -> SUBSET Nat] /\ cut \in [FileThreads -> SUBSET [change : Nat, text : Seq(Lines)]]

LEMMA ReportedStep ==
    ASSUME FileTypes, FileShapes, Reported, [Files!Next]_fileVars
    PROVE  Reported'
<1>1. CASE UNCHANGED fileVars
  BY <1>1 DEF fileVars, Reported
<1>2. ASSUME NEW t \in FileThreads, Files!Tool(t)  PROVE Reported'
  <2>1. fileOutcome' \in [FileThreads -> Reports]
    <3>1. \/ fileOutcome' = fileOutcome
          \/ \E told \in Reports : fileOutcome' = [fileOutcome EXCEPT ![t] = told]
      BY <1>2 DEF Reports, Files!Tool, Files!Begin, Files!Enter, Files!Measure, Files!CannotRead,
        Files!Load, Files!MakeText, Files!Overrun, Files!CannotMake, Files!Truncate,
        Files!CannotOpen,
        Files!Fill, Files!FlushFails, Files!WriteFails, Files!Cancel, Files!Succeed, Files!End,
        Files!GoOn
    <3>. QED  BY <3>1 DEF Reported
  <2>2. step[t] \in Nat /\ text[t] \in Seq(Lines)
    BY DEF FileTypes, FileShapes
  <2>3. CASE Files!Load(t)
    <3>1. misread' = misread \/ misread' = [misread EXCEPT ![t] = @ \cup {step[t]}]
      BY <2>3, LoadIs
    <3>2. cut' = cut
      BY <2>3 DEF Files!Load
    <3>. QED  BY <2>1, <2>2, <3>1, <3>2 DEF Reported
  <2>4. CASE Files!WritePart(t)
    <3>1. cut' = [cut EXCEPT ![t] = @ \cup {[change |-> step[t], text |-> text[t]]}]
      BY <2>4 DEF Files!WritePart
    <3>2. misread' = misread
      BY <2>4 DEF Files!WritePart
    <3>3. [change |-> step[t], text |-> text[t]] \in [change : Nat, text : Seq(Lines)]
      BY <2>2
    <3>. QED  BY <2>1, <3>1, <3>2, <3>3 DEF Reported
  <2>5. CASE ~Files!Load(t) /\ ~Files!WritePart(t)
    <3>1. cut' = cut /\ misread' = misread
      BY <1>2, <2>5 DEF Files!Tool, Files!Begin, Files!Measure, Files!CannotRead, Files!MakeText,
        Files!Overrun, Files!CannotMake, Files!Truncate, Files!CannotOpen, Files!Fill,
        Files!FlushFails, Files!WriteFails, Files!Cancel
    <3>. QED  BY <2>1, <3>1 DEF Reported
  <2>. QED  BY <2>3, <2>4, <2>5
<1>. QED  BY <1>1, <1>2 DEF Files!Next

LEMMA ShapesTyped == ASSUME FileWorld, FileTypes, FileShapes, Reported PROVE Files!TypeOK
<1>1. ASSUME NEW t \in FileThreads
      PROVE  size[t] \in Nat /\ step[t] \in 1 .. Len(call[t].changes) + 1
  <2>1. step[t] \in Nat \ {0} /\ size[t] \in Nat
    BY DEF FileTypes, FileShapes
  <2>2. CASE filePc[t] = "idle"
    <3>1. step[t] = 1 /\ call[t].changes = <<>>
      BY <2>2 DEF FileTypes, FileShapes, Files!NoCall
    <3>. QED  BY <2>1, <3>1
  <2>3. CASE filePc[t] # "idle"
    <3>1. call[t] \in FileCalls[t]
      BY <2>3 DEF FileTypes
    <3>2. Len(call[t].changes) \in Nat /\ DOMAIN call[t].changes = 1 .. Len(call[t].changes)
      BY <3>1, World DEF WorldOf
    <3>3. step[t] <= Len(call[t].changes)
      <4>1. filePc[t] = "done" \/ filePc[t] \in Busy
        BY <2>3 DEF FileTypes
      <4>. QED  BY <3>2, <4>1 DEF FileTypes, FileShapes
    <3>. QED  BY <2>1, <3>2, <3>3
  <2>. QED  BY <2>2, <2>3
<1>2. filePc \in [FileThreads -> {"idle", "size", "read", "change", "open", "fill", "done"}]
  BY DEF FileTypes, Busy
<1>. QED  BY <1>1, <1>2 DEF Files!TypeOK, FileShapes, Reported, Reports

(* A file looks the same: it is there or not, with the same text.             *)
LEMMA KeptUntouched ==
    ASSUME NEW t, NEW i \in DOMAIN call[t].changes,
           KeptOf(call[t], i, Seen(call[t], found[t]), Seen(call[t], disk))
    PROVE  Files!Untouched(t, i)
<1>1. PICK c, g, was, now :
         c = call[t] /\ g = c.changes[i].file /\ was = Seen(c, found[t]) /\ now = Seen(c, disk)
  OBVIOUS
<1>2. Looks(c, i, g, disk, now) /\ Looks(c, i, g, found[t], was)
  BY <1>1 DEF Looks
<1>3. now[g] = was[g]
  BY <1>1 DEF KeptOf
<1>4. now[g].text = Files!Text(disk, g) /\ (ThereOf(c, i, now) <=> g \in DOMAIN disk)
  BY <1>2, SeenAt
<1>5. was[g].text = Files!Text(found[t], g) /\ (ThereOf(c, i, was) <=> g \in DOMAIN found[t])
  BY <1>2, SeenAt
<1>6. ThereOf(c, i, now) <=> ThereOf(c, i, was)
  BY <1>1, <1>3 DEF ThereOf
<1>. QED  BY <1>1, <1>3, <1>4, <1>5, <1>6, Zenon DEF Files!Untouched

LEMMA SeenAsked ==
    ASSUME NEW t, NEW i \in DOMAIN call[t].changes
    PROVE  /\ \A after : AskedOf(t, call[t], i, Seen(call[t], found[t]), after) <=> Files!Asked(t, i, after)
           /\ Seen(call[t], disk)[call[t].changes[i].file].text = Files!Now(t, i)
<1>1. PICK c, g, was, now :
         c = call[t] /\ g = c.changes[i].file /\ was = Seen(c, found[t]) /\ now = Seen(c, disk)
  OBVIOUS
<1>2. Looks(c, i, g, disk, now) /\ Looks(c, i, g, found[t], was)
  BY <1>1 DEF Looks
<1>3. now[g].text = Files!Text(disk, g)
  BY <1>2, SeenAt
<1>4. was[g].text = Files!Text(found[t], g)
  BY <1>2, SeenAt
<1>5. \A after : AskedOf(t, c, i, was, after) <=> Files!Asked(t, i, after)
  BY <1>1, <1>4, Zenon DEF AskedOf, Files!Asked
<1>6. now[g].text = Files!Now(t, i)
  BY <1>1, <1>3, Zenon DEF Files!Now
<1>. QED  BY <1>1, <1>5, <1>6, Zenon

LEMMA PeaceReports == ASSUME Peace PROVE Files!ReportsTheFile
<1>. SUFFICES ASSUME NEW t \in FileThreads, Files!Alone(t),
                     NEW i \in DOMAIN call[t].changes \ misread[t]
              PROVE  \/ /\ call[t].valid /\ (fileOutcome[t] = "success" \/ i < step[t])
                        /\ Files!Made(t, i)
                     \/ fileOutcome[t] # "success" /\ i >= step[t] /\ Files!Untouched(t, i)
                     \/ i <= step[t] /\ Files!Begun(t, i)
  BY DEF Files!ReportsTheFile
<1>1. Mine(t) /\ ~fileDisturbed /\ filePc[t] = "done"
  BY DEF Files!Alone, Mine
<1>2. Ledger(t)
  BY <1>1 DEF Peace
<1>3. PICK c, was, now : c = call[t] /\ was = Seen(call[t], found[t]) /\ now = Seen(call[t], disk)
  OBVIOUS
<1>4. ToldOf(t, c, i, step[t], was, now, Lost(t), fileOutcome[t])
  BY <1>1, <1>2, <1>3 DEF Ledger, EndedOf
<1>5. ~ExceptOf(i, Lost(t))
  BY DEF ExceptOf, Lost
<1>6. i \in DOMAIN call[t].changes
  OBVIOUS
<1>7. /\ \A after : AskedOf(t, c, i, was, after) <=> Files!Asked(t, i, after)
      /\ now[c.changes[i].file].text = Files!Now(t, i)
  BY <1>3, <1>6, SeenAsked, Zenon
<1>8. MadeOf(t, c, i, was, now) => Files!Made(t, i)
  BY <1>7, Zenon DEF MadeOf, Files!Made
<1>9. Lost(t).cut = cut[t]
  BY DEF Lost
<1>10. BegunOf(t, c, i, was, now, Lost(t)) => Files!Begun(t, i)
  BY <1>7, <1>9, Zenon DEF BegunOf, Files!Begun
<1>11. KeptOf(c, i, was, now) => Files!Untouched(t, i)
  BY <1>3, <1>6, KeptUntouched, Zenon
<1>. QED  BY <1>3, <1>4, <1>5, <1>8, <1>10, <1>11, Zenon DEF ToldOf

(* Write, Edit and a patch report what became of their files, for any number  *)
(* of tools, files, changes, patterns and texts, as long as nobody else       *)
(* worked on those files meanwhile (tool_write, tool_edit, apply_patch).      *)
THEOREM FilesReported ==
    ASSUME FileWorld
    PROVE  ServicesSpec => []Files!ReportsTheFile
<1>1. ServicesInit => FileTypes /\ Peace
  BY FilesBegin DEF ServicesInit
<1>2. FileTypes /\ Peace /\ [ServicesNext]_serviceVars => (FileTypes /\ Peace)'
  <2>1. [ServicesNext]_serviceVars => [Files!Next]_fileVars
    BY DEF ServicesNext, serviceVars, fileVars
  <2>. QED  BY <2>1, FilesStep
<1>. QED  BY <1>1, <1>2, PeaceReports, PTL DEF ServicesSpec

(* What a tool reports is what was there: the output of a command, the list   *)
(* of a TodoWrite, the change in the file (tool_bash, tool_todo_write,        *)
(* tool_write, tool_edit, apply_patch).                                       *)
THEOREM ReportsTrue ==
    ASSUME BashBounds, TodoBounds, FileWorld
    PROVE  ServicesSpec => []ReportsComplete
<1>1. ServicesSpec => [](Bash!TypeOK /\ Bash!OutputAccounted)
  BY OutputComplete
<1>2. ServicesSpec => [](Todo!TypeOK /\ Todo!ShowsWhatWasWritten)
  BY ListShown
<1>3. ServicesSpec => []Files!ReportsTheFile
  BY FilesReported
<1>4. Bash!OutputAccounted /\ Todo!ShowsWhatWasWritten /\ Files!ReportsTheFile => ReportsComplete
  BY DEF ReportsComplete
<1>. QED  BY <1>1, <1>2, <1>3, <1>4, PTL

-----------------------------------------------------------------------------
(* The translation of an exchange.                                            *)
Roles == {"system", "user", "assistant", "tool"}
Data == {"prompt", "ask", "words", "", "thoughts", "none", "input", "garbled", "no function", "{}",
         "output", "interrupted", "pixels"}
Blocks == [type : Trans!Types, id : Ids \cup {"none"}, data : Data]
Messages == [role : Roles, content : Seq(Blocks)]

(* What the history has: no message is empty, and none is a tool's.           *)
Entries == {m \in Messages : m.content # <<>> /\ m.role # "tool"}

ExchangeTypes ==
    /\ format \in {"openai", "anthropic", "bedrock"} /\ exchange \in {"asked", "replied", "sent"}
    /\ reply \in Seq(Blocks) /\ calls \in Seq(Blocks)
    /\ history \in Seq(Entries) /\ request \in Seq(Messages) /\ abandoned \in BOOLEAN

(* What has to come back to the model: its words, its calls, their results.   *)
Words == Trans!Text("words")
Marks == {b \in Blocks : b.type \in {"tool_use", "tool_result"} \/ b = Words}

IdsOf(blocks) == {blocks[i].id : i \in DOMAIN blocks}
Distinct(blocks) == \A i, j \in DOMAIN blocks : i # j => blocks[i].id # blocks[j].id

Said == Among(Trans!AllBlocks, {Words})
Asked == [i \in DOMAIN Trans!Made |-> Trans!Parsed(Trans!Made[i])]
Results == Trans!OfType(Trans!AllBlocks, "tool_result")

(* A message of the history that every translation delivers.                  *)
Deliverable(m) ==
    /\ m.role = "system" => \A i \in DOMAIN m.content : m.content[i] \notin Marks
    /\ m.role = "user" => \A i \in DOMAIN m.content :
          m.content[i] \in Marks => m.content[i].type = "tool_result" /\ m.content[i].id # "none"

(* No call has two results, none has one that was not asked for, and when the *)
(* tools have been through all have one.                                      *)
Answering ==
    /\ Distinct(Asked) /\ Distinct(Results) /\ IdsOf(Results) \subseteq IdsOf(Asked)
    /\ calls # <<>> => calls = Asked /\ Results = <<>>
    /\ calls = <<>> /\ ~abandoned /\ ~Trans!Uploaded => IdsOf(Asked) \subseteq IdsOf(Results)

Prompt == Trans!Message("system", <<Trans!Text("prompt")>>)
Question == Trans!Message("user", <<Trans!Text("ask")>>)

(* Between the reply and the next request, what has to come back of a reply   *)
(* with well named calls is in the history, in the order words, calls,        *)
(* results, in messages that every translation delivers.                      *)
Told ==
    /\ exchange = "asked" => history = <<Prompt, Question>> /\ ~abandoned
    /\ exchange = "replied" /\ Trans!WellNamed =>
         /\ Among(Trans!AllBlocks, Marks) = (Said \o Asked) \o Results
         /\ Len(Trans!OfType(reply, "text")) = 1 /\ Trans!FirstText(reply) # "" =>
                Trans!FirstText(reply) = "words" /\ Said # <<>>
         /\ \A i \in DOMAIN history : Deliverable(history[i])
         /\ Answering

LEMMA FlattenTrans == \A s : Trans!FlattenSeq(s) = FlattenSeq(s)
  BY DEF Trans!FlattenSeq, FlattenSeq

LEMMA PickedTrans == \A s, positions : Trans!Picked(s, positions) = Picked(s, positions)
  BY FlattenTrans DEF Trans!Picked, Picked

OfKind(type) == {b \in Blocks : b.type = type}

LEMMA OfTypeIs ==
    ASSUME NEW s \in Seq(Blocks), NEW type
    PROVE  Trans!OfType(s, type) = Among(s, OfKind(type))
<1>1. DOMAIN s = 1 .. Len(s) /\ \A i \in DOMAIN s : s[i] \in Blocks
  OBVIOUS
<1>2. {i \in DOMAIN s : s[i].type = type} = {i \in DOMAIN s : s[i] \in OfKind(type)}
  BY <1>1 DEF OfKind
<1>. QED  BY <1>2, PickedTrans DEF Trans!OfType, Among

(* The marked blocks of messages.                                             *)
MarksOf == [m \in Messages |-> Among(m.content, Marks)]

LEMMA MarksTyped == MarksOf \in [Messages -> Seq(Blocks)]
<1>1. ASSUME NEW m \in Messages  PROVE Among(m.content, Marks) \in Seq(Blocks)
  <2>1. m.content \in Seq(Blocks)
    BY DEF Messages
  <2>. QED  BY <2>1, AmongTyped
<1>. QED  BY <1>1 DEF MarksOf

Contents(msgs) == FlattenSeq([i \in DOMAIN msgs |-> msgs[i].content])

LEMMA ContentsMarks ==
    ASSUME NEW msgs \in Seq(Messages)
    PROVE  /\ Contents(msgs) \in Seq(Blocks)
           /\ Among(Contents(msgs), Marks) = FlattenMap(MarksOf, msgs)
<1>. DEFINE ss == [i \in DOMAIN msgs |-> msgs[i].content]
<1>1. DOMAIN msgs = 1 .. Len(msgs) /\ \A i \in DOMAIN msgs : msgs[i] \in Messages
  OBVIOUS
<1>2. ss \in Seq(Seq(Blocks)) /\ DOMAIN ss = DOMAIN msgs /\ \A i \in DOMAIN msgs : ss[i] = msgs[i].content
  BY <1>1 DEF Messages
<1>. HIDE DEF ss
<1>3. FlattenSeq(ss) \in Seq(Blocks)
  BY <1>2, FlattenTyped
<1>4. Among(FlattenSeq(ss), Marks) = FlattenSeq([i \in DOMAIN ss |-> Among(ss[i], Marks)])
  BY <1>2, AmongFlatten
<1>5. [i \in DOMAIN ss |-> Among(ss[i], Marks)] = [i \in DOMAIN msgs |-> MarksOf[msgs[i]]]
  BY <1>1, <1>2 DEF MarksOf
<1>. QED  BY <1>3, <1>4, <1>5 DEF FlattenMap, Contents, ss

(* A translation that makes of each message some with the same marked blocks  *)
(* keeps them all.                                                            *)
LEMMA EachKeepsMarks ==
    ASSUME NEW msgs \in Seq(Messages), NEW ss \in Seq(Seq(Messages)), DOMAIN ss = DOMAIN msgs,
           \A i \in DOMAIN msgs : FlattenMap(MarksOf, ss[i]) = MarksOf[msgs[i]]
    PROVE  FlattenMap(MarksOf, FlattenSeq(ss)) = FlattenMap(MarksOf, msgs)
<1>1. FlattenMap(MarksOf, FlattenSeq(ss)) = FlattenSeq([i \in DOMAIN ss |-> FlattenMap(MarksOf, ss[i])])
  BY MarksTyped, MapFlatten
<1>2. [i \in DOMAIN ss |-> FlattenMap(MarksOf, ss[i])] = [i \in DOMAIN msgs |-> MarksOf[msgs[i]]]
  OBVIOUS
<1>. QED  BY <1>1, <1>2 DEF FlattenMap

LEMMA OneMessage == ASSUME NEW m \in Messages PROVE FlattenMap(MarksOf, <<m>>) = MarksOf[m]
  BY MarksTyped, MapOne

(* A message for each of some blocks.                                         *)
LEMMA BlockByBlock ==
    ASSUME NEW blocks \in Seq(Blocks), NEW role, \A i \in DOMAIN blocks : role[i] \in Roles
    PROVE  LET each == [i \in DOMAIN blocks |-> Trans!Message(role[i], <<blocks[i]>>)]
           IN  each \in Seq(Messages) /\ FlattenMap(MarksOf, each) = Among(blocks, Marks)
<1>. DEFINE each == [i \in DOMAIN blocks |-> Trans!Message(role[i], <<blocks[i]>>)]
<1>1. DOMAIN blocks = 1 .. Len(blocks) /\ \A i \in DOMAIN blocks : blocks[i] \in Blocks
  OBVIOUS
<1>2. \A i \in DOMAIN blocks : Trans!Message(role[i], <<blocks[i]>>) \in Messages
  BY <1>1 DEF Trans!Message, Messages
<1>3. each \in Seq(Messages) /\ DOMAIN each = DOMAIN blocks
  BY <1>1, <1>2
<1>4. ASSUME NEW i \in DOMAIN blocks  PROVE MarksOf[each[i]] = Among(<<blocks[i]>>, Marks)
  BY <1>2 DEF MarksOf, Trans!Message
<1>. HIDE DEF each
<1>5. [i \in DOMAIN each |-> MarksOf[each[i]]] = [i \in DOMAIN blocks |-> Among(<<blocks[i]>>, Marks)]
  BY <1>3, <1>4
<1>6. FlattenMap(MarksOf, each) = Among(blocks, Marks)
  BY <1>5, AmongSingles DEF FlattenMap
<1>. QED  BY <1>3, <1>6 DEF each

-----------------------------------------------------------------------------
Convertible(m) ==
    /\ m.role = "system" => \A i \in DOMAIN m.content : m.content[i] \notin Marks
    /\ m.role = "tool" => \A i \in DOMAIN m.content : m.content[i] \in Marks => m.content[i].id # "none"

Convertibles == {m \in Messages : Convertible(m)}

(* The blocks of a user's message: what is marked is a result with an id.     *)
UserBlocks == {b \in Blocks : b \in Marks => b.type = "tool_result" /\ b.id # "none"}

LEMMA UserContent ==
    ASSUME NEW m \in Messages, Deliverable(m), m.role = "user"
    PROVE  m.content \in Seq(UserBlocks) /\ m.content \in Seq(Blocks)
<1>1. m.content \in Seq(Blocks)
  BY DEF Messages
<1>2. \A i \in DOMAIN m.content : m.content[i] \in UserBlocks
  BY <1>1 DEF Deliverable, UserBlocks
<1>. QED  BY <1>1, <1>2

(* build_openai_request: of a user's message only the images are left out.    *)
LEMMA SplitKeeps ==
    ASSUME NEW m \in Messages, Deliverable(m), m.role = "user"
    PROVE  /\ Trans!SplitUser(m.content) \in Seq(Convertibles)
           /\ FlattenMap(MarksOf, Trans!SplitUser(m.content)) = MarksOf[m]
<1>. DEFINE positions == {i \in DOMAIN m.content : m.content[i].type # "image"}
            rest == Trans!Picked(m.content, positions)
            role == [i \in DOMAIN rest |-> IF rest[i].type = "text" THEN "user" ELSE "tool"]
            NoImage == {b \in Blocks : b.type # "image"}
<1>1. m.content \in Seq(UserBlocks) /\ m.content \in Seq(Blocks)
  BY UserContent
<1>2. rest = Among(m.content, NoImage)
  <2>1. \A i \in DOMAIN m.content : m.content[i] \in Blocks
    BY <1>1
  <2>2. positions = {i \in DOMAIN m.content : m.content[i] \in NoImage}
    BY <2>1
  <2>. QED  BY <2>2, PickedTrans DEF Among
<1>3. rest \in Seq(UserBlocks) /\ rest \in Seq(Blocks)
  BY <1>1, <1>2, AmongTyped
<1>4. Trans!SplitUser(m.content) = [i \in DOMAIN rest |-> Trans!Message(role[i], <<rest[i]>>)]
  BY DEF Trans!SplitUser
<1>. HIDE DEF rest
<1>5. \A i \in DOMAIN rest : role[i] \in Roles
  BY DEF Roles
<1>. HIDE DEF role
<1>6. /\ Trans!SplitUser(m.content) \in Seq(Messages)
      /\ FlattenMap(MarksOf, Trans!SplitUser(m.content)) = Among(rest, Marks)
  BY <1>3, <1>4, <1>5, BlockByBlock
<1>7. Among(rest, Marks) = MarksOf[m]
  <2>1. Among(rest, Marks) = Among(m.content, NoImage \cap Marks)
    BY <1>1, <1>2, AmongAmong
  <2>2. NoImage \cap Marks = Marks
    BY DEF Marks, Words, Trans!Text, Trans!Block
  <2>. QED  BY <2>1, <2>2 DEF MarksOf
<1>8. ASSUME NEW i \in DOMAIN rest
      PROVE  Trans!Message(role[i], <<rest[i]>>) \in Convertibles
  <2>1. rest[i] \in UserBlocks /\ rest[i] \in Blocks
    BY <1>3
  <2>2. Trans!Message(role[i], <<rest[i]>>) \in Messages
    BY <1>5, <2>1 DEF Trans!Message, Messages
  <2>3. Convertible(Trans!Message(role[i], <<rest[i]>>))
    BY <2>1 DEF role, Convertible, Trans!Message, UserBlocks
  <2>. QED  BY <2>2, <2>3 DEF Convertibles
<1>9. Trans!SplitUser(m.content) \in Seq(Convertibles)
  <2>1. DOMAIN rest = 1 .. Len(rest) /\ Len(rest) \in Nat
    BY <1>3
  <2>. QED  BY <1>4, <1>8, <2>1
<1>. QED  BY <1>6, <1>7, <1>9

LEMMA FirstBlock ==
    ASSUME NEW c \in Seq(Blocks), c # <<>>
    PROVE  /\ 1 \in DOMAIN c /\ SubSeq(c, 1, 1) \in Seq(Blocks)
           /\ \A j \in DOMAIN SubSeq(c, 1, 1) : SubSeq(c, 1, 1)[j] = c[1]
<1>1. Len(c) \in Nat /\ Len(c) # 0 /\ DOMAIN c = 1 .. Len(c)
  OBVIOUS
<1>2. 1 \in DOMAIN c /\ c[1] \in Blocks
  BY <1>1
<1>. QED  BY <1>1, <1>2

(* build_request_json_from_state: of a message with results only the results, *)
(* of an old one without only its first text.                                 *)
LEMMA StateKeeps ==
    ASSUME NEW h \in Seq(Entries), NEW i \in DOMAIN h, Deliverable(h[i]), h[i].role = "user"
    PROVE  /\ Trans!StateUser(h, i) \in Seq(Convertibles)
           /\ FlattenMap(MarksOf, Trans!StateUser(h, i)) = MarksOf[h[i]]
<1>1. PICK m \in Messages : m = h[i] /\ m.content # <<>>
  BY h[i] \in Entries DEF Entries
<1>2. m.content \in Seq(UserBlocks) /\ m.content \in Seq(Blocks) /\ Deliverable(m) /\ m.role = "user"
  BY <1>1, UserContent
<1>. DEFINE results == Trans!OfType(m.content, "tool_result")
<1>3. results = Among(m.content, OfKind("tool_result"))
  BY <1>2, OfTypeIs
<1>4. results \in Seq(UserBlocks) /\ results \in Seq(Blocks) /\ results \in Seq(OfKind("tool_result"))
  BY <1>2, <1>3, AmongTyped
<1>5. Among(m.content, Marks) = results
  <2>1. \A j \in DOMAIN m.content : m.content[j] \in Marks <=> m.content[j] \in OfKind("tool_result")
    <3>1. \A j \in DOMAIN m.content : m.content[j] \in UserBlocks /\ m.content[j] \in Blocks
      BY <1>2
    <3>. QED  BY <3>1 DEF UserBlocks, Marks, OfKind
  <2>. QED  BY <1>3, <2>1, AmongSame
<1>6. MarksOf[m] = results
  BY <1>5 DEF MarksOf
<1>7. CASE results # <<>>
  <2>. DEFINE role == [j \in DOMAIN results |-> "tool"]
  <2>1. Trans!StateUser(h, i) = [j \in DOMAIN results |-> Trans!Message("tool", <<results[j]>>)]
    BY <1>1, <1>7, Zenon DEF Trans!StateUser
  <2>. HIDE DEF results
  <2>2. Trans!StateUser(h, i) = [j \in DOMAIN results |-> Trans!Message(role[j], <<results[j]>>)]
    BY <2>1
  <2>3. \A j \in DOMAIN results : role[j] \in Roles
    BY DEF Roles
  <2>4. FlattenMap(MarksOf, Trans!StateUser(h, i)) = Among(results, Marks)
    BY <1>4, <2>2, <2>3, BlockByBlock
  <2>5. Among(results, Marks) = results
    <3>1. \A j \in DOMAIN results : results[j] \in OfKind("tool_result")
      BY <1>4
    <3>2. \A j \in DOMAIN results : results[j] \in Marks
      BY <3>1 DEF OfKind, Marks
    <3>. QED  BY <1>4, <3>2, AmongAll
  <2>6. ASSUME NEW j \in DOMAIN results  PROVE Trans!Message("tool", <<results[j]>>) \in Convertibles
    <3>1. results[j] \in UserBlocks /\ results[j] \in Blocks
      BY <1>4
    <3>. QED  BY <3>1 DEF Convertibles, Convertible, Messages, Roles, Trans!Message, UserBlocks
  <2>7. Trans!StateUser(h, i) \in Seq(Convertibles)
    <3>1. DOMAIN results = 1 .. Len(results) /\ Len(results) \in Nat
      BY <1>4
    <3>. QED  BY <2>1, <2>6, <3>1
  <2>. QED  BY <1>1, <1>6, <2>4, <2>5, <2>7
<1>8. CASE results = <<>> /\ Trans!Recent(h, i)
  <2>1. Trans!StateUser(h, i) = <<Trans!Message("user", m.content)>>
    BY <1>1, <1>8, Zenon DEF Trans!StateUser
  <2>2. Trans!Message("user", m.content) = m
    BY <1>2 DEF Trans!Message, Messages
  <2>3. m \in Convertibles
    BY <1>2 DEF Convertibles, Convertible
  <2>4. <<m>> \in Seq(Convertibles)
    BY <2>3
  <2>. QED  BY <1>1, <2>1, <2>2, <2>4, OneMessage
<1>9. CASE results = <<>> /\ ~Trans!Recent(h, i)
  <2>. DEFINE first == SubSeq(m.content, 1, 1)
              firstText == Trans!OfType(first, "text")
              now == Trans!Message("user", firstText)
  <2>1. Trans!StateUser(h, i) = <<now>>
    BY <1>1, <1>9, Zenon DEF Trans!StateUser
  <2>2. \A j \in DOMAIN m.content : m.content[j] \notin Marks
    BY <1>2, <1>5, <1>9, AmongNone
  <2>3. first \in Seq(Blocks) /\ \A j \in DOMAIN first : first[j] \notin Marks
    BY <1>1, <1>2, <2>2, FirstBlock
  <2>4. firstText = Among(first, OfKind("text"))
    BY <2>3, OfTypeIs
  <2>. HIDE DEF first
  <2>5. firstText \in Seq(Blocks)
    BY <2>3, <2>4, AmongTyped
  <2>6. Among(firstText, Marks) = <<>>
    <3>1. Among(firstText, Marks) = Among(first, OfKind("text") \cap Marks)
      BY <2>3, <2>4, AmongAmong
    <3>2. \A j \in DOMAIN first : first[j] \notin OfKind("text") \cap Marks
      BY <2>3
    <3>. QED  BY <2>3, <3>1, <3>2, AmongNone
  <2>. HIDE DEF firstText
  <2>7. now \in Messages /\ MarksOf[now] = <<>> /\ Convertible(now)
    BY <2>5, <2>6 DEF Trans!Message, Messages, Roles, MarksOf, Convertible
  <2>. HIDE DEF now
  <2>8. <<now>> \in Seq(Convertibles)
    BY <2>7 DEF Convertibles
  <2>. QED  BY <1>1, <1>6, <1>9, <2>1, <2>7, <2>8, OneMessage
<1>. QED  BY <1>7, <1>8, <1>9

LEMMA SplitTyped ==
    ASSUME NEW blocks \in Seq(Blocks)
    PROVE  Trans!SplitUser(blocks) \in Seq(Messages)
<1>. DEFINE positions == {i \in DOMAIN blocks : blocks[i].type # "image"}
            rest == Trans!Picked(blocks, positions)
            role == [i \in DOMAIN rest |-> IF rest[i].type = "text" THEN "user" ELSE "tool"]
<1>1. rest \in Seq(Blocks)
  BY PickedTrans, PickedLocated
<1>2. Trans!SplitUser(blocks) = [i \in DOMAIN rest |-> Trans!Message(role[i], <<rest[i]>>)]
  BY DEF Trans!SplitUser
<1>. HIDE DEF rest
<1>3. \A i \in DOMAIN rest : role[i] \in Roles
  BY DEF Roles
<1>. HIDE DEF role
<1>. QED  BY <1>1, <1>2, <1>3, BlockByBlock

LEMMA StateTyped ==
    ASSUME NEW h \in Seq(Entries), NEW i \in DOMAIN h
    PROVE  Trans!StateUser(h, i) \in Seq(Messages)
<1>1. PICK c \in Seq(Blocks) : c = h[i].content /\ c # <<>>
  BY h[i] \in Entries DEF Entries, Messages
<1>. DEFINE results == Trans!OfType(c, "tool_result")
            first == Trans!OfType(SubSeq(c, 1, 1), "text")
<1>2. results \in Seq(Blocks)
  BY OfTypeIs, AmongTyped
<1>3. first \in Seq(Blocks)
  <2>1. PICK s \in Seq(Blocks) : s = SubSeq(c, 1, 1)
    BY <1>1, FirstBlock
  <2>2. Trans!OfType(s, "text") \in Seq(Blocks)
    BY OfTypeIs, AmongTyped
  <2>. QED  BY <2>1, <2>2
<1>. HIDE DEF results, first
<1>4. [j \in DOMAIN results |-> Trans!Message("tool", <<results[j]>>)] \in Seq(Messages)
  <2>1. DOMAIN results = 1 .. Len(results) /\ \A j \in DOMAIN results : results[j] \in Blocks
    BY <1>2
  <2>2. \A j \in DOMAIN results : Trans!Message("tool", <<results[j]>>) \in Messages
    BY <2>1 DEF Trans!Message, Messages, Roles
  <2>. QED  BY <1>2, <2>1, <2>2
<1>5. Trans!Message("user", c) \in Messages /\ Trans!Message("user", first) \in Messages
  BY <1>3 DEF Trans!Message, Messages, Roles
<1>6. <<Trans!Message("user", c)>> \in Seq(Messages) /\ <<Trans!Message("user", first)>> \in Seq(Messages)
  BY <1>5
<1>7. Trans!StateUser(h, i) = IF results # <<>> THEN [j \in DOMAIN results |-> Trans!Message("tool", <<results[j]>>)]
                              ELSE IF Trans!Recent(h, i) THEN <<Trans!Message("user", c)>>
                              ELSE <<Trans!Message("user", first)>>
  BY <1>1, Zenon DEF Trans!StateUser, results, first
<1>. QED  BY <1>4, <1>6, <1>7

LEMMA EntriesAre ==
    ASSUME NEW h \in Seq(Entries)
    PROVE  /\ Len(h) \in Nat /\ DOMAIN h = 1 .. Len(h) /\ h \in Seq(Messages)
           /\ \A i \in DOMAIN h : /\ h[i] \in Messages /\ h[i].role # "tool"
                                  /\ h[i].content \in Seq(Blocks) /\ h[i].content # <<>>
<1>1. Len(h) \in Nat /\ DOMAIN h = 1 .. Len(h) /\ \A i \in DOMAIN h : h[i] \in Entries
  OBVIOUS
<1>2. \A m \in Entries : m \in Messages /\ m.role # "tool" /\ m.content \in Seq(Blocks) /\ m.content # <<>>
  BY DEF Entries, Messages
<1>3. Entries \subseteq Messages
  BY <1>2
<1>4. h \in Seq(Messages)
  BY <1>1, <1>3
<1>. QED  BY <1>1, <1>2, <1>4

(* A request in OpenAI's format, of either builder: each message of a user    *)
(* made into some, the others as they are.                                    *)
LEMMA Built ==
    ASSUME NEW h \in Seq(Entries), NEW made_of,
           \A i \in DOMAIN h : h[i].role = "user" =>
               /\ made_of[i] \in Seq(Messages)
               /\ Deliverable(h[i]) => /\ made_of[i] \in Seq(Convertibles)
                                       /\ FlattenMap(MarksOf, made_of[i]) = MarksOf[h[i]]
    PROVE  LET msgs == FlattenSeq([i \in DOMAIN h |-> IF h[i].role = "user" THEN made_of[i] ELSE <<h[i]>>])
           IN  /\ msgs \in Seq(Messages)
               /\ (\A i \in DOMAIN h : Deliverable(h[i])) =>
                     msgs \in Seq(Convertibles) /\ FlattenMap(MarksOf, msgs) = FlattenMap(MarksOf, h)
<1>. DEFINE ss == [i \in DOMAIN h |-> IF h[i].role = "user" THEN made_of[i] ELSE <<h[i]>>]
<1>1. /\ Len(h) \in Nat /\ DOMAIN h = 1 .. Len(h) /\ h \in Seq(Messages)
      /\ \A i \in DOMAIN h : h[i] \in Messages /\ h[i].role # "tool"
  BY EntriesAre
<1>2. /\ DOMAIN ss = DOMAIN h /\ ss = [i \in 1 .. Len(h) |-> ss[i]]
      /\ \A i \in DOMAIN h : ss[i] = IF h[i].role = "user" THEN made_of[i] ELSE <<h[i]>>
  BY <1>1
<1>. HIDE DEF ss
<1>3. \A i \in DOMAIN h : ss[i] \in Seq(Messages)
  <2>1. \A m \in Messages : <<m>> \in Seq(Messages)
    OBVIOUS
  <2>. QED  BY <1>1, <1>2, <2>1
<1>4. ss \in Seq(Seq(Messages))
  BY <1>1, <1>2, <1>3
<1>5. ASSUME NEW i \in DOMAIN h, Deliverable(h[i])
      PROVE  ss[i] \in Seq(Convertibles) /\ FlattenMap(MarksOf, ss[i]) = MarksOf[h[i]]
  <2>1. CASE h[i].role = "user"
    BY <1>2, <1>5, <2>1
  <2>2. CASE h[i].role # "user"
    <3>1. PICK m \in Messages : m = h[i] /\ m.role # "tool" /\ Deliverable(m)
      BY <1>1, <1>5
    <3>2. m \in Convertibles
      BY <3>1 DEF Convertibles, Convertible, Deliverable
    <3>3. <<m>> \in Seq(Convertibles)
      BY <3>2
    <3>. QED  BY <1>2, <2>2, <3>1, <3>3, OneMessage
  <2>. QED  BY <2>1, <2>2
<1>6. ASSUME \A i \in DOMAIN h : Deliverable(h[i])
      PROVE  /\ FlattenSeq(ss) \in Seq(Convertibles)
             /\ FlattenMap(MarksOf, FlattenSeq(ss)) = FlattenMap(MarksOf, h)
  <2>1. ss \in Seq(Seq(Convertibles))
    BY <1>1, <1>2, <1>5, <1>6
  <2>2. \A i \in DOMAIN h : FlattenMap(MarksOf, ss[i]) = MarksOf[h[i]]
    BY <1>5, <1>6
  <2>. QED  BY <1>1, <1>2, <1>4, <2>1, <2>2, EachKeepsMarks, FlattenTyped
<1>7. FlattenSeq(ss) \in Seq(Messages)
  BY <1>4, FlattenTyped
<1>. QED  BY <1>6, <1>7 DEF ss

LEMMA OpenAIKeeps ==
    ASSUME NEW h \in Seq(Entries)
    PROVE  /\ Trans!OpenAIMessages(h) \in Seq(Messages)
           /\ (\A i \in DOMAIN h : Deliverable(h[i])) =>
                 /\ Trans!OpenAIMessages(h) \in Seq(Convertibles)
                 /\ FlattenMap(MarksOf, Trans!OpenAIMessages(h)) = FlattenMap(MarksOf, h)
<1>. DEFINE split == [i \in DOMAIN h |-> Trans!SplitUser(h[i].content)]
<1>1. [i \in DOMAIN h |-> IF h[i].role = "user" THEN Trans!SplitUser(h[i].content) ELSE <<h[i]>>]
         = [i \in DOMAIN h |-> IF h[i].role = "user" THEN split[i] ELSE <<h[i]>>]
  OBVIOUS
<1>2. Trans!OpenAIMessages(h) = FlattenSeq([i \in DOMAIN h |-> IF h[i].role = "user" THEN split[i] ELSE <<h[i]>>])
  BY <1>1, FlattenTrans DEF Trans!OpenAIMessages
<1>3. ASSUME NEW i \in DOMAIN h, h[i].role = "user"
      PROVE  /\ split[i] \in Seq(Messages)
             /\ Deliverable(h[i]) => /\ split[i] \in Seq(Convertibles)
                                     /\ FlattenMap(MarksOf, split[i]) = MarksOf[h[i]]
  BY <1>3, EntriesAre, SplitTyped, SplitKeeps
<1>. HIDE DEF split
<1>. QED  BY <1>2, <1>3, Built

LEMMA StateMessagesKeep ==
    ASSUME NEW h \in Seq(Entries)
    PROVE  /\ Trans!StateMessages(h) \in Seq(Messages)
           /\ (\A i \in DOMAIN h : Deliverable(h[i])) =>
                 /\ Trans!StateMessages(h) \in Seq(Convertibles)
                 /\ FlattenMap(MarksOf, Trans!StateMessages(h)) = FlattenMap(MarksOf, h)
<1>. DEFINE stated == [i \in DOMAIN h |-> Trans!StateUser(h, i)]
<1>1. [i \in DOMAIN h |-> IF h[i].role = "user" THEN Trans!StateUser(h, i) ELSE <<h[i]>>]
         = [i \in DOMAIN h |-> IF h[i].role = "user" THEN stated[i] ELSE <<h[i]>>]
  OBVIOUS
<1>2. Trans!StateMessages(h) = FlattenSeq([i \in DOMAIN h |-> IF h[i].role = "user" THEN stated[i] ELSE <<h[i]>>])
  BY <1>1, FlattenTrans DEF Trans!StateMessages
<1>3. ASSUME NEW i \in DOMAIN h, h[i].role = "user"
      PROVE  /\ stated[i] \in Seq(Messages)
             /\ Deliverable(h[i]) => /\ stated[i] \in Seq(Convertibles)
                                     /\ FlattenMap(MarksOf, stated[i]) = MarksOf[h[i]]
  BY <1>3, StateTyped, StateKeeps
<1>. HIDE DEF stated
<1>. QED  BY <1>2, <1>3, Built

(* A message in Anthropic's format: none, or one with the same marked blocks. *)
LEMMA AnthropicKeeps ==
    ASSUME NEW m \in Messages
    PROVE  /\ Trans!AnthropicMessage(m) \in Seq(Messages)
           /\ Convertible(m) => FlattenMap(MarksOf, Trans!AnthropicMessage(m)) = MarksOf[m]
<1>1. m.role \in Roles /\ m.content \in Seq(Blocks)
  BY DEF Messages
<1>2. <<>> \in Seq(Messages) /\ FlattenMap(MarksOf, <<>>) = <<>>
  <2>1. <<>> \in Seq(Messages)
    OBVIOUS
  <2>. QED  BY <2>1, MapEmpty
<1>3. CASE m.role = "system"
  <2>1. Trans!AnthropicMessage(m) = <<>>
    BY <1>3 DEF Trans!AnthropicMessage
  <2>2. Convertible(m) => Among(m.content, Marks) = <<>>
    BY <1>1, <1>3, AmongNone DEF Convertible
  <2>. QED  BY <1>2, <2>1, <2>2 DEF MarksOf
<1>4. CASE m.role = "assistant"
  <2>. DEFINE blocks == Trans!AssistantBlocks(m)
              now == Trans!Message("assistant", blocks)
              Lasting == {b \in Blocks : b # Trans!Text("")}
  <2>1. Trans!AnthropicMessage(m) = IF blocks = <<>> THEN <<>> ELSE <<now>>
    BY <1>4 DEF Trans!AnthropicMessage
  <2>2. blocks = Among(m.content, Lasting)
    <3>1. \A i \in DOMAIN m.content : m.content[i] \in Blocks
      BY <1>1
    <3>2. {i \in DOMAIN m.content : Trans!NotEmpty(m.content[i])} = {i \in DOMAIN m.content : m.content[i] \in Lasting}
      BY <3>1 DEF Trans!NotEmpty
    <3>. QED  BY <3>2, PickedTrans DEF Trans!AssistantBlocks, Among
  <2>3. blocks \in Seq(Blocks)
    BY <1>1, <2>2, AmongTyped
  <2>4. Among(blocks, Marks) = MarksOf[m]
    <3>1. \A T : Among(Among(m.content, T), Marks) = Among(m.content, T \cap Marks)
      BY <1>1, AmongAmong
    <3>2. Trans!Text("").type = "text" /\ Trans!Text("").data = "" /\ Words.data = "words"
      BY DEF Words, Trans!Text, Trans!Block
    <3>3. Lasting \cap Marks = Marks
      BY <3>2 DEF Marks
    <3>. QED  BY <2>2, <3>1, <3>3 DEF MarksOf
  <2>. HIDE DEF blocks
  <2>5. now \in Messages /\ MarksOf[now] = Among(blocks, Marks)
    BY <2>3 DEF Trans!Message, Messages, Roles, MarksOf
  <2>. HIDE DEF now
  <2>6. <<now>> \in Seq(Messages)
    BY <2>5
  <2>7. blocks = <<>> => Among(blocks, Marks) = <<>>
    BY <2>3, AmongNone, DOMAIN <<>> = {}
  <2>. QED  BY <1>2, <2>1, <2>4, <2>5, <2>6, <2>7, OneMessage
<1>5. CASE m.role = "user"
  <2>1. Trans!AnthropicMessage(m) = <<m>>
    BY <1>5 DEF Trans!AnthropicMessage
  <2>2. <<m>> \in Seq(Messages)
    OBVIOUS
  <2>. QED  BY <2>1, <2>2, OneMessage
<1>6. CASE m.role = "tool"
  <2>. DEFINE blocks == Trans!ResultBlocks(m)
              now == Trans!Message("user", blocks)
              Named == {b \in Blocks : b.id # "none"}
  <2>1. Trans!AnthropicMessage(m) = <<now>>
    BY <1>6 DEF Trans!AnthropicMessage
  <2>2. blocks = Among(m.content, Named)
    <3>1. \A i \in DOMAIN m.content : m.content[i] \in Blocks
      BY <1>1
    <3>2. {i \in DOMAIN m.content : m.content[i].id # "none"} = {i \in DOMAIN m.content : m.content[i] \in Named}
      BY <3>1
    <3>. QED  BY <3>2, PickedTrans DEF Trans!ResultBlocks, Trans!WithId, Among
  <2>3. blocks \in Seq(Blocks)
    BY <1>1, <2>2, AmongTyped
  <2>4. Convertible(m) => Among(blocks, Marks) = MarksOf[m]
    <3>. SUFFICES ASSUME Convertible(m)  PROVE Among(blocks, Marks) = MarksOf[m]
      OBVIOUS
    <3>1. Among(blocks, Marks) = Among(m.content, Named \cap Marks)
      BY <1>1, <2>2, AmongAmong
    <3>2. \A i \in DOMAIN m.content : m.content[i] \in Named \cap Marks <=> m.content[i] \in Marks
      BY <1>1, <1>6 DEF Convertible, Marks
    <3>3. Among(m.content, Named \cap Marks) = Among(m.content, Marks)
      BY <3>2, AmongSame
    <3>. QED  BY <3>1, <3>3 DEF MarksOf
  <2>. HIDE DEF blocks
  <2>5. now \in Messages /\ MarksOf[now] = Among(blocks, Marks)
    BY <2>3 DEF Trans!Message, Messages, Roles, MarksOf
  <2>. HIDE DEF now
  <2>6. <<now>> \in Seq(Messages)
    BY <2>5
  <2>. QED  BY <2>1, <2>4, <2>5, <2>6, OneMessage
<1>. QED  BY <1>1, <1>3, <1>4, <1>5, <1>6 DEF Roles

(* Bedrock's converter leaves out the messages with nothing in them.          *)
LEMMA BedrockKeeps ==
    ASSUME NEW m \in Messages
    PROVE  /\ Trans!BedrockMessage(m) \in Seq(Messages)
           /\ Convertible(m) => FlattenMap(MarksOf, Trans!BedrockMessage(m)) = MarksOf[m]
<1>1. PICK msgs \in Seq(Messages) : msgs = Trans!AnthropicMessage(m)
  BY AnthropicKeeps
<1>. DEFINE positions == {i \in DOMAIN msgs : msgs[i].content # <<>>}
            ss == [i \in DOMAIN msgs |-> IF i \in positions THEN <<msgs[i]>> ELSE <<>>]
<1>2. Trans!BedrockMessage(m) = FlattenSeq(ss)
  <2>1. Trans!BedrockMessage(m) = Trans!Picked(msgs, positions)
    BY <1>1 DEF Trans!BedrockMessage
  <2>. QED  BY <2>1, PickedTrans DEF Picked
<1>3. DOMAIN msgs = 1 .. Len(msgs) /\ \A i \in DOMAIN msgs : msgs[i] \in Messages
  OBVIOUS
<1>4. ss \in Seq(Seq(Messages)) /\ DOMAIN ss = DOMAIN msgs
      /\ \A i \in DOMAIN msgs : ss[i] = IF msgs[i].content # <<>> THEN <<msgs[i]>> ELSE <<>>
  BY <1>3
<1>. HIDE DEF ss
<1>5. ASSUME NEW i \in DOMAIN msgs  PROVE FlattenMap(MarksOf, ss[i]) = MarksOf[msgs[i]]
  <2>1. CASE msgs[i].content # <<>>
    BY <1>3, <1>4, <2>1, OneMessage
  <2>2. CASE msgs[i].content = <<>>
    <3>1. <<>> \in Seq(Blocks) /\ DOMAIN <<>> = {}
      OBVIOUS
    <3>2. Among(<<>>, Marks) = <<>>
      BY <3>1, AmongNone
    <3>3. MarksOf[msgs[i]] = <<>>
      BY <1>3, <2>2, <3>2 DEF MarksOf
    <3>. QED  BY <1>4, <2>2, <3>3, MapEmpty
  <2>. QED  BY <2>1, <2>2
<1>6. FlattenMap(MarksOf, FlattenSeq(ss)) = FlattenMap(MarksOf, msgs)
  BY <1>4, <1>5, EachKeepsMarks
<1>7. FlattenSeq(ss) \in Seq(Messages)
  BY <1>4, FlattenTyped
<1>. QED  BY <1>1, <1>2, <1>6, <1>7, AnthropicKeeps

LEMMA EachConverted ==
    ASSUME NEW msgs \in Seq(Messages), NEW each,
           \A i \in DOMAIN msgs : /\ each[i] \in Seq(Messages)
                                  /\ Convertible(msgs[i]) => FlattenMap(MarksOf, each[i]) = MarksOf[msgs[i]]
    PROVE  LET all == FlattenSeq([i \in DOMAIN msgs |-> each[i]])
           IN  /\ all \in Seq(Messages)
               /\ msgs \in Seq(Convertibles) => FlattenMap(MarksOf, all) = FlattenMap(MarksOf, msgs)
<1>. DEFINE ss == [i \in DOMAIN msgs |-> each[i]]
<1>1. DOMAIN msgs = 1 .. Len(msgs) /\ Len(msgs) \in Nat
  OBVIOUS
<1>2. ss \in Seq(Seq(Messages)) /\ DOMAIN ss = DOMAIN msgs /\ \A i \in DOMAIN msgs : ss[i] = each[i]
  BY <1>1
<1>. HIDE DEF ss
<1>3. ASSUME msgs \in Seq(Convertibles), NEW i \in DOMAIN msgs
      PROVE  FlattenMap(MarksOf, ss[i]) = MarksOf[msgs[i]]
  <2>1. msgs[i] \in Convertibles
    BY <1>3
  <2>. QED  BY <1>2, <2>1 DEF Convertibles
<1>4. msgs \in Seq(Convertibles) => FlattenMap(MarksOf, FlattenSeq(ss)) = FlattenMap(MarksOf, msgs)
  BY <1>2, <1>3, EachKeepsMarks
<1>5. FlattenSeq(ss) \in Seq(Messages)
  BY <1>2, FlattenTyped
<1>. QED  BY <1>4, <1>5 DEF ss

LEMMA ConvertedKeeps ==
    ASSUME NEW msgs \in Seq(Messages), format \in {"openai", "anthropic", "bedrock"}
    PROVE  /\ Trans!Converted(msgs) \in Seq(Messages)
           /\ msgs \in Seq(Convertibles) =>
                 FlattenMap(MarksOf, Trans!Converted(msgs)) = FlattenMap(MarksOf, msgs)
<1>0. \A i \in DOMAIN msgs : msgs[i] \in Messages
  OBVIOUS
<1>1. CASE format = "openai"
  BY <1>1 DEF Trans!Converted
<1>2. CASE format = "anthropic"
  <2>. DEFINE each == [i \in DOMAIN msgs |-> Trans!AnthropicMessage(msgs[i])]
  <2>1. Trans!Converted(msgs) = FlattenSeq([i \in DOMAIN msgs |-> each[i]])
    <3>1. [i \in DOMAIN msgs |-> each[i]] = [i \in DOMAIN msgs |-> Trans!AnthropicMessage(msgs[i])]
      OBVIOUS
    <3>. QED  BY <1>2, <3>1, FlattenTrans DEF Trans!Converted
  <2>2. \A i \in DOMAIN msgs : each[i] = Trans!AnthropicMessage(msgs[i])
    OBVIOUS
  <2>. HIDE DEF each
  <2>3. \A i \in DOMAIN msgs : /\ each[i] \in Seq(Messages)
                               /\ Convertible(msgs[i]) => FlattenMap(MarksOf, each[i]) = MarksOf[msgs[i]]
    BY <1>0, <2>2, AnthropicKeeps
  <2>. QED  BY <2>1, <2>3, EachConverted
<1>3. CASE format = "bedrock"
  <2>. DEFINE each == [i \in DOMAIN msgs |-> Trans!BedrockMessage(msgs[i])]
  <2>1. Trans!Converted(msgs) = FlattenSeq([i \in DOMAIN msgs |-> each[i]])
    <3>1. [i \in DOMAIN msgs |-> each[i]] = [i \in DOMAIN msgs |-> Trans!BedrockMessage(msgs[i])]
      OBVIOUS
    <3>. QED  BY <1>3, <3>1, FlattenTrans DEF Trans!Converted
  <2>2. \A i \in DOMAIN msgs : each[i] = Trans!BedrockMessage(msgs[i])
    OBVIOUS
  <2>. HIDE DEF each
  <2>3. \A i \in DOMAIN msgs : /\ each[i] \in Seq(Messages)
                               /\ Convertible(msgs[i]) => FlattenMap(MarksOf, each[i]) = MarksOf[msgs[i]]
    BY <1>0, <2>2, BedrockKeeps
  <2>. QED  BY <2>1, <2>3, EachConverted
<1>. QED  BY <1>1, <1>2, <1>3

(* What a history amounts to.                                                 *)
LEMMA AllBlocksAre ==
    ASSUME history \in Seq(Entries)
    PROVE  /\ Trans!AllBlocks = Contents(history) /\ Trans!AllBlocks \in Seq(Blocks)
           /\ Among(Trans!AllBlocks, Marks) = FlattenMap(MarksOf, history)
<1>1. Trans!AllBlocks = Contents(history)
  BY FlattenTrans DEF Trans!AllBlocks, Contents
<1>2. PICK h \in Seq(Messages) : h = history
  BY EntriesAre
<1>. QED  BY <1>1, <1>2, ContentsMarks

LEMMA SentIs ==
    ASSUME request \in Seq(Messages)
    PROVE  /\ Trans!Sent \in Seq(Blocks)
           /\ Among(Trans!Sent, Marks) = FlattenMap(MarksOf, request)
<1>1. Trans!Sent = Contents(request)
  BY FlattenTrans DEF Trans!Sent, Contents
<1>2. PICK msgs \in Seq(Messages) : msgs = request
  OBVIOUS
<1>. QED  BY <1>1, <1>2, ContentsMarks

(* The marked blocks of the history, and of what Ask and RecordResults and    *)
(* the repair append to it.                                                   *)
LEMMA MoreMarks ==
    ASSUME NEW h \in Seq(Entries), NEW m \in Entries
    PROVE  /\ Append(h, m) \in Seq(Entries)
           /\ FlattenMap(MarksOf, Append(h, m)) = FlattenMap(MarksOf, h) \o Among(m.content, Marks)
<1>1. Append(h, m) \in Seq(Entries)
  OBVIOUS
<1>2. h \in Seq(Messages)
  BY EntriesAre
<1>3. m \in Messages /\ MarksOf[m] = Among(m.content, Marks)
  BY DEF Entries, MarksOf
<1>. QED  BY <1>1, <1>2, <1>3, MarksTyped, MapAppend

-----------------------------------------------------------------------------
(* Blocks whose marked ones are words, calls and results, in this order: the  *)
(* calls are those, and each has its one result behind it.                    *)
Answers(s, i) ==
    \E j \in i + 1 .. Len(s) :
        /\ s[j].type = "tool_result" /\ s[j].id = s[i].id
        /\ \A k \in DOMAIN s \ {j} : ~(s[k].type = "tool_result" /\ s[k].id = s[i].id)

LEMMA TextIsBlock == \A words \in Data : Trans!Text(words) \in Blocks
  BY DEF Trans!Text, Trans!Block, Blocks, Trans!Types

LEMMA AmongMarks ==
    ASSUME NEW s \in Seq(Blocks), NEW T, T \subseteq Marks
    PROVE  Among(Among(s, Marks), T) = Among(s, T)
<1>1. Among(Among(s, Marks), T) = Among(s, Marks \cap T)
  BY AmongAmong
<1>2. Marks \cap T = T
  OBVIOUS
<1>. QED  BY <1>1, <1>2

LEMMA Delivered ==
    ASSUME NEW s \in Seq(Blocks), NEW w \in Seq({Words}), NEW u \in Seq(OfKind("tool_use")),
           NEW r \in Seq(OfKind("tool_result")), Among(s, Marks) = (w \o u) \o r
    PROVE  /\ Trans!OfType(s, "tool_use") = u
           /\ Trans!OfType(s, "tool_result") = r
           /\ Among(s, {Words}) = w
           /\ w # <<>> => \E i \in DOMAIN s : s[i] = Words
           /\ Distinct(r) /\ IdsOf(u) \subseteq IdsOf(r) =>
                 \A i \in DOMAIN s : s[i].type = "tool_use" => Answers(s, i)
<1>. DEFINE a == Len(w)
            b == Len(u)
            c == Len(r)
            Use == OfKind("tool_use")
            Res == OfKind("tool_result")
<1>0. Words.type = "text"
  BY DEF Words, Trans!Text, Trans!Block
<1>1. /\ Use \subseteq Blocks /\ Res \subseteq Blocks /\ Use \subseteq Marks /\ Res \subseteq Marks
      /\ Words \notin Use /\ Words \notin Res /\ Use \cap Res = {}
  BY <1>0 DEF OfKind, Marks
<1>2. /\ a \in Nat /\ b \in Nat /\ c \in Nat
      /\ (\A i \in 1 .. a : w[i] = Words) /\ (\A i \in 1 .. b : u[i] \in Use)
      /\ (\A i \in 1 .. c : r[i] \in Res)
      /\ DOMAIN w = 1 .. a /\ DOMAIN u = 1 .. b /\ DOMAIN r = 1 .. c
  OBVIOUS
<1>3. PICK all : all = Among(s, Marks)
  OBVIOUS
<1>. DEFINE Both == Blocks \cup {Words}
<1>4. w \in Seq(Both) /\ u \in Seq(Both) /\ r \in Seq(Both)
  BY <1>1
<1>5. /\ Len(all) = (a + b) + c
      /\ \A k \in 1 .. (a + b) + c :
            all[k] = IF k <= a THEN w[k] ELSE IF k <= a + b THEN u[k - a] ELSE r[k - (a + b)]
  <2>1. PICK wu \in Seq(Both) : wu = w \o u
    BY <1>4, ConcatProperties
  <2>2. Len(wu) = a + b /\ \A k \in 1 .. a + b : wu[k] = IF k <= a THEN w[k] ELSE u[k - a]
    BY <1>4, <2>1
  <2>3. all = wu \o r
    BY <1>3, <2>1
  <2>4. Len(wu \o r) = Len(wu) + c /\ \A k \in 1 .. Len(wu) + c : (wu \o r)[k] = IF k <= Len(wu) THEN wu[k] ELSE r[k - Len(wu)]
    BY <1>4
  <2>5. \A k \in 1 .. (a + b) + c : k <= a + b => k \in 1 .. a + b
    BY <1>2
  <2>. HIDE DEF a, b, c
  <2>. QED  BY <1>2, <2>2, <2>3, <2>4, <2>5
<1>6. all \in Seq(Blocks)
  BY <1>3, AmongTyped
<1>. DEFINE positions == {i \in DOMAIN s : s[i] \in Marks}
<1>7. PICK at : Increases(at, s, positions, all)
  <2>1. \E at : Increases(at, s, positions \cap DOMAIN s, Picked(s, positions))
    BY PickedLocated
  <2>2. positions \cap DOMAIN s = positions
    OBVIOUS
  <2>. QED  BY <1>3, <2>1, <2>2 DEF Among
<1>. HIDE DEF positions
<1>8. /\ at \in [1 .. Len(all) -> positions]
      /\ \A k \in 1 .. Len(all) : all[k] = s[at[k]]
      /\ \A i \in positions : \E k \in 1 .. Len(all) : at[k] = i
      /\ \A k, l \in 1 .. Len(all) : k < l => at[k] < at[l]
  BY <1>7, Zenon DEF Increases
<1>9. DOMAIN s = 1 .. Len(s) /\ Len(s) \in Nat /\ \A i \in DOMAIN s : s[i] \in Blocks
  OBVIOUS
<1>10. \A i \in positions : i \in DOMAIN s /\ s[i] \in Marks
  BY DEF positions
<1>11. ASSUME NEW i \in DOMAIN s, s[i].type \in {"tool_use", "tool_result"}
       PROVE  \E k \in 1 .. Len(all) : at[k] = i /\ all[k] = s[i]
  <2>1. i \in positions
    BY <1>9, <1>11 DEF positions, Marks
  <2>2. PICK k \in 1 .. Len(all) : at[k] = i
    BY <1>8, <2>1
  <2>. QED  BY <1>8, <2>2
<1>. HIDE DEF a, b, c
<1>21. ASSUME NEW k \in 1 .. Len(all), k <= a  PROVE all[k] = Words
  <2>1. k \in 1 .. a /\ k \in 1 .. (a + b) + c
    BY <1>2, <1>5, <1>21
  <2>2. all[k] = w[k]
    BY <1>5, <1>21, <2>1
  <2>. QED  BY <1>2, <2>1, <2>2
<1>12. ASSUME w # <<>>  PROVE \E i \in DOMAIN s : s[i] = Words
  <2>1. a # 0
    BY <1>12 DEF a
  <2>2. 1 \in 1 .. Len(all) /\ 1 \in 1 .. (a + b) + c /\ 1 <= a /\ 1 \in 1 .. a
    BY <1>2, <1>5, <2>1
  <2>3. all[1] = Words
    BY <1>2, <1>5, <2>2
  <2>4. at[1] \in positions /\ all[1] = s[at[1]]
    BY <1>8, <2>2
  <2>. QED  BY <1>10, <2>3, <2>4
<1>13. ASSUME Distinct(r), IdsOf(u) \subseteq IdsOf(r), NEW i \in DOMAIN s, s[i].type = "tool_use"
       PROVE  Answers(s, i)
  <2>1. PICK k \in 1 .. Len(all) : at[k] = i /\ all[k] = s[i]
    BY <1>11, <1>13
  <2>2. ~(k <= a) /\ k <= a + b /\ k - a \in 1 .. b
    <3>1. k <= a => all[k] = Words
      BY <1>21
    <3>2. ~(k <= a + b) => k - (a + b) \in 1 .. c /\ all[k] = r[k - (a + b)]
      BY <1>2, <1>5
    <3>3. all[k] \in Use
      BY <1>9, <1>13, <2>1 DEF OfKind
    <3>4. ~(k <= a)
      BY <1>1, <3>1, <3>3
    <3>5. k <= a + b
      BY <1>1, <1>2, <3>2, <3>3
    <3>. QED  BY <1>2, <1>5, <3>4, <3>5
  <2>3. s[i] = u[k - a]
    BY <1>5, <2>1, <2>2
  <2>4. PICK l \in 1 .. c : r[l].id = s[i].id
    <3>1. s[i].id \in IdsOf(u)
      BY <1>2, <2>2, <2>3 DEF IdsOf
    <3>. QED  BY <1>2, <1>13, <3>1 DEF IdsOf
  <2>5. /\ (a + b) + l \in 1 .. Len(all) /\ (a + b) + l > k
        /\ all[(a + b) + l] = r[l]
    BY <1>2, <1>5, <2>2
  <2>. DEFINE j == at[(a + b) + l]
  <2>6. j \in DOMAIN s /\ s[j] = r[l] /\ i < j
    BY <1>8, <1>10, <2>1, <2>5
  <2>7. j \in i + 1 .. Len(s)
    BY <1>9, <2>6
  <2>8. s[j].type = "tool_result" /\ s[j].id = s[i].id
    BY <1>2, <2>4, <2>6 DEF OfKind
  <2>. HIDE DEF j
  <2>9. ASSUME NEW m \in DOMAIN s, s[m].type = "tool_result", s[m].id = s[i].id  PROVE m = j
    <3>1. PICK n \in 1 .. Len(all) : at[n] = m /\ all[n] = s[m]
      BY <1>11, <2>9
    <3>2. all[n] \in Res
      BY <1>9, <2>9, <3>1 DEF OfKind
    <3>3. ~(n <= a)
      <4>1. n <= a => all[n] = Words
        BY <1>21
      <4>. QED  BY <1>1, <3>2, <4>1
    <3>4. ~(n <= a + b)
      <4>1. n <= a + b => n - a \in 1 .. b /\ all[n] = u[n - a]
        BY <1>2, <1>5, <3>3
      <4>. QED  BY <1>1, <1>2, <3>2, <4>1
    <3>5. n - (a + b) \in 1 .. c /\ all[n] = r[n - (a + b)]
      BY <1>2, <1>5, <3>3, <3>4
    <3>6. r[n - (a + b)].id = r[l].id
      BY <2>4, <2>9, <3>1, <3>5
    <3>7. n - (a + b) = l
      BY <1>2, <1>13, <3>5, <3>6 DEF Distinct
    <3>8. n = (a + b) + l
      BY <1>2, <1>5, <3>7
    <3>. QED  BY <3>1, <3>8 DEF j
  <2>. QED  BY <2>7, <2>8, <2>9 DEF Answers
<1>14. \A T : T \subseteq Marks => Among(s, T) = (Among(w, T) \o Among(u, T)) \o Among(r, T)
  <2>. SUFFICES ASSUME NEW T, T \subseteq Marks
                PROVE  Among(s, T) = (Among(w, T) \o Among(u, T)) \o Among(r, T)
    OBVIOUS
  <2>0. Splits(Both, T)
    BY AmongConcat
  <2>1. Among(all, T) = Among(s, T)
    BY <1>3, AmongMarks, Zenon
  <2>3. PICK wu \in Seq(Both) : wu = w \o u
    BY <1>4, ConcatProperties
  <2>4. Among(wu \o r, T) = Among(wu, T) \o Among(r, T)
    BY <1>4, <2>0 DEF Splits
  <2>5. Among(w \o u, T) = Among(w, T) \o Among(u, T)
    BY <1>4, <2>0 DEF Splits
  <2>6. all = wu \o r
    BY <1>3, <2>3
  <2>. QED  BY <2>1, <2>3, <2>4, <2>5, <2>6
<1>15. Among(w, Use) = <<>> /\ Among(w, Res) = <<>>
  BY <1>1, <1>2, AmongNone
<1>16. Among(u, Use) = u /\ Among(u, Res) = <<>>
  <2>1. \A i \in DOMAIN u : u[i] \in Use /\ u[i] \notin Res
    BY <1>1, <1>2
  <2>. QED  BY <2>1, AmongNone, AmongAll
<1>17. Among(r, Res) = r /\ Among(r, Use) = <<>>
  <2>1. \A i \in DOMAIN r : r[i] \in Res /\ r[i] \notin Use
    BY <1>1, <1>2
  <2>. QED  BY <2>1, AmongNone, AmongAll
<1>18. (<<>> \o u) \o <<>> = u /\ (<<>> \o <<>>) \o r = r /\ (w \o <<>>) \o <<>> = w
  BY <1>4
<1>19. Among(s, Use) = u /\ Among(s, Res) = r
  BY <1>1, <1>14, <1>15, <1>16, <1>17, <1>18
<1>20. Among(s, {Words}) = w
  <2>1. {Words} \subseteq Marks
    BY TextIsBlock DEF Marks, Words, Data
  <2>2. Among(w, {Words}) = w
    BY <1>2, AmongAll
  <2>3. Among(u, {Words}) = <<>> /\ Among(r, {Words}) = <<>>
    <3>1. (\A i \in DOMAIN u : u[i] \notin {Words}) /\ (\A i \in DOMAIN r : r[i] \notin {Words})
      BY <1>1, <1>2
    <3>. QED  BY <3>1, AmongNone
  <2>. QED  BY <1>14, <1>18, <2>1, <2>2, <2>3
<1>. QED  BY <1>12, <1>13, <1>19, <1>20, OfTypeIs

-----------------------------------------------------------------------------
(* What a reply amounts to.                                                   *)
CallsIn(r) == Trans!WithFunction(Trans!OfType(r, "tool_use"))
AskedIn(r) == [i \in DOMAIN CallsIn(r) |-> Trans!Parsed(CallsIn(r)[i])]

(* Ids are those of the elements they are taken from, each once.              *)
LEMMA PickedIds ==
    ASSUME NEW c \in Seq(Blocks), NEW d \in Seq(Blocks), DOMAIN d = DOMAIN c, NEW P,
           \A i, j \in P \cap DOMAIN c : i # j => c[i].id # c[j].id,
           \A i \in P \cap DOMAIN c : d[i].id = c[i].id
    PROVE  Distinct(Picked(d, P)) /\ IdsOf(Picked(d, P)) = {c[i].id : i \in P \cap DOMAIN c}
<1>1. PICK p \in Seq(Blocks) : p = Picked(d, P)
  BY PickedLocated
<1>2. PICK at : Increases(at, d, P \cap DOMAIN d, p)
  BY <1>1, PickedLocated
<1>3. /\ DOMAIN p = 1 .. Len(p) /\ at \in [1 .. Len(p) -> P \cap DOMAIN c]
      /\ \A k \in 1 .. Len(p) : p[k] = d[at[k]]
      /\ \A i \in P \cap DOMAIN c : \E k \in 1 .. Len(p) : at[k] = i
      /\ \A k, l \in 1 .. Len(p) : k < l => at[k] < at[l]
  BY <1>2 DEF Increases
<1>4. \A k \in DOMAIN p : at[k] \in P \cap DOMAIN c /\ p[k].id = c[at[k]].id
  BY <1>3
<1>5. ASSUME NEW k \in DOMAIN p, NEW l \in DOMAIN p, k # l  PROVE p[k].id # p[l].id
  <2>1. at[k] # at[l]
    <3>1. k < l \/ l < k
      BY <1>3, <1>5
    <3>2. \A i \in DOMAIN c : i \in Nat
      OBVIOUS
    <3>3. at[k] \in Nat /\ at[l] \in Nat
      BY <1>4, <3>2
    <3>4. at[k] < at[l] \/ at[l] < at[k]
      BY <1>3, <3>1
    <3>. QED  BY <3>3, <3>4
  <2>. QED  BY <1>4, <2>1
<1>6. IdsOf(p) = {c[i].id : i \in P \cap DOMAIN c}
  <2>1. IdsOf(p) \subseteq {c[i].id : i \in P \cap DOMAIN c}
    BY <1>4 DEF IdsOf
  <2>2. ASSUME NEW i \in P \cap DOMAIN c  PROVE c[i].id \in IdsOf(p)
    <3>1. PICK k \in DOMAIN p : at[k] = i
      BY <1>3
    <3>2. p[k].id = c[i].id
      BY <1>4, <3>1
    <3>. QED  BY <3>2 DEF IdsOf
  <2>. QED  BY <2>1, <2>2
<1>7. Distinct(p)
  BY <1>5 DEF Distinct
<1>. QED  BY <1>1, <1>6, <1>7

HasFunction == {b \in Blocks : b.data # "no function"}
HasId == {b \in Blocks : b.id # "none"}

LEMMA WithFunctionIs ==
    ASSUME NEW s \in Seq(Blocks)
    PROVE  Trans!WithFunction(s) = Among(s, HasFunction) /\ Trans!WithId(s) = Among(s, HasId)
<1>1. \A i \in DOMAIN s : s[i] \in Blocks
  OBVIOUS
<1>2. /\ {i \in DOMAIN s : s[i].data # "no function"} = {i \in DOMAIN s : s[i] \in HasFunction}
      /\ {i \in DOMAIN s : s[i].id # "none"} = {i \in DOMAIN s : s[i] \in HasId}
  BY <1>1 DEF HasFunction, HasId
<1>. QED  BY <1>2, PickedTrans DEF Trans!WithFunction, Trans!WithId, Among

LEMMA ParsedTyped ==
    ASSUME NEW s \in Seq(OfKind("tool_use"))
    PROVE  LET parsed == [i \in DOMAIN s |-> Trans!Parsed(s[i])]
           IN  /\ parsed \in Seq(OfKind("tool_use")) /\ DOMAIN parsed = DOMAIN s
               /\ \A i \in DOMAIN s : parsed[i].id = s[i].id
<1>1. DOMAIN s = 1 .. Len(s) /\ Len(s) \in Nat /\ \A i \in DOMAIN s : s[i] \in OfKind("tool_use")
  OBVIOUS
<1>2. \A b \in OfKind("tool_use") : Trans!Parsed(b) \in OfKind("tool_use") /\ Trans!Parsed(b).id = b.id
  <2>. SUFFICES ASSUME NEW b \in OfKind("tool_use")
                PROVE  Trans!Parsed(b) \in OfKind("tool_use") /\ Trans!Parsed(b).id = b.id
    OBVIOUS
  <2>1. b \in Blocks /\ b.type = "tool_use"
    BY DEF OfKind
  <2>2. PICK data \in Data : Trans!Parsed(b) = [b EXCEPT !.data = data]
    <3>1. "{}" \in Data /\ "input" \in Data
      BY DEF Data
    <3>2. (IF b.data = "input" THEN b.data ELSE "{}") \in Data
      BY <3>1
    <3>. QED  BY <3>2 DEF Trans!Parsed
  <2>3. [b EXCEPT !.data = data] \in Blocks /\ [b EXCEPT !.data = data].type = b.type
        /\ [b EXCEPT !.data = data].id = b.id
    BY <2>1 DEF Blocks
  <2>. QED  BY <2>1, <2>2, <2>3 DEF OfKind
<1>. QED  BY <1>1, <1>2

LEMMA CallsTyped ==
    ASSUME NEW r \in Seq(Blocks)
    PROVE  /\ CallsIn(r) \in Seq(OfKind("tool_use")) /\ CallsIn(r) \in Seq(Blocks)
           /\ CallsIn(r) = Among(r, OfKind("tool_use") \cap HasFunction)
<1>1. PICK uses : uses = Trans!OfType(r, "tool_use") /\ uses = Among(r, OfKind("tool_use"))
  BY OfTypeIs
<1>2. uses \in Seq(Blocks) /\ uses \in Seq(OfKind("tool_use"))
  BY <1>1, AmongTyped
<1>3. CallsIn(r) = Among(uses, HasFunction)
  BY <1>1, <1>2, WithFunctionIs DEF CallsIn
<1>4. Among(uses, HasFunction) \in Seq(OfKind("tool_use")) /\ Among(uses, HasFunction) \in Seq(Blocks)
  BY <1>2, AmongTyped
<1>5. Among(Among(r, OfKind("tool_use")), HasFunction) = Among(r, OfKind("tool_use") \cap HasFunction)
  BY AmongAmong
<1>. QED  BY <1>1, <1>3, <1>4, <1>5

LEMMA TextsAre ==
    ASSUME NEW r \in Seq(Blocks)
    PROVE  /\ Trans!FirstText(r) \in Data \cup {"null"} /\ Trans!LastText(r) \in Data \cup {"null"}
           /\ (\A i \in DOMAIN r : r[i].type = "text" => r[i].data \in {"words", ""}) =>
                 Trans!FirstText(r) \in {"words", "", "null"} /\ Trans!LastText(r) \in {"words", "", "null"}
           /\ Len(Trans!OfType(r, "text")) = 1 =>
                 Trans!FirstText(r) = Trans!LastText(r) /\ Trans!FirstText(r) # "null"
<1>1. PICK texts \in Seq(Blocks) : texts = Trans!OfType(r, "text") /\ texts = Among(r, OfKind("text"))
  BY OfTypeIs, AmongTyped
<1>2. texts # <<>> => /\ Len(texts) \in Nat /\ Len(texts) # 0
                      /\ Head(texts) = texts[1] /\ Trans!Last(texts) = texts[Len(texts)]
                      /\ 1 \in DOMAIN texts /\ Len(texts) \in DOMAIN texts
  BY DEF Trans!Last
<1>3. \A k \in DOMAIN texts : texts[k] \in Blocks /\ texts[k].data \in Data
  <2>1. \A k \in DOMAIN texts : texts[k] \in Blocks
    OBVIOUS
  <2>2. \A b \in Blocks : b.data \in Data
    BY DEF Blocks
  <2>. QED  BY <2>1, <2>2
<1>4. \A k \in DOMAIN texts : \E i \in DOMAIN r : texts[k] = r[i] /\ r[i].type = "text"
  <2>. DEFINE positions == {i \in DOMAIN r : r[i] \in OfKind("text")}
  <2>1. PICK at : Increases(at, r, positions \cap DOMAIN r, texts)
    BY <1>1, PickedLocated DEF Among
  <2>2. \A k \in DOMAIN texts : at[k] \in DOMAIN r /\ r[at[k]] \in OfKind("text") /\ texts[k] = r[at[k]]
    BY <2>1 DEF Increases
  <2>. QED  BY <2>2 DEF OfKind
<1>5. /\ Trans!FirstText(r) = IF texts = <<>> THEN "null" ELSE Head(texts).data
      /\ Trans!LastText(r) = IF texts = <<>> THEN "null" ELSE Trans!Last(texts).data
  BY <1>1 DEF Trans!FirstText, Trans!LastText, Trans!Null
<1>6. Trans!FirstText(r) \in Data \cup {"null"} /\ Trans!LastText(r) \in Data \cup {"null"}
  <2>1. "null" \in Data \cup {"null"}
    OBVIOUS
  <2>2. CASE texts = <<>>
    BY <1>5, <2>1, <2>2
  <2>3. CASE texts # <<>>
    BY <1>2, <1>3, <1>5, <2>3
  <2>. QED  BY <2>2, <2>3
<1>7. ASSUME \A i \in DOMAIN r : r[i].type = "text" => r[i].data \in {"words", ""}
      PROVE  Trans!FirstText(r) \in {"words", "", "null"} /\ Trans!LastText(r) \in {"words", "", "null"}
  <2>1. \A k \in DOMAIN texts : texts[k].data \in {"words", ""}
    BY <1>4, <1>7
  <2>. QED  BY <1>2, <1>5, <2>1
<1>8. Len(texts) = 1 => Trans!FirstText(r) = Trans!LastText(r) /\ Trans!FirstText(r) # "null"
  <2>1. "null" \notin Data
    BY DEF Data
  <2>2. ASSUME Len(texts) = 1
        PROVE  Trans!FirstText(r) = texts[1].data /\ Trans!LastText(r) = texts[1].data /\ texts[1].data \in Data
    <3>0. texts = <<>> => Len(texts) = 0
      OBVIOUS
    <3>1. texts # <<>>
      BY <2>2, <3>0
    <3>. QED  BY <1>2, <1>3, <1>5, <2>2, <3>1
  <2>. QED  BY <2>1, <2>2
<1>. QED  BY <1>1, <1>6, <1>7, <1>8

LEMMA ReceivedIs ==
    ASSUME NEW r \in Seq(Blocks), format \in {"openai", "anthropic", "bedrock"}
    PROVE  /\ Trans!Received(r).calls = Trans!OfType(r, "tool_use")
           /\ Trans!Received(r).text \in {Trans!FirstText(r), Trans!LastText(r)}
  BY DEF Trans!Received, Trans!AnthropicReply, Trans!BedrockReply, Trans!OpenAIReply, Trans!CallsOf

(* What the tools are to execute and what the history is told of it.          *)
SpokenIn(r) ==
    IF Trans!Received(r).text = "null" THEN <<>> ELSE <<Trans!Text(Trans!Received(r).text)>>

LEMMA RecordedTyped ==
    ASSUME NEW r \in Seq(Blocks), format \in {"openai", "anthropic", "bedrock"}
    PROVE  /\ Trans!Extracted(Trans!Received(r)) = AskedIn(r)
           /\ AskedIn(r) \in Seq(OfKind("tool_use")) /\ AskedIn(r) \in Seq(Blocks)
           /\ SpokenIn(r) \in Seq(Blocks)
           /\ Trans!Recorded(Trans!Received(r)) \in Seq(Blocks)
           /\ (\A i \in DOMAIN CallsIn(r) : CallsIn(r)[i].id # "none") =>
                 Trans!Recorded(Trans!Received(r)) = SpokenIn(r) \o AskedIn(r)
<1>1. PICK c : c = CallsIn(r) /\ c \in Seq(OfKind("tool_use")) /\ c \in Seq(Blocks)
  BY CallsTyped
<1>2. Trans!WithFunction(Trans!Received(r).calls) = c
  BY <1>1, ReceivedIs DEF CallsIn
<1>3. Trans!Extracted(Trans!Received(r)) = AskedIn(r)
  BY <1>1, <1>2 DEF Trans!Extracted, AskedIn
<1>4. AskedIn(r) \in Seq(OfKind("tool_use"))
  BY <1>1, ParsedTyped DEF AskedIn
<1>5. OfKind("tool_use") \subseteq Blocks
  BY DEF OfKind
<1>6. AskedIn(r) \in Seq(Blocks)
  BY <1>4, <1>5
<1>7. SpokenIn(r) \in Seq(Blocks)
  <2>1. Trans!Received(r).text \in Data \cup {"null"}
    BY ReceivedIs, TextsAre
  <2>2. \A words \in Data : Trans!Text(words) \in Blocks
    BY DEF Trans!Text, Trans!Block, Blocks, Trans!Types
  <2>. QED  BY <2>1, <2>2 DEF SpokenIn
<1>8. PICK named : named = Trans!WithId(c) /\ named \in Seq(OfKind("tool_use"))
                   /\ ((\A i \in DOMAIN c : c[i].id # "none") => named = c)
  <2>1. Trans!WithId(c) = Among(c, HasId)
    BY <1>1, WithFunctionIs
  <2>2. Trans!WithId(c) \in Seq(OfKind("tool_use"))
    BY <1>1, <2>1, AmongTyped
  <2>3. ASSUME \A i \in DOMAIN c : c[i].id # "none"  PROVE Trans!WithId(c) = c
    <3>1. \A i \in DOMAIN c : c[i] \in Blocks
      BY <1>1
    <3>2. \A i \in DOMAIN c : c[i] \in HasId
      BY <2>3, <3>1 DEF HasId
    <3>. QED  BY <1>1, <2>1, <3>2, AmongAll
  <2>. QED  BY <2>2, <2>3
<1>9. Trans!Recorded(Trans!Received(r)) = SpokenIn(r) \o [i \in DOMAIN named |-> Trans!Parsed(named[i])]
  BY <1>2, <1>8 DEF Trans!Recorded, SpokenIn, Trans!Null
<1>10. [i \in DOMAIN named |-> Trans!Parsed(named[i])] \in Seq(Blocks)
  <2>1. [i \in DOMAIN named |-> Trans!Parsed(named[i])] \in Seq(OfKind("tool_use"))
    BY <1>8, ParsedTyped
  <2>. QED  BY <1>5, <2>1
<1>11. Trans!Recorded(Trans!Received(r)) \in Seq(Blocks)
  BY <1>7, <1>9, <1>10, ConcatProperties
<1>12. ASSUME \A i \in DOMAIN c : c[i].id # "none"
       PROVE  Trans!Recorded(Trans!Received(r)) = SpokenIn(r) \o AskedIn(r)
  BY <1>1, <1>8, <1>9, <1>12 DEF AskedIn
<1>. QED  BY <1>1, <1>3, <1>4, <1>6, <1>7, <1>11, <1>12

-----------------------------------------------------------------------------
(* The replies that the servers send.                                         *)
LEMMA RepliesAre ==
    ASSUME NEW r \in Trans!Replies
    PROVE  /\ r \in Seq(Blocks)
           /\ \A i, j \in DOMAIN r : i # j /\ r[i].id # "none" => r[i].id # r[j].id
           /\ \A i \in DOMAIN r : r[i].type = "text" => r[i].data \in {"words", ""}
<1>1. PICK n \in 0 .. MaxBlocks : r \in [1 .. n -> Trans!Pieces]
  BY DEF Trans!Replies
<1>2. \A i, j \in DOMAIN r : i # j /\ r[i].id # "none" => r[i].id # r[j].id
  BY DEF Trans!Replies
<1>. DEFINE Good == {b \in Blocks : b.type = "text" => b.data \in {"words", ""}}
<1>3. Trans!Pieces \subseteq Good
  <2>1. Trans!Text("words") \in Good /\ Trans!Text("") \in Good
    BY DEF Trans!Text, Trans!Block, Blocks, Trans!Types, Data
  <2>2. \A id \in Ids \cup {"none"}, d \in {"input", "garbled", "no function", "none"} : Trans!ToolUse(id, d) \in Good
    BY DEF Trans!ToolUse, Trans!Block, Blocks, Trans!Types, Data
  <2>3. Trans!Block("thinking", "none", "thoughts") \in Good
    BY DEF Trans!Block, Blocks, Trans!Types, Data
  <2>. HIDE DEF Good
  <2>4. {Trans!ToolUse(id, "input") : id \in Ids \cup {"none"}} \subseteq Good
    BY <2>2
  <2>5. {Trans!ToolUse(id, "garbled") : id \in Ids} \subseteq Good
        /\ {Trans!ToolUse(id, "no function") : id \in Ids} \subseteq Good
    BY <2>2
  <2>6. {Trans!Block("thinking", "none", "thoughts"), Trans!ToolUse("none", "none")} \subseteq Good
    BY <2>2, <2>3
  <2>7. CASE format = "openai"
    BY <2>1, <2>4, <2>5, <2>7 DEF Trans!Pieces
  <2>8. CASE format # "openai"
    BY <2>1, <2>4, <2>6, <2>8 DEF Trans!Pieces
  <2>. QED  BY <2>7, <2>8
<1>. HIDE DEF Good
<1>4. /\ n \in Nat /\ DOMAIN r = 1 .. n
      /\ r = [i \in 1 .. n |-> r[i]] /\ \A i \in 1 .. n : r[i] \in Good
  <2>1. r \in [1 .. n -> Good]
    BY <1>1, <1>3
  <2>2. n \in Nat
    BY <1>1
  <2>. QED  BY <2>1, <2>2
<1>5. r \in Seq(Blocks)
  <2>1. \A i \in 1 .. n : r[i] \in Blocks
    BY <1>4 DEF Good
  <2>. QED  BY <1>4, <2>1
<1>6. \A i \in DOMAIN r : r[i].type = "text" => r[i].data \in {"words", ""}
  BY <1>4 DEF Good
<1>. QED  BY <1>2, <1>5, <1>6

WellNamedIn(r) == \A i \in DOMAIN CallsIn(r) : CallsIn(r)[i].id # "none"

(* What of a reply with well named calls has to come back.                    *)
LEMMA ReplyMarks ==
    ASSUME NEW r \in Trans!Replies, format \in {"openai", "anthropic", "bedrock"}, WellNamedIn(r)
    PROVE  /\ Distinct(AskedIn(r))
           /\ \E w \in Seq({Words}) :
                 /\ Among(Trans!Recorded(Trans!Received(r)), Marks) = w \o AskedIn(r)
                 /\ Len(Trans!OfType(r, "text")) = 1 /\ Trans!FirstText(r) # "" =>
                        Trans!FirstText(r) = "words" /\ w # <<>>
<1>0. r \in Seq(Blocks)
  BY RepliesAre
<1>. DEFINE positions == {i \in DOMAIN r : r[i] \in OfKind("tool_use") \cap HasFunction}
<1>1. PICK c : c = CallsIn(r) /\ c \in Seq(Blocks) /\ c = Picked(r, positions)
  BY <1>0, CallsTyped DEF Among
<1>2. Distinct(c)
  <2>1. PICK at : Increases(at, r, positions \cap DOMAIN r, c)
    BY <1>0, <1>1, PickedLocated
  <2>2. ASSUME NEW i \in positions \cap DOMAIN r  PROVE r[i].id # "none"
    <3>1. PICK k \in 1 .. Len(c) : at[k] = i
      BY <2>1 DEF Increases
    <3>2. c[k] = r[i] /\ k \in DOMAIN c
      BY <1>1, <2>1, <3>1 DEF Increases
    <3>. QED  BY <1>1, <3>2 DEF WellNamedIn
  <2>3. \A i, j \in positions \cap DOMAIN r : i # j => r[i].id # r[j].id
    BY <2>2, RepliesAre
  <2>. HIDE DEF positions
  <2>4. Distinct(Picked(r, positions))
    BY <1>0, <2>3, PickedIds
  <2>. QED  BY <1>1, <2>4
<1>3. AskedIn(r) \in Seq(Blocks) /\ DOMAIN AskedIn(r) = DOMAIN c /\ \A i \in DOMAIN c : AskedIn(r)[i].id = c[i].id
  <2>1. c \in Seq(OfKind("tool_use")) /\ AskedIn(r) \in Seq(Blocks)
    BY <1>0, <1>1, CallsTyped, RecordedTyped
  <2>2. AskedIn(r) = [i \in DOMAIN c |-> Trans!Parsed(c[i])]
    BY <1>1 DEF AskedIn
  <2>. QED  BY <2>1, <2>2, ParsedTyped
<1>4. Distinct(AskedIn(r))
  BY <1>2, <1>3 DEF Distinct
<1>. DEFINE spoken == Trans!Received(r).text
            w == IF spoken = "words" THEN <<Words>> ELSE <<>>
<1>5. spoken \in {"words", "", "null"} /\ spoken \in {Trans!FirstText(r), Trans!LastText(r)}
  BY <1>0, RepliesAre, TextsAre, ReceivedIs
<1>6. w \in Seq({Words}) /\ (spoken = "words" => w # <<>>)
  <2>1. <<Words>> \in Seq({Words}) /\ <<>> \in Seq({Words}) /\ <<Words>> # <<>>
    OBVIOUS
  <2>. QED  BY <2>1
<1>7. SpokenIn(r) \in Seq(Blocks) /\ Among(SpokenIn(r), Marks) = w
  <2>0. SpokenIn(r) \in Seq(Blocks)
    BY <1>0, RecordedTyped
  <2>1. Words \in Marks /\ Trans!Text("") \notin Marks
    <3>1. Words.data = "words" /\ Trans!Text("").data = "" /\ Trans!Text("").type = "text"
      BY DEF Words, Trans!Text, Trans!Block
    <3>2. Words \in Blocks
      BY TextIsBlock DEF Words, Data
    <3>. QED  BY <3>1, <3>2 DEF Marks
  <2>2. CASE spoken = "words"
    <3>1. SpokenIn(r) = <<Words>>
      BY <2>2 DEF SpokenIn, Words
    <3>. QED  BY <2>0, <2>1, <2>2, <3>1, AmongOne
  <2>3. CASE spoken = ""
    <3>1. SpokenIn(r) = <<Trans!Text("")>>
      BY <2>3 DEF SpokenIn
    <3>. QED  BY <2>0, <2>1, <2>3, <3>1, AmongOne
  <2>4. CASE spoken = "null"
    <3>1. SpokenIn(r) = <<>>
      BY <2>4 DEF SpokenIn
    <3>. QED  BY <2>0, <2>4, <3>1, AmongNothing
  <2>. QED  BY <1>5, <2>2, <2>3, <2>4
<1>. HIDE DEF w, spoken
<1>8. Among(AskedIn(r), Marks) = AskedIn(r)
  <2>1. \A i \in DOMAIN AskedIn(r) : AskedIn(r)[i] \in OfKind("tool_use")
    BY <1>0, RecordedTyped
  <2>2. OfKind("tool_use") \subseteq Marks
    BY DEF OfKind, Marks
  <2>3. \A i \in DOMAIN AskedIn(r) : AskedIn(r)[i] \in Marks
    BY <2>1, <2>2
  <2>. QED  BY <1>3, <2>3, AmongAll
<1>9. Among(Trans!Recorded(Trans!Received(r)), Marks) = w \o AskedIn(r)
  <2>1. Trans!Recorded(Trans!Received(r)) = SpokenIn(r) \o AskedIn(r)
    BY <1>0, RecordedTyped DEF WellNamedIn
  <2>2. Splits(Blocks, Marks)
    BY AmongConcat
  <2>3. Among(SpokenIn(r) \o AskedIn(r), Marks) = Among(SpokenIn(r), Marks) \o Among(AskedIn(r), Marks)
    BY <1>3, <1>7, <2>2 DEF Splits
  <2>. QED  BY <1>7, <1>8, <2>1, <2>3
<1>10. Len(Trans!OfType(r, "text")) = 1 /\ Trans!FirstText(r) # "" =>
          Trans!FirstText(r) = "words" /\ w # <<>>
  <2>1. Len(Trans!OfType(r, "text")) = 1 => Trans!FirstText(r) = spoken /\ spoken # "null"
    BY <1>0, <1>5, TextsAre
  <2>. QED  BY <1>5, <1>6, <2>1
<1>. QED  BY <1>4, <1>6, <1>9, <1>10

-----------------------------------------------------------------------------
LEMMA TheExchange ==
    /\ Trans!AllBlocks = Contents(history) /\ Trans!AllBlocks' = Contents(history')
    /\ Said = Among(Contents(history), {Words}) /\ Said' = Among(Contents(history'), {Words})
    /\ Results = Trans!OfType(Contents(history), "tool_result")
    /\ Results' = Trans!OfType(Contents(history'), "tool_result")
    /\ Asked = AskedIn(reply) /\ Asked' = AskedIn(reply')
    /\ Trans!WellNamed <=> WellNamedIn(reply)
    /\ Trans!WellNamed' <=> WellNamedIn(reply')
<1>1. Trans!AllBlocks = Contents(history) /\ Trans!AllBlocks' = Contents(history')
  BY FlattenTrans DEF Trans!AllBlocks, Contents
<1>2. /\ Said = Among(Contents(history), {Words}) /\ Said' = Among(Contents(history'), {Words})
      /\ Results = Trans!OfType(Contents(history), "tool_result")
      /\ Results' = Trans!OfType(Contents(history'), "tool_result")
  BY FlattenTrans DEF Trans!AllBlocks, Contents, Said, Results
<1>3. Asked = AskedIn(reply) /\ Asked' = AskedIn(reply')
  BY DEF Asked, AskedIn, CallsIn, Trans!Made
<1>4. (Trans!WellNamed <=> WellNamedIn(reply)) /\ (Trans!WellNamed' <=> WellNamedIn(reply'))
  BY DEF Trans!WellNamed, WellNamedIn, CallsIn, Trans!Made
<1>. QED  BY <1>1, <1>2, <1>3, <1>4

(* What the history has of words, calls and results, told of one more entry   *)
(* with results.                                                              *)
Tells(blocks, w, u, q) == Among(blocks, Marks) = (w \o u) \o q

LEMMA MoreResults ==
    ASSUME NEW h \in Seq(Entries), NEW m \in Entries, NEW w \in Seq({Words}),
           NEW u \in Seq(OfKind("tool_use")), NEW q \in Seq(OfKind("tool_result")),
           NEW x \in Seq(OfKind("tool_result")),
           Tells(Contents(h), w, u, q), Among(m.content, Marks) = x
    PROVE  /\ Append(h, m) \in Seq(Entries)
           /\ Tells(Contents(Append(h, m)), w, u, q \o x)
           /\ q \o x \in Seq(OfKind("tool_result"))
<1>1. Append(h, m) \in Seq(Entries) /\ h \in Seq(Messages) /\ Append(h, m) \in Seq(Messages)
  BY MoreMarks, EntriesAre
<1>2. FlattenMap(MarksOf, Append(h, m)) = FlattenMap(MarksOf, h) \o Among(m.content, Marks)
  BY MoreMarks
<1>3. Among(Contents(Append(h, m)), Marks) = ((w \o u) \o q) \o x
  BY <1>1, <1>2, ContentsMarks DEF Tells
<1>. DEFINE Both == Blocks \cup {Words}
<1>4. w \in Seq(Both) /\ u \in Seq(Both) /\ q \in Seq(Both) /\ x \in Seq(Both)
  BY DEF OfKind
<1>. HIDE DEF Both
<1>5. PICK wu \in Seq(Both) : wu = w \o u
  BY <1>4, ConcatProperties
<1>6. (wu \o q) \o x = wu \o (q \o x)
  BY <1>4
<1>7. q \o x \in Seq(OfKind("tool_result"))
  BY ConcatProperties
<1>. QED  BY <1>1, <1>3, <1>5, <1>6, <1>7 DEF Tells

LEMMA StartIs ==
    /\ Prompt \in Entries /\ Question \in Entries /\ <<Prompt, Question>> \in Seq(Entries)
    /\ Deliverable(Prompt) /\ Deliverable(Question)
    /\ Among(Question.content, Marks) = <<>>
    /\ Among(Contents(<<Prompt, Question>>), Marks) = <<>>
<1>1. PICK p \in Blocks : p = Trans!Text("prompt") /\ p \notin Marks
  <2>1. Trans!Text("prompt") \in Blocks
    BY TextIsBlock DEF Data
  <2>2. Trans!Text("prompt") \notin Marks
    BY DEF Marks, Words, Trans!Text, Trans!Block
  <2>. QED  BY <2>1, <2>2
<1>2. PICK a \in Blocks : a = Trans!Text("ask") /\ a \notin Marks
  <2>1. Trans!Text("ask") \in Blocks
    BY TextIsBlock DEF Data
  <2>2. Trans!Text("ask") \notin Marks
    BY DEF Marks, Words, Trans!Text, Trans!Block
  <2>. QED  BY <2>1, <2>2
<1>3. /\ <<p>> \in Seq(Blocks) /\ <<a>> \in Seq(Blocks) /\ <<p>> # <<>> /\ <<a>> # <<>>
      /\ (\A i \in DOMAIN <<p>> : <<p>>[i] \notin Marks) /\ (\A i \in DOMAIN <<a>> : <<a>>[i] \notin Marks)
  BY <1>1, <1>2
<1>4. Among(<<p>>, Marks) = <<>> /\ Among(<<a>>, Marks) = <<>>
  BY <1>3, AmongNone
<1>5. /\ Prompt \in Entries /\ Prompt.content = <<p>> /\ Prompt.role = "system"
      /\ Question \in Entries /\ Question.content = <<a>> /\ Question.role = "user"
  <2>1. /\ Prompt = [role |-> "system", content |-> <<p>>]
        /\ Question = [role |-> "user", content |-> <<a>>]
    BY <1>1, <1>2 DEF Prompt, Question, Trans!Message
  <2>2. Prompt \in Messages /\ Question \in Messages
    BY <1>3, <2>1 DEF Messages, Roles
  <2>. QED  BY <1>3, <2>1, <2>2 DEF Entries
<1>6. Deliverable(Prompt) /\ Deliverable(Question)
  BY <1>3, <1>5 DEF Deliverable
<1>7. PICK none \in Seq(Entries) : none = <<>> /\ FlattenMap(MarksOf, none) = <<>>
  <2>1. <<>> \in Seq(Entries)
    OBVIOUS
  <2>. QED  BY <2>1, MapEmpty
<1>8. PICK one \in Seq(Entries) : one = Append(none, Prompt) /\ FlattenMap(MarksOf, one) = <<>>
  <2>1. FlattenMap(MarksOf, Append(none, Prompt)) = <<>> \o <<>> /\ Append(none, Prompt) \in Seq(Entries)
    BY <1>4, <1>5, <1>7, MoreMarks
  <2>2. <<>> \o <<>> = <<>>
    OBVIOUS
  <2>. QED  BY <2>1, <2>2
<1>9. PICK two \in Seq(Entries) : two = Append(one, Question) /\ FlattenMap(MarksOf, two) = <<>>
  <2>1. FlattenMap(MarksOf, Append(one, Question)) = <<>> \o <<>> /\ Append(one, Question) \in Seq(Entries)
    BY <1>4, <1>5, <1>8, MoreMarks
  <2>2. <<>> \o <<>> = <<>>
    OBVIOUS
  <2>. QED  BY <2>1, <2>2
<1>10. two = <<Prompt, Question>>
  <2>1. Len(one) = 1 /\ one[1] = Prompt
    BY <1>5, <1>7, <1>8
  <2>2. Len(two) = 2 /\ two[1] = Prompt /\ two[2] = Question
    <3>1. /\ Len(Append(one, Question)) = 2 /\ Append(one, Question)[1] = Prompt
          /\ Append(one, Question)[2] = Question
      <4>1. \A e \in Entries : /\ Len(Append(one, e)) = Len(one) + 1
                                /\ Append(one, e)[Len(one) + 1] = e
                                /\ \A i \in 1 .. Len(one) : Append(one, e)[i] = one[i]
        OBVIOUS
      <4>2. Len(one) + 1 = 2 /\ 1 \in 1 .. Len(one)
        BY <2>1
      <4>. QED  BY <1>5, <2>1, <4>1, <4>2
    <3>. QED  BY <1>9, <3>1
  <2>3. PICK t \in Seq(Entries) : t = <<Prompt, Question>> /\ Len(t) = 2 /\ t[1] = Prompt /\ t[2] = Question
    <3>1. <<Prompt, Question>> \in Seq(Entries)
      BY <1>5
    <3>. QED  BY <3>1
  <2>4. \A i \in 1 .. Len(two) : two[i] = t[i]
    BY <2>2, <2>3
  <2>5. two = t
    BY <2>2, <2>3, <2>4, SeqEqual
  <2>. QED  BY <2>3, <2>5
<1>11. Among(Contents(two), Marks) = <<>>
  BY <1>9, EntriesAre, ContentsMarks
<1>. QED  BY <1>4, <1>5, <1>6, <1>9, <1>10, <1>11

(* Two lots of results.                                                       *)
LEMMA ResultsJoined ==
    ASSUME NEW q \in Seq(Blocks), NEW x \in Seq(Blocks)
    PROVE  /\ IdsOf(q \o x) = IdsOf(q) \cup IdsOf(x)
           /\ Distinct(q) /\ Distinct(x) /\ IdsOf(q) \cap IdsOf(x) = {} => Distinct(q \o x)
<1>. DEFINE a == Len(q)
            b == Len(x)
<1>1. PICK all \in Seq(Blocks) : all = q \o x
  BY ConcatProperties
<1>2. /\ a \in Nat /\ b \in Nat /\ DOMAIN q = 1 .. a /\ DOMAIN x = 1 .. b /\ DOMAIN all = 1 .. a + b
      /\ \A k \in 1 .. a + b : all[k] = IF k <= a THEN q[k] ELSE x[k - a]
  BY <1>1
<1>. HIDE DEF a, b
<1>3. \A k \in 1 .. a + b : IF k <= a THEN k \in DOMAIN q ELSE k - a \in DOMAIN x
  BY <1>2
<1>4. IdsOf(all) \subseteq IdsOf(q) \cup IdsOf(x)
  BY <1>2, <1>3 DEF IdsOf
<1>5. IdsOf(q) \subseteq IdsOf(all)
  <2>1. \A k \in DOMAIN q : k \in DOMAIN all /\ all[k] = q[k]
    BY <1>2
  <2>. QED  BY <2>1 DEF IdsOf
<1>6. IdsOf(x) \subseteq IdsOf(all)
  <2>1. \A k \in DOMAIN x : a + k \in DOMAIN all /\ all[a + k] = x[k]
    BY <1>2
  <2>. QED  BY <2>1 DEF IdsOf
<1>7. ASSUME Distinct(q), Distinct(x), IdsOf(q) \cap IdsOf(x) = {},
             NEW k \in DOMAIN all, NEW l \in DOMAIN all, all[k].id = all[l].id
      PROVE  k = l
  <2>1. CASE k <= a /\ l <= a
    BY <1>2, <1>3, <1>7, <2>1 DEF Distinct
  <2>2. CASE ~(k <= a) /\ ~(l <= a)
    <3>1. PICK i \in DOMAIN x : i = k - a /\ all[k] = x[i]
      BY <1>2, <1>3, <2>2
    <3>2. PICK j \in DOMAIN x : j = l - a /\ all[l] = x[j]
      BY <1>2, <1>3, <2>2
    <3>3. i = j
      BY <1>7, <3>1, <3>2 DEF Distinct
    <3>. QED  BY <1>2, <3>1, <3>2, <3>3
  <2>3. CASE k <= a /\ ~(l <= a)
    <3>1. all[k].id \in IdsOf(q) /\ all[l].id \in IdsOf(x)
      BY <1>2, <1>3, <2>3 DEF IdsOf
    <3>. QED  BY <1>7, <3>1
  <2>4. CASE ~(k <= a) /\ l <= a
    <3>1. all[k].id \in IdsOf(x) /\ all[l].id \in IdsOf(q)
      BY <1>2, <1>3, <2>4 DEF IdsOf
    <3>. QED  BY <1>7, <3>1
  <2>. QED  BY <2>1, <2>2, <2>3, <2>4
<1>8. Distinct(q) /\ Distinct(x) /\ IdsOf(q) \cap IdsOf(x) = {} => Distinct(all)
  BY <1>7 DEF Distinct
<1>. QED  BY <1>1, <1>4, <1>5, <1>6, <1>8

-----------------------------------------------------------------------------
LEMMA ExchangeInit == ASSUME Trans!Init  PROVE ExchangeTypes /\ Told
<1>1. history = <<Prompt, Question>>
  BY DEF Trans!Init, Prompt, Question
<1>2. <<>> \in Seq(Blocks) /\ <<>> \in Seq(Messages)
  OBVIOUS
<1>3. ExchangeTypes
  BY <1>1, <1>2, StartIs DEF Trans!Init, ExchangeTypes
<1>4. Told
  BY <1>1 DEF Trans!Init, Told
<1>. QED  BY <1>3, <1>4

LEMMA WellNamedIds ==
    ASSUME NEW r \in Seq(Blocks), WellNamedIn(r)
    PROVE  \A i \in DOMAIN AskedIn(r) : AskedIn(r)[i].id # "none"
<1>1. PICK c \in Seq(OfKind("tool_use")) : c = CallsIn(r)
  BY CallsTyped
<1>2. AskedIn(r) = [i \in DOMAIN c |-> Trans!Parsed(c[i])]
  BY <1>1 DEF AskedIn
<1>3. DOMAIN AskedIn(r) = DOMAIN c /\ \A i \in DOMAIN c : AskedIn(r)[i].id = c[i].id
  BY <1>2, ParsedTyped
<1>. QED  BY <1>1, <1>3 DEF WellNamedIn

(* The reply is recorded.                                                     *)
LEMMA ReplyTold ==
    ASSUME ExchangeTypes, Told, Trans!Reply
    PROVE  ExchangeTypes' /\ Told'
<1>1. PICK r \in Trans!Replies :
         /\ exchange = "asked" /\ exchange' = "replied" /\ reply' = r
         /\ calls' = Trans!Extracted(Trans!Received(r))
         /\ history' = IF Trans!Recorded(Trans!Received(r)) = <<>> THEN history
                       ELSE Append(history, Trans!Message("assistant", Trans!Recorded(Trans!Received(r))))
         /\ UNCHANGED <<format, request, abandoned>>
  BY DEF Trans!Reply
<1>2. /\ format \in {"openai", "anthropic", "bedrock"} /\ r \in Seq(Blocks)
      /\ history = <<Prompt, Question>> /\ history \in Seq(Entries) /\ ~abandoned
      /\ request \in Seq(Messages) /\ abandoned \in BOOLEAN
  BY <1>1, RepliesAre DEF ExchangeTypes, Told
<1>3. PICK said \in Seq(Blocks) : said = Trans!Recorded(Trans!Received(r))
  BY <1>2, RecordedTyped
<1>4. /\ calls' = AskedIn(r) /\ AskedIn(r) \in Seq(Blocks) /\ AskedIn(r) \in Seq(OfKind("tool_use"))
  BY <1>1, <1>2, RecordedTyped
<1>. DEFINE m == Trans!Message("assistant", said)
<1>5. m.content = said /\ m.role = "assistant" /\ (said # <<>> => m \in Entries)
  BY <1>3 DEF Trans!Message, Entries, Messages, Roles
<1>6. history' = IF said = <<>> THEN history ELSE Append(history, m)
  BY <1>1, <1>3
<1>. HIDE DEF m
<1>7. history' \in Seq(Entries)
  BY <1>2, <1>5, <1>6
<1>8. ExchangeTypes'
  BY <1>1, <1>2, <1>4, <1>7 DEF ExchangeTypes
<1>9. ASSUME WellNamedIn(r)
      PROVE  /\ Among(Contents(history'), Marks) = (Said' \o Asked') \o Results'
             /\ Len(Trans!OfType(r, "text")) = 1 /\ Trans!FirstText(r) # "" =>
                    Trans!FirstText(r) = "words" /\ Said' # <<>>
             /\ \A i \in DOMAIN history' : Deliverable(history'[i])
             /\ Answering'
  <2>1. PICK w \in Seq({Words}) :
           /\ Among(said, Marks) = w \o AskedIn(r)
           /\ Len(Trans!OfType(r, "text")) = 1 /\ Trans!FirstText(r) # "" =>
                  Trans!FirstText(r) = "words" /\ w # <<>>
    BY <1>2, <1>3, <1>9, ReplyMarks
  <2>2. Distinct(AskedIn(r))
    BY <1>2, <1>9, ReplyMarks
  <2>3. Among(Contents(history'), Marks) = w \o AskedIn(r)
    <3>1. Among(Contents(history), Marks) = <<>>
      BY <1>2, StartIs
    <3>2. CASE said = <<>>
      BY <1>6, <2>1, <3>1, <3>2, AmongNothing
    <3>3. CASE said # <<>>
      <4>1. PICK k \in Seq(Entries) : k = history' /\ k = Append(history, m)
        BY <1>6, <1>7, <3>3
      <4>2. FlattenMap(MarksOf, k) = FlattenMap(MarksOf, history) \o Among(said, Marks)
        BY <1>2, <1>5, <3>3, <4>1, MoreMarks
      <4>3. history \in Seq(Messages) /\ k \in Seq(Messages)
        BY <1>2, EntriesAre
      <4>4. Among(Contents(k), Marks) = FlattenMap(MarksOf, k)
            /\ Among(Contents(history), Marks) = FlattenMap(MarksOf, history)
        BY <4>3, ContentsMarks
      <4>5. PICK heard : heard = Among(said, Marks) /\ heard \in Seq(Blocks)
        BY AmongTyped
      <4>6. <<>> \o heard = heard
        BY <4>5
      <4>. QED  BY <2>1, <3>1, <4>1, <4>2, <4>4, <4>5, <4>6
    <3>. QED  BY <3>2, <3>3
  <2>4. PICK none \in Seq(OfKind("tool_result")) : none = <<>>
    <3>1. <<>> \in Seq(OfKind("tool_result"))
      OBVIOUS
    <3>. QED  BY <3>1
  <2>. DEFINE Both == Blocks \cup {Words}
  <2>5. PICK told \in Seq(Both) : told = w \o AskedIn(r)
    <3>1. w \in Seq(Both) /\ AskedIn(r) \in Seq(Both)
      BY <1>4
    <3>. QED  BY <3>1, ConcatProperties
  <2>6. told \o none = told
    BY <2>4
  <2>7. Among(Contents(history'), Marks) = (w \o AskedIn(r)) \o none
    BY <2>3, <2>5, <2>6
  <2>8. Contents(history') \in Seq(Blocks)
    <3>1. history' \in Seq(Messages)
      BY <1>7, EntriesAre
    <3>. QED  BY <3>1, ContentsMarks
  <2>9. Among(Contents(history'), {Words}) = w /\ Trans!OfType(Contents(history'), "tool_result") = none
    BY <1>4, <2>7, <2>8, Delivered
  <2>10. Said' = w /\ Results' = none /\ Asked' = AskedIn(r)
    BY <1>1, <2>9, TheExchange
  <2>11. \A i \in DOMAIN history' : Deliverable(history'[i])
    <3>1. \A i \in DOMAIN history : Deliverable(history[i])
      BY <1>2, StartIs
    <3>2. Deliverable(m)
      BY <1>5 DEF Deliverable
    <3>3. \A i \in DOMAIN Append(history, m) :
             Append(history, m)[i] = IF i \in DOMAIN history THEN history[i] ELSE m
      BY <1>2
    <3>. QED  BY <1>6, <3>1, <3>2, <3>3
  <2>12. Answering'
    <3>1. IdsOf(none) = {} /\ Distinct(none)
      BY <2>4 DEF IdsOf, Distinct
    <3>2. calls' = <<>> => IdsOf(calls') = {}
      BY DEF IdsOf
    <3>3. Distinct(Asked)' /\ Distinct(Results)' /\ (IdsOf(Results) \subseteq IdsOf(Asked))'
      BY <2>2, <2>10, <3>1 DEF Distinct, IdsOf
    <3>4. (calls # <<>> => calls = Asked /\ Results = <<>>)'
      BY <1>4, <2>4, <2>10
    <3>5. (calls = <<>> => IdsOf(Asked) \subseteq IdsOf(Results))'
      BY <1>4, <2>10, <3>2 DEF IdsOf
    <3>. QED  BY <3>3, <3>4, <3>5 DEF Answering
  <2>. QED  BY <2>1, <2>7, <2>10, <2>11, <2>12
<1>10. Told'
  <2>1. Trans!WellNamed' <=> WellNamedIn(r)
    BY <1>1, TheExchange
  <2>2. Trans!AllBlocks' = Contents(history')
    BY TheExchange
  <2>3. Trans!OfType(reply, "text")' = Trans!OfType(r, "text") /\ Trans!FirstText(reply)' = Trans!FirstText(r)
    BY <1>1
  <2>. QED  BY <1>1, <1>9, <2>1, <2>2, <2>3 DEF Told
<1>. QED  BY <1>8, <1>10

(* The results of a round, one for each call that was not an upload.          *)
LEMMA RecordTold ==
    ASSUME ExchangeTypes, Told, Trans!RecordResults
    PROVE  ExchangeTypes' /\ Told'
<1>1. PICK uploads \in SUBSET (DOMAIN calls) :
         /\ exchange = "replied" /\ calls # <<>> /\ calls' = <<>>
         /\ history' = Append(history, Trans!Message("user",
               [i \in DOMAIN calls |-> IF i \in uploads THEN Trans!Image
                                       ELSE Trans!ToolResult(calls[i].id, "output")]))
         /\ UNCHANGED <<format, exchange, reply, request, abandoned>>
  BY DEF Trans!RecordResults
<1>2. /\ format \in {"openai", "anthropic", "bedrock"} /\ reply \in Seq(Blocks) /\ calls \in Seq(Blocks)
      /\ history \in Seq(Entries) /\ request \in Seq(Messages) /\ abandoned \in BOOLEAN
  BY DEF ExchangeTypes
<1>. DEFINE said == [i \in DOMAIN calls |-> IF i \in uploads THEN Trans!Image
                                            ELSE Trans!ToolResult(calls[i].id, "output")]
            m == Trans!Message("user", said)
            P == DOMAIN calls \ uploads
<1>3. DOMAIN calls = 1 .. Len(calls) /\ Len(calls) \in Nat /\ \A i \in DOMAIN calls : calls[i] \in Blocks
  BY <1>2
<1>4. ASSUME NEW b \in Blocks
      PROVE  /\ Trans!ToolResult(b.id, "output") \in OfKind("tool_result")
             /\ Trans!ToolResult(b.id, "output").id = b.id
  BY DEF Trans!ToolResult, Trans!Block, OfKind, Blocks, Trans!Types, Data
<1>5. Trans!Image \in Blocks /\ Trans!Image \notin Marks
  BY DEF Trans!Image, Trans!Block, Blocks, Trans!Types, Data, Marks, Words, Trans!Text
<1>6. OfKind("tool_result") \subseteq Blocks /\ OfKind("tool_result") \subseteq Marks
  BY DEF OfKind, Marks
<1>7. \A i \in DOMAIN calls :
         IF i \in P THEN said[i] \in OfKind("tool_result") /\ said[i].id = calls[i].id
         ELSE said[i] = Trans!Image
  BY <1>3, <1>4
<1>8. DOMAIN said = DOMAIN calls /\ said = [i \in 1 .. Len(calls) |-> said[i]]
  BY <1>3
<1>. HIDE DEF said
<1>9. said \in Seq(Blocks) /\ said # <<>>
  <2>1. \A i \in DOMAIN calls : said[i] \in Blocks
    BY <1>5, <1>6, <1>7
  <2>2. said \in Seq(Blocks)
    BY <1>3, <1>8, <2>1
  <2>3. Len(calls) # 0
    BY <1>1, <1>2
  <2>4. 1 \in DOMAIN said
    BY <1>3, <1>8, <2>3
  <2>. QED  BY <2>2, <2>4
<1>10. m \in Entries /\ m.content = said /\ m.role = "user"
  BY <1>9 DEF Trans!Message, Entries, Messages, Roles
<1>11. history' = Append(history, m)
  BY <1>1 DEF said
<1>. HIDE DEF m
<1>12. history' \in Seq(Entries)
  BY <1>2, <1>10, <1>11
<1>13. ExchangeTypes'
  <2>1. calls' \in Seq(Blocks)
    <3>1. <<>> \in Seq(Blocks)
      OBVIOUS
    <3>. QED  BY <1>1, <3>1
  <2>. QED  BY <1>1, <1>2, <1>12, <2>1 DEF ExchangeTypes
<1>14. ASSUME WellNamedIn(reply)
       PROVE  /\ Among(Contents(history'), Marks) = (Said' \o Asked') \o Results'
              /\ Said' = Said
              /\ \A i \in DOMAIN history' : Deliverable(history'[i])
              /\ Answering'
  <2>1. /\ Among(Contents(history), Marks) = (Said \o Asked) \o Results
        /\ \A i \in DOMAIN history : Deliverable(history[i])
        /\ Distinct(Asked) /\ calls = Asked /\ Results = <<>>
    BY <1>1, <1>14, TheExchange DEF Told, Answering
  <2>2. Contents(history) \in Seq(Blocks)
    <3>1. history \in Seq(Messages)
      BY <1>2, EntriesAre
    <3>. QED  BY <3>1, ContentsMarks
  <2>3. PICK w \in Seq({Words}), u \in Seq(OfKind("tool_use")), q \in Seq(OfKind("tool_result")) :
           w = Said /\ u = Asked /\ q = Results
    <3>1. Said \in Seq({Words}) /\ Results \in Seq(OfKind("tool_result"))
      BY <2>2, AmongTyped, OfTypeIs, TheExchange
    <3>2. Asked \in Seq(OfKind("tool_use"))
      BY <1>2, RecordedTyped, TheExchange
    <3>. QED  BY <3>1, <3>2
  <2>4. PICK x \in Seq(OfKind("tool_result")) : x = Among(said, Marks) /\ x = Picked(said, P)
    <3>1. \A i \in DOMAIN said : said[i] \in Marks <=> i \in P
      BY <1>5, <1>6, <1>7, <1>8
    <3>2. {i \in DOMAIN said : said[i] \in Marks} = P
      BY <1>8, <3>1
    <3>3. Among(said, Marks) = Picked(said, P)
      BY <3>2 DEF Among
    <3>4. Among(said, Marks) = Among(said, OfKind("tool_result"))
      <4>1. \A i \in DOMAIN said : said[i] \in Marks <=> said[i] \in OfKind("tool_result")
        BY <1>5, <1>6, <1>7, <1>8
      <4>. QED  BY <4>1, AmongSame
    <3>5. Among(said, OfKind("tool_result")) \in Seq(OfKind("tool_result"))
      BY <1>9, AmongTyped
    <3>. QED  BY <3>3, <3>4, <3>5
  <2>5. Distinct(x) /\ IdsOf(x) = {calls[i].id : i \in P}
    <3>1. P \cap DOMAIN calls = P
      OBVIOUS
    <3>2. \A i, j \in P \cap DOMAIN calls : i # j => calls[i].id # calls[j].id
      BY <2>1 DEF Distinct
    <3>3. \A i \in P \cap DOMAIN calls : said[i].id = calls[i].id
      BY <1>7
    <3>. HIDE DEF P
    <3>4. Distinct(Picked(said, P)) /\ IdsOf(Picked(said, P)) = {calls[i].id : i \in P \cap DOMAIN calls}
      BY <1>2, <1>8, <1>9, <3>2, <3>3, PickedIds
    <3>. QED  BY <2>4, <3>1, <3>4
  <2>6. Among(Contents(history'), Marks) = (w \o u) \o (q \o x)
    <3>1. Tells(Contents(history), w, u, q) /\ Among(m.content, Marks) = x
      BY <1>10, <2>1, <2>3, <2>4 DEF Tells
    <3>2. Tells(Contents(Append(history, m)), w, u, q \o x)
      BY <1>2, <1>10, <3>1, MoreResults
    <3>. QED  BY <1>11, <3>2 DEF Tells
  <2>7. q \o x = x
    BY <2>1, <2>3
  <2>8. Contents(history') \in Seq(Blocks)
    <3>1. history' \in Seq(Messages)
      BY <1>12, EntriesAre
    <3>. QED  BY <3>1, ContentsMarks
  <2>9. Among(Contents(history'), {Words}) = w /\ Trans!OfType(Contents(history'), "tool_result") = x
    BY <2>6, <2>7, <2>8, Delivered
  <2>10. Said' = w /\ Results' = x /\ Asked' = u
    BY <1>1, <2>3, <2>9, TheExchange
  <2>11. \A i \in DOMAIN history' : Deliverable(history'[i])
    <3>1. \A i \in DOMAIN calls : calls[i].id # "none"
      BY <1>2, <1>14, <2>1, WellNamedIds, TheExchange
    <3>2. Deliverable(m)
      <4>1. ASSUME NEW i \in DOMAIN said, said[i] \in Marks
            PROVE  said[i].type = "tool_result" /\ said[i].id # "none"
        <5>1. said[i] \in OfKind("tool_result") /\ said[i].id = calls[i].id
          BY <1>5, <1>7, <1>8, <4>1
        <5>. QED  BY <1>8, <3>1, <5>1 DEF OfKind
      <4>. QED  BY <1>10, <4>1 DEF Deliverable
    <3>3. \A i \in DOMAIN Append(history, m) :
             Append(history, m)[i] = IF i \in DOMAIN history THEN history[i] ELSE m
      BY <1>2
    <3>. QED  BY <1>11, <2>1, <3>2, <3>3
  <2>12. Answering'
    <3>1. IdsOf(u) = {calls[i].id : i \in DOMAIN calls}
      BY <2>1, <2>3 DEF IdsOf
    <3>2. IdsOf(x) \subseteq IdsOf(u)
      BY <2>5, <3>1
    <3>3. ASSUME ~Trans!Uploaded'  PROVE IdsOf(u) \subseteq IdsOf(x)
      <4>1. ASSUME NEW i \in uploads  PROVE FALSE
        <5>1. i \in DOMAIN said /\ said[i] = Trans!Image
          BY <1>1, <1>7, <1>8
        <5>2. Trans!Contains(said, Trans!Image)
          BY <5>1 DEF Trans!Contains
        <5>3. Len(history) + 1 \in DOMAIN history' /\ history'[Len(history) + 1] = m
          BY <1>2, <1>11
        <5>. QED  BY <1>10, <3>3, <5>2, <5>3 DEF Trans!Uploaded
      <4>2. P = DOMAIN calls
        BY <4>1
      <4>. QED  BY <2>5, <3>1, <4>2
    <3>4. Distinct(Asked)' /\ Distinct(Results)' /\ (IdsOf(Results) \subseteq IdsOf(Asked))'
      <4>1. Distinct(u) /\ Distinct(x)
        BY <2>1, <2>3, <2>5
      <4>2. Distinct(Asked)'
        BY <2>10, <4>1 DEF Distinct
      <4>3. Distinct(Results)'
        BY <2>10, <4>1 DEF Distinct
      <4>4. (IdsOf(Results) \subseteq IdsOf(Asked))'
        BY <2>10, <3>2 DEF IdsOf
      <4>. QED  BY <4>2, <4>3, <4>4
    <3>5. (calls = <<>> /\ ~Trans!Uploaded => IdsOf(Asked) \subseteq IdsOf(Results))'
      BY <2>10, <3>3 DEF IdsOf
    <3>. QED  BY <1>1, <3>4, <3>5 DEF Answering
  <2>. QED  BY <2>3, <2>6, <2>7, <2>10, <2>11, <2>12
<1>15. Told'
  <2>1. (Trans!WellNamed <=> WellNamedIn(reply)) /\ (Trans!WellNamed' <=> WellNamedIn(reply))
    BY <1>1, TheExchange
  <2>2. Trans!AllBlocks' = Contents(history')
    BY TheExchange
  <2>3. Trans!OfType(reply, "text")' = Trans!OfType(reply, "text") /\ Trans!FirstText(reply)' = Trans!FirstText(reply)
    BY <1>1
  <2>. QED  BY <1>1, <1>14, <2>1, <2>2, <2>3 DEF Told
<1>. QED  BY <1>13, <1>15

LEMMA AbandonTold ==
    ASSUME ExchangeTypes, Told, Trans!Abandon
    PROVE  ExchangeTypes' /\ Told'
<1>1. /\ exchange = "replied" /\ calls' = <<>> /\ abandoned' = TRUE
      /\ UNCHANGED <<format, exchange, reply, history, request>>
  BY DEF Trans!Abandon
<1>2. <<>> \in Seq(Blocks)
  OBVIOUS
<1>3. ExchangeTypes'
  BY <1>1, <1>2 DEF ExchangeTypes
<1>4. /\ Asked' = Asked /\ Said' = Said /\ Results' = Results
      /\ Trans!AllBlocks' = Trans!AllBlocks /\ (Trans!WellNamed' <=> Trans!WellNamed)
  BY <1>1, TheExchange
<1>5. Trans!OfType(reply, "text")' = Trans!OfType(reply, "text") /\ Trans!FirstText(reply)' = Trans!FirstText(reply)
  BY <1>1
<1>6. Answering => Answering'
  BY <1>1, <1>4 DEF Answering
<1>7. Told'
  BY <1>1, <1>4, <1>5, <1>6 DEF Told
<1>. QED  BY <1>3, <1>7

(* A question tells of no call and no result.                                 *)
LEMMA AskTold ==
    ASSUME ExchangeTypes, Told, Trans!Ask
    PROVE  ExchangeTypes' /\ Told'
<1>1. /\ exchange = "replied" /\ calls = <<>> /\ history' = Append(history, Question)
      /\ UNCHANGED <<format, exchange, reply, calls, request, abandoned>>
  BY DEF Trans!Ask, Question
<1>2. history \in Seq(Entries) /\ reply \in Seq(Blocks)
  BY DEF ExchangeTypes
<1>3. history' \in Seq(Entries)
  BY <1>1, <1>2, StartIs
<1>4. ExchangeTypes'
  BY <1>1, <1>3 DEF ExchangeTypes
<1>5. Contents(history) \in Seq(Blocks) /\ Contents(history') \in Seq(Blocks)
  <2>1. history \in Seq(Messages) /\ history' \in Seq(Messages)
    BY <1>2, <1>3, EntriesAre
  <2>. QED  BY <2>1, ContentsMarks
<1>6. PICK w \in Seq({Words}), u \in Seq(OfKind("tool_use")), q \in Seq(OfKind("tool_result")) :
         w = Said /\ u = Asked /\ q = Results
  <2>1. Said \in Seq({Words}) /\ Results \in Seq(OfKind("tool_result"))
    BY <1>5, AmongTyped, OfTypeIs, TheExchange
  <2>2. Asked \in Seq(OfKind("tool_use"))
    <3>1. format \in {"openai", "anthropic", "bedrock"}
      BY DEF ExchangeTypes
    <3>. QED  BY <1>2, <3>1, RecordedTyped, TheExchange
  <2>. QED  BY <2>1, <2>2
<1>7. Asked' = Asked /\ (Trans!WellNamed' <=> Trans!WellNamed) /\ Trans!AllBlocks' = Contents(history')
  BY <1>1, TheExchange
<1>8. ~Trans!Uploaded' => ~Trans!Uploaded
  <2>1. \A i \in DOMAIN history : i \in DOMAIN history' /\ history'[i] = history[i]
    BY <1>1, <1>2
  <2>. QED  BY <2>1 DEF Trans!Uploaded
<1>9. ASSUME Trans!WellNamed
      PROVE  /\ Among(Contents(history'), Marks) = (Said' \o Asked') \o Results'
             /\ Said' = Said
             /\ \A i \in DOMAIN history' : Deliverable(history'[i])
             /\ Answering'
  <2>1. /\ Tells(Contents(history), w, u, q) /\ Answering
        /\ \A i \in DOMAIN history : Deliverable(history[i])
    BY <1>1, <1>6, <1>9, TheExchange DEF Told, Tells
  <2>2. PICK x \in Seq(OfKind("tool_result")) : x = <<>>
    <3>1. <<>> \in Seq(OfKind("tool_result"))
      OBVIOUS
    <3>. QED  BY <3>1
  <2>3. Tells(Contents(history'), w, u, q \o x)
    BY <1>1, <1>2, <2>1, <2>2, StartIs, MoreResults
  <2>4. q \o x = q
    BY <2>2
  <2>5. Said' = w /\ Results' = q
    <3>1. Among(Contents(history'), {Words}) = w /\ Trans!OfType(Contents(history'), "tool_result") = q
      BY <1>5, <2>3, <2>4, Delivered DEF Tells
    <3>. QED  BY <3>1, TheExchange
  <2>6. \A i \in DOMAIN history' : Deliverable(history'[i])
    <3>1. \A i \in DOMAIN Append(history, Question) :
             Append(history, Question)[i] = IF i \in DOMAIN history THEN history[i] ELSE Question
      BY <1>2
    <3>. QED  BY <1>1, <2>1, <3>1, StartIs
  <2>7. Answering'
    BY <1>1, <1>6, <1>7, <1>8, <2>1, <2>5 DEF Answering
  <2>. QED  BY <1>6, <1>7, <2>3, <2>4, <2>5, <2>6, <2>7 DEF Tells
<1>10. Told'
  <2>1. Trans!OfType(reply, "text")' = Trans!OfType(reply, "text") /\ Trans!FirstText(reply)' = Trans!FirstText(reply)
    BY <1>1
  <2>. QED  BY <1>1, <1>7, <1>9, <2>1 DEF Told
<1>. QED  BY <1>4, <1>10

-----------------------------------------------------------------------------
(* ensure_tool_results: the calls without a result get one.                   *)
LEMMA RepairedKeeps ==
    ASSUME ExchangeTypes
    PROVE  /\ Trans!Repaired \in Seq(Entries)
           /\ Told /\ exchange = "replied" /\ Trans!WellNamed =>
                 /\ \A i \in DOMAIN Trans!Repaired : Deliverable(Trans!Repaired[i])
                 /\ \E r \in Seq(OfKind("tool_result")) :
                       /\ Tells(Contents(Trans!Repaired), Said, Asked, r)
                       /\ Distinct(r) /\ IdsOf(Asked) \subseteq IdsOf(r)
<1>1. /\ format \in {"openai", "anthropic", "bedrock"} /\ reply \in Seq(Blocks) /\ history \in Seq(Entries)
  BY DEF ExchangeTypes
<1>2. PICK blocks \in Seq(Blocks) : blocks = Trans!AllBlocks /\ blocks = Contents(history)
  BY <1>1, AllBlocksAre
<1>3. PICK uses \in Seq(Blocks) : uses = Trans!OfType(blocks, "tool_use")
  BY OfTypeIs, AmongTyped
<1>. DEFINE P == {i \in DOMAIN uses : uses[i].id \notin IdsOf(Results)}
<1>4. PICK lost \in Seq(Blocks) : lost = Trans!OpenCalls /\ lost = Picked(uses, P)
  <2>1. Trans!AnsweredIn(blocks) = IdsOf(Results)
    BY <1>2, TheExchange DEF Trans!AnsweredIn, IdsOf
  <2>2. Trans!OpenCalls = Picked(uses, P)
    BY <1>2, <1>3, <2>1, PickedTrans DEF Trans!OpenCalls
  <2>3. Picked(uses, P) \in Seq(Blocks)
    BY PickedLocated
  <2>. QED  BY <2>2, <2>3
<1>. HIDE DEF P
<1>. DEFINE said == [i \in DOMAIN lost |-> Trans!ToolResult(lost[i].id, "interrupted")]
            m == Trans!Message("user", said)
<1>5. Trans!Repaired = IF lost = <<>> THEN history ELSE Append(history, m)
  BY <1>4 DEF Trans!Repaired
<1>6. DOMAIN lost = 1 .. Len(lost) /\ Len(lost) \in Nat /\ \A i \in DOMAIN lost : lost[i] \in Blocks
  BY <1>4
<1>7. ASSUME NEW b \in Blocks
      PROVE  /\ Trans!ToolResult(b.id, "interrupted") \in OfKind("tool_result")
             /\ Trans!ToolResult(b.id, "interrupted").id = b.id
  BY DEF Trans!ToolResult, Trans!Block, OfKind, Blocks, Trans!Types, Data
<1>8. OfKind("tool_result") \subseteq Blocks /\ OfKind("tool_result") \subseteq Marks
  BY DEF OfKind, Marks
<1>9. /\ DOMAIN said = DOMAIN lost /\ said = [i \in 1 .. Len(lost) |-> said[i]]
      /\ \A i \in DOMAIN lost : said[i] \in OfKind("tool_result") /\ said[i].id = lost[i].id
  BY <1>6, <1>7
<1>. HIDE DEF said
<1>10. said \in Seq(OfKind("tool_result")) /\ said \in Seq(Blocks)
  <2>1. \A i \in DOMAIN lost : said[i] \in Blocks
    BY <1>8, <1>9
  <2>. QED  BY <1>6, <1>9, <2>1
<1>11. ASSUME lost # <<>>  PROVE m \in Entries /\ m.content = said /\ m.role = "user"
  <2>1. 1 \in DOMAIN said
    <3>1. Len(lost) # 0
      BY <1>4, <1>11
    <3>. QED  BY <1>6, <1>9, <3>1
  <2>2. said # <<>>
    BY <2>1
  <2>. QED  BY <1>10, <2>2 DEF Trans!Message, Entries, Messages, Roles
<1>. HIDE DEF m
<1>12. Trans!Repaired \in Seq(Entries)
  BY <1>1, <1>5, <1>11
<1>13. ASSUME Told, exchange = "replied", Trans!WellNamed
       PROVE  /\ \A i \in DOMAIN Trans!Repaired : Deliverable(Trans!Repaired[i])
              /\ \E r \in Seq(OfKind("tool_result")) :
                    /\ Tells(Contents(Trans!Repaired), Said, Asked, r)
                    /\ Distinct(r) /\ IdsOf(Asked) \subseteq IdsOf(r)
  <2>1. PICK w \in Seq({Words}), u \in Seq(OfKind("tool_use")), q \in Seq(OfKind("tool_result")) :
           w = Said /\ u = Asked /\ q = Results
    <3>1. Said \in Seq({Words}) /\ Results \in Seq(OfKind("tool_result"))
      BY <1>2, AmongTyped, OfTypeIs, TheExchange
    <3>2. Asked \in Seq(OfKind("tool_use"))
      BY <1>1, RecordedTyped, TheExchange
    <3>. QED  BY <3>1, <3>2
  <2>2. /\ Tells(blocks, w, u, q) /\ \A i \in DOMAIN history : Deliverable(history[i])
        /\ Distinct(u) /\ Distinct(q)
    BY <1>2, <1>13, <2>1 DEF Told, Tells, Answering
  <2>3. uses = u
    BY <1>3, <2>2, Delivered DEF Tells
  <2>4. \A i \in DOMAIN u : u[i].id # "none"
    BY <1>1, <1>13, <2>1, WellNamedIds, TheExchange
  <2>5. u \in Seq(Blocks) /\ q \in Seq(Blocks)
    BY <1>3, <1>8, <2>3
  <2>6. CASE lost = <<>>
    <3>1. P \cap DOMAIN uses = {}
      BY <1>4, <2>6, PickedNone
    <3>2. IdsOf(u) \subseteq IdsOf(q)
      BY <2>1, <2>3, <3>1 DEF P, IdsOf
    <3>3. Trans!Repaired = history /\ Tells(Contents(history), Said, Asked, q)
      BY <1>2, <1>5, <2>1, <2>2, <2>6
    <3>. QED  BY <2>1, <2>2, <3>2, <3>3
  <2>7. CASE lost # <<>>
    <3>1. Distinct(lost) /\ IdsOf(lost) = {u[i].id : i \in P}
      <4>1. P \cap DOMAIN u = P
        BY <2>3 DEF P
      <4>2. \A i, j \in P \cap DOMAIN u : i # j => u[i].id # u[j].id
        BY <2>2 DEF Distinct
      <4>3. Distinct(Picked(u, P)) /\ IdsOf(Picked(u, P)) = {u[i].id : i \in P \cap DOMAIN u}
        BY <2>5, <4>2, PickedIds
      <4>. QED  BY <1>4, <2>3, <4>1, <4>3
    <3>2. Distinct(said) /\ IdsOf(said) = IdsOf(lost)
      <4>2. \A i \in DOMAIN said : i \in DOMAIN lost /\ said[i].id = lost[i].id
        BY <1>9
      <4>1. Distinct(said)
        <5>1. ASSUME NEW i \in DOMAIN said, NEW j \in DOMAIN said, i # j
              PROVE  said[i].id # said[j].id
          <6>1. lost[i].id # lost[j].id
            BY <3>1, <4>2, <5>1 DEF Distinct
          <6>. QED  BY <4>2, <6>1
        <5>. QED  BY <5>1 DEF Distinct
      <4>3. \A i \in DOMAIN lost : i \in DOMAIN said /\ said[i].id = lost[i].id
        BY <1>9
      <4>4. IdsOf(said) \subseteq IdsOf(lost) /\ IdsOf(lost) \subseteq IdsOf(said)
        BY <4>2, <4>3 DEF IdsOf
      <4>. QED  BY <4>1, <4>4
    <3>3. IdsOf(q) \cap IdsOf(said) = {}
      BY <2>1, <2>3, <3>1, <3>2 DEF P
    <3>4. IdsOf(u) \subseteq IdsOf(q) \cup IdsOf(said)
      <4>1. ASSUME NEW i \in DOMAIN u  PROVE u[i].id \in IdsOf(q) \cup IdsOf(said)
        BY <2>1, <2>3, <3>1, <3>2 DEF P
      <4>. QED  BY <4>1 DEF IdsOf
    <3>5. Among(m.content, Marks) = said
      <4>1. \A i \in DOMAIN said : said[i] \in Marks
        BY <1>8, <1>9
      <4>. QED  BY <1>10, <1>11, <2>7, <4>1, AmongAll
    <3>6. PICK r \in Seq(OfKind("tool_result")) :
             r = q \o said /\ Tells(Contents(Trans!Repaired), w, u, r)
      <4>1. Tells(Contents(history), w, u, q)
        BY <1>2, <2>2
      <4>2. Tells(Contents(Append(history, m)), w, u, q \o said) /\ q \o said \in Seq(OfKind("tool_result"))
        BY <1>1, <1>10, <1>11, <2>7, <3>5, <4>1, MoreResults
      <4>. QED  BY <1>5, <2>7, <4>2
    <3>7. Distinct(r) /\ IdsOf(r) = IdsOf(q) \cup IdsOf(said)
      BY <1>10, <2>2, <2>5, <3>2, <3>3, <3>6, ResultsJoined
    <3>8. Deliverable(m)
      <4>1. ASSUME NEW i \in DOMAIN said  PROVE said[i].type = "tool_result" /\ said[i].id # "none"
        <5>1. said[i] \in OfKind("tool_result") /\ said[i].id \in IdsOf(lost)
          BY <1>9 DEF IdsOf
        <5>2. PICK j \in P : said[i].id = u[j].id
          BY <3>1, <5>1
        <5>. QED  BY <2>3, <2>4, <5>1, <5>2 DEF P, OfKind
      <4>. QED  BY <1>11, <2>7, <4>1 DEF Deliverable
    <3>9. \A i \in DOMAIN Trans!Repaired : Deliverable(Trans!Repaired[i])
      <4>1. \A i \in DOMAIN Append(history, m) :
               Append(history, m)[i] = IF i \in DOMAIN history THEN history[i] ELSE m
        BY <1>1
      <4>. QED  BY <1>5, <2>2, <2>7, <3>8, <4>1
    <3>. QED  BY <2>1, <3>4, <3>6, <3>7, <3>9
  <2>. QED  BY <2>6, <2>7
<1>. QED  BY <1>12, <1>13

(* Bedrock's builder repairs nothing: there the results have to be complete.  *)
LEMMA HistoryKeeps ==
    ASSUME ExchangeTypes, Told, exchange = "replied", Trans!WellNamed, calls = <<>>
    PROVE  /\ \A i \in DOMAIN history : Deliverable(history[i])
           /\ \E r \in Seq(OfKind("tool_result")) :
                 /\ Tells(Contents(history), Said, Asked, r) /\ Distinct(r)
                 /\ ~abandoned /\ ~Trans!Uploaded => IdsOf(Asked) \subseteq IdsOf(r)
<1>1. history \in Seq(Entries)
  BY DEF ExchangeTypes
<1>2. Results \in Seq(OfKind("tool_result"))
  BY <1>1, AllBlocksAre, OfTypeIs, AmongTyped DEF Results
<1>3. /\ Tells(Contents(history), Said, Asked, Results) /\ Distinct(Results)
      /\ ~abandoned /\ ~Trans!Uploaded => IdsOf(Asked) \subseteq IdsOf(Results)
      /\ \A i \in DOMAIN history : Deliverable(history[i])
  BY TheExchange DEF Told, Tells, Answering
<1>. QED  BY <1>2, <1>3

(* The next request carries what the messages it is made of do.               *)
LEMMA SendBuilds ==
    ASSUME ExchangeTypes, Trans!Send
    PROVE  /\ history' \in Seq(Entries) /\ request' \in Seq(Messages)
           /\ history' = IF format = "bedrock" THEN history ELSE Trans!Repaired
           /\ (\A i \in DOMAIN history' : Deliverable(history'[i])) =>
                 FlattenMap(MarksOf, request') = FlattenMap(MarksOf, history')
<1>1. /\ format \in {"openai", "anthropic", "bedrock"} /\ history \in Seq(Entries)
      /\ Trans!Repaired \in Seq(Entries)
  BY RepairedKeeps DEF ExchangeTypes
<1>2. /\ history' = IF format = "bedrock" THEN history ELSE Trans!Repaired
      /\ request' = Trans!Converted(IF format = "bedrock" THEN Trans!StateMessages(history)
                                    ELSE Trans!OpenAIMessages(history'))
  BY DEF Trans!Send
<1>3. PICK h \in Seq(Entries) : h = history'
  BY <1>1, <1>2
<1>4. PICK msgs \in Seq(Messages) :
         /\ request' = Trans!Converted(msgs)
         /\ (\A i \in DOMAIN h : Deliverable(h[i])) =>
               msgs \in Seq(Convertibles) /\ FlattenMap(MarksOf, msgs) = FlattenMap(MarksOf, h)
  <2>1. CASE format = "bedrock"
    <3>1. request' = Trans!Converted(Trans!StateMessages(h))
      BY <1>2, <1>3, <2>1
    <3>. QED  BY <3>1, StateMessagesKeep
  <2>2. CASE format # "bedrock"
    <3>1. request' = Trans!Converted(Trans!OpenAIMessages(h))
      BY <1>2, <1>3, <2>2
    <3>. QED  BY <3>1, OpenAIKeeps
  <2>. QED  BY <2>1, <2>2
<1>5. /\ Trans!Converted(msgs) \in Seq(Messages)
      /\ msgs \in Seq(Convertibles) =>
            FlattenMap(MarksOf, Trans!Converted(msgs)) = FlattenMap(MarksOf, msgs)
  BY <1>1, ConvertedKeeps
<1>. QED  BY <1>2, <1>3, <1>4, <1>5

(* What arrives is told of as in the history.                                 *)
LEMMA SendArrives ==
    ASSUME ExchangeTypes, Told, Trans!Send
    PROVE  ExchangeTypes' /\ Told' /\ Trans!ReplySurvives' /\ Trans!CallsAnswered'
<1>1. /\ exchange = "replied" /\ exchange' = "sent" /\ calls = <<>>
      /\ UNCHANGED <<format, reply, calls, abandoned>>
  BY DEF Trans!Send
<1>2. /\ history' \in Seq(Entries) /\ request' \in Seq(Messages)
      /\ history' = IF format = "bedrock" THEN history ELSE Trans!Repaired
  BY SendBuilds
<1>3. ExchangeTypes'
  BY <1>1, <1>2 DEF ExchangeTypes
<1>4. Told'
  BY <1>1 DEF Told
<1>5. ASSUME Trans!WellNamed
      PROVE  /\ Trans!OfType(Trans!Sent', "tool_use") = Asked
             /\ Said # <<>> => \E i \in DOMAIN Trans!Sent' : Trans!Sent'[i] = Words
             /\ (format = "bedrock" => ~abandoned /\ ~Trans!Uploaded) =>
                   \A i \in DOMAIN Trans!Sent' : Trans!Sent'[i].type = "tool_use" => Answers(Trans!Sent', i)
  <2>1. PICK r \in Seq(OfKind("tool_result")) :
           /\ Tells(Contents(history'), Said, Asked, r) /\ Distinct(r)
           /\ (format = "bedrock" => ~abandoned /\ ~Trans!Uploaded) => IdsOf(Asked) \subseteq IdsOf(r)
    <3>1. CASE format = "bedrock"
      BY <1>1, <1>2, <1>5, <3>1, HistoryKeeps
    <3>2. CASE format # "bedrock"
      BY <1>1, <1>2, <1>5, <3>2, RepairedKeeps
    <3>. QED  BY <3>1, <3>2
  <2>2. \A i \in DOMAIN history' : Deliverable(history'[i])
    <3>1. CASE format = "bedrock"
      BY <1>1, <1>2, <1>5, <3>1, HistoryKeeps
    <3>2. CASE format # "bedrock"
      BY <1>1, <1>2, <1>5, <3>2, RepairedKeeps
    <3>. QED  BY <3>1, <3>2
  <2>3. PICK sent \in Seq(Blocks) : sent = Trans!Sent' /\ sent = Contents(request')
    <3>1. Trans!Sent' = Contents(request')
      BY FlattenTrans DEF Trans!Sent, Contents
    <3>. QED  BY <1>2, <3>1, ContentsMarks
  <2>4. Among(sent, Marks) = Among(Contents(history'), Marks)
    <3>1. history' \in Seq(Messages)
      BY <1>2, EntriesAre
    <3>2. FlattenMap(MarksOf, request') = FlattenMap(MarksOf, history')
      BY <2>2, SendBuilds
    <3>. QED  BY <1>2, <2>3, <3>1, <3>2, ContentsMarks
  <2>5. PICK w \in Seq({Words}), u \in Seq(OfKind("tool_use")) : w = Said /\ u = Asked
    <3>1. history \in Seq(Messages) /\ reply \in Seq(Blocks) /\ format \in {"openai", "anthropic", "bedrock"}
      BY EntriesAre DEF ExchangeTypes
    <3>2. Said \in Seq({Words})
      BY <3>1, ContentsMarks, AmongTyped, TheExchange
    <3>3. Asked \in Seq(OfKind("tool_use"))
      BY <3>1, RecordedTyped, TheExchange
    <3>. QED  BY <3>2, <3>3
  <2>6. Among(sent, Marks) = (w \o u) \o r
    BY <2>1, <2>4, <2>5 DEF Tells
  <2>7. /\ Trans!OfType(sent, "tool_use") = u
        /\ w # <<>> => \E i \in DOMAIN sent : sent[i] = Words
        /\ Distinct(r) /\ IdsOf(u) \subseteq IdsOf(r) =>
              \A i \in DOMAIN sent : sent[i].type = "tool_use" => Answers(sent, i)
    BY <2>6, Delivered
  <2>. QED  BY <2>1, <2>3, <2>5, <2>7
<1>6. /\ Asked' = Asked /\ (Trans!WellNamed' <=> Trans!WellNamed)
      /\ Trans!OfType(reply, "text")' = Trans!OfType(reply, "text")
      /\ Trans!FirstText(reply)' = Trans!FirstText(reply)
  BY <1>1, TheExchange
<1>7. Trans!ReplySurvives'
  <2>1. ASSUME Trans!WellNamed, Len(Trans!OfType(reply, "text")) = 1, Trans!FirstText(reply) # ""
        PROVE  Trans!FirstText(reply) = "words" /\ Said # <<>>
    BY <1>1, <2>1 DEF Told
  <2>2. Trans!WellNamed => Trans!OfType(Trans!Sent, "tool_use")' = Asked'
    BY <1>5, <1>6
  <2>. QED  BY <1>5, <1>6, <2>1, <2>2 DEF Trans!ReplySurvives, Asked, Words
<1>8. Trans!CallsAnswered'
  <2>1. format = "bedrock" => (Trans!Uploaded' <=> Trans!Uploaded)
    BY <1>2 DEF Trans!Uploaded
  <2>. QED  BY <1>1, <1>5, <1>6, <2>1 DEF Trans!CallsAnswered, Answers
<1>. QED  BY <1>3, <1>4, <1>7, <1>8

(* Once the request is sent nothing moves any more.                           *)
ExchangeSafe == ExchangeTypes /\ Told /\ Trans!ReplySurvives /\ Trans!CallsAnswered

LEMMA ExchangeStep ==
    ASSUME ExchangeSafe, Trans!Next
    PROVE  ExchangeSafe'
<1>1. (exchange' = "replied") \/ Trans!Send
  BY DEF Trans!Next, Trans!Reply, Trans!RecordResults, Trans!Abandon, Trans!Ask
<1>2. CASE Trans!Send
  BY <1>2, SendArrives DEF ExchangeSafe
<1>3. CASE exchange' = "replied"
  <2>1. ExchangeTypes' /\ Told'
    BY ReplyTold, RecordTold, AbandonTold, AskTold, SendArrives DEF Trans!Next, ExchangeSafe
  <2>2. Trans!ReplySurvives' /\ Trans!CallsAnswered'
    BY <1>3 DEF Trans!ReplySurvives, Trans!CallsAnswered
  <2>. QED  BY <2>1, <2>2 DEF ExchangeSafe
<1>. QED  BY <1>1, <1>2, <1>3

LEMMA ExchangeStutters ==
    ASSUME ExchangeSafe, UNCHANGED transVars
    PROVE  ExchangeSafe'
<1>1. UNCHANGED <<format, exchange, reply, calls, history, request, abandoned>>
  BY DEF transVars
<1>2. ExchangeTypes'
  BY <1>1 DEF ExchangeSafe, ExchangeTypes
<1>3. Told'
  <2>1. /\ Asked' = Asked /\ Said' = Said /\ Results' = Results
        /\ Trans!AllBlocks' = Trans!AllBlocks /\ (Trans!WellNamed' <=> Trans!WellNamed)
        /\ (Trans!Uploaded' <=> Trans!Uploaded)
    BY <1>1, TheExchange DEF Trans!Uploaded
  <2>2. Trans!OfType(reply, "text")' = Trans!OfType(reply, "text") /\ Trans!FirstText(reply)' = Trans!FirstText(reply)
    BY <1>1
  <2>3. Answering => Answering'
    BY <1>1, <2>1 DEF Answering
  <2>. QED  BY <1>1, <2>1, <2>2, <2>3 DEF ExchangeSafe, Told
<1>4. Trans!ReplySurvives' /\ Trans!CallsAnswered'
  <2>1. Trans!Sent' = Trans!Sent /\ Asked' = Asked /\ (Trans!WellNamed' <=> Trans!WellNamed)
        /\ (Trans!Uploaded' <=> Trans!Uploaded)
    BY <1>1, TheExchange DEF Trans!Sent, Trans!Uploaded
  <2>2. Trans!OfType(reply, "text")' = Trans!OfType(reply, "text") /\ Trans!FirstText(reply)' = Trans!FirstText(reply)
    BY <1>1
  <2>3. Trans!ReplySurvives'
    BY <1>1, <2>1, <2>2 DEF ExchangeSafe, Trans!ReplySurvives, Asked
  <2>4. Trans!CallsAnswered'
    BY <1>1, <2>1 DEF ExchangeSafe, Trans!CallsAnswered
  <2>. QED  BY <2>3, <2>4
<1>. QED  BY <1>2, <1>3, <1>4 DEF ExchangeSafe

LEMMA ExchangesSafe == ServicesSpec => []ExchangeSafe
<1>1. ServicesInit => ExchangeSafe
  <2>1. Trans!Init => Trans!ReplySurvives /\ Trans!CallsAnswered
    BY DEF Trans!Init, Trans!ReplySurvives, Trans!CallsAnswered
  <2>. QED  BY <2>1, ExchangeInit DEF ServicesInit, ExchangeSafe
<1>2. ExchangeSafe /\ [ServicesNext]_serviceVars => ExchangeSafe'
  <2>. SUFFICES ASSUME ExchangeSafe, [ServicesNext]_serviceVars  PROVE ExchangeSafe'
    OBVIOUS
  <2>1. Trans!Next \/ UNCHANGED transVars
    BY DEF ServicesNext, serviceVars
  <2>. QED  BY <2>1, ExchangeStep, ExchangeStutters
<1>. QED  BY <1>1, <1>2, PTL DEF ServicesSpec

(* The words and the calls of a reply come back to the model in the next      *)
(* request, each call with its one result behind it, through each of the four *)
(* translations (openai_messages.c, claude.c, aws_bedrock.c,                  *)
(* anthropic_provider.c).                                                     *)
THEOREM ExchangesSurvive == ServicesSpec => []ExchangeSurvives
<1>1. ExchangeSafe => ExchangeSurvives
  BY DEF ExchangeSafe, ExchangeSurvives
<1>. QED  BY <1>1, ExchangesSafe, PTL

-----------------------------------------------------------------------------
(* The types of what a message is made of.                                    *)
LEMMA ExchangeTyped == ASSUME ExchangeTypes PROVE Trans!TypeOK
<1>1. ASSUME NEW s \in Seq(Blocks)  PROVE \A i \in DOMAIN s : Trans!IsBlock(s[i])
  <2>1. \A i \in DOMAIN s : s[i] \in Blocks
    OBVIOUS
  <2>. QED  BY <2>1 DEF Blocks, Trans!IsBlock
<1>2. ASSUME NEW s \in Seq(Messages)  PROVE \A i \in DOMAIN s : Trans!IsMessage(s[i])
  <2>1. \A i \in DOMAIN s : s[i] \in Messages
    OBVIOUS
  <2>2. ASSUME NEW m \in Messages  PROVE Trans!IsMessage(m)
    <3>1. m.role \in Roles /\ m.content \in Seq(Blocks)
      BY DEF Messages
    <3>. QED  BY <1>1, <3>1 DEF Roles, Trans!IsMessage
  <2>. QED  BY <2>1, <2>2
<1>3. history \in Seq(Messages)
  BY DEF ExchangeTypes, Entries
<1>. QED  BY <1>1, <1>2, <1>3 DEF ExchangeTypes, Trans!TypeOK

(* The variables of every service keep their types.                           *)
THEOREM TypesKept ==
    ASSUME Sensible, BashBounds, McpBounds, TodoBounds, WordNames, FileWorld
    PROVE  ServicesSpec => []TypesOK
<1>1. ServicesSpec => [](Mcp!TypeOK /\ OwnAnswerWhenCalm)
  BY OwnAnswers
<1>2. ServicesSpec => [](Bash!TypeOK /\ Bash!OutputAccounted)
  BY OutputComplete
<1>3. ServicesSpec => [](Todo!TypeOK /\ Todo!ShowsWhatWasWritten)
  BY ListShown
<1>4. ServicesSpec => []ExchangeSafe
  BY ExchangesSafe
<1>. DEFINE Api == TypeOK /\ LooksLeft
            Place == Configured /\ Routing!TypeOK
            File == FileTypes /\ Peace /\ FileShapes /\ Reported
            IInv == subject \in Subjects /\ Api /\ Place /\ File
<1>5. ServicesInit => IInv
  <2>. SUFFICES ASSUME ServicesInit  PROVE IInv
    OBVIOUS
  <2>1. subject \in Subjects /\ Init /\ Routing!Init /\ Files!Init
    BY DEF ServicesInit
  <2>2. Api
    BY <2>1, TypeInit DEF Init, LooksLeft
  <2>3. Configured
    <3>1. <<>> \in [1 .. 0 -> [name : ServerNames, connected : BOOLEAN, tools : SUBSET ToolNames]]
      OBVIOUS
    <3>. QED  BY <2>1, <3>1 DEF Routing!Init, Configured
  <2>4. Routing!TypeOK
    <3>1. Len(<<>>) = 0 /\ \A i \in DOMAIN <<>> : FALSE
      OBVIOUS
    <3>2. Routing!Nowhere.server = 0 /\ 0 \in 0 .. 0
      BY DEF Routing!Nowhere
    <3>3. /\ stage = "unread" /\ enabled = FALSE /\ servers = <<>>
          /\ called = Routing!Nowhere /\ reached = Routing!Nowhere
      BY <2>1 DEF Routing!Init
    <3>4. \A i \in DOMAIN servers : FALSE
      BY <3>1, <3>3
    <3>5. Len(servers) <= MaxServers
      BY <3>1, <3>3 DEF WordNames
    <3>. QED  BY <3>1, <3>2, <3>3, <3>4, <3>5 DEF Routing!TypeOK
  <2>5. File
    BY <2>1, FilesBegin, ShapesBegin DEF Reported, Reports, Files!Init
  <2>. HIDE DEF Api, File
  <2>. QED  BY <2>1, <2>2, <2>3, <2>4, <2>5
<1>6. IInv /\ [ServicesNext]_serviceVars => IInv'
  <2>. SUFFICES ASSUME IInv, [ServicesNext]_serviceVars  PROVE IInv'
    OBVIOUS
  <2>1. [Next]_vars
    BY DEF ServicesNext, serviceVars, apiVars
  <2>2. [Routing!Next]_routingVars
    BY DEF ServicesNext, serviceVars, routingVars
  <2>3. [Files!Next]_fileVars
    BY DEF ServicesNext, serviceVars, fileVars
  <2>4. subject' = subject
    BY DEF ServicesNext, serviceVars
  <2>5. Api'
    BY <2>1, Halves, HalvesPrime, NumbersStep, NamesStep, LooksLeftStep
  <2>6. Place'
    BY <2>2, ConfiguredStep, RoutingTypesStep
  <2>7. FileTypes' /\ Peace'
    BY <2>3, FilesStep
  <2>8. FileShapes' /\ Reported'
    BY <2>3, ShapesStep, ReportedStep
  <2>. HIDE DEF Api, Place
  <2>. QED  BY <2>4, <2>5, <2>6, <2>7, <2>8
<1>7. /\ Mcp!TypeOK /\ OwnAnswerWhenCalm /\ Bash!TypeOK /\ Bash!OutputAccounted
      /\ Todo!TypeOK /\ Todo!ShowsWhatWasWritten /\ ExchangeSafe /\ IInv
      => TypesOK
  <2>1. ExchangeSafe => Trans!TypeOK
    BY ExchangeTyped DEF ExchangeSafe
  <2>2. File => Files!TypeOK
    BY ShapesTyped
  <2>. HIDE DEF File
  <2>. QED  BY <2>1, <2>2 DEF TypesOK
<1>. QED  BY <1>1, <1>2, <1>3, <1>4, <1>5, <1>6, <1>7, PTL DEF ServicesSpec
=============================================================================
