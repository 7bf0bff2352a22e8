------------------------------ MODULE ApiCall ------------------------------
(* call_api_with_retries (claude.c) over the three providers: the choice of   *)
(* the provider on the first call (provider.c), one attempt of it, and the    *)
(* backoff between attempts. The Bedrock provider's attempt is up to two HTTP *)
(* requests: after a refusal it looks for another access key, first one that  *)
(* another process may have fetched, then by a login of its own               *)
(* (bedrock_provider.c, aws_bedrock.c). Time is counted in an abstract unit.  *)
EXTENDS Integers, FiniteSets

CONSTANTS
    InitialBackoff, MaxBackoff,  \* INITIAL_BACKOFF_MS, MAX_BACKOFF_MS
    MaxRetryDuration,            \* state->max_retry_duration_ms
    AttemptTimes,                \* bound: how long an attempt may take
    Polls,                       \* looks at the profile after a login
    MaxKey,                      \* bound: access keys ever issued
    MaxCalls                     \* bound: calls

NoKey == 0

VARIABLES
    env,        \* the environment variables that choose the provider
    provider,   \* state->provider
    pc,         \* where the call is
    flag,       \* state->interrupt_requested
    elapsed,    \* time since the call began
    attempt, backoff,   \* attempt_num, backoff_ms
    creds,      \* config->creds: the access key, NoKey for NULL
    profile,    \* what the AWS CLI has for the profile
    issued,     \* history: the newest key issued
    polls,      \* looks left
    refused,    \* the key the first request of this attempt was refused with
    logins,     \* history: logins in this attempt
    result,     \* what the attempt brought
    outcome,    \* what the last call returned
    waited,     \* history: time spent in backoff in this call
    made        \* history: calls made

loop == <<flag, elapsed, attempt, backoff, waited>>
vars == <<env, provider, pc, loop, creds, profile, issued, polls, refused, logins, result,
          outcome, made>>

Flags == {"unset", "1", "TRUE"}
Settings == [bedrock : Flags, keys : BOOLEAN, base : {"unset", "anthropic", "other"},
             anthropic : BOOLEAN, fixed : BOOLEAN]

(* keys: OPENAI_API_KEY is not empty; main exits when it is not set at all,   *)
(* unless Bedrock is enabled. What is not looked at is not set here.          *)
Envs ==
    {e \in Settings : IF e.bedrock = "unset" THEN ~e.fixed
                      ELSE ~e.keys /\ e.base = "unset" /\ ~e.anthropic}

Init ==
    /\ env = [bedrock |-> "unset", keys |-> FALSE, base |-> "unset", anthropic |-> FALSE,
              fixed |-> FALSE]
    /\ provider = "none" /\ pc = "off" /\ flag = FALSE
    /\ elapsed = 0 /\ attempt = 0 /\ backoff = 0 /\ waited = 0
    /\ creds = NoKey /\ profile = NoKey /\ issued = NoKey /\ polls = 0 /\ refused = NoKey
    /\ logins = 0 /\ result = "none" /\ outcome = "none"
    /\ made = 0

(* The program starts in some environment.                                    *)
Launch ==
    /\ pc = "off" /\ pc' = "idle" /\ env' \in Envs /\ issued' = 1
    /\ profile' \in IF env'.bedrock = "unset" THEN {NoKey} ELSE {NoKey, 1}
    /\ UNCHANGED <<provider, loop, creds, polls, refused, logins, result, outcome, made>>

-----------------------------------------------------------------------------
(* provider_init. Two functions read CLAUDE_CODE_USE_BEDROCK: provider.c takes *)
(* "TRUE" for yes, aws_bedrock.c does not and then creates no provider.       *)
BedrockChosen == env.bedrock \in {"1", "TRUE"}
BedrockEnabled == env.bedrock = "1"

(* get_api_url_from_env: OPENAI_API_BASE, else ANTHROPIC_API_URL, else        *)
(* Anthropic's own. The format is Anthropic's as soon as the second is set.   *)
Url ==
    IF env.base # "unset" THEN env.base
    ELSE IF env.anthropic THEN "other" ELSE "anthropic"

NonBedrockProvider ==
    IF env.anthropic \/ Url = "anthropic" THEN "anthropic" ELSE "openai"

ProviderFor ==
    IF BedrockChosen THEN IF BedrockEnabled THEN "bedrock" ELSE "none"
    ELSE IF env.keys THEN NonBedrockProvider ELSE "none"

(* bedrock_load_credentials: variables of the environment first, then what    *)
(* the AWS CLI knows of the profile.                                          *)
EnvCredentials == IF env.fixed THEN 1 ELSE NoKey

ProfileCredentials == profile

LoadCredentials == IF EnvCredentials # NoKey THEN EnvCredentials ELSE ProfileCredentials

-----------------------------------------------------------------------------
Return(o) == pc' = "idle" /\ outcome' = o

StartCall ==
    /\ pc = "idle" /\ made < MaxCalls /\ made' = made + 1
    /\ LET chosen == IF provider = "none" THEN ProviderFor ELSE provider IN
       /\ provider' = chosen
       /\ IF chosen = "none" THEN Return("no provider") ELSE pc' = "check" /\ outcome' = "none"
       /\ creds' = IF provider = "none" /\ chosen = "bedrock" THEN LoadCredentials ELSE creds
    /\ elapsed' = 0 /\ attempt' = 1 /\ backoff' = InitialBackoff /\ waited' = 0
    /\ result' = "none"
    /\ UNCHANGED <<env, flag, profile, issued, polls, refused, logins>>

(* The head of the loop: an interrupt, then the time limit, then an attempt.  *)
Interrupted ==
    /\ pc = "check" /\ flag /\ Return("interrupted")
    /\ UNCHANGED <<env, provider, loop, creds, profile, issued, polls, refused, logins, result,
                   made>>

OutOfTime == attempt > 1 /\ elapsed >= MaxRetryDuration

TooLate ==
    /\ pc = "check" /\ ~flag /\ OutOfTime /\ Return("exceeded")
    /\ UNCHANGED <<env, provider, loop, creds, profile, issued, polls, refused, logins, result,
                   made>>

BeginAttempt ==
    /\ pc = "check" /\ ~flag /\ ~OutOfTime
    /\ pc' = IF provider = "bedrock" /\ creds = NoKey THEN "first login" ELSE "request"
    /\ refused' = NoKey /\ logins' = 0
    /\ UNCHANGED <<env, provider, loop, creds, profile, issued, polls, result, outcome,
                   made>>

-----------------------------------------------------------------------------
(* The ends of an HTTP request that the code tells apart: "unusable" is one    *)
(* that could not be sent or an answer that could not be read, "busy" a status *)
(* of 408, 429 or 5xx, "network" and "curl" curl's errors, retryable or not.   *)
Ends == {"answer", "unusable", "busy", "network", "curl", "too long", "refused"}
Retryable == {"busy", "network"}

(* A conversation that is too long is answered with 400, as a refused key is. *)
AuthStatus == {"refused", "too long"}

Exchange(name, end) ==
    /\ pc = "request" /\ provider = name
    /\ result' = end
    /\ \E t \in AttemptTimes : elapsed' = elapsed + t
    /\ UNCHANGED <<env, provider, flag, attempt, backoff, waited, creds, profile, issued, polls,
                   refused, logins, outcome, made>>

(* openai_call_api                                                            *)
OpenAIRequest == \E end \in Ends : Exchange("openai", end) /\ pc' = "result"

(* anthropic_call_api                                                         *)
AnthropicRequest == \E end \in Ends : Exchange("anthropic", end) /\ pc' = "result"

(* bedrock_execute_request; after the first refusal of an attempt             *)
(* bedrock_call_api goes on to look for another key.                          *)
BedrockRequest ==
    \E end \in Ends :
        /\ Exchange("bedrock", end)
        /\ pc' = IF end \in AuthStatus /\ refused = NoKey THEN "look" ELSE "result"

(* Steps 3 and 4 of bedrock_call_api: has the profile another key by now?     *)
Adopt(key) == creds' = key /\ refused' = creds /\ pc' = "request"

(* Mutant: the profile's key is taken without a comparison.                   *)
LookAlways ==
    /\ pc = "look"
    /\ IF LoadCredentials = NoKey THEN pc' = "result" /\ UNCHANGED <<creds, refused>>
       ELSE Adopt(LoadCredentials)
    /\ UNCHANGED <<env, provider, loop, profile, issued, polls, logins, result, outcome, made>>

Look ==
    /\ pc = "look"
    /\ IF LoadCredentials = NoKey THEN pc' = "result" /\ UNCHANGED <<creds, refused>>
       ELSE IF LoadCredentials # creds THEN Adopt(LoadCredentials)
       ELSE pc' = "login" /\ UNCHANGED <<creds, refused>>
    /\ UNCHANGED <<env, provider, loop, profile, issued, polls, logins, result, outcome, made>>

(* bedrock_authenticate runs a command of the user's and waits for it. The    *)
(* key it fetches reaches the profile when the CLI writes it.                 *)
Login(from, to) ==
    /\ pc = from /\ pc' = to /\ polls' = Polls /\ logins' = logins + 1
    /\ issued' = IF issued < MaxKey THEN issued + 1 ELSE issued
    /\ UNCHANGED <<env, provider, loop, creds, profile, refused, result, outcome, made>>

LoginFails ==
    /\ pc \in {"first login", "login"} /\ pc' = "result"
    /\ result' = IF pc = "login" THEN result ELSE "unusable"
    /\ logins' = logins + 1
    /\ UNCHANGED <<env, provider, loop, creds, profile, issued, polls, refused, outcome, made>>

FirstLogin == Login("first login", "first poll")
RotatingLogin == Login("login", "poll")

(* Up to ten looks at the profile, 200 ms apart.                              *)
FirstPoll ==
    /\ pc = "first poll"
    /\ IF LoadCredentials # NoKey
       THEN creds' = LoadCredentials /\ pc' = "request" /\ UNCHANGED <<polls, result>>
       ELSE /\ polls' = polls - 1 /\ UNCHANGED creds
            /\ IF polls = 1 THEN pc' = "result" /\ result' = "unusable"
                            ELSE UNCHANGED <<pc, result>>
    /\ UNCHANGED <<env, provider, loop, profile, issued, refused, logins, outcome, made>>

(* Only a key other than the refused one counts.                              *)
Poll ==
    /\ pc = "poll"
    /\ IF LoadCredentials \notin {NoKey, creds}
       THEN Adopt(LoadCredentials) /\ UNCHANGED polls
       ELSE /\ polls' = polls - 1 /\ UNCHANGED <<creds, refused>>
            /\ pc' = IF polls = 1 THEN "result" ELSE "poll"
    /\ UNCHANGED <<env, provider, loop, profile, issued, logins, result, outcome, made>>

-----------------------------------------------------------------------------
(* After the attempt: an answer or an error for the caller, or a wait.        *)
Answered ==
    /\ pc = "result" /\ result = "answer" /\ Return("answer")
    /\ UNCHANGED <<env, provider, loop, creds, profile, issued, polls, refused, logins, result,
                   made>>

Fails ==
    /\ pc = "result" /\ result \notin Retryable \cup {"answer"} /\ Return("error")
    /\ UNCHANGED <<env, provider, loop, creds, profile, issued, polls, refused, logins, result,
                   made>>

(* Mutant: the backoff grows without a limit.                                 *)
DoubledFreely == 2 * backoff

Doubled == IF 2 * backoff > MaxBackoff THEN MaxBackoff ELSE 2 * backoff

(* Mutant: the wait is not cut to what remains.                               *)
BackOffUncut ==
    \E jitter \in 0 .. (backoff \div 4) - 1 :
        /\ pc = "result" /\ result \in Retryable
        /\ pc' = "check" /\ elapsed' = elapsed + backoff - jitter
        /\ waited' = waited + backoff - jitter
        /\ attempt' = attempt + 1 /\ backoff' = Doubled
        /\ UNCHANGED <<outcome, flag>>
        /\ UNCHANGED <<env, provider, creds, profile, issued, polls, refused, logins, result,
                       made>>

(* The backoff less up to a quarter, cut to the time that remains; none       *)
(* remaining ends the call. The interrupt flag is not looked at meanwhile.    *)
BackOff ==
    \E jitter \in 0 .. (backoff \div 4) - 1 :
        LET remaining == MaxRetryDuration - elapsed
            delay == IF backoff - jitter > remaining THEN remaining ELSE backoff - jitter
        IN
        /\ pc = "result" /\ result \in Retryable
        /\ IF delay <= 0
           THEN Return("exceeded") /\ UNCHANGED loop
           ELSE /\ pc' = "check" /\ elapsed' = elapsed + delay /\ waited' = waited + delay
                /\ attempt' = attempt + 1 /\ backoff' = Doubled
                /\ UNCHANGED <<outcome, flag>>
        /\ UNCHANGED <<env, provider, creds, profile, issued, polls, refused, logins, result,
                       made>>

-----------------------------------------------------------------------------
(* Others: Ctrl+C, and the AWS CLI of some process writing a newer key.       *)
Interrupt ==
    /\ pc \notin {"off", "idle"} /\ ~flag /\ flag' = TRUE
    /\ UNCHANGED <<env, provider, pc, elapsed, attempt, backoff, waited, creds, profile, issued,
                   polls, refused, logins, result, outcome, made>>

WriteProfile ==
    /\ provider = "bedrock" /\ profile # issued /\ profile' = issued
    /\ UNCHANGED <<env, provider, pc, loop, creds, issued, polls, refused, logins, result,
                   outcome, made>>

IssueKey ==
    /\ provider = "bedrock" /\ issued < MaxKey /\ issued' = issued + 1
    /\ UNCHANGED <<env, provider, pc, loop, creds, profile, polls, refused, logins, result,
                   outcome, made>>

Step ==
    \/ Interrupted \/ TooLate \/ BeginAttempt
    \/ OpenAIRequest \/ AnthropicRequest \/ BedrockRequest \/ Look
    \/ FirstPoll \/ Poll \/ Answered \/ Fails \/ BackOff

LoginEnds == FirstLogin \/ RotatingLogin \/ LoginFails

Next == Launch \/ StartCall \/ Step \/ LoginEnds \/ Interrupt \/ WriteProfile \/ IssueKey

(* The worker runs and curl's timeouts end every request; a login may wait    *)
(* for its user for ever.                                                     *)
Spec == Init /\ [][Next]_vars /\ WF_vars(Step)

-----------------------------------------------------------------------------
TypeOK ==
    /\ env \in Envs /\ provider \in {"none", "openai", "anthropic", "bedrock"}
    /\ pc \in {"off", "idle", "check", "request", "look", "first login", "login", "first poll",
               "poll", "result"}
    /\ flag \in BOOLEAN /\ elapsed \in Nat /\ attempt \in Nat /\ waited \in Nat
    /\ backoff \in 0 .. MaxBackoff
    /\ {creds, profile, issued, refused} \subseteq 0 .. MaxKey
    /\ polls \in 0 .. Polls /\ logins \in Nat
    /\ result \in Ends \cup {"none"}
    /\ outcome \in {"none", "answer", "error", "exceeded", "interrupted", "no provider"}
    /\ made \in 0 .. MaxCalls

(* The time limit: what a call spends waiting stays within it, whatever the   *)
(* jitter and the doubling make of the delays, an attempt after the first     *)
(* begins before it, and a call given up for it had used it up.               *)
RetriesStayInLimit ==
    /\ waited <= MaxRetryDuration
    /\ pc = "check" /\ attempt > 1 /\ ~OutOfTime => waited < MaxRetryDuration
    /\ outcome = "exceeded" => elapsed >= MaxRetryDuration
    /\ pc = "request" /\ attempt > 1 => waited < MaxRetryDuration

(* Credential rotation: a key that was refused is not sent again in the same  *)
(* attempt, and however the keys change meanwhile, an attempt asks the user   *)
(* for at most two logins.                                                    *)
RefusedKeyReplaced ==
    /\ refused # NoKey => creds \notin {NoKey, refused}
    /\ provider = "bedrock" /\ pc = "request" => creds # NoKey
    /\ logins <= 2

(* A call comes back unless it waits for a login.                             *)
Pending == pc \notin {"off", "idle", "first login", "login"}

CallReturns == Pending ~> ~Pending
=============================================================================
