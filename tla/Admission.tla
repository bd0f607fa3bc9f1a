----------------------------- MODULE Admission -----------------------------
(***************************************************************************)
(* What happens to a request of the gateway before anything is spent on it *)
(* (src/cmd/gateway): it is validated, authenticated, rate limited, and    *)
(* then handed on with its billing mode and the estimate to hold, which is *)
(* where Gateway.tla starts.                                               *)
(*                                                                         *)
(* All requests share one Verifier (Auth.tla) and the two rate limiters    *)
(* (RateLimiter.tla); a hang-up does not disturb either.                   *)
(***************************************************************************)
EXTENDS Auth, RateLimiter, Tokens, FiniteSets

CONSTANTS
    Asks,             \* what a request may ask for, besides its credentials
    maxOutputTokens,  \* MAX_OUTPUT_TOKENS
    maxInput,         \* MAX_PROMPT_CHARS and MAX_CHAT_INPUT_BYTES
    tokensPerCredit   \* TOKENS_PER_CREDIT

\* chat and generate; validation of a provider's key; account for a balance or a
\* purchase; admin.
Kinds == {"chat", "generate", "validation", "account", "admin"}

ASSUME AsksAssumption ==
    /\ Asks \subseteq [kind : Kinds, valid : BOOLEAN, bytes : Nat \ {0}, maxOutput : Int,
                       byok : BOOLEAN, mock : BOOLEAN, alias : BOOLEAN]
    /\ maxOutputTokens \in Nat \ {0} /\ maxInput \in Nat
    /\ tokensPerCredit \in Int

\* A bucket per limiter and user; validations have one of their own.
ASSUME KeysAssumption ==
    /\ Keys = [user : Users, kind : {"chat", "generate", "validation"}]
    /\ \A k \in Keys : Limiter[k] = IF k.kind = "chat" THEN "chat" ELSE "other"

ASSUME CallsAssumption == IsFiniteSet(Calls)

VARIABLES
    ask,
    place,     \* the next step of the handler
    metered,   \* whether the request was handed on as one that credits are held for
    estimate,  \* credits to hold
    platformInferenceEnabled, localUnmetered  \* the configuration

settings == <<platformInferenceEnabled, localUnmetered>>
vars == <<ask, place, metered, estimate, settings, authVars, limiterVars>>

Places == {"receive", "auth", "limit", "dispatch", "refused", "handed", "served"}

Init ==
    /\ ask \in [Calls -> Asks]
    /\ place = [c \in Calls |-> "receive"]
    /\ metered = [c \in Calls |-> FALSE]
    /\ estimate = [c \in Calls |-> 0]
    /\ platformInferenceEnabled \in BOOLEAN /\ localUnmetered \in BOOLEAN
    /\ AuthInit
    /\ \A c \in Calls : credential[c].admin = (ask[c].kind = "admin")
    /\ LimiterInit

GoOn(c, p) == place' = [place EXCEPT ![c] = p]

Unmoved == UNCHANGED <<ask, metered, estimate, settings>>

\* Method, body, contract version; then the verifier.
Receive(c) ==
    /\ place[c] = "receive"
    /\ IF ask[c].valid THEN Authenticate(c) /\ GoOn(c, "auth")
       ELSE GoOn(c, "refused") /\ UNCHANGED authVars
    /\ Unmoved /\ UNCHANGED limiterVars

Verifying(c) ==
    /\ AuthStep(c)
    /\ Unmoved /\ UNCHANGED <<place, limiterVars>>

Generates(c) == ask[c].kind \in {"chat", "generate"}

\* handleGenerate has a default, handleChat insists on a limit.
OutputLimit(c) ==
    IF ask[c].kind = "generate" /\ ask[c].maxOutput <= 0 THEN 256 ELSE ask[c].maxOutput

Fits(c) ==
    /\ OutputLimit(c) \in 1 .. maxOutputTokens
    /\ ask[c].bytes <= maxInput

\* Size limits come after authentication, and the rate limiter comes after both:
\* a request that is refused for its size costs nothing of the user's rate.
Identified(c) ==
    /\ place[c] = "auth" /\ auth[c] \in Decided
    /\ \/ auth[c] # "known" /\ GoOn(c, "refused") /\ UNCHANGED limiterVars
       \/ /\ auth[c] = "known" /\ ask[c].kind \in {"account", "admin"}
          /\ GoOn(c, "served") /\ UNCHANGED limiterVars
       \/ /\ auth[c] = "known" /\ Generates(c) /\ ~Fits(c)
          /\ GoOn(c, "refused") /\ UNCHANGED limiterVars
       \/ /\ auth[c] = "known" /\ (ask[c].kind = "validation" \/ (Generates(c) /\ Fits(c)))
          /\ GoOn(c, "limit") /\ Ask(c)
    /\ Unmoved /\ UNCHANGED authVars

KeyOf(c) == [user |-> uid[c], kind |-> ask[c].kind]

Limit(c) ==
    /\ place[c] = "limit"
    /\ Allow(c, KeyOf(c))
    /\ GoOn(c, IF verdict'[c] = "allowed" THEN "dispatch" ELSE "refused")
    /\ Unmoved /\ UNCHANGED authVars

\* A chat is unmetered with a key of its own, as a mock and on a local model; a
\* generate only with a key of its own.
Metered(c) ==
    /\ ~ask[c].byok
    /\ ask[c].kind = "generate" \/ (~ask[c].mock /\ ~localUnmetered)

\* The kill switch.  A mocked generate passes it although it is metered.
Killed(c) ==
    /\ ~platformInferenceEnabled
    /\ Metered(c) /\ ~ask[c].mock

\* Mutant of EstimatedCredits: what is held leaves the output out.
HoldPrompt(c) == ToCredits(Ceiling(ask[c].bytes, 0), tokensPerCredit)

EstimatedCredits(c) ==
    ToCredits(Ceiling(ask[c].bytes, OutputLimit(c)), tokensPerCredit)

Dispatch(c) ==
    /\ place[c] = "dispatch"
    /\ \/ /\ ~Generates(c) /\ GoOn(c, "served")
          /\ UNCHANGED <<metered, estimate>>
       \/ /\ Generates(c) /\ (~ask[c].alias \/ Killed(c)) /\ GoOn(c, "refused")
          /\ UNCHANGED <<metered, estimate>>
       \/ /\ Generates(c) /\ ask[c].alias /\ ~Killed(c) /\ GoOn(c, "handed")
          /\ metered' = [metered EXCEPT ![c] = Metered(c)]
          /\ estimate' = [estimate EXCEPT ![c] = EstimatedCredits(c)]
    /\ UNCHANGED <<ask, settings, authVars, limiterVars>>

Time == Tick /\ Unmoved /\ UNCHANGED <<place, authVars>>

Withdraw(user) == Revoke(user) /\ Unmoved /\ UNCHANGED <<place, limiterVars>>

Over == {"refused", "handed", "served"}

\* Every request was answered or handed on.
Quiet == (\A c \in Calls : place[c] \in Over) /\ UNCHANGED vars

Step(c) == Receive(c) \/ Verifying(c) \/ Identified(c) \/ Limit(c) \/ Dispatch(c)

Next ==
    \/ \E c \in Calls : Step(c)
    \/ Time
    \/ \E user \in Admins : Withdraw(user)
    \/ Quiet

Spec == Init /\ [][Next]_vars

\* A handler runs on, and the lock is held for one scan.  The verifier's calls have
\* no timeout but the request's context: that Firebase and Google answer or refuse
\* is assumed.  A request that has not come yet need not come.
Fairness ==
    \A c \in Calls : WF_vars(Verifying(c) \/ Identified(c) \/ Limit(c) \/ Dispatch(c))

FairSpec == Spec /\ Fairness

-----------------------------------------------------------------------------
(* Properties *)

TypeOK ==
    /\ AuthTypeOK
    /\ LimiterTypeOK
    /\ ask \in [Calls -> Asks]
    /\ place \in [Calls -> Places]
    /\ metered \in [Calls -> BOOLEAN]
    /\ estimate \in [Calls -> Nat]
    /\ platformInferenceEnabled \in BOOLEAN /\ localUnmetered \in BOOLEAN

\* The requests of a kind that were let through, as their credentials tell whose
\* they are.
SpentBy(user, kind) ==
    {c \in Calls : /\ verdict[c] = "allowed" /\ ask[c].kind = kind
                   /\ requiresFirebaseToken => credential[c].token = user
                   /\ credential[c].body \in {NoUser, user}}

\* Everybody spends only of their own rate: the grants of a user's buckets are
\* the user's own requests, each counted once, however requests interleave.
RateIsOwn ==
    \A k \in Keys : Len(granted[k]) <= Cardinality(SpentBy(k.user, k.kind))

\* What Gateway.tla takes for granted: a metered request is handed on by a known
\* user, let through by the limiter, with an estimate of at least one credit that
\* covers every usage up to the ceiling of its request.
HandedOnIsCovered ==
    \A c \in Calls : place[c] = "handed" =>
        /\ auth[c] = "known" /\ verdict[c] = "allowed"
        /\ estimate[c] \in Nat \ {0}
        /\ \A used \in 0 .. ask[c].bytes + inputOverheadTokens + OutputLimit(c) :
                ToCredits(used, tokensPerCredit) <= estimate[c]

\* chat.go:110-112: with the kill switch on, no platform-funded inference; own keys,
\* local models and the mock work as before.
KillSwitchIsExact ==
    \A c \in Calls : ~platformInferenceEnabled /\ Generates(c) =>
        /\ place[c] = "handed" /\ metered[c] => ask[c].kind = "generate" /\ ask[c].mock
        /\ place[c] = "refused" /\ verdict[c] = "allowed" /\ ask[c].alias =>
                /\ ~ask[c].byok /\ ~ask[c].mock
                /\ ask[c].kind = "chat" => ~localUnmetered

\* Every request that came is answered or handed on, even those that waited for the
\* first one to make the client.
RequestsEnd == \A c \in Calls : place[c] \in {"auth", "limit", "dispatch"} ~> place[c] \in Over

=============================================================================
