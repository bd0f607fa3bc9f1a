-------------------------- MODULE AdmissionProofs --------------------------
(***************************************************************************)
(* What the front door of the gateway promises, for any requests, users,   *)
(* rates and limits.  Every step of Admission.tla is a step of Auth.tla or *)
(* leaves it alone, and so for RateLimiter.tla: what is proved of either   *)
(* holds of the whole.                                                     *)
(***************************************************************************)
EXTENDS Admission, AuthProofs, RateLimiterProofs, FiniteSetTheorems

-----------------------------------------------------------------------------
(* The arithmetic of tokens and credits, for all counts and rates *)

\* The quotient is the largest number whose product fits.
LEMMA Quotient ==
    ASSUME NEW n \in Nat, NEW d \in Nat \ {0}
    PROVE  /\ n \div d \in Nat
           /\ d * (n \div d) <= n
           /\ n < d * ((n \div d) + 1)
BY SMT

\* Rounding down keeps the order.
LEMMA QuotientMonotone ==
    ASSUME NEW m \in Nat, NEW n \in Nat, NEW d \in Nat \ {0}, m <= n
    PROVE  m \div d <= n \div d
<1> DEFINE q == m \div d
           r == n \div d
<1>1. q \in Nat /\ r \in Nat /\ d * q <= m /\ n < d * (r + 1)
  BY Quotient
<1> HIDE DEF q, r
<1>2. CASE r < q
  <2>1. d * (r + 1) <= d * q
    BY <1>1, <1>2
  <2> QED  BY <2>1, <1>1
<1> QED  BY <1>1, <1>2 DEF q, r

\* The rate that is divided by is positive, whatever is configured.
LEMMA Rate ==
    ASSUME NEW rate \in Int
    PROVE  AtLeastOne(rate) \in Nat \ {0}
BY DEF AtLeastOne

\* ToCredits is the rounded-up quotient: the floor of one credit that the code
\* takes explicitly is never needed, since any positive count rounds up to one.
THEOREM CreditsCover ==
    ASSUME NEW n \in Int, NEW rate \in Int, n > 0
    PROVE  LET per == AtLeastOne(rate)
               credits == ToCredits(n, rate)
           IN  /\ credits \in Nat \ {0}
               /\ n <= per * credits
               /\ per * (credits - 1) < n
<1> DEFINE per == AtLeastOne(rate)
           q == (n + per - 1) \div per
<1>1. per \in Nat \ {0}
  BY Rate
<1> HIDE DEF per
<1>2. n + per - 1 \in Nat /\ n + per - 1 >= per
  BY <1>1
<1>3. q \in Nat /\ per * q <= n + per - 1 /\ n + per - 1 < per * (q + 1)
  BY <1>1, <1>2, Quotient
<1> HIDE DEF q
<1>4. per * (q + 1) = per * q + per /\ per * (q - 1) = per * q - per
  BY <1>1, <1>3
<1>5. q # 0
  BY <1>1, <1>2, <1>3
<1>6. ToCredits(n, rate) = q
  BY <1>3, <1>5 DEF ToCredits, AtLeastOne, per, q
<1> QED  BY <1>1, <1>3, <1>4, <1>5, <1>6 DEF per

\* tokens.go:27-30: ToCredits is monotonic and has a floor of one credit for any
\* usage; with 0 for none, a larger count never costs less.
THEOREM CreditsMonotone ==
    ASSUME NEW m \in Int, NEW n \in Int, NEW rate \in Int, m <= n
    PROVE  /\ ToCredits(m, rate) \in Nat
           /\ ToCredits(m, rate) <= ToCredits(n, rate)
<1> DEFINE per == AtLeastOne(rate)
<1>1. per \in Nat \ {0}
  BY Rate
<1>2. CASE m <= 0
  <2>1. ToCredits(m, rate) = 0
    BY <1>2 DEF ToCredits
  <2>2. ToCredits(n, rate) \in Nat
    BY CreditsCover DEF ToCredits
  <2> QED  BY <2>1, <2>2
<1>3. CASE m > 0
  <2>1. /\ m + per - 1 \in Nat
        /\ n + per - 1 \in Nat
        /\ m + per - 1 <= n + per - 1
    BY <1>1, <1>3
  <2>2. (m + per - 1) \div per <= (n + per - 1) \div per
    BY <1>1, <2>1, QuotientMonotone
  <2>3. (m + per - 1) \div per \in Nat /\ (n + per - 1) \div per \in Nat
    BY <1>1, <2>1, Quotient
  <2>4. /\ ToCredits(m, rate) = AtLeastOne((m + per - 1) \div per)
        /\ ToCredits(n, rate) = AtLeastOne((n + per - 1) \div per)
    BY <1>3 DEF ToCredits
  <2> HIDE DEF per
  <2> QED  BY <2>2, <2>3, <2>4 DEF AtLeastOne
<1> QED  BY <1>2, <1>3

\* What the gateway holds covers what it may have to bill: a usage within the
\* ceiling never costs more credits than the estimate, and a request that may
\* produce anything is never held for nothing.
THEOREM HoldCovers ==
    ASSUME NEW bytes \in Nat, NEW completion \in Nat \ {0}, NEW rate \in Int,
           NEW used \in Int, used <= Ceiling(bytes, completion)
    PROVE  /\ ToCredits(Ceiling(bytes, completion), rate) \in Nat \ {0}
           /\ ToCredits(used, rate) <= ToCredits(Ceiling(bytes, completion), rate)
<1>1. Ceiling(bytes, completion) \in Int /\ Ceiling(bytes, completion) > 0
  BY DEF Ceiling, PromptCeiling, NotNegative, inputOverheadTokens
<1> QED  BY <1>1, CreditsCover, CreditsMonotone

\* The estimate that stands in for a missing prompt count stays below the ceiling:
\* words are separated, so a text of n bytes has at most (n + 1) / 2 of them.
THEOREM EstimateWithinCeiling ==
    ASSUME NEW words \in Nat, NEW bytes \in Nat, 2 * words <= bytes + 1
    PROVE  /\ Estimate(words) \in Nat
           /\ words > 0 => Estimate(words) > 0
           /\ Estimate(words) <= PromptCeiling(bytes)
<1> DEFINE q == (words * 13) \div 10
<1>1. q \in Nat /\ 10 * q <= words * 13
  BY Quotient
<1>2. words = 0 => q = 0
  BY <1>1
<1> HIDE DEF q
<1>3. CASE words = 0
  BY <1>3 DEF Estimate, PromptCeiling, inputOverheadTokens
<1>4. CASE words # 0
  <2>1. Estimate(words) = AtLeastOne(q) /\ bytes > 0
    BY <1>4 DEF Estimate, q
  <2> QED  BY <1>1, <1>4, <2>1 DEF AtLeastOne, PromptCeiling, inputOverheadTokens
<1> QED  BY <1>3, <1>4

-----------------------------------------------------------------------------
(* The front door *)

USE AsksAssumption

Limits(c) == ask[c].kind = "validation" \/ (Generates(c) /\ Fits(c))

AskTypeOK ==
    /\ ask \in [Calls -> Asks]
    /\ place \in [Calls -> Places]
    /\ metered \in [Calls -> BOOLEAN]
    /\ estimate \in [Calls -> Nat]
    /\ platformInferenceEnabled \in BOOLEAN /\ localUnmetered \in BOOLEAN
    /\ \A c \in Calls : credential[c].admin = (ask[c].kind = "admin")

\* What a handler has made sure of by the time it is where it is.
PlaceInv(c) ==
    /\ place[c] \in {"receive", "auth", "limit"} => verdict[c] = "none"
    /\ place[c] = "limit" => auth[c] = "known" /\ Limits(c)
    /\ place[c] = "dispatch" => auth[c] = "known" /\ Limits(c) /\ verdict[c] = "allowed"
    /\ place[c] = "refused" /\ verdict[c] = "allowed" =>
            Generates(c) /\ (~ask[c].alias \/ Killed(c))
    /\ place[c] = "handed" =>
            /\ auth[c] = "known" /\ verdict[c] = "allowed" /\ Generates(c) /\ Fits(c)
            /\ ~Killed(c)
            /\ metered[c] = Metered(c)
            /\ estimate[c] = EstimatedCredits(c)

AdmissionInv == AuthInv /\ LimiterInv /\ AskTypeOK /\ \A c \in Calls : PlaceInv(c)

-----------------------------------------------------------------------------
(* Every step is one of its parts' *)

\* What a request asks for, field by field.
LEMMA AskType ==
    ASSUME AskTypeOK, NEW c \in Calls
    PROVE  /\ ask[c].kind \in Kinds /\ ask[c].bytes \in Nat \ {0} /\ ask[c].maxOutput \in Int
           /\ ask[c].byok \in BOOLEAN /\ ask[c].mock \in BOOLEAN /\ ask[c].alias \in BOOLEAN
           /\ tokensPerCredit \in Int
BY DEF AskTypeOK

\* The limiter is asked about a user that the verifier knows, never about an admin.
LEMMA KeyIsKept ==
    ASSUME AdmissionInv, NEW c \in Calls, place[c] = "limit"
    PROVE  KeyOf(c) \in Keys /\ auth[c] = "known" /\ ~credential[c].admin
<1>1. auth[c] = "known" /\ Limits(c)
  BY DEF AdmissionInv, PlaceInv
<1>2. ask[c].kind \in {"chat", "generate", "validation"}
  BY <1>1 DEF Limits, Generates
<1>3. ~credential[c].admin
  BY <1>2 DEF AdmissionInv, AskTypeOK
<1>4. uid[c] \in Users
  BY <1>1, <1>3 DEF AdmissionInv, AuthInv, UserInv
<1> QED BY <1>1, <1>2, <1>3, <1>4, KeysAssumption DEF KeyOf

\* A step of the front door is one of the verifier, or leaves it alone.
LEMMA AuthSteps ==
    ASSUME [Next]_vars PROVE [AuthNext]_authVars
<1>1. ASSUME NEW c \in Calls, Step(c) PROVE [AuthNext]_authVars
  BY <1>1 DEF Step, Receive, Verifying, Identified, Limit, Dispatch, AuthNext
<1>2. CASE Time
  BY <1>2 DEF Time
<1>3. ASSUME NEW user \in Admins, Withdraw(user) PROVE [AuthNext]_authVars
  BY <1>3 DEF Withdraw, AuthNext
<1>4. CASE UNCHANGED vars
  BY <1>4 DEF vars
<1> QED BY <1>1, <1>2, <1>3, <1>4 DEF Next, Quiet

\* A step of the front door is one of the limiter, or leaves it alone.
LEMMA LimiterSteps ==
    ASSUME AdmissionInv, [Next]_vars PROVE [LimiterNext]_limiterVars
<1>1. ASSUME NEW c \in Calls, Step(c) PROVE [LimiterNext]_limiterVars
  <2>1. CASE Limit(c)
    <3>1. KeyOf(c) \in Keys /\ Allow(c, KeyOf(c))
      BY <2>1, KeyIsKept DEF Limit
    <3> QED BY <3>1 DEF LimiterNext
  <2>2. CASE Identified(c)
    BY <2>2 DEF Identified, LimiterNext
  <2>3. CASE Receive(c) \/ Verifying(c) \/ Dispatch(c)
    BY <2>3 DEF Receive, Verifying, Dispatch
  <2> QED BY <1>1, <2>1, <2>2, <2>3 DEF Step
<1>2. CASE Time
  BY <1>2 DEF Time, LimiterNext
<1>3. ASSUME NEW user \in Admins, Withdraw(user) PROVE [LimiterNext]_limiterVars
  BY <1>3 DEF Withdraw
<1>4. CASE UNCHANGED vars
  BY <1>4 DEF vars
<1> QED BY <1>1, <1>2, <1>3, <1>4 DEF Next, Quiet

-----------------------------------------------------------------------------
(* The inductive invariant *)

\* No step changes what is asked for or how the gateway is configured.
LEMMA Configuration ==
    ASSUME [Next]_vars
    PROVE  UNCHANGED <<ask, platformInferenceEnabled, localUnmetered>>
BY DEF Next, vars, settings, Step, Receive, Verifying, Identified, Limit, Dispatch, Time,
       Withdraw, Quiet, Unmoved

\* What is said of a request depends on nothing but what is its own.
LEMMA SamePlace ==
    ASSUME UNCHANGED <<ask, platformInferenceEnabled, localUnmetered>>,
           NEW d \in Calls, PlaceInv(d),
           UNCHANGED <<place[d], verdict[d], auth[d], metered[d], estimate[d]>>
    PROVE  PlaceInv(d)'
BY DEF PlaceInv, Limits, Generates, Fits, OutputLimit, Killed, Metered, EstimatedCredits

\* The estimate of a request that fits is positive and covers every use below its ceiling.
LEMMA EstimateType ==
    ASSUME AskTypeOK, NEW c \in Calls, Generates(c), Fits(c)
    PROVE  /\ EstimatedCredits(c) \in Nat \ {0}
           /\ \A used \in Int : used <= ask[c].bytes + inputOverheadTokens + OutputLimit(c) =>
                ToCredits(used, tokensPerCredit) <= EstimatedCredits(c)
<1>1. /\ ask[c].bytes \in Nat \ {0} /\ OutputLimit(c) \in Nat \ {0}
      /\ tokensPerCredit \in Int
  BY AskType DEF Fits, OutputLimit
<1>2. Ceiling(ask[c].bytes, OutputLimit(c)) = ask[c].bytes + inputOverheadTokens + OutputLimit(c)
  BY <1>1 DEF Ceiling, PromptCeiling, NotNegative, inputOverheadTokens
<1>3. 0 <= Ceiling(ask[c].bytes, OutputLimit(c))
  BY <1>1, <1>2 DEF inputOverheadTokens
<1>4. EstimatedCredits(c) \in Nat \ {0}
  BY <1>1, <1>3, HoldCovers DEF EstimatedCredits
<1>5. ASSUME NEW used \in Int, used <= Ceiling(ask[c].bytes, OutputLimit(c))
      PROVE  ToCredits(used, tokensPerCredit) <= EstimatedCredits(c)
  BY <1>1, <1>5, HoldCovers DEF EstimatedCredits
<1> QED BY <1>2, <1>4, <1>5

\* The types of the front door itself survive every step.
LEMMA AskTypeStep ==
    ASSUME AdmissionInv, [Next]_vars PROVE AskTypeOK'
<1>1. UNCHANGED <<ask, platformInferenceEnabled, localUnmetered>>
  BY Configuration
<1>2. credential' = credential
  <2>1. [AuthNext]_authVars
    BY AuthSteps
  <2> QED BY <2>1 DEF AuthNext, authVars, Authenticate, AuthStep, EnterOnce, NewApp, RetryApp,
                      NewClient, Verify, Revoke
<1>3. /\ place' \in [Calls -> Places] /\ metered' \in [Calls -> BOOLEAN]
      /\ estimate' \in [Calls -> Nat]
  <2> USE DEF AdmissionInv, AskTypeOK, GoOn, Unmoved, Places
  <2>1. ASSUME NEW c \in Calls, Receive(c) \/ Verifying(c) \/ Identified(c) \/ Limit(c)
        PROVE  /\ place' \in [Calls -> Places] /\ metered' \in [Calls -> BOOLEAN]
               /\ estimate' \in [Calls -> Nat]
    BY <2>1 DEF Receive, Verifying, Identified, Limit
  <2>2. ASSUME NEW c \in Calls, Dispatch(c)
        PROVE  /\ place' \in [Calls -> Places] /\ metered' \in [Calls -> BOOLEAN]
               /\ estimate' \in [Calls -> Nat]
    <3>1. Generates(c) => EstimatedCredits(c) \in Nat
      <4>1. place[c] = "dispatch"
        BY <2>2 DEF Dispatch
      <4>2. Limits(c)
        BY <4>1 DEF PlaceInv
      <4> QED BY <4>2, EstimateType DEF Limits, Generates
    <3>2. place' \in [Calls -> Places]
      BY <2>2 DEF Dispatch
    <3>3. metered' \in [Calls -> BOOLEAN]
      BY <2>2 DEF Dispatch, Metered
    <3>4. estimate' \in [Calls -> Nat]
      BY <2>2, <3>1 DEF Dispatch
    <3> QED BY <3>2, <3>3, <3>4
  <2>3. ASSUME Time \/ (\E user \in Admins : Withdraw(user)) \/ UNCHANGED vars
        PROVE  UNCHANGED <<place, metered, estimate>>
    BY <2>3 DEF Time, Withdraw, vars
  <2> QED BY <2>1, <2>2, <2>3 DEF Next, Step, Quiet
<1> QED BY <1>1, <1>2, <1>3 DEF AdmissionInv, AskTypeOK

\* Where a request is keeps agreeing with what the verifier and the limiter decided.
LEMMA PlaceStep ==
    ASSUME AdmissionInv, [Next]_vars PROVE \A d \in Calls : PlaceInv(d)'
<1> USE DEF AdmissionInv
<1>1. UNCHANGED <<ask, platformInferenceEnabled, localUnmetered>>
  BY Configuration
<1>2. /\ place \in [Calls -> Places] /\ metered \in [Calls -> BOOLEAN]
      /\ estimate \in [Calls -> Nat] /\ auth \in [Calls -> AuthPlaces]
      /\ verdict \in [Calls -> {"none", "allowed", "limited"}]
  BY DEF AskTypeOK, AuthInv, AuthTypeOK, AuthPlaces, LimiterInv, LimiterTypeOK
<1>3. /\ AuthTypeOK /\ \A d \in Calls : PlaceInv(d)
  BY DEF AuthInv
<1>4. ASSUME NEW c \in Calls, Step(c) PROVE \A d \in Calls : PlaceInv(d)'
  <2>1. ASSUME NEW d \in Calls, d # c
        PROVE  UNCHANGED <<place[d], verdict[d], auth[d], metered[d], estimate[d]>>
    <3>1. auth'[d] = auth[d]
      <4>1. Authenticate(c) \/ AuthStep(c) => Frame(c)
        BY <1>3, StepFrame
      <4>2. Authenticate(c) \/ AuthStep(c) \/ UNCHANGED auth
        BY <1>4 DEF Step, Receive, Verifying, Identified, Limit, Dispatch, authVars
      <4> QED BY <1>3, <2>1, <4>1, <4>2, Others
    <3>2. verdict'[d] = verdict[d]
      BY <1>2, <1>4, <2>1 DEF Step, Receive, Verifying, Identified, Limit, Dispatch,
         Ask, Allow, limiterVars
    <3>3. UNCHANGED <<place[d], metered[d], estimate[d]>>
      BY <1>2, <1>4, <2>1 DEF Step, Receive, Verifying, Identified, Limit, Dispatch,
         GoOn, Unmoved
    <3> QED BY <3>1, <3>2, <3>3
  <2>2. \A d \in Calls : d # c => PlaceInv(d)'
    BY <1>1, <1>3, <2>1, SamePlace
  <2>3. PlaceInv(c)'
    <3>1. /\ PlaceInv(c)
          /\ (Limits(c)' <=> Limits(c)) /\ (Generates(c)' <=> Generates(c))
          /\ (Fits(c)' <=> Fits(c)) /\ (Killed(c)' <=> Killed(c))
          /\ Metered(c)' = Metered(c) /\ EstimatedCredits(c)' = EstimatedCredits(c)
          /\ ask' = ask
      BY <1>1, <1>3 DEF Limits, Generates, Fits, OutputLimit, Killed, Metered, EstimatedCredits
    <3>2. CASE Receive(c)
      <4>1. place[c] = "receive" /\ place'[c] \in {"auth", "refused"} /\ verdict' = verdict
        BY <1>2, <3>2 DEF Receive, GoOn, limiterVars
      <4> QED BY <3>1, <4>1 DEF PlaceInv
    <3>3. CASE Verifying(c)
      <4>1. auth[c] # "known" /\ UNCHANGED <<place, verdict>>
        BY <3>3 DEF Verifying, AuthStep, EnterOnce, NewApp, RetryApp, NewClient, Verify,
                    limiterVars, Initialising
      <4> QED BY <3>1, <4>1 DEF PlaceInv
    <3>4. CASE Identified(c)
      <4>1. place[c] = "auth" /\ auth' = auth /\ verdict' = verdict
        BY <3>4 DEF Identified, authVars, limiterVars, Ask
      <4>2. \/ place'[c] \in {"refused", "served"}
            \/ place'[c] = "limit" /\ auth[c] = "known" /\ Limits(c)
        BY <1>2, <3>4 DEF Identified, GoOn, Limits
      <4> QED BY <3>1, <4>1, <4>2 DEF PlaceInv
    <3>5. CASE Limit(c)
      <4>1. place[c] = "limit" /\ auth' = auth /\ verdict'[c] \in {"allowed", "limited"}
        BY <1>2, <3>5 DEF Limit, authVars, Allow
      <4>2. place'[c] = IF verdict'[c] = "allowed" THEN "dispatch" ELSE "refused"
        BY <1>2, <3>5 DEF Limit, GoOn
      <4> QED BY <3>1, <4>1, <4>2 DEF PlaceInv
    <3>6. CASE Dispatch(c)
      <4>1. place[c] = "dispatch" /\ auth' = auth /\ verdict' = verdict
        BY <3>6 DEF Dispatch, authVars, limiterVars
      <4>2. \/ place'[c] = "served"
            \/ place'[c] = "refused" /\ Generates(c) /\ (~ask[c].alias \/ Killed(c))
            \/ /\ place'[c] = "handed" /\ Generates(c) /\ ~Killed(c)
               /\ metered'[c] = Metered(c) /\ estimate'[c] = EstimatedCredits(c)
        BY <1>2, <3>6 DEF Dispatch, GoOn
      <4>3. auth[c] = "known" /\ Limits(c) /\ verdict[c] = "allowed"
        BY <3>1, <4>1 DEF PlaceInv
      <4>4. Generates(c) => Fits(c)
        BY <4>3 DEF Limits, Generates
      <4> QED BY <3>1, <4>1, <4>2, <4>3, <4>4 DEF PlaceInv
    <3> QED BY <1>4, <3>2, <3>3, <3>4, <3>5, <3>6 DEF Step
  <2> QED BY <2>2, <2>3
<1>5. ASSUME Time \/ (\E user \in Admins : Withdraw(user)) \/ UNCHANGED vars
      PROVE  \A d \in Calls : PlaceInv(d)'
  <2>1. UNCHANGED <<place, metered, estimate, auth, verdict>>
    BY <1>5 DEF Time, Withdraw, Revoke, Tick, Unmoved, vars, authVars, limiterVars
  <2> QED BY <1>1, <1>3, <2>1, SamePlace
<1> QED BY <1>4, <1>5 DEF Next, Quiet

\* The inductive invariant survives every step: each part by its own step.
LEMMA AdmissionInvStep ==
    ASSUME AdmissionInv, [Next]_vars PROVE AdmissionInv'
<1>1. AuthInv'
  BY AuthSteps, AuthInvStep DEF AdmissionInv
<1>2. LimiterInv'
  BY LimiterSteps, LimiterInvStep DEF AdmissionInv
<1> QED BY <1>1, <1>2, AskTypeStep, PlaceStep DEF AdmissionInv

\* The inductive invariant holds before anybody has asked.
LEMMA AdmissionInvInit ==
    ASSUME Init PROVE AdmissionInv
<1>1. AuthInv /\ LimiterInv
  BY AuthInvInit, LimiterInvInit DEF Init
<1>2. AskTypeOK
  BY DEF Init, AskTypeOK, Places
<1>3. \A c \in Calls : PlaceInv(c)
  BY DEF Init, LimiterInit, PlaceInv
<1> QED BY <1>1, <1>2, <1>3 DEF AdmissionInv

\* The front door stays in the states that its inductive invariant describes.
THEOREM AdmissionSafe == Spec => []AdmissionInv
<1>1. Init => AdmissionInv
  BY AdmissionInvInit
<1>2. AdmissionInv /\ [Next]_vars => AdmissionInv'
  BY AdmissionInvStep
<1> QED BY <1>1, <1>2, PTL DEF Spec

-----------------------------------------------------------------------------
(* What follows for a request *)

\* Every variable of the front door keeps its type.
THEOREM TypeCorrect == Spec => []TypeOK
<1>1. AdmissionInv => TypeOK
  BY DEF AdmissionInv, AuthInv, LimiterInv, AskTypeOK, TypeOK
<1> QED BY <1>1, AdmissionSafe, PTL

\* Nobody uses a Firebase client that is still being made, and the first attempt at
\* making it decides for all.
THEOREM ClientShared == Spec => []OneClientForAll
<1>1. AdmissionInv => OneClientForAll
  BY InvShares DEF AdmissionInv, OneClientForAll
<1> QED BY <1>1, AdmissionSafe, PTL

\* A request is billed to the user of its token, and an admin whose token was
\* revoked before the request came does not pass.
THEOREM IdentityProven == Spec => [](IdentityIsProven /\ RevocationIsImmediate)
<1>1. AdmissionInv => IdentityIsProven /\ RevocationIsImmediate
  BY DEF AdmissionInv, AuthInv
<1> QED BY <1>1, AdmissionSafe, PTL

\* The kill switch stops what the platform would pay for, and nothing else.
THEOREM KillSwitchExact == Spec => []KillSwitchIsExact
<1>1. AdmissionInv => KillSwitchIsExact
  BY DEF AdmissionInv, PlaceInv, KillSwitchIsExact, Killed, Metered, Generates
<1> QED BY <1>1, AdmissionSafe, PTL

\* Whatever is handed on was let through for a known user, with an estimate that
\* covers every usage up to the ceiling of its request.
THEOREM HandedOnCovered == Spec => []HandedOnIsCovered
<1>1. ASSUME AdmissionInv PROVE HandedOnIsCovered
  <2>1. ASSUME NEW c \in Calls, place[c] = "handed"
        PROVE  /\ auth[c] = "known" /\ verdict[c] = "allowed"
               /\ estimate[c] \in Nat \ {0}
               /\ \A used \in 0 .. ask[c].bytes + inputOverheadTokens + OutputLimit(c) :
                    ToCredits(used, tokensPerCredit) <= estimate[c]
    <3>1. /\ auth[c] = "known" /\ verdict[c] = "allowed" /\ Generates(c) /\ Fits(c)
          /\ estimate[c] = EstimatedCredits(c)
      BY <1>1, <2>1 DEF AdmissionInv, PlaceInv
    <3>2. AskTypeOK
      BY <1>1 DEF AdmissionInv
    <3>3. \A used \in 0 .. ask[c].bytes + inputOverheadTokens + OutputLimit(c) :
            /\ used \in Int
            /\ used <= ask[c].bytes + inputOverheadTokens + OutputLimit(c)
      BY <3>1, <3>2, AskType DEF Fits, inputOverheadTokens
    <3> QED BY <3>1, <3>2, <3>3, EstimateType
  <2> QED BY <2>1 DEF HandedOnIsCovered
<1> QED BY <1>1, AdmissionSafe, PTL

\* The front door implements the specification of its limiter.
LEMMA SpecIsLimiter == Spec => LimiterSpec
<1>1. Init => LimiterInit
  BY DEF Init
<1>2. AdmissionInv /\ [Next]_vars => [LimiterNext]_limiterVars
  BY LimiterSteps
<1> QED BY <1>1, <1>2, AdmissionSafe, PTL DEF Spec, LimiterSpec

\* No request of the gateway can tell that idle buckets are thrown away.
THEOREM BucketsKept == Spec => BucketsAreKept
BY SpecIsLimiter, LimiterKeepsBuckets, PTL

\* A user is let through as often as the burst and the time allow, and no more.
THEOREM GrantsSpaced == Spec => []GrantsAreSpaced
<1>1. SpacingInv => GrantsAreSpaced
  BY DEF SpacingInv
<1> QED BY <1>1, SpecIsLimiter, LimiterSafe, PTL

-----------------------------------------------------------------------------
(* Whose rate is spent *)

\* A user has been let through finitely often.
LEMMA SpentFinite ==
    ASSUME NEW user, NEW kind
    PROVE  IsFiniteSet(SpentBy(user, kind))
BY CallsAssumption, FS_Subset DEF SpentBy

\* Two sets with the same elements but for one.
LEMMA OneElement ==
    ASSUME NEW S, NEW c \in S, NEW B \in SUBSET S, NEW A \in SUBSET S,
           \A d \in S : d \in A <=> d \in B \cup {c}
    PROVE  A = B \cup {c}
OBVIOUS

\* A step lets through at most one request, in the name of the user who sent it.
LEMMA RateStep ==
    ASSUME AdmissionInv, RateIsOwn, [Next]_vars PROVE RateIsOwn'
<1>1. UNCHANGED <<ask, credential, mode>>
  <2>1. [AuthNext]_authVars
    BY AuthSteps
  <2> QED BY <2>1, Configuration DEF AuthNext, authVars, Authenticate, AuthStep, EnterOnce,
             NewApp, RetryApp, NewClient, Verify, Revoke
<1>2. ASSUME NEW c \in Calls, Limit(c) PROVE RateIsOwn'
  <2> PICK k \in Keys : k = KeyOf(c)
    BY <1>2, KeyIsKept DEF Limit
  <2> DEFINE Spent(id) == SpentBy(id.user, id.kind)
  <2>1. /\ auth[c] = "known" /\ ~credential[c].admin
        /\ k.user = uid[c] /\ k.kind = ask[c].kind
    BY <1>2, KeyIsKept DEF Limit, KeyOf
  <2>2. verdict[c] = "none"
    BY <1>2 DEF AdmissionInv, PlaceInv, Limit
  <2>3. /\ verdict \in [Calls -> {"none", "allowed", "limited"}]
        /\ granted \in [Keys -> Seq(0 .. Horizon)] /\ now \in 0 .. Horizon
    BY DEF AdmissionInv, LimiterInv, LimiterTypeOK
  <2>4. \/ /\ verdict' = [verdict EXCEPT ![c] = "allowed"]
           /\ granted' = [granted EXCEPT ![k] = Append(@, now)]
        \/ verdict' = [verdict EXCEPT ![c] = "limited"] /\ granted' = granted
    BY <1>2 DEF Limit, Allow
  <2>5. CASE granted' = granted /\ verdict' = [verdict EXCEPT ![c] = "limited"]
    <3>1. \A user, kind : SpentBy(user, kind)' = SpentBy(user, kind)
      BY <1>1, <2>2, <2>3, <2>5 DEF SpentBy, requiresFirebaseToken
    <3> QED BY <2>5, <3>1 DEF RateIsOwn
  <2>6. CASE /\ verdict' = [verdict EXCEPT ![c] = "allowed"]
             /\ granted' = [granted EXCEPT ![k] = Append(@, now)]
    <3>1. /\ requiresFirebaseToken => credential[c].token = k.user
          /\ credential[c].body \in {NoUser, k.user}
      BY <2>1 DEF AdmissionInv, AuthInv, IdentityIsProven
    <3>2. Spent(k)' = Spent(k) \cup {c} /\ c \notin Spent(k)
      <4>1. \A d \in Calls : verdict'[d] = IF d = c THEN "allowed" ELSE verdict[d]
        BY <2>3, <2>6
      <4>2. requiresFirebaseToken' = requiresFirebaseToken
        BY <1>1 DEF requiresFirebaseToken
      <4>3. ASSUME NEW d \in Calls PROVE d \in Spent(k)' <=> d \in Spent(k) \cup {c}
        <5>1. CASE d = c
          BY <1>1, <2>1, <3>1, <4>1, <4>2, <5>1 DEF SpentBy
        <5>2. CASE d # c
          BY <1>1, <4>1, <4>2, <5>2 DEF SpentBy
        <5> QED BY <5>1, <5>2
      <4>4. /\ Spent(k)' \in SUBSET Calls
            /\ Spent(k) \in SUBSET Calls
        BY DEF SpentBy
      <4>5. \A d \in Calls : d \in Spent(k)' <=> d \in Spent(k) \cup {c}
        BY <4>3
      <4>6. Spent(k)' = Spent(k) \cup {c}
        <5> HIDE DEF Spent
        <5> QED BY ONLY <4>4, <4>5, OneElement, c \in Calls
      <4>7. c \notin Spent(k)
        BY <2>2 DEF SpentBy
      <4> QED BY <4>6, <4>7
    <3>3. Cardinality(Spent(k)') = Cardinality(Spent(k)) + 1
      <4>1. IsFiniteSet(Spent(k))
        BY SpentFinite
      <4> HIDE DEF Spent
      <4> QED BY ONLY <3>2, <4>1, FS_AddElement
    <3>4. Len(granted'[k]) = Len(granted[k]) + 1 /\ Len(granted[k]) \in Nat
      BY <2>1, <2>3, <2>6
    <3>5. ASSUME NEW id \in Keys \ {k}
          PROVE  Len(granted'[id]) <= Cardinality(Spent(id)')
      <4>1. Spent(id) \subseteq Spent(id)'
        BY <1>1, <2>2, <2>3, <2>6 DEF SpentBy, requiresFirebaseToken
      <4>2. IsFiniteSet(Spent(id)')
        <5>1. Spent(id)' \subseteq Calls
          BY DEF SpentBy
        <5> QED BY <5>1, CallsAssumption, FS_Subset
      <4>3. Cardinality(Spent(id)) <= Cardinality(Spent(id)')
        BY <4>1, <4>2, FS_Subset
      <4>4. granted'[id] = granted[id] /\ Len(granted[id]) \in Nat
        BY <2>3, <2>6
      <4>5. Len(granted[id]) <= Cardinality(Spent(id))
        BY DEF RateIsOwn
      <4>6. Cardinality(Spent(id)) \in Nat /\ Cardinality(Spent(id)') \in Nat
        BY <4>2, SpentFinite, FS_CardinalityType
      <4> QED BY <4>3, <4>4, <4>5, <4>6
    <3>6. Len(granted'[k]) <= Cardinality(Spent(k)')
      <4>1. Len(granted[k]) <= Cardinality(Spent(k)) /\ Cardinality(Spent(k)) \in Nat
        BY <2>1, SpentFinite, FS_CardinalityType DEF RateIsOwn
      <4> QED BY <3>3, <3>4, <4>1
    <3> QED BY <3>5, <3>6 DEF RateIsOwn
  <2> QED BY <2>4, <2>5, <2>6
<1>3. ASSUME UNCHANGED <<verdict, granted>> PROVE RateIsOwn'
  BY <1>1, <1>3 DEF RateIsOwn, SpentBy, requiresFirebaseToken
<1>4. ASSUME NEW c \in Calls, Receive(c) \/ Verifying(c) \/ Identified(c) \/ Dispatch(c)
      PROVE  UNCHANGED <<verdict, granted>>
  BY <1>4 DEF Receive, Verifying, Identified, Dispatch, Ask, limiterVars
<1>5. ASSUME Time \/ (\E user \in Admins : Withdraw(user)) \/ UNCHANGED vars
      PROVE  UNCHANGED <<verdict, granted>>
  BY <1>5 DEF Time, Tick, Withdraw, vars, limiterVars
<1> QED BY <1>2, <1>3, <1>4, <1>5 DEF Next, Step, Quiet

\* The grants of a user's bucket are requests of that user, each counted once.
THEOREM RateOwn == Spec => []RateIsOwn
<1>1. Init => RateIsOwn
  <2> SUFFICES ASSUME Init, NEW k \in Keys
               PROVE  Len(granted[k]) <= Cardinality(SpentBy(k.user, k.kind))
    BY DEF RateIsOwn
  <2>1. Len(granted[k]) = 0
    BY DEF Init, LimiterInit
  <2> QED BY <2>1, SpentFinite, FS_CardinalityType
<1>2. AdmissionInv /\ RateIsOwn /\ [Next]_vars => RateIsOwn'
  BY RateStep
<1> QED BY <1>1, <1>2, AdmissionSafe, PTL DEF Spec

=============================================================================
