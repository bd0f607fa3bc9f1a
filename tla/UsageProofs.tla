---------------------------- MODULE UsageProofs ----------------------------
(***************************************************************************)
(* Proofs about the usage service, for every value of its constants.       *)
(***************************************************************************)
EXTENDS UsageHolds, Sums, TLAPS

-----------------------------------------------------------------------------
(* Lemmas about the steps of a handler *)

\* The places a handler goes to after an outcome are places of the model.
LEMMA PlacesLemma ==
    /\ RedisCalls \subseteq PCs
    /\ Answered \subseteq PCs
    /\ RedisCalls \cap Answered = {}
    /\ "idle" \notin RedisCalls \cup Answered
    /\ \A p \in PCs : OnError(p) \in {"revert", "refused", "failed"}
  BY DEF PCs, RedisCalls, Answered, OnError

\* What Answer does: only the caller moves, to the place its reply leads to, or
\* after a lost reply to the same call again or to the error path.
LEMMA AnswerLemma ==
    ASSUME TypeOK, NEW c \in Calls, NEW next \in PCs, Answer(c, next)
    PROVE  /\ pc' \in [Calls -> PCs]
           /\ lost' \in [Calls -> 0 .. MaxLost]
           /\ \A b \in Calls : b # c => pc'[b] = pc[b] /\ lost'[b] = lost[b]
           /\ pc'[c] \in {next, pc[c], OnError(pc[c])}
           /\ lost'[c] = 0 => lost[c] = 0 /\ pc'[c] = next
  <1>1. pc \in [Calls -> PCs] /\ lost \in [Calls -> 0 .. MaxLost]
    BY DEF TypeOK
  <1>2. OnError(pc[c]) \in PCs
    BY <1>1 DEF OnError, PCs, RedisCalls, Answered
  <1>3. CASE Goto(c, next) /\ UNCHANGED lost
    BY <1>1, <1>3 DEF Goto
  <1>4. CASE /\ lost[c] < MaxLost
             /\ lost' = [lost EXCEPT ![c] = @ + 1]
             /\ \E p \in {pc[c], OnError(pc[c])} : Goto(c, p)
    <2>1. PICK p \in {pc[c], OnError(pc[c])} : Goto(c, p)
      BY <1>4
    <2>2. lost[c] \in Nat /\ lost'[c] = lost[c] + 1 /\ lost[c] + 1 \in 0 .. MaxLost
      BY <1>1, <1>4, BoundsAssumption
    <2>3. lost' \in [Calls -> 0 .. MaxLost]
      BY <1>1, <1>4, <2>2
    <2>4. lost'[c] # 0
      BY <2>2
    <2>5. QED
      BY <1>1, <1>2, <1>4, <2>1, <2>3, <2>4 DEF Goto
  <1>5. QED
    BY <1>3, <1>4 DEF Answer

\* An update keeps the type of a function, also at a place outside its domain
\* (a settlement that read no day: it changes no counter).
LEMMA UpdateLemma ==
    ASSUME NEW S, NEW T, NEW f \in [S -> T], NEW x, NEW e, x \in S => e \in T
    PROVE  [f EXCEPT ![x] = e] \in [S -> T]
  OBVIOUS

\* The changes of the two accounts keep their types.
LEMMA AdjustLemma ==
    ASSUME TypeOK, NEW r \in Reservations, NEW delta \in Int
    PROVE  /\ \A d \in Days \cup {NoDay} : AdjustPlatformCredits(r, d, delta) =>
                /\ platformCredits' \in [Days -> Int]
                /\ charge' \in [Reservations -> Int]
           /\ AdjustBalance(r, delta) =>
                /\ balance' \in [Users -> Int]
                /\ debit' \in [Reservations -> Int]
  BY DEF TypeOK, AdjustPlatformCredits, AdjustBalance, Accountable

-----------------------------------------------------------------------------
(* Type correctness *)

\* The initial state has the types.
LEMMA InitType == Init => TypeOK
  BY AmountsAssumption, BoundsAssumption DEF Init, TypeOK, Holds, Missing, Statuses, Days, NoDay, PCs

\* The reservation handler keeps the types.
LEMMA ReservationType ==
    ASSUME TypeOK, NEW r \in Reservations,
           CountRequest(r) \/ ChargePlatform(r) \/ Reserve(r) \/ UndoCharge(r)
    PROVE  TypeOK'
  <1> USE DEF asked, redis, history
  <1>0. r \in Calls /\ who[r] \in Users
    BY DEF TypeOK, Calls, Accountable
  <1>a. credits[r] \in Nat /\ -credits[r] \in Int
    <2>1. credits[r] \in Amounts
      BY DEF TypeOK
    <2>2. credits[r] \in Nat
      BY <2>1, AmountsAssumption
    <2>3. QED
      BY <2>2
  <1>b. day[r] \in Days \cup {NoDay}
    BY <1>0 DEF TypeOK
  <1>c. {"refused", "failed", "charge", "grant", "undo", "ok"} \subseteq PCs
    BY DEF PCs, RedisCalls, Answered
  <1>1. CASE CountRequest(r)
    <2>1. pc' \in [Calls -> PCs] /\ lost' \in [Calls -> 0 .. MaxLost]
      BY <1>0, <1>c, <1>1, AnswerLemma DEF CountRequest
    <2>2. requests' \in [Days -> Nat]
      <3>1. requests \in [Days -> Nat]
        BY DEF TypeOK
      <3>2. CASE requests' = [requests EXCEPT ![day[r]] = @ + 1]
        BY <3>1, <3>2, UpdateLemma
      <3>3. QED
        BY <1>1, <3>1, <3>2 DEF CountRequest
    <2>3. QED
      BY <1>1, <2>1, <2>2 DEF CountRequest, TypeOK
  <1>2. CASE ChargePlatform(r)
    <2>1. pc' \in [Calls -> PCs] /\ lost' \in [Calls -> 0 .. MaxLost]
      BY <1>0, <1>c, <1>2, AnswerLemma DEF ChargePlatform
    <2>2. platformCredits' \in [Days -> Int] /\ charge' \in [Reservations -> Int]
      BY <1>0, <1>2, <1>a, <1>b, AdjustLemma DEF ChargePlatform, TypeOK
    <2>3. QED
      BY <1>2, <2>1, <2>2 DEF ChargePlatform, TypeOK
  <1>3. CASE Reserve(r)
    <2>1. pc' \in [Calls -> PCs] /\ lost' \in [Calls -> 0 .. MaxLost]
      BY <1>0, <1>c, <1>3, AnswerLemma DEF Reserve
    <2>2. balance' \in [Users -> Int] /\ debit' \in [Reservations -> Int]
      BY <1>0, <1>3, <1>a, AdjustLemma DEF Reserve, TypeOK
    <2>3. hold' \in [Reservations -> Holds]
      <3>1. [status |-> "reserved", amount |-> credits[r], day |-> day[r]] \in Holds
        BY <1>a, <1>b DEF Holds, Statuses
      <3>2. QED
        BY <1>3, <3>1 DEF Reserve, TypeOK
    <2>4. QED
      BY <1>3, <2>1, <2>2, <2>3 DEF Reserve, TypeOK
  <1>4. CASE UndoCharge(r)
    <2>1. pc' \in [Calls -> PCs] /\ lost' \in [Calls -> 0 .. MaxLost]
      BY <1>0, <1>c, <1>4, AnswerLemma DEF UndoCharge, AfterUndo
    <2>2. platformCredits' \in [Days -> Int] /\ charge' \in [Reservations -> Int]
      BY <1>0, <1>4, <1>a, <1>b, AdjustLemma DEF UndoCharge
    <2>3. QED
      BY <1>4, <2>1, <2>2 DEF UndoCharge, TypeOK
  <1>5. QED
    BY <1>1, <1>2, <1>3, <1>4

\* What a settlement request names.
LEMMA SettleRequestLemma ==
    ASSUME NEW q \in SettleRequests
    PROVE  q.hold \in Reservations /\ q.actual \in Nat /\ q.op \in {"commit", "release"}
  <1>1. CASE q \in [hold : Reservations, op : {"commit"}, actual : Actuals]
    <2>1. q.hold \in Reservations /\ q.actual \in Actuals /\ q.op = "commit"
      BY <1>1
    <2>2. QED
      BY <2>1, AmountsAssumption
  <1>2. CASE q \in [hold : Reservations, op : {"release"}, actual : {0}]
    BY <1>2
  <1>3. QED
    BY <1>1, <1>2 DEF SettleRequests

\* A settling script keeps the types.
LEMMA SettleType ==
    ASSUME TypeOK, NEW r \in Reservations, NEW d \in Days \cup {NoDay},
           NEW status \in Statuses, NEW final \in Nat, NEW amount \in Nat,
           Settle(r, d, status, final, amount)
    PROVE  /\ balance' \in [Users -> Int]
           /\ platformCredits' \in [Days -> Int]
           /\ hold' \in [Reservations -> Holds]
           /\ debit' \in [Reservations -> Int]
           /\ charge' \in [Reservations -> Int]
  <1>1. hold[r] \in Holds /\ hold \in [Reservations -> Holds]
    BY DEF TypeOK
  <1>2. hold[r].amount - final \in Int /\ final - hold[r].amount \in Int
    BY <1>1 DEF Holds
  <1>3. [hold[r] EXCEPT !.status = status, !.amount = amount] \in Holds
    BY <1>1 DEF Holds
  <1>4. hold' \in [Reservations -> Holds]
    BY <1>1, <1>3 DEF Settle
  <1>5. QED
    BY <1>2, <1>4, AdjustLemma DEF Settle

\* The settlement handlers keep the types.
LEMMA SettlementType ==
    ASSUME TypeOK, NEW s \in Settlements, ReadDay(s) \/ Commit(s) \/ Release(s)
    PROVE  TypeOK'
  <1> USE DEF asked, redis, history
  <1> DEFINE r == settlement[s].hold
             actual == settlement[s].actual
  <1>0. s \in Calls
    BY DEF Calls
  <1>a. settlement[s] \in SettleRequests
    BY DEF TypeOK
  <1>b. r \in Reservations /\ actual \in Nat
    BY <1>a, SettleRequestLemma
  <1>c. who[r] \in Users /\ hold[r] \in Holds /\ day[s] \in Days \cup {NoDay}
    BY <1>0, <1>b DEF TypeOK, Accountable
  <1>d. {"settle", "ok", "refused"} \subseteq PCs /\ {"committed", "released"} \subseteq Statuses
    BY DEF PCs, RedisCalls, Answered, Statuses
  <1>e. hold[r].amount \in Nat /\ hold[r].day \in Days \cup {NoDay}
    BY <1>c DEF Holds
  <1> HIDE DEF r, actual
  <1>1. CASE ReadDay(s)
    <2>1. pc' \in [Calls -> PCs]
      BY <1>0, <1>1, <1>d DEF ReadDay, Goto, TypeOK
    <2>2. day' \in [Calls -> Days \cup {NoDay}]
      <3>1. day' = [day EXCEPT ![s] = hold[r].day]
        BY <1>1 DEF ReadDay, r
      <3>2. QED
        BY <1>0, <1>e, <3>1 DEF TypeOK
    <2>3. QED
      BY <1>1, <2>1, <2>2 DEF ReadDay, TypeOK
  <1>2. CASE Commit(s)
    <2>1. pc' \in [Calls -> PCs] /\ lost' \in [Calls -> 0 .. MaxLost]
      BY <1>0, <1>2, <1>d, AnswerLemma DEF Commit
    <2>2. CASE UNCHANGED <<redis, history>>
      BY <1>2, <2>1, <2>2 DEF Commit, TypeOK
    <2>3. CASE CommitHold(r, day[s], actual)
      <3>1. Excess(r, actual) \in Nat
        BY <1>b, <1>e DEF Excess
      <3>2. debt' \in [Users -> Nat]
        BY <1>c, <2>3, <3>1 DEF CommitHold, TypeOK
      <3>3. overrun' \in [Days -> Nat]
        <4>1. overrun \in [Days -> Nat]
          BY DEF TypeOK
        <4>2. day[s] \in Days => overrun[day[s]] + Excess(r, actual) \in Nat
          BY <3>1, <4>1
        <4>3. QED
          BY <2>3, <4>1, <4>2, UpdateLemma DEF CommitHold
      <3>4. /\ balance' \in [Users -> Int]
            /\ platformCredits' \in [Days -> Int]
            /\ hold' \in [Reservations -> Holds]
            /\ debit' \in [Reservations -> Int]
            /\ charge' \in [Reservations -> Int]
        BY <1>b, <1>c, <1>d, <2>3, SettleType DEF CommitHold
      <3>5. UNCHANGED <<asked, today, day>>
        BY <1>2 DEF Commit
      <3>6. QED
        BY <2>1, <2>3, <3>2, <3>3, <3>4, <3>5 DEF CommitHold, TypeOK
    <2>4. QED
      BY <1>2, <2>2, <2>3 DEF Commit, r, actual
  <1>3. CASE Release(s)
    <2>1. pc' \in [Calls -> PCs] /\ lost' \in [Calls -> 0 .. MaxLost]
      BY <1>0, <1>3, <1>d, AnswerLemma DEF Release
    <2>2. CASE UNCHANGED <<redis, history>>
      BY <1>3, <2>1, <2>2 DEF Release, TypeOK
    <2>3. CASE ReleaseHold(r, day[s])
      <3>1. /\ balance' \in [Users -> Int]
            /\ platformCredits' \in [Days -> Int]
            /\ hold' \in [Reservations -> Holds]
            /\ debit' \in [Reservations -> Int]
            /\ charge' \in [Reservations -> Int]
        BY <1>b, <1>c, <1>d, <1>e, <2>3, SettleType DEF ReleaseHold
      <3>2. UNCHANGED <<asked, today, day>>
        BY <1>3 DEF Release
      <3>3. QED
        BY <2>1, <2>3, <3>1, <3>2 DEF ReleaseHold, TypeOK
    <2>4. QED
      BY <1>3, <2>2, <2>3 DEF Release, r
  <1>4. QED
    BY <1>1, <1>2, <1>3

\* The other handlers keep the types.
LEMMA AccountType ==
    ASSUME TypeOK, NEW c \in Accountable,
           \/ EnsureInitialCredits(c)
           \/ c \in Purchases /\ (CountPurchase(c) \/ Mint(c))
           \/ c \in Reads /\ GetBalance(c)
    PROVE  TypeOK'
  <1> USE DEF asked, redis, history
  <1>0. c \in Calls /\ who[c] \in Users /\ day[c] \in Days \cup {NoDay}
    BY DEF TypeOK, Calls, Accountable
  <1>a. {"reserve", "mint", "get", "ok", "refused", "grant"} \subseteq PCs
    BY DEF PCs, RedisCalls, Answered
  <1>1. CASE EnsureInitialCredits(c)
    <2>1. pc' \in [Calls -> PCs] /\ lost' \in [Calls -> 0 .. MaxLost]
      <3>1. AfterGrant(c) \in PCs
        BY <1>a DEF AfterGrant
      <3>2. QED
        BY <1>0, <1>1, <3>1, AnswerLemma DEF EnsureInitialCredits
    <2>2. balance' \in [Users -> Int] /\ known' \subseteq Users
      BY <1>0, <1>1, AmountsAssumption DEF EnsureInitialCredits, TypeOK
    <2>3. QED
      BY <1>1, <2>1, <2>2 DEF EnsureInitialCredits, TypeOK
  <1>2. CASE c \in Purchases /\ CountPurchase(c)
    <2>1. pc' \in [Calls -> PCs] /\ lost' \in [Calls -> 0 .. MaxLost]
      BY <1>0, <1>2, <1>a, AnswerLemma DEF CountPurchase
    <2>2. purchased' \in [Users -> [Days -> Nat]]
      <3>1. purchased \in [Users -> [Days -> Nat]] /\ purchased[who[c]] \in [Days -> Nat]
        BY <1>0 DEF TypeOK
      <3>2. [purchased[who[c]] EXCEPT ![day[c]] = @ + 1] \in [Days -> Nat]
        BY <3>1, UpdateLemma
      <3>3. QED
        BY <1>2, <3>1, <3>2 DEF CountPurchase
    <2>3. QED
      BY <1>2, <2>1, <2>2 DEF CountPurchase, TypeOK
  <1>3. CASE c \in Purchases /\ Mint(c)
    <2>1. pc' \in [Calls -> PCs] /\ lost' \in [Calls -> 0 .. MaxLost]
      BY <1>0, <1>3, <1>a, AnswerLemma DEF Mint
    <2>2. credits[c] \in Nat
      <3>1. credits[c] \in Amounts
        BY <1>3 DEF TypeOK
      <3>2. QED
        BY <3>1, AmountsAssumption
    <2>3. /\ balance' \in [Users -> Int]
          /\ minted' \in [Users -> Nat]
          /\ known' \subseteq Users
      BY <1>0, <1>3, <2>2 DEF Mint, TypeOK
    <2>4. QED
      BY <1>3, <2>1, <2>3 DEF Mint, TypeOK
  <1>4. CASE c \in Reads /\ GetBalance(c)
    <2>1. pc' \in [Calls -> PCs] /\ lost' \in [Calls -> 0 .. MaxLost]
      BY <1>0, <1>4, <1>a, AnswerLemma DEF GetBalance
    <2>2. QED
      BY <1>4, <2>1 DEF GetBalance, TypeOK
  <1>5. QED
    BY <1>1, <1>2, <1>3, <1>4

\* The steps that are no Redis call keep the types.
LEMMA OtherType ==
    ASSUME TypeOK,
           \/ \E c \in Calls, p \in PCs, d \in Days \cup {NoDay} : Arrive(c, p, d)
           \/ \E c \in Calls : Fail(c)
           \/ \E r \in Reservations : Expire(r)
           \/ Midnight
           \/ UNCHANGED vars
    PROVE  TypeOK'
  <1> USE DEF asked, redis, history
  <1>1. ASSUME NEW c \in Calls, NEW p \in PCs, NEW d \in Days \cup {NoDay}, Arrive(c, p, d)
        PROVE  TypeOK'
    BY <1>1 DEF Arrive, Goto, TypeOK
  <1>2. ASSUME NEW c \in Calls, Fail(c)
        PROVE  TypeOK'
    <2>1. PICK p \in {OnError(pc[c]), "failed"} : Goto(c, p)
      BY <1>2 DEF Fail
    <2>2. p \in PCs
      BY <2>1 DEF OnError, PCs, RedisCalls, Answered
    <2>3. pc' \in [Calls -> PCs]
      BY <2>1, <2>2 DEF Goto, TypeOK
    <2>4. kept' \subseteq Calls
      BY <1>2 DEF Fail, TypeOK
    <2>5. QED
      BY <1>2, <2>3, <2>4 DEF Fail, TypeOK
  <1>3. ASSUME NEW r \in Reservations, Expire(r)
        PROVE  TypeOK'
    <2>1. Missing \in Holds
      BY DEF Missing, Holds, Statuses
    <2>2. hold' \in [Reservations -> Holds]
      BY <1>3, <2>1 DEF Expire, TypeOK
    <2>3. QED
      BY <1>3, <2>2 DEF Expire, TypeOK
  <1>4. CASE Midnight
    <2>1. today' \in Days
      BY <1>4, BoundsAssumption DEF Midnight, TypeOK, Days
    <2>2. QED
      BY <1>4, <2>1 DEF Midnight, TypeOK
  <1>5. CASE UNCHANGED vars
    BY <1>5 DEF vars, TypeOK
  <1>6. QED
    BY <1>1, <1>2, <1>3, <1>4, <1>5

\* The steps of Next, one disjunct per kind of step.
LEMMA NextCases ==
    ASSUME TypeOK, [Next]_vars
    PROVE  \/ \E r \in Reservations : \/ CountRequest(r) \/ ChargePlatform(r)
                                       \/ Reserve(r) \/ UndoCharge(r)
           \/ \E s \in Settlements : ReadDay(s) \/ Commit(s) \/ Release(s)
           \/ \E c \in Accountable :
                \/ EnsureInitialCredits(c)
                \/ c \in Purchases /\ (CountPurchase(c) \/ Mint(c))
                \/ c \in Reads /\ GetBalance(c)
           \/ \/ \E c \in Reservations \cup Purchases : Arrive(c, "count", today)
              \/ \E c \in Settlements : Arrive(c, "day", NoDay)
              \/ \E c \in Reads : Arrive(c, "grant", NoDay)
              \/ \E c \in Purchases : Arrive(c, "refused", NoDay)
              \/ \E c \in Calls : Fail(c)
              \/ \E r \in Reservations : Expire(r)
              \/ Midnight
              \/ UNCHANGED vars
  BY DEF Next, ReservationStep, SettlementStep, PurchaseStep, ReadStep, Quiet, Accountable

\* Every variable keeps its type in every reachable state.
THEOREM TypeCorrect == Spec => []TypeOK
  <1>1. TypeOK /\ [Next]_vars => TypeOK'
    <2> SUFFICES ASSUME TypeOK, [Next]_vars PROVE TypeOK'
      OBVIOUS
    <2>1. CASE \E r \in Reservations : \/ CountRequest(r) \/ ChargePlatform(r)
                                       \/ Reserve(r) \/ UndoCharge(r)
      BY <2>1, ReservationType
    <2>2. CASE \E s \in Settlements : ReadDay(s) \/ Commit(s) \/ Release(s)
      BY <2>2, SettlementType
    <2>3. CASE \E c \in Accountable :
                \/ EnsureInitialCredits(c)
                \/ c \in Purchases /\ (CountPurchase(c) \/ Mint(c))
                \/ c \in Reads /\ GetBalance(c)
      BY <2>3, AccountType
    <2>4. CASE \/ \E c \in Reservations \cup Purchases : Arrive(c, "count", today)
               \/ \E c \in Settlements : Arrive(c, "day", NoDay)
               \/ \E c \in Reads : Arrive(c, "grant", NoDay)
               \/ \E c \in Purchases : Arrive(c, "refused", NoDay)
               \/ \E c \in Calls : Fail(c)
               \/ \E r \in Reservations : Expire(r)
               \/ Midnight
               \/ UNCHANGED vars
      <3>1. {"count", "day", "grant", "refused"} \subseteq PCs
        BY DEF PCs, RedisCalls, Answered
      <3>2. today \in Days \cup {NoDay} /\ NoDay \in Days \cup {NoDay}
        BY DEF TypeOK
      <3>3. QED
        BY <2>4, <3>1, <3>2, OtherType DEF Calls
    <2>5. QED
      BY <2>1, <2>2, <2>3, <2>4, NextCases
  <1>2. QED
    BY <1>1, InitType, PTL DEF Spec

-----------------------------------------------------------------------------
(* The books of a reservation *)

\* Only its own handler and the settlement or expiry of its hold touch the
\* books of a reservation.
SameBooks(r) ==
    /\ UNCHANGED <<pc[r], lost[r], hold[r], debit[r], charge[r], credits[r]>>
    /\ r \in kept' <=> r \in kept

\* A reservation of which nothing changes keeps its books.
LEMMA SameBooksLemma ==
    ASSUME NEW r \in Reservations, SameBooks(r),
           OwnPlace(r), lost[r] = 0 => BooksOf(r)
    PROVE  OwnPlace(r)' /\ (lost'[r] = 0 => BooksOf(r)')
  BY DEF SameBooks, OwnPlace, BooksOf, Untouched, Uncompensated

\* The reservation handler keeps its books, and touches no other's.
LEMMA ReservationBooks ==
    ASSUME TypeOK, Books, NEW r \in Reservations, NEW q \in Reservations,
           \/ CountRequest(q) \/ ChargePlatform(q) \/ Reserve(q) \/ UndoCharge(q)
           \/ EnsureInitialCredits(q)
    PROVE  OwnPlace(r)' /\ (lost'[r] = 0 => BooksOf(r)')
  <1> USE DEF asked, redis, history
  <1>0. /\ q \in Calls /\ r \in Calls
        /\ OwnPlace(q) /\ OwnPlace(r)
    BY DEF Calls, Books
  <1>a. {"refused", "failed", "charge", "grant", "reserve", "undo", "ok"} \subseteq PCs
    BY DEF PCs, RedisCalls, Answered
  <1>b. lost[r] = 0 => BooksOf(r)
    BY DEF Books
  <1>c. AfterGrant(q) = "reserve"
    BY DEF AfterGrant
  <1>d. PICK next \in {"refused", "failed", "charge", "grant", "reserve", "undo", "ok"} :
            Answer(q, next)
    BY <1>c DEF CountRequest, ChargePlatform, Reserve, UndoCharge, AfterUndo,
      EnsureInitialCredits
  <1>e. /\ \A b \in Calls : b # q => pc'[b] = pc[b] /\ lost'[b] = lost[b]
        /\ pc'[q] \in {next, pc[q], OnError(pc[q])}
        /\ lost'[q] = 0 => lost[q] = 0 /\ pc'[q] = next
    BY <1>0, <1>a, <1>d, AnswerLemma
  <1>g. kept' = kept /\ q \notin kept
    BY <1>0 DEF OwnPlace, CountRequest, ChargePlatform, Reserve, UndoCharge,
      EnsureInitialCredits, Compensations
  <1>f. OwnPlace(r)'
    <2>1. CASE r = q
      BY <1>0, <1>d, <1>e, <1>g, <2>1 DEF OnError, OwnPlace
    <2>2. CASE r # q
      BY <1>0, <1>e, <1>g, <2>2 DEF OwnPlace
    <2>3. QED
      BY <2>1, <2>2
  <1>1. CASE r # q
    <2>1. SameBooks(r)
      BY <1>0, <1>1, <1>e, <1>g DEF SameBooks, TypeOK, CountRequest, ChargePlatform, Reserve,
        UndoCharge, EnsureInitialCredits, AdjustPlatformCredits, AdjustBalance
    <2>2. QED
      BY <1>0, <1>b, <2>1, SameBooksLemma
  <1>2. CASE r = q
    <2> SUFFICES ASSUME lost'[r] = 0 PROVE BooksOf(r)'
      BY <1>f
    <2>0. lost[r] = 0 /\ BooksOf(r) /\ Uncompensated(r)' = 0
      BY <1>2, <1>b, <1>e, <1>g DEF Uncompensated
    <2>a. /\ credits[r] \in Int /\ debit[r] \in Int /\ charge[r] \in Int
          /\ debit \in [Reservations -> Int] /\ charge \in [Reservations -> Int]
          /\ hold \in [Reservations -> Holds]
      <3>1. credits[r] \in Amounts
        BY DEF TypeOK
      <3>2. credits[r] \in Int
        BY <3>1, AmountsAssumption
      <3>3. QED
        BY <3>2 DEF TypeOK
    <2>1. CASE CountRequest(r)
      <3>1. pc'[r] \in {"refused", "charge"}
        <4>1. Answer(r, "refused") \/ Answer(r, "charge")
          BY <2>1 DEF CountRequest
        <4>2. QED
          BY <1>0, <1>a, <1>2, <4>1, AnswerLemma
      <3>2. Untouched(r) /\ charge[r] = 0
        BY <2>0, <2>1 DEF BooksOf, CountRequest
      <3>3. QED
        BY <2>0, <2>1, <3>1, <3>2 DEF BooksOf, Untouched, CountRequest
    <2>2. CASE ChargePlatform(r)
      <3>1. Untouched(r) /\ charge[r] = 0
        BY <2>0, <2>2 DEF BooksOf, ChargePlatform
      <3>2. CASE Answer(r, "refused") /\ UNCHANGED charge
        <4>1. pc'[r] = "refused"
          BY <1>0, <1>a, <1>2, <3>2, AnswerLemma
        <4>2. QED
          BY <2>0, <2>2, <3>1, <3>2, <4>1 DEF BooksOf, Untouched, ChargePlatform
      <3>3. CASE Answer(r, "grant") /\ AdjustPlatformCredits(r, day[r], credits[r])
        <4>1. pc'[r] = "grant"
          BY <1>0, <1>a, <1>2, <3>3, AnswerLemma
        <4>2. charge'[r] = credits[r]
          BY <2>a, <3>1, <3>3 DEF AdjustPlatformCredits
        <4>3. QED
          BY <2>2, <3>1, <4>1, <4>2 DEF BooksOf, Untouched, ChargePlatform
      <3>4. QED
        BY <2>2, <3>2, <3>3 DEF ChargePlatform
    <2>3. CASE EnsureInitialCredits(r)
      <3>1. Untouched(r) /\ charge[r] = credits[r]
        BY <2>0, <2>3 DEF BooksOf, EnsureInitialCredits
      <3>2. pc'[r] = "reserve"
        BY <1>0, <1>a, <1>2, <1>c, <2>3, AnswerLemma DEF EnsureInitialCredits
      <3>3. QED
        BY <2>3, <3>1, <3>2 DEF BooksOf, Untouched, EnsureInitialCredits
    <2>4. CASE Reserve(r)
      <3>1. Untouched(r) /\ charge[r] = credits[r]
        BY <2>0, <2>4 DEF BooksOf, Reserve
      <3>2. CASE Answer(r, "undo") /\ UNCHANGED <<balance, hold, debit>>
        <4>1. pc'[r] = "undo"
          BY <1>0, <1>a, <1>2, <3>2, AnswerLemma
        <4>2. QED
          BY <2>4, <3>1, <3>2, <4>1 DEF BooksOf, Untouched, Reserve
      <3>3. CASE /\ AdjustBalance(r, -credits[r])
                 /\ hold' = [hold EXCEPT ![r] =
                        [status |-> "reserved", amount |-> credits[r], day |-> day[r]]]
                 /\ Answer(r, "ok")
        <4>1. pc'[r] = "ok"
          BY <1>0, <1>a, <1>2, <3>3, AnswerLemma
        <4>2. debit'[r] = credits[r]
          BY <2>a, <3>1, <3>3 DEF AdjustBalance, Untouched
        <4>3. hold'[r].status = "reserved" /\ hold'[r].amount = credits[r]
          BY <2>a, <3>3
        <4>4. charge'[r] = charge[r] /\ credits'[r] = credits[r]
          BY <2>4 DEF Reserve
        <4>5. QED
          BY <3>1, <4>1, <4>2, <4>3, <4>4 DEF BooksOf
      <3>4. QED
        BY <2>4, <3>2, <3>3 DEF Reserve
    <2>5. CASE UndoCharge(r)
      <3>1. Untouched(r) /\ charge[r] = credits[r]
        BY <2>0, <2>5 DEF BooksOf, UndoCharge, Compensations
      <3>2. pc'[r] \in {"refused", "failed"}
        BY <1>0, <1>a, <1>2, <2>5, AnswerLemma DEF UndoCharge, AfterUndo
      <3>3. charge'[r] = 0
        BY <2>a, <2>5, <3>1 DEF UndoCharge, AdjustPlatformCredits
      <3>4. QED
        BY <2>0, <2>5, <3>1, <3>2, <3>3 DEF BooksOf, Untouched, UndoCharge
    <2>6. QED
      BY <1>2, <2>1, <2>2, <2>3, <2>4, <2>5
  <1>3. QED
    BY <1>1, <1>2

\* A settlement reaches an open hold only, and leaves the user's debit and the
\* platform's charge equal to the final amount.
LEMMA SettleBooks ==
    ASSUME TypeOK, Books, NEW r \in Reservations, NEW q \in Reservations,
           NEW d \in Days \cup {NoDay}, NEW status \in {"committed", "released"},
           NEW final \in Nat, NEW amount \in Nat,
           hold[q].status = "reserved",
           Settle(q, d, status, final, amount),
           status = "committed" => amount = final,
           status = "released" => final = 0,
           UNCHANGED <<credits, kept>>, lost'[r] = lost[r], pc'[r] = pc[r]
    PROVE  lost'[r] = 0 => BooksOf(r)'
  <1>0. OwnPlace(r) /\ (lost[r] = 0 => BooksOf(r))
    BY DEF Books
  <1>1. CASE r # q
    <2>1. SameBooks(r)
      BY <1>1 DEF SameBooks, TypeOK, Settle, AdjustPlatformCredits, AdjustBalance
    <2>2. QED
      BY <1>0, <2>1, SameBooksLemma
  <1>2. CASE r = q
    <2> SUFFICES ASSUME lost'[r] = 0 PROVE BooksOf(r)'
      OBVIOUS
    <2>1. BooksOf(r)
      BY <1>0
    <2>2. /\ debit \in [Reservations -> Int] /\ charge \in [Reservations -> Int]
          /\ hold \in [Reservations -> Holds] /\ hold[r] \in Holds
          /\ pc[r] \in PCs
      BY DEF TypeOK, Calls
    <2>3. pc[r] = "ok"
      BY <1>0, <1>2, <2>1, <2>2 DEF BooksOf, Untouched, OwnPlace, PCs, RedisCalls, Answered
    <2>4. debit[r] = charge[r] /\ debit[r] = hold[r].amount /\ debit[r] \in Int
      BY <1>2, <2>1, <2>2, <2>3 DEF BooksOf
    <2>5. debit'[r] = debit[r] - (hold[r].amount - final)
      BY <1>2, <2>2 DEF Settle, AdjustBalance
    <2>6. charge'[r] = charge[r] + (final - hold[r].amount)
      BY <1>2, <2>2 DEF Settle, AdjustPlatformCredits
    <2>7. debit'[r] = final /\ charge'[r] = final
      <3>1. hold[r].amount \in Nat
        BY <2>2 DEF Holds
      <3>2. \A h, f \in Nat : h - (h - f) = f /\ h + (f - h) = f
        OBVIOUS
      <3>3. debit'[r] = hold[r].amount - (hold[r].amount - final)
        BY <2>4, <2>5
      <3>4. charge'[r] = hold[r].amount + (final - hold[r].amount)
        BY <2>4, <2>6
      <3>5. QED
        BY <3>1, <3>2, <3>3, <3>4
    <2>8. hold'[r].status = status /\ hold'[r].amount = amount
      BY <1>2, <2>2 DEF Settle, Holds
    <2>9. QED
      BY <2>3, <2>7, <2>8 DEF BooksOf
  <1>3. QED
    BY <1>1, <1>2

\* A settlement keeps the books of every reservation.
LEMMA SettlementBooks ==
    ASSUME TypeOK, Books, NEW r \in Reservations, NEW s \in Settlements,
           ReadDay(s) \/ Commit(s) \/ Release(s)
    PROVE  OwnPlace(r)' /\ (lost'[r] = 0 => BooksOf(r)')
  <1> USE DEF asked, redis, history
  <1> DEFINE q == settlement[s].hold
             actual == settlement[s].actual
  <1>0. s \in Calls /\ r \in Calls /\ r # s
    BY CallsAssumption DEF Calls
  <1>a. q \in Reservations /\ actual \in Nat
    BY SettleRequestLemma DEF TypeOK
  <1>b. {"refused", "ok", "settle"} \subseteq PCs
    BY DEF PCs, RedisCalls, Answered
  <1>c. pc'[r] = pc[r] /\ lost'[r] = lost[r]
    <2>1. CASE ReadDay(s)
      BY <1>0, <2>1 DEF ReadDay, Goto, TypeOK
    <2>2. CASE Answer(s, "ok") \/ Answer(s, "refused")
      BY <1>0, <1>b, <2>2, AnswerLemma
    <2>3. QED
      BY <2>1, <2>2 DEF Commit, Release
  <1>d. OwnPlace(r) /\ (lost[r] = 0 => BooksOf(r))
    BY DEF Books
  <1>e. kept' = kept => OwnPlace(r)'
    BY <1>c, <1>d DEF OwnPlace
  <1>f. hold[q] \in Holds /\ day[s] \in Days \cup {NoDay} /\ hold[q].amount \in Nat
    BY <1>0, <1>a DEF TypeOK, Holds
  <1> HIDE DEF q, actual
  <1>1. CASE UNCHANGED <<redis, history>> /\ UNCHANGED asked
    <2>1. SameBooks(r)
      BY <1>1, <1>c DEF SameBooks
    <2>2. QED
      BY <1>d, <1>e, <2>1, SameBooksLemma
  <1>2. CASE hold[q].status = "reserved" /\ CommitHold(q, day[s], actual) /\ UNCHANGED asked
    BY <1>2, <1>a, <1>c, <1>e, <1>f, SettleBooks DEF CommitHold
  <1>3. CASE hold[q].status = "reserved" /\ ReleaseHold(q, day[s]) /\ UNCHANGED asked
    BY <1>3, <1>a, <1>c, <1>e, <1>f, SettleBooks DEF ReleaseHold
  <1>4. QED
    BY <1>1, <1>2, <1>3 DEF ReadDay, Commit, Release, q, actual

\* The remaining steps: an arrival, a failed call, an expiry, another handler.
LEMMA OtherBooks ==
    ASSUME TypeOK, Books, NEW r \in Reservations,
           \/ \E c \in Purchases \cup Reads : EnsureInitialCredits(c)
           \/ \E c \in Purchases : CountPurchase(c) \/ Mint(c)
           \/ \E c \in Reads : GetBalance(c)
           \/ \E c \in Reservations \cup Purchases : Arrive(c, "count", today)
           \/ \E c \in Settlements : Arrive(c, "day", NoDay)
           \/ \E c \in Reads : Arrive(c, "grant", NoDay)
           \/ \E c \in Purchases : Arrive(c, "refused", NoDay)
           \/ \E c \in Calls : Fail(c)
           \/ \E q \in Reservations : Expire(q)
           \/ Midnight
           \/ UNCHANGED vars
    PROVE  OwnPlace(r)' /\ (lost'[r] = 0 => BooksOf(r)')
  <1> USE DEF asked, redis, history
  <1>0. /\ r \in Calls /\ pc \in [Calls -> PCs] /\ hold \in [Reservations -> Holds]
        /\ OwnPlace(r)
        /\ lost[r] = 0 => BooksOf(r)
    BY DEF TypeOK, Books, Calls
  <1>1. CASE SameBooks(r)
    BY <1>0, <1>1, SameBooksLemma DEF SameBooks
  <1>2. CASE \/ \E c \in Purchases \cup Reads : EnsureInitialCredits(c)
             \/ \E c \in Purchases : CountPurchase(c) \/ Mint(c)
             \/ \E c \in Reads : GetBalance(c)
    <2>1. PICK c \in Purchases \cup Reads :
            EnsureInitialCredits(c) \/ CountPurchase(c) \/ Mint(c) \/ GetBalance(c)
      BY <1>2
    <2>2. c \in Calls /\ c # r
      BY CallsAssumption DEF Calls
    <2>3. {"refused", "grant", "reserve", "mint", "get", "ok"} \subseteq PCs
      BY DEF PCs, RedisCalls, Answered
    <2>4. PICK next \in {"refused", "grant", "reserve", "mint", "get", "ok"} : Answer(c, next)
      BY <2>1 DEF EnsureInitialCredits, CountPurchase, Mint, GetBalance, AfterGrant
    <2>5. pc'[r] = pc[r] /\ lost'[r] = lost[r]
      BY <1>0, <2>2, <2>3, <2>4, AnswerLemma
    <2>6. SameBooks(r)
      BY <2>1, <2>5 DEF SameBooks, EnsureInitialCredits, CountPurchase, Mint, GetBalance
    <2>7. QED
      BY <1>1, <2>6
  <1>3. ASSUME NEW c \in Calls, NEW p \in {"count", "day", "grant", "refused"},
               NEW d \in Days \cup {NoDay}, Arrive(c, p, d),
               c \in Reservations => p = "count"
        PROVE  OwnPlace(r)' /\ (lost'[r] = 0 => BooksOf(r)')
    <2>1. CASE c # r
      <3>1. SameBooks(r)
        BY <1>0, <1>3, <2>1 DEF SameBooks, Arrive, Goto
      <3>2. QED
        BY <1>1, <3>1
    <2>2. CASE c = r
      <3>1. pc[r] = "idle" /\ pc'[r] = "count"
        BY <1>0, <1>3, <2>2 DEF Arrive, Goto
      <3>2. UNCHANGED <<lost, hold, debit, charge, credits, kept>>
        BY <1>3 DEF Arrive
      <3>3. QED
        BY <1>0, <3>1, <3>2 DEF BooksOf, Untouched, OwnPlace
    <2>3. QED
      BY <2>1, <2>2
  <1>4. ASSUME NEW c \in Calls, Fail(c)
        PROVE  OwnPlace(r)' /\ (lost'[r] = 0 => BooksOf(r)')
    <2>1. UNCHANGED <<lost, hold, debit, charge, credits>>
      BY <1>4 DEF Fail
    <2>2. CASE c # r
      <3>1. SameBooks(r)
        BY <1>0, <1>4, <2>1, <2>2 DEF SameBooks, Fail, Goto, Compensations
      <3>2. QED
        BY <1>1, <3>1
    <2>3. CASE c = r
      <3>1. /\ pc[r] \in {"count", "charge", "grant", "reserve", "undo", "revert"}
            /\ \/ pc'[r] = "failed"
               \/ pc[r] = "reserve" /\ pc'[r] = "revert"
               \/ pc[r] = "undo" /\ pc'[r] = "refused"
        BY <1>0, <1>4, <2>3 DEF Fail, Goto, OnError, RedisCalls, OwnPlace
      <3>2. /\ r \notin kept
            /\ r \in kept' <=> pc[r] \in {"undo", "revert"}
        BY <1>0, <1>4, <2>3, <3>1 DEF Fail, OwnPlace, Compensations
      <3>3. OwnPlace(r)'
        BY <3>1, <3>2 DEF OwnPlace
      <3>4. CASE pc[r] \in {"undo", "revert"}
        BY <1>0, <2>1, <3>1, <3>2, <3>3, <3>4 DEF BooksOf, Untouched, Uncompensated
      <3>5. CASE pc[r] \notin {"undo", "revert"}
        BY <1>0, <2>1, <3>1, <3>2, <3>3, <3>5 DEF BooksOf, Untouched, Uncompensated
      <3>6. QED
        BY <3>4, <3>5
    <2>4. QED
      BY <2>2, <2>3
  <1>5. ASSUME NEW q \in Reservations, Expire(q)
        PROVE  OwnPlace(r)' /\ (lost'[r] = 0 => BooksOf(r)')
    <2>1. UNCHANGED <<pc, lost, debit, charge, credits, kept>>
      BY <1>5 DEF Expire
    <2>2. CASE q # r
      <3>1. SameBooks(r)
        BY <1>0, <1>5, <2>1, <2>2 DEF SameBooks, Expire
      <3>2. QED
        BY <1>1, <3>1
    <2>3. CASE q = r
      <3>1. hold'[r].status = "missing"
        BY <1>0, <1>5, <2>3 DEF Expire, Missing
      <3>2. QED
        BY <1>0, <2>1, <3>1 DEF BooksOf, Untouched, OwnPlace, Uncompensated
    <2>4. QED
      BY <2>2, <2>3
  <1>6. CASE Midnight \/ UNCHANGED vars
    <2>1. SameBooks(r)
      BY <1>6 DEF SameBooks, Midnight, vars
    <2>2. QED
      BY <1>1, <2>1
  <1>7. CASE \/ \E c \in Reservations \cup Purchases : Arrive(c, "count", today)
             \/ \E c \in Settlements : Arrive(c, "day", NoDay)
             \/ \E c \in Reads : Arrive(c, "grant", NoDay)
             \/ \E c \in Purchases : Arrive(c, "refused", NoDay)
    <2>1. today \in Days
      BY DEF TypeOK
    <2>2. QED
      BY <1>3, <1>7, <2>1, CallsAssumption DEF Calls
  <1>8. QED
    BY <1>2, <1>4, <1>5, <1>6, <1>7

\* A reservation that is answered "ok" or "refused", or still on its way, has
\* charged the platform and the user as its books say, in every reachable state.
THEOREM BooksCorrect == Spec => []Books
  <1>1. Init => Books
    <2> SUFFICES ASSUME Init PROVE Books
      OBVIOUS
    <2>1. \A r \in Reservations :
            /\ pc[r] = "idle" /\ debit[r] = 0 /\ charge[r] = 0
            /\ hold[r].status = "missing" /\ r \notin kept
      BY DEF Init, Calls, Missing
    <2>2. QED
      BY <2>1 DEF Books, BooksOf, Untouched, OwnPlace
  <1>2. TypeOK /\ Books /\ [Next]_vars => Books'
    <2> SUFFICES ASSUME TypeOK, Books, [Next]_vars, NEW r \in Reservations
                 PROVE  OwnPlace(r)' /\ (lost'[r] = 0 => BooksOf(r)')
      BY DEF Books
    <2>1. CASE \E q \in Reservations :
                \/ CountRequest(q) \/ ChargePlatform(q) \/ Reserve(q) \/ UndoCharge(q)
                \/ EnsureInitialCredits(q)
      BY <2>1, ReservationBooks
    <2>2. CASE \E s \in Settlements : ReadDay(s) \/ Commit(s) \/ Release(s)
      BY <2>2, SettlementBooks
    <2>3. CASE \/ \E c \in Purchases \cup Reads : EnsureInitialCredits(c)
               \/ \E c \in Purchases : CountPurchase(c) \/ Mint(c)
               \/ \E c \in Reads : GetBalance(c)
               \/ \E c \in Reservations \cup Purchases : Arrive(c, "count", today)
               \/ \E c \in Settlements : Arrive(c, "day", NoDay)
               \/ \E c \in Reads : Arrive(c, "grant", NoDay)
               \/ \E c \in Purchases : Arrive(c, "refused", NoDay)
               \/ \E c \in Calls : Fail(c)
               \/ \E q \in Reservations : Expire(q)
               \/ Midnight
               \/ UNCHANGED vars
      BY <2>3, OtherBooks
    <2>4. QED
      BY <2>1, <2>2, <2>3, NextCases DEF Accountable
  <1>3. QED
    BY <1>1, <1>2, TypeCorrect, PTL DEF Spec

\* Unless a reply of its own call is lost, a reservation never takes more from
\* the user than it has charged to the platform.
THEOREM BudgetCovers == Spec => []BudgetCoversDebit
  <1>1. TypeOK /\ Books => BudgetCoversDebit
    <2> SUFFICES ASSUME TypeOK, Books, NEW r \in Reservations, lost[r] = 0
                 PROVE  debit[r] <= charge[r]
      BY DEF BudgetCoversDebit
    <2>1. BooksOf(r) /\ pc[r] \notin {"day", "settle", "mint", "get"}
      BY DEF Books, OwnPlace
    <2>2. pc[r] \in PCs /\ debit[r] \in Int /\ charge[r] \in Int /\ credits[r] \in Amounts
      BY DEF TypeOK, Calls
    <2>3. credits[r] \in Nat
      BY <2>2, AmountsAssumption
    <2>4. QED
      BY <2>1, <2>2, <2>3 DEF BooksOf, Untouched, Uncompensated, PCs, RedisCalls, Answered
  <1>2. QED
    BY <1>1, TypeCorrect, BooksCorrect, PTL

\* The user's debit, the platform's charge and the hold agree.
THEOREM HoldsAgree == Spec => []HoldAgrees
  <1>1. TypeOK /\ Books => HoldAgrees
    <2> SUFFICES ASSUME TypeOK, Books, NEW r \in Reservations, lost[r] = 0
                 PROVE  /\ pc[r] = "ok" => debit[r] = charge[r]
                        /\ hold[r].status \in {"reserved", "committed"} => debit[r] = hold[r].amount
                        /\ hold[r].status = "released" => debit[r] = 0
      BY DEF HoldAgrees
    <2>1. BooksOf(r) /\ pc[r] \notin {"day", "settle", "mint", "get"} /\ pc[r] \in PCs
      BY DEF Books, OwnPlace, TypeOK, Calls
    <2>2. QED
      BY <2>1 DEF BooksOf, Untouched, PCs, RedisCalls, Answered
  <1>2. QED
    BY <1>1, TypeCorrect, BooksCorrect, PTL

\* A refused reservation has taken nothing from its user and made no hold, and
\* the platform is charged for it only if its compensation was not executed.
THEOREM RefusalsAreUndone == Spec => []RefusalIsUndone
  <1>1. Books => RefusalIsUndone
    BY DEF Books, BooksOf, Untouched, RefusalIsUndone
  <1>2. QED
    BY <1>1, BooksCorrect, PTL

-----------------------------------------------------------------------------
(* The grant, the limits and the finality of a bill *)

\* No balance is charged, topped up or shown before the initial grant.
THEOREM GrantFirst == Spec => []GrantBeforeUse
  <1> USE DEF asked, redis, history
  <1>1. Init => GrantBeforeUse
    BY DEF Init, GrantBeforeUse, Calls, Accountable
  <1>2. TypeOK /\ GrantBeforeUse /\ [Next]_vars => GrantBeforeUse'
    <2> SUFFICES ASSUME TypeOK, GrantBeforeUse, [Next]_vars, NEW b \in Accountable,
                        pc'[b] \in {"reserve", "mint", "get"}
                 PROVE  who'[b] \in known'
      BY DEF GrantBeforeUse
    <2>1. /\ b \in Calls /\ pc \in [Calls -> PCs] /\ who' = who /\ known \subseteq known'
      BY NextCases DEF TypeOK, Calls, Accountable, vars, Midnight, Expire, Fail, Arrive,
        EnsureInitialCredits, CountPurchase, Mint, GetBalance, ReadDay, Commit, Release,
        CommitHold, ReleaseHold, CountRequest, ChargePlatform, Reserve, UndoCharge
    <2>2. CASE pc[b] \in {"reserve", "mint", "get"}
      BY <2>1, <2>2 DEF GrantBeforeUse
    <2>3. CASE pc[b] \notin {"reserve", "mint", "get"}
      <3>1. ASSUME NEW c \in Calls, NEW next \in PCs, Answer(c, next),
                   next \notin {"reserve", "mint", "get"}
            PROVE  FALSE
        <4>1. pc'[b] \in {next, pc[b], OnError(pc[b])}
          BY <2>1, <3>1, AnswerLemma
        <4>2. QED
          BY <2>3, <3>1, <4>1 DEF OnError
      <3>2. {"refused", "failed", "charge", "grant", "undo", "ok"} \subseteq PCs
        BY DEF PCs, RedisCalls, Answered
      <3>3. ASSUME NEW r \in Reservations,
                   CountRequest(r) \/ ChargePlatform(r) \/ Reserve(r) \/ UndoCharge(r)
            PROVE  FALSE
        BY <3>1, <3>2, <3>3 DEF CountRequest, ChargePlatform, Reserve, UndoCharge, AfterUndo,
          Calls
      <3>4. ASSUME NEW s \in Settlements, ReadDay(s) \/ Commit(s) \/ Release(s)
            PROVE  FALSE
        <4>1. CASE ReadDay(s)
          BY <2>1, <2>3, <4>1 DEF ReadDay, Goto
        <4>2. CASE Commit(s) \/ Release(s)
          BY <3>1, <3>2, <4>2 DEF Commit, Release, Calls
        <4>3. QED
          BY <3>4, <4>1, <4>2
      <3>5. ASSUME NEW c \in Accountable, EnsureInitialCredits(c)
            PROVE  who[b] \in known'
        <4>1. who[c] \in known'
          BY <3>5 DEF EnsureInitialCredits
        <4>2. AfterGrant(c) \in PCs /\ c \in Calls
          BY DEF AfterGrant, PCs, RedisCalls, Calls, Accountable
        <4>3. CASE c # b
          <5>1. pc'[b] = pc[b]
            BY <2>1, <3>5, <4>2, <4>3, AnswerLemma DEF EnsureInitialCredits
          <5>2. QED
            BY <2>3, <5>1
        <4>4. QED
          BY <4>1, <4>3
      <3>6. ASSUME NEW c \in Purchases, CountPurchase(c) \/ Mint(c)
            PROVE  FALSE
        BY <3>1, <3>2, <3>6 DEF CountPurchase, Mint, Calls
      <3>7. ASSUME NEW c \in Reads, GetBalance(c)
            PROVE  FALSE
        BY <3>1, <3>2, <3>7 DEF GetBalance, Calls
      <3>8. ASSUME NEW c \in Calls, NEW p \in {"count", "day", "grant", "refused"},
                   NEW d, Arrive(c, p, d)
            PROVE  FALSE
        BY <2>1, <2>3, <3>8 DEF Arrive, Goto
      <3>9. ASSUME NEW c \in Calls, Fail(c)
            PROVE  FALSE
        BY <2>1, <2>3, <3>9 DEF Fail, Goto, OnError
      <3>10. CASE (\E r \in Reservations : Expire(r)) \/ Midnight \/ UNCHANGED vars
        BY <2>3, <3>10 DEF Expire, Midnight, vars
      <3>11. QED
        BY <2>1, <3>3, <3>4, <3>5, <3>6, <3>7, <3>8, <3>9, <3>10, NextCases DEF Calls
    <2>4. QED
      BY <2>2, <2>3
  <1>3. QED
    BY <1>1, <1>2, TypeCorrect, PTL DEF Spec

\* The settling scripts move the balance against the debt, and the budget
\* against the overrun.
LEMMA SettlementBounds ==
    ASSUME TypeOK, DebtIsOverage, BudgetWithinLimit,
           NEW s \in Settlements, ReadDay(s) \/ Commit(s) \/ Release(s)
    PROVE  DebtIsOverage' /\ BudgetWithinLimit'
  <1> USE DEF redis, history
  <1> DEFINE r == settlement[s].hold
             actual == settlement[s].actual
  <1>1. CASE UNCHANGED <<redis, history>>
    BY <1>1 DEF DebtIsOverage, BudgetWithinLimit
  <1>2. r \in Reservations /\ actual \in Nat
    BY SettleRequestLemma DEF TypeOK
  <1>3. /\ who[r] \in Users /\ hold[r].amount \in Nat
        /\ balance \in [Users -> Int] /\ debt \in [Users -> Nat]
        /\ platformCredits \in [Days -> Int] /\ overrun \in [Days -> Nat]
    BY <1>2 DEF TypeOK, Accountable, Holds
  <1>4. PlatformCreditLimit \in Nat
    BY AmountsAssumption
  <1> HIDE DEF r, actual
  <1>5. CASE CommitHold(r, day[s], actual)
    <2> DEFINE h == hold[r].amount
               x == Excess(r, actual)
    <2>0. h \in Nat /\ x \in Nat /\ h - actual + x >= 0 /\ actual - h <= x
      BY <1>2, <1>3 DEF Excess
    <2>1. /\ balance' = [balance EXCEPT ![who[r]] = @ + (h - actual)]
          /\ debt' = [debt EXCEPT ![who[r]] = @ + x]
          /\ platformCredits' = [platformCredits EXCEPT ![day[s]] = @ + (actual - h)]
          /\ overrun' = [overrun EXCEPT ![day[s]] = @ + x]
      BY <1>5 DEF CommitHold, Settle, AdjustBalance, AdjustPlatformCredits
    <2> HIDE DEF h, x
    <2>2. ASSUME NEW u \in Users PROVE balance'[u] + debt'[u] >= 0
      <3>1. balance[u] + debt[u] >= 0 /\ balance[u] \in Int /\ debt[u] \in Nat
        BY <1>3 DEF DebtIsOverage
      <3>2. CASE u = who[r]
        <4>1. balance'[u] = balance[u] + (h - actual) /\ debt'[u] = debt[u] + x
          BY <1>3, <2>1, <3>2
        <4>2. QED
          BY <1>2, <2>0, <3>1, <4>1
      <3>3. CASE u # who[r]
        BY <1>3, <2>1, <3>1, <3>3
      <3>4. QED
        BY <3>2, <3>3
    <2>3. ASSUME NEW d \in Days PROVE platformCredits'[d] <= PlatformCreditLimit + overrun'[d]
      <3>1. /\ platformCredits[d] <= PlatformCreditLimit + overrun[d]
            /\ platformCredits[d] \in Int /\ overrun[d] \in Nat
        BY <1>3 DEF BudgetWithinLimit
      <3>2. CASE d = day[s]
        <4>1. platformCredits'[d] = platformCredits[d] + (actual - h) /\ overrun'[d] = overrun[d] + x
          BY <1>3, <2>1, <3>2
        <4>2. QED
          BY <1>2, <1>4, <2>0, <3>1, <4>1
      <3>3. CASE d # day[s]
        BY <1>3, <2>1, <3>1, <3>3
      <3>4. QED
        BY <3>2, <3>3
    <2>4. QED
      BY <2>2, <2>3 DEF DebtIsOverage, BudgetWithinLimit
  <1>6. CASE ReleaseHold(r, day[s])
    <2> DEFINE h == hold[r].amount
    <2>1. /\ balance' = [balance EXCEPT ![who[r]] = @ + (h - 0)]
          /\ platformCredits' = [platformCredits EXCEPT ![day[s]] = @ + (0 - h)]
          /\ UNCHANGED <<debt, overrun>>
      BY <1>6 DEF ReleaseHold, Settle, AdjustBalance, AdjustPlatformCredits
    <2>2. h \in Nat
      BY <1>3
    <2> HIDE DEF h
    <2>3. \A u \in Users : balance'[u] >= balance[u] /\ balance'[u] \in Int
      BY <1>3, <2>1, <2>2
    <2>4. \A d \in Days : platformCredits'[d] <= platformCredits[d] /\ platformCredits'[d] \in Int
      BY <1>3, <2>1, <2>2
    <2>5. ASSUME NEW u \in Users PROVE balance'[u] + debt'[u] >= 0
      <3>1. balance[u] + debt[u] >= 0 /\ balance[u] \in Int /\ debt[u] \in Nat
        BY <1>3 DEF DebtIsOverage
      <3>2. QED
        BY <2>1, <2>3, <3>1
    <2>6. ASSUME NEW d \in Days PROVE platformCredits'[d] <= PlatformCreditLimit + overrun'[d]
      <3>1. /\ platformCredits[d] <= PlatformCreditLimit + overrun[d]
            /\ platformCredits[d] \in Int /\ overrun[d] \in Nat
        BY <1>3 DEF BudgetWithinLimit
      <3>2. QED
        BY <1>4, <2>1, <2>4, <3>1
    <2>7. QED
      BY <2>5, <2>6 DEF DebtIsOverage, BudgetWithinLimit
  <1>7. QED
    BY <1>1, <1>5, <1>6 DEF ReadDay, Commit, Release, r, actual

\* No reservation or top-up pushes a balance or a budget over its bound.
LEMMA AccountBounds ==
    ASSUME TypeOK, DebtIsOverage, BudgetWithinLimit,
           \/ \E r \in Reservations : ChargePlatform(r) \/ Reserve(r) \/ UndoCharge(r)
           \/ \E c \in Accountable : EnsureInitialCredits(c)
           \/ \E c \in Purchases : Mint(c)
    PROVE  DebtIsOverage' /\ BudgetWithinLimit'
  <1> USE DEF redis, history
  <1>0. /\ balance \in [Users -> Int] /\ debt \in [Users -> Nat]
        /\ platformCredits \in [Days -> Int] /\ overrun \in [Days -> Nat]
        /\ PlatformCreditLimit \in Nat /\ InitialCredits \in Nat
    BY AmountsAssumption DEF TypeOK
  <1>a. \A u \in Users : balance[u] + debt[u] >= 0
    BY DEF DebtIsOverage
  <1>b. \A d \in Days : platformCredits[d] <= PlatformCreditLimit + overrun[d]
    BY DEF BudgetWithinLimit
  <1>c. \A c \in Reservations \cup Purchases : credits[c] \in Nat
    <2>1. \A c \in Reservations \cup Purchases : credits[c] \in Amounts
      BY DEF TypeOK
    <2>2. QED
      BY <2>1, AmountsAssumption
  <1>d. \A u \in Users : balance[u] \in Int /\ debt[u] \in Nat
    BY <1>0
  <1>e. \A d \in Days : platformCredits[d] \in Int /\ overrun[d] \in Nat
    BY <1>0
  <1>1. ASSUME NEW r \in Reservations, ChargePlatform(r) \/ UndoCharge(r)
        PROVE  DebtIsOverage' /\ BudgetWithinLimit'
    <2>1. UNCHANGED <<balance, debt, overrun>>
      BY <1>1 DEF ChargePlatform, UndoCharge
    <2>2. ASSUME NEW d \in Days PROVE platformCredits'[d] <= PlatformCreditLimit + overrun[d]
      <3>1. CASE UNCHANGED platformCredits
        BY <1>b, <3>1
      <3>2. CASE WithinBudget(day[r], credits[r]) /\ AdjustPlatformCredits(r, day[r], credits[r])
        <4>1. CASE d = day[r]
          <5>1. platformCredits'[d] = platformCredits[d] + credits[r]
            BY <1>0, <3>2, <4>1 DEF AdjustPlatformCredits
          <5>2. platformCredits[d] + credits[r] <= PlatformCreditLimit
            BY <3>2, <4>1 DEF WithinBudget
          <5>3. QED
            BY <1>0, <1>c, <1>e, <5>1, <5>2
        <4>2. CASE d # day[r]
          BY <1>0, <1>b, <3>2, <4>2 DEF AdjustPlatformCredits
        <4>3. QED
          BY <4>1, <4>2
      <3>3. CASE AdjustPlatformCredits(r, day[r], -credits[r])
        <4>1. CASE d = day[r]
          <5>1. platformCredits'[d] = platformCredits[d] + (-credits[r])
            BY <1>0, <3>3, <4>1 DEF AdjustPlatformCredits
          <5>2. platformCredits[d] <= PlatformCreditLimit + overrun[d]
            BY <1>b
          <5>3. QED
            BY <1>0, <1>c, <1>e, <5>1, <5>2
        <4>2. CASE d # day[r]
          BY <1>0, <1>b, <3>3, <4>2 DEF AdjustPlatformCredits
        <4>3. QED
          BY <4>1, <4>2
      <3>4. QED
        BY <1>1, <3>1, <3>2, <3>3 DEF ChargePlatform, UndoCharge
    <2>3. QED
      BY <2>1, <2>2 DEF DebtIsOverage, BudgetWithinLimit
  <1>2. ASSUME NEW r \in Reservations, Reserve(r)
        PROVE  DebtIsOverage' /\ BudgetWithinLimit'
    <2>1. UNCHANGED <<platformCredits, debt, overrun>>
      BY <1>2 DEF Reserve
    <2>2. ASSUME NEW u \in Users PROVE balance'[u] + debt[u] >= 0
      <3>1. CASE UNCHANGED balance
        BY <1>a, <3>1
      <3>2. CASE Covers(who[r], credits[r]) /\ AdjustBalance(r, -credits[r])
        <4>1. CASE u = who[r]
          <5>1. balance'[u] = balance[u] + (-credits[r]) /\ balance[u] >= credits[r]
            BY <1>0, <3>2, <4>1 DEF Covers, AdjustBalance
          <5>2. QED
            BY <1>c, <1>d, <5>1
        <4>2. CASE u # who[r]
          BY <1>0, <1>a, <3>2, <4>2 DEF AdjustBalance
        <4>3. QED
          BY <4>1, <4>2
      <3>3. QED
        BY <1>2, <3>1, <3>2 DEF Reserve
    <2>3. QED
      BY <1>b, <2>1, <2>2 DEF DebtIsOverage, BudgetWithinLimit
  <1>3. ASSUME NEW c \in Accountable, EnsureInitialCredits(c)
        PROVE  DebtIsOverage' /\ BudgetWithinLimit'
    <2>1. UNCHANGED <<platformCredits, debt, overrun>>
      BY <1>3 DEF EnsureInitialCredits
    <2>2. ASSUME NEW u \in Users PROVE balance'[u] + debt[u] >= 0
      BY <1>0, <1>a, <1>d, <1>3 DEF EnsureInitialCredits
    <2>3. QED
      BY <1>b, <2>1, <2>2 DEF DebtIsOverage, BudgetWithinLimit
  <1>4. ASSUME NEW c \in Purchases, Mint(c)
        PROVE  DebtIsOverage' /\ BudgetWithinLimit'
    <2>1. UNCHANGED <<platformCredits, debt, overrun>>
      BY <1>4 DEF Mint
    <2>2. ASSUME NEW u \in Users PROVE balance'[u] + debt[u] >= 0
      <3>1. balance' = [balance EXCEPT ![who[c]] = @ + credits[c]] /\ credits[c] \in Nat
        BY <1>4, <1>c DEF Mint
      <3>2. balance'[u] >= balance[u] /\ balance'[u] \in Int
        BY <1>0, <1>d, <3>1
      <3>3. QED
        BY <1>a, <1>d, <3>2
    <2>3. QED
      BY <1>b, <2>1, <2>2 DEF DebtIsOverage, BudgetWithinLimit
  <1>5. QED
    BY <1>1, <1>2, <1>3, <1>4

\* Debts and overruns come from the overages of commits and from nothing else.
THEOREM Bounded == Spec => [](DebtIsOverage /\ BudgetWithinLimit)
  <1> USE DEF redis, history
  <1>1. Init => DebtIsOverage /\ BudgetWithinLimit
    BY AmountsAssumption DEF Init, DebtIsOverage, BudgetWithinLimit
  <1>2. /\ TypeOK /\ DebtIsOverage /\ BudgetWithinLimit /\ [Next]_vars
        => DebtIsOverage' /\ BudgetWithinLimit'
    <2> SUFFICES ASSUME TypeOK, DebtIsOverage, BudgetWithinLimit, [Next]_vars
                 PROVE  DebtIsOverage' /\ BudgetWithinLimit'
      OBVIOUS
    <2>1. CASE \E s \in Settlements : ReadDay(s) \/ Commit(s) \/ Release(s)
      BY <2>1, SettlementBounds
    <2>2. CASE \/ \E r \in Reservations : ChargePlatform(r) \/ Reserve(r) \/ UndoCharge(r)
               \/ \E c \in Accountable : EnsureInitialCredits(c)
               \/ \E c \in Purchases : Mint(c)
      BY <2>2, AccountBounds
    <2>3. CASE UNCHANGED <<balance, debt, platformCredits, overrun>>
      BY <2>3 DEF DebtIsOverage, BudgetWithinLimit
    <2>4. CASE \/ \E r \in Reservations : CountRequest(r)
               \/ \E c \in Purchases : CountPurchase(c)
               \/ \E c \in Reads : GetBalance(c)
               \/ \E c \in Reservations \cup Purchases : Arrive(c, "count", today)
               \/ \E c \in Settlements : Arrive(c, "day", NoDay)
               \/ \E c \in Reads : Arrive(c, "grant", NoDay)
               \/ \E c \in Purchases : Arrive(c, "refused", NoDay)
               \/ \E c \in Calls : Fail(c)
               \/ \E r \in Reservations : Expire(r)
               \/ Midnight
               \/ UNCHANGED vars
      <3>1. UNCHANGED <<balance, debt, platformCredits, overrun>>
        BY <2>4 DEF CountRequest, CountPurchase, GetBalance, Arrive, Fail, Expire, Midnight, vars
      <3>2. QED
        BY <2>3, <3>1
    <2>5. QED
      BY <2>1, <2>2, <2>4, NextCases
  <1>3. QED
    BY <1>1, <1>2, TypeCorrect, PTL DEF Spec

\* No step changes the bill of a reservation that is answered and not open.
LEMMA ClosedStays ==
    ASSUME TypeOK, [Next]_vars, NEW r \in Reservations, Closed(r)
    PROVE  /\ Closed(r)' /\ debit'[r] = debit[r] /\ charge'[r] = charge[r]
           /\ pc'[r] = pc[r] /\ hold'[r].status \in {hold[r].status, "missing"}
  <1> USE DEF asked, redis, history
  <1>0. /\ pc[r] \in Answered /\ hold[r].status # "reserved" /\ r \in Calls
        /\ pc \in [Calls -> PCs] /\ hold \in [Reservations -> Holds]
        /\ debit \in [Reservations -> Int] /\ charge \in [Reservations -> Int]
    BY DEF Closed, TypeOK, Calls
  <1>1. SUFFICES ASSUME TRUE
                 PROVE  pc'[r] = pc[r] /\ hold'[r].status \in {hold[r].status, "missing"}
                        /\ debit'[r] = debit[r] /\ charge'[r] = charge[r]
    BY <1>0 DEF Closed
  <1>2. ASSUME NEW c \in Calls, NEW next \in PCs, c # r, Answer(c, next)
        PROVE  pc'[r] = pc[r]
    BY <1>0, <1>2, AnswerLemma
  <1>3. {"refused", "failed", "charge", "grant", "reserve", "undo", "mint", "get", "ok"}
            \subseteq PCs
    BY DEF PCs, RedisCalls, Answered
  <1>4. ASSUME NEW q \in Reservations,
               CountRequest(q) \/ ChargePlatform(q) \/ Reserve(q) \/ UndoCharge(q)
        PROVE  pc'[r] = pc[r] /\ hold'[r].status \in {hold[r].status, "missing"}
               /\ debit'[r] = debit[r] /\ charge'[r] = charge[r]
    <2>1. q # r /\ q \in Calls
      BY <1>0, <1>4 DEF CountRequest, ChargePlatform, Reserve, UndoCharge, Compensations,
        Answered, Calls
    <2>2. pc'[r] = pc[r]
      BY <1>2, <1>3, <1>4, <2>1 DEF CountRequest, ChargePlatform, Reserve, UndoCharge,
        AfterUndo
    <2>3. QED
      BY <1>0, <1>4, <2>1, <2>2 DEF CountRequest, ChargePlatform, Reserve, UndoCharge,
        AdjustPlatformCredits, AdjustBalance
  <1>5. ASSUME NEW s \in Settlements, ReadDay(s) \/ Commit(s) \/ Release(s)
        PROVE  pc'[r] = pc[r] /\ hold'[r].status \in {hold[r].status, "missing"}
               /\ debit'[r] = debit[r] /\ charge'[r] = charge[r]
    <2>1. s # r /\ s \in Calls
      BY CallsAssumption DEF Calls
    <2>2. pc'[r] = pc[r]
      <3>1. CASE ReadDay(s)
        BY <1>0, <2>1, <3>1 DEF ReadDay, Goto
      <3>2. CASE Commit(s) \/ Release(s)
        BY <1>2, <1>3, <2>1, <3>2 DEF Commit, Release
      <3>3. QED
        BY <1>5, <3>1, <3>2
    <2>3. CASE UNCHANGED <<redis, history>>
      BY <1>0, <2>2, <2>3
    <2>4. CASE \E q \in Reservations : \E d, status, final, amount :
                hold[q].status = "reserved" /\ Settle(q, d, status, final, amount)
      BY <1>0, <2>2, <2>4 DEF Settle, AdjustBalance, AdjustPlatformCredits
    <2>5. settlement[s].hold \in Reservations
      BY SettleRequestLemma DEF TypeOK
    <2>6. QED
      BY <1>5, <2>3, <2>4, <2>5 DEF ReadDay, Commit, Release, CommitHold, ReleaseHold
  <1>6. ASSUME NEW c \in Accountable,
               \/ EnsureInitialCredits(c)
               \/ c \in Purchases /\ (CountPurchase(c) \/ Mint(c))
               \/ c \in Reads /\ GetBalance(c)
        PROVE  pc'[r] = pc[r] /\ hold'[r].status \in {hold[r].status, "missing"}
               /\ debit'[r] = debit[r] /\ charge'[r] = charge[r]
    <2>1. c # r /\ c \in Calls
      BY <1>0, <1>6, CallsAssumption DEF EnsureInitialCredits, Answered, Calls, Accountable
    <2>2. AfterGrant(c) \in PCs
      BY <1>3 DEF AfterGrant
    <2>3. pc'[r] = pc[r]
      BY <1>2, <1>3, <1>6, <2>1, <2>2 DEF EnsureInitialCredits, CountPurchase, Mint, GetBalance
    <2>4. QED
      BY <1>0, <1>6, <2>3 DEF EnsureInitialCredits, CountPurchase, Mint, GetBalance
  <1>7. ASSUME NEW c \in Calls, NEW p, NEW d, Arrive(c, p, d) \/ Fail(c)
        PROVE  pc'[r] = pc[r] /\ hold'[r].status \in {hold[r].status, "missing"}
               /\ debit'[r] = debit[r] /\ charge'[r] = charge[r]
    <2>1. c # r
      BY <1>0, <1>7 DEF Arrive, Fail, Answered, RedisCalls
    <2>2. QED
      BY <1>0, <1>7, <2>1 DEF Arrive, Fail, Goto
  <1>8. ASSUME NEW q \in Reservations, Expire(q)
        PROVE  pc'[r] = pc[r] /\ hold'[r].status \in {hold[r].status, "missing"}
               /\ debit'[r] = debit[r] /\ charge'[r] = charge[r]
    BY <1>0, <1>8 DEF Expire, Missing
  <1>9. CASE Midnight \/ UNCHANGED vars
    BY <1>0, <1>9 DEF Midnight, vars
  <1>10. QED
    BY <1>4, <1>5, <1>6, <1>7, <1>8, <1>9, NextCases DEF Calls

\* The bill of an answered reservation that is not open is final: no later
\* commit, release, repeated command or expiry charges or refunds it again.
THEOREM BillsAreFinal == Spec => BillIsFinal
  <1>1. TypeOK /\ [Next]_vars =>
            [\A r \in Reservations : Closed(r) =>
                /\ Closed(r)'
                /\ UNCHANGED <<debit[r], charge[r]>>]_vars
    BY ClosedStays
  <1>2. QED
    BY <1>1, TypeCorrect, PTL DEF Spec, BillIsFinal

-----------------------------------------------------------------------------
(* The accounts of the users *)

Taken(u) == SumFunctionOnSet(debit, {r \in Reservations : who[r] = u})
Granted(u) == IF u \in known THEN InitialCredits ELSE 0

\* UserConservation is inductive with two facts more: a balance without a key is
\* zero, so that the grant replaces nothing, and only a user who has one holds.
Accounts ==
    /\ UserConservation
    /\ \A u \in Users \ known : balance[u] = 0
    /\ \A r \in Reservations : hold[r].status # "missing" => who[r] \in known

\* What the steps do to the accounts: nothing,
AccountsAlone ==
    /\ UNCHANGED <<who, balance, known, minted, debit>>
    /\ \A r \in Reservations : hold'[r].status # "missing" => hold[r].status # "missing"

\* the grant,
Grants(u) ==
    /\ u \in Users \ known
    /\ balance' = [balance EXCEPT ![u] = InitialCredits]
    /\ known' = known \cup {u}
    /\ UNCHANGED <<who, minted, debit, hold>>

\* a top-up,
TopsUp(u, amount) ==
    /\ u \in known /\ amount \in Nat
    /\ balance' = [balance EXCEPT ![u] = @ + amount]
    /\ minted' = [minted EXCEPT ![u] = @ + amount]
    /\ known' = known \cup {u}
    /\ UNCHANGED <<who, debit, hold>>

\* or a reservation that takes or gives back.
Adjusts(r, delta) ==
    /\ r \in Reservations /\ who[r] \in known /\ delta \in Int
    /\ AdjustBalance(r, delta)
    /\ \A q \in Reservations \ {r} : hold'[q] = hold[q]
    /\ UNCHANGED <<who, minted, known>>

\* A settlement leaves the accounts alone, or moves one user by what it moves one debit.
LEMMA SettlementAccounts ==
    ASSUME TypeOK, Accounts, NEW s \in Settlements, ReadDay(s) \/ Commit(s) \/ Release(s)
    PROVE  AccountsAlone \/ \E r, delta : Adjusts(r, delta)
  <1> USE DEF asked, redis, history
  <1> DEFINE q == settlement[s].hold
             actual == settlement[s].actual
  <1>1. q \in Reservations /\ actual \in Nat
    BY SettleRequestLemma DEF TypeOK
  <1>2. hold \in [Reservations -> Holds] /\ hold[q].amount \in Nat
    BY <1>1 DEF TypeOK, Holds
  <1> HIDE DEF q, actual
  <1>3. CASE UNCHANGED <<redis, history, asked>>
    BY <1>3 DEF AccountsAlone
  <1>4. ASSUME NEW d, NEW status, NEW final \in Nat, NEW amount,
               hold[q].status = "reserved", Settle(q, d, status, final, amount),
               UNCHANGED <<who, minted, known>>
        PROVE  \E r, delta : Adjusts(r, delta)
    <2>1. who[q] \in known
      BY <1>1, <1>4 DEF Accounts
    <2>2. hold[q].amount - final \in Int
      BY <1>2
    <2>3. \A r \in Reservations \ {q} : hold'[r] = hold[r]
      BY <1>2, <1>4 DEF Settle
    <2>4. Adjusts(q, hold[q].amount - final)
      BY <1>1, <1>4, <2>1, <2>2, <2>3 DEF Adjusts, Settle
    <2> QED  BY <2>4
  <1>5. CASE hold[q].status = "reserved" /\ CommitHold(q, day[s], actual) /\ UNCHANGED asked
    BY <1>1, <1>4, <1>5 DEF CommitHold
  <1>6. CASE hold[q].status = "reserved" /\ ReleaseHold(q, day[s]) /\ UNCHANGED asked
    BY <1>4, <1>6 DEF ReleaseHold
  <1> QED
    BY <1>3, <1>5, <1>6 DEF ReadDay, Commit, Release, q, actual

\* Every step does one of these.
LEMMA AccountCases ==
    ASSUME TypeOK, GrantBeforeUse, Accounts, [Next]_vars
    PROVE  \/ AccountsAlone
           \/ \E u : Grants(u)
           \/ \E u, amount : TopsUp(u, amount)
           \/ \E r, delta : Adjusts(r, delta)
  <1> USE DEF asked, redis, history
  <1>0. hold \in [Reservations -> Holds] /\ \A c \in Accountable : who[c] \in Users
    BY DEF TypeOK
  <1>a. \A c \in Reservations \cup Purchases : credits[c] \in Nat
    <2>1. \A c \in Reservations \cup Purchases : credits[c] \in Amounts
      BY DEF TypeOK
    <2> QED  BY <2>1, AmountsAssumption
  <1>1. ASSUME NEW r \in Reservations, CountRequest(r) \/ ChargePlatform(r) \/ UndoCharge(r)
        PROVE  AccountsAlone
    BY <1>1 DEF CountRequest, ChargePlatform, UndoCharge, AccountsAlone
  <1>2. ASSUME NEW r \in Reservations, Reserve(r)
        PROVE  AccountsAlone \/ \E q, delta : Adjusts(q, delta)
    <2>1. CASE UNCHANGED <<balance, hold, debit>>
      BY <1>2, <2>1 DEF Reserve, AccountsAlone
    <2>2. CASE /\ AdjustBalance(r, -credits[r])
               /\ hold' = [hold EXCEPT ![r] =
                    [status |-> "reserved", amount |-> credits[r], day |-> day[r]]]
      <3>1. who[r] \in known
        BY <1>2 DEF Reserve, GrantBeforeUse, Accountable
      <3>2. -credits[r] \in Int
        BY <1>a
      <3>3. Adjusts(r, -credits[r])
        BY <1>0, <1>2, <2>2, <3>1, <3>2 DEF Reserve, Adjusts
      <3> QED  BY <3>3
    <2> QED  BY <1>2, <2>1, <2>2 DEF Reserve
  <1>3. ASSUME NEW c \in Accountable, EnsureInitialCredits(c)
        PROVE  AccountsAlone \/ \E u : Grants(u)
    BY <1>0, <1>3 DEF EnsureInitialCredits, AccountsAlone, Grants
  <1>4. ASSUME NEW c \in Purchases, Mint(c)
        PROVE  \E u, amount : TopsUp(u, amount)
    <2>1. who[c] \in known
      BY <1>4 DEF Mint, GrantBeforeUse, Accountable
    <2>2. TopsUp(who[c], credits[c])
      BY <1>a, <1>4, <2>1 DEF Mint, TopsUp
    <2> QED  BY <2>2
  <1>5. CASE \/ \E c \in Purchases : CountPurchase(c)
             \/ \E c \in Reads : GetBalance(c)
             \/ \E c \in Calls : Fail(c)
             \/ \E c \in Reservations \cup Purchases : Arrive(c, "count", today)
             \/ \E c \in Settlements : Arrive(c, "day", NoDay)
             \/ \E c \in Reads : Arrive(c, "grant", NoDay)
             \/ \E c \in Purchases : Arrive(c, "refused", NoDay)
             \/ Midnight
             \/ UNCHANGED vars
    BY <1>5 DEF CountPurchase, GetBalance, Fail, Arrive, Midnight, vars, AccountsAlone
  <1>6. ASSUME NEW r \in Reservations, Expire(r)
        PROVE  AccountsAlone
    BY <1>0, <1>6 DEF Expire, Missing, AccountsAlone
  <1> QED
    BY <1>1, <1>2, <1>3, <1>4, <1>5, <1>6, NextCases, SettlementAccounts

\* No step creates or loses a credit.
LEMMA AccountsKept ==
    ASSUME TypeOK, GrantBeforeUse, Accounts, [Next]_vars
    PROVE  Accounts'
  <1> DEFINE Of(u) == {r \in Reservations : who[r] = u}
  <1>1. /\ balance \in [Users -> Int] /\ minted \in [Users -> Nat] /\ known \subseteq Users
        /\ debit \in [Reservations -> Int] /\ InitialCredits \in Nat
        /\ \A r \in Reservations : who[r] \in Users
    BY AmountsAssumption DEF TypeOK, Accountable
  <1>2. /\ \A u \in Users : balance[u] = Granted(u) + minted[u] - Taken(u)
        /\ \A u \in Users \ known : balance[u] = 0
        /\ \A r \in Reservations : hold[r].status # "missing" => who[r] \in known
    BY DEF Accounts, UserConservation, Granted, Taken
  <1>3. \A u \in Users : Taken(u) \in Int
    <2>1. \A u \in Users : {r \in Reservations : who[r] = u} \in SUBSET Reservations
      OBVIOUS
    <2> QED  BY <1>1, <2>1, FiniteAssumption, SumType DEF Taken
  <1>4. CASE AccountsAlone
    BY <1>4 DEF AccountsAlone, Accounts, UserConservation
  <1>5. ASSUME NEW v, Grants(v)
        PROVE  Accounts'
    <2>1. ASSUME NEW u \in Users
          PROVE  balance'[u] = Granted(u)' + minted'[u] - Taken(u)'
      <3>1. Taken(u)' = Taken(u) /\ minted' = minted
        BY <1>5 DEF Grants, Taken
      <3>2. CASE u = v
        <4>1. balance[u] = 0 /\ 0 = 0 + minted[u] - Taken(u)
          BY <1>2, <1>5, <3>2 DEF Grants, Granted
        <4>2. balance'[u] = InitialCredits /\ Granted(u)' = InitialCredits
          BY <1>1, <1>5, <3>2 DEF Grants, Granted
        <4> QED  BY <1>1, <1>3, <3>1, <4>1, <4>2
      <3>3. CASE u # v
        BY <1>1, <1>2, <1>5, <3>1, <3>3 DEF Grants, Granted
      <3> QED  BY <3>2, <3>3
    <2>2. \A u \in Users \ known' : balance'[u] = 0
      BY <1>1, <1>2, <1>5 DEF Grants
    <2>3. \A r \in Reservations : hold'[r].status # "missing" => who'[r] \in known'
      BY <1>2, <1>5 DEF Grants
    <2> QED  BY <2>1, <2>2, <2>3 DEF Accounts, UserConservation, Granted, Taken
  <1>6. ASSUME NEW v, NEW amount, TopsUp(v, amount)
        PROVE  Accounts'
    <2>0. v \in Users /\ known' = known /\ amount \in Nat
      BY <1>1, <1>6 DEF TopsUp
    <2>1. ASSUME NEW u \in Users
          PROVE  balance'[u] = Granted(u)' + minted'[u] - Taken(u)'
      <3>1. Taken(u)' = Taken(u) /\ Granted(u)' = Granted(u)
        BY <1>6, <2>0 DEF TopsUp, Taken, Granted
      <3>2. /\ balance[u] = Granted(u) + minted[u] - Taken(u)
            /\ Granted(u) \in Int /\ minted[u] \in Int /\ Taken(u) \in Int
        BY <1>1, <1>2, <1>3 DEF Granted
      <3>3. CASE u = v
        <4>1. balance'[u] = balance[u] + amount /\ minted'[u] = minted[u] + amount
          BY <1>1, <1>6, <3>3 DEF TopsUp
        <4> QED  BY <2>0, <3>1, <3>2, <4>1
      <3>4. CASE u # v
        BY <1>1, <1>6, <3>1, <3>2, <3>4 DEF TopsUp
      <3> QED  BY <3>3, <3>4
    <2>2. \A u \in Users \ known' : balance'[u] = 0
      BY <1>1, <1>2, <1>6, <2>0 DEF TopsUp
    <2>3. \A r \in Reservations : hold'[r].status # "missing" => who'[r] \in known'
      BY <1>2, <1>6, <2>0 DEF TopsUp
    <2> QED  BY <2>1, <2>2, <2>3 DEF Accounts, UserConservation, Granted, Taken
  <1>7. ASSUME NEW r, NEW delta, Adjusts(r, delta)
        PROVE  Accounts'
    <2>0. r \in Reservations /\ delta \in Int /\ who[r] \in known /\ who' = who /\ known' = known
      BY <1>7 DEF Adjusts
    <2>1. /\ balance' = [balance EXCEPT ![who[r]] = @ + delta]
          /\ debit' = [debit EXCEPT ![r] = @ - delta]
          /\ minted' = minted
      BY <1>7 DEF Adjusts, AdjustBalance
    <2> DEFINE back == -delta
    <2>2. /\ debit'[r] = debit[r] + back /\ back \in Int /\ delta + back = 0
          /\ \A q \in Reservations \ {r} : debit'[q] = debit[q]
      BY <1>1, <2>0, <2>1
    <2> HIDE DEF back
    <2>3. ASSUME NEW u \in Users
          PROVE  balance'[u] = Granted(u)' + minted'[u] - Taken(u)'
      <3> DEFINE T == {q \in Reservations : who[q] = u}
      <3>1. Taken(u)' = SumFunctionOnSet(debit', T) /\ Taken(u) = SumFunctionOnSet(debit, T)
        BY <2>0 DEF Taken
      <3>2. T \in SUBSET Reservations /\ (r \in T <=> u = who[r])
        BY <2>0
      <3>3. /\ balance[u] = Granted(u) + minted[u] - Taken(u) /\ Granted(u)' = Granted(u)
            /\ Granted(u) \in Int /\ minted[u] \in Int /\ Taken(u) \in Int
        BY <1>1, <1>2, <1>3, <2>0 DEF Granted
      <3>6. IsFiniteSet(Reservations)
        BY FiniteAssumption
      <3> HIDE DEF T
      <3>4. CASE u = who[r]
        <4>1. Taken(u)' = Taken(u) + back
          BY <1>1, <2>0, <2>2, <3>1, <3>2, <3>4, <3>6, SumAdjusts
        <4>2. balance'[u] = balance[u] + delta
          BY <1>1, <2>1, <3>4
        <4> QED  BY <2>0, <2>1, <2>2, <3>3, <4>1, <4>2
      <3>5. CASE u # who[r]
        <4>1. Taken(u)' = Taken(u)
          BY <1>1, <2>0, <2>2, <3>1, <3>2, <3>5, <3>6, SumAdjusts
        <4>2. balance'[u] = balance[u]
          BY <1>1, <2>1, <3>5
        <4> QED  BY <2>1, <3>3, <4>1, <4>2
      <3> QED  BY <3>4, <3>5
    <2>4. \A u \in Users \ known' : balance'[u] = 0
      BY <1>1, <1>2, <2>0, <2>1
    <2>5. \A q \in Reservations : hold'[q].status # "missing" => who'[q] \in known'
      BY <1>2, <1>7, <2>0 DEF Adjusts
    <2> QED  BY <2>3, <2>4, <2>5 DEF Accounts, UserConservation, Granted, Taken
  <1> QED
    BY <1>4, <1>5, <1>6, <1>7, AccountCases

\* A balance is the grant and the top-ups of its user less what reservations
\* took, in every reachable state.
THEOREM UsersConserved == Spec => []UserConservation
  <1>1. Init => Accounts
    <2> SUFFICES ASSUME Init PROVE Accounts
      OBVIOUS
    <2>1. /\ \A u \in Users : balance[u] = 0 /\ minted[u] = 0
          /\ known = {} /\ \A r \in Reservations : hold[r].status = "missing"
          /\ debit = [r \in Reservations |-> 0]
      BY DEF Init, Missing
    <2>2. ASSUME NEW u \in Users
          PROVE  Taken(u) = 0
      <3>1. debit \in [Reservations -> Int] /\ \A r \in Reservations : debit[r] = 0
        BY <2>1
      <3> DEFINE T == {r \in Reservations : who[r] = u}
      <3>2. IsFiniteSet(T)
        BY FiniteAssumption, FS_Subset
      <3>3. \A r \in T : debit[r] = 0
        BY <3>1
      <3> HIDE DEF T
      <3> QED  BY <3>2, <3>3, SumOfZeros DEF Taken, T
    <2>3. \A u \in Users : balance[u] = Granted(u) + minted[u] - Taken(u)
      BY <2>1, <2>2 DEF Granted
    <2> QED  BY <2>1, <2>3 DEF Accounts, UserConservation, Granted, Taken
  <1>2. TypeOK /\ GrantBeforeUse /\ Accounts /\ [Next]_vars => Accounts'
    BY AccountsKept
  <1>3. Accounts => UserConservation
    BY DEF Accounts
  <1> QED
    BY <1>1, <1>2, <1>3, TypeCorrect, GrantFirst, PTL DEF Spec

-----------------------------------------------------------------------------
(* The budgets of the days *)

Charged(d) == SumFunctionOnSet(charge, {r \in Reservations : day[r] = d})

\* PlatformConservation is inductive once a reservation keeps the day on which it
\* arrived, has charged nothing before, and its hold has the same day.
Dated(r) ==
    IF pc[r] = "idle"
    THEN charge[r] = 0 /\ day[r] = NoDay /\ hold[r].status = "missing"
    ELSE day[r] \in Days /\ (hold[r].status # "missing" => hold[r].day = day[r])

Budgets == PlatformConservation /\ \A r \in Reservations : Dated(r)

\* What a step does to the day of a reservation: nothing, unless it arrives.
KeepsDay(r) == day'[r] = day[r] /\ (pc'[r] = "idle" <=> pc[r] = "idle")

\* What a step does to the budgets: nothing, or it corrects that of a reservation.
Corrects(r, delta) ==
    /\ r \in Reservations /\ pc[r] # "idle" /\ delta \in Int
    /\ AdjustPlatformCredits(r, day[r], delta)

BudgetsAlone == UNCHANGED <<platformCredits, charge>>

\* A hold has the day of its reservation.
HoldDated(r) == hold'[r].status # "missing" => hold'[r].day = day[r] /\ pc[r] # "idle"

\* Only its own handler moves a call and dates it.
LEMMA OwnStep ==
    ASSUME TypeOK, [Next]_vars, NEW c \in Accountable, pc'[c] # pc[c] \/ day'[c] # day[c]
    PROVE  \/ /\ c \in Reservations
              /\ CountRequest(c) \/ ChargePlatform(c) \/ Reserve(c) \/ UndoCharge(c)
           \/ EnsureInitialCredits(c)
           \/ c \in Purchases /\ (CountPurchase(c) \/ Mint(c))
           \/ c \in Reads /\ GetBalance(c)
           \/ Fail(c)
           \/ c \in Reservations \cup Purchases /\ Arrive(c, "count", today)
           \/ c \in Purchases /\ Arrive(c, "refused", NoDay)
           \/ c \in Reads /\ Arrive(c, "grant", NoDay)
  <1>0. /\ pc \in [Calls -> PCs] /\ day \in [Calls -> Days \cup {NoDay}]
        /\ Accountable \subseteq Calls /\ Reservations \subseteq Calls
        /\ \A s \in Settlements : s # c /\ s \in Calls
    BY CallsAssumption DEF TypeOK, Calls, Accountable
  <1>1. ASSUME NEW b \in Calls, NEW next \in PCs, Answer(b, next), UNCHANGED day
        PROVE  b = c
    BY <1>0, <1>1, AnswerLemma
  <1>2. {"refused", "failed", "charge", "grant", "undo", "ok", "reserve", "mint", "get"}
            \subseteq PCs
    BY DEF PCs, RedisCalls, Answered
  <1>3. ASSUME NEW q \in Reservations,
               CountRequest(q) \/ ChargePlatform(q) \/ Reserve(q) \/ UndoCharge(q)
        PROVE  q = c
    <2>1. /\ UNCHANGED day
          /\ \E next \in {"refused", "failed", "charge", "grant", "undo", "ok"} : Answer(q, next)
      BY <1>3 DEF CountRequest, ChargePlatform, Reserve, UndoCharge, AfterUndo
    <2> QED  BY <1>0, <1>1, <1>2, <2>1
  <1>4. ASSUME NEW s \in Settlements, ReadDay(s) \/ Commit(s) \/ Release(s)
        PROVE  FALSE
    <2>1. CASE ReadDay(s)
      BY <1>0, <2>1 DEF ReadDay, Goto
    <2>2. CASE Commit(s) \/ Release(s)
      <3>1. UNCHANGED day /\ \E next \in {"refused", "ok"} : Answer(s, next)
        BY <2>2 DEF Commit, Release
      <3> QED  BY <1>0, <1>1, <1>2, <3>1
    <2> QED  BY <1>4, <2>1, <2>2
  <1>5. ASSUME NEW b \in Accountable,
               \/ EnsureInitialCredits(b)
               \/ b \in Purchases /\ (CountPurchase(b) \/ Mint(b))
               \/ b \in Reads /\ GetBalance(b)
        PROVE  b = c
    <2>1. /\ UNCHANGED day
          /\ \E next \in {"refused", "grant", "ok", "reserve", "mint", "get"} : Answer(b, next)
      BY <1>5 DEF EnsureInitialCredits, CountPurchase, Mint, GetBalance, AfterGrant
    <2> QED  BY <1>0, <1>1, <1>2, <2>1
  <1>6. ASSUME NEW b \in Calls, NEW p, NEW d, Arrive(b, p, d)
        PROVE  b = c
    BY <1>0, <1>6 DEF Arrive, Goto
  <1>7. ASSUME NEW b \in Calls, Fail(b)
        PROVE  b = c
    BY <1>0, <1>7 DEF Fail, Goto
  <1>8. CASE (\E q \in Reservations : Expire(q)) \/ Midnight \/ UNCHANGED vars
    BY <1>8 DEF Expire, Midnight, vars
  <1>9. CASE \/ \E b \in Reservations \cup Purchases : Arrive(b, "count", today)
             \/ \E b \in Settlements : Arrive(b, "day", NoDay)
             \/ \E b \in Reads : Arrive(b, "grant", NoDay)
             \/ \E b \in Purchases : Arrive(b, "refused", NoDay)
    BY <1>0, <1>6, <1>9, CallsAssumption DEF Calls
  <1> QED
    BY <1>0, <1>3, <1>4, <1>5, <1>7, <1>8, <1>9, NextCases DEF Accountable

\* A call that has started keeps its day; one that starts takes the day from the clock.
LEMMA DayKept ==
    ASSUME TypeOK, [Next]_vars, NEW c \in Accountable
    PROVE  \/ KeepsDay(c)
           \/ c \in Reservations \cup Purchases /\ Arrive(c, "count", today)
           \/ c \in Purchases /\ Arrive(c, "refused", NoDay)
           \/ c \in Reads /\ Arrive(c, "grant", NoDay)
  <1>0. pc \in [Calls -> PCs] /\ c \in Calls
    BY DEF TypeOK, Calls, Accountable
  <1>1. ASSUME NEW next \in PCs \ {"idle"}, Answer(c, next), pc[c] # "idle"
        PROVE  pc'[c] # "idle"
    BY <1>0, <1>1, AnswerLemma DEF OnError
  <1>2. {"refused", "failed", "charge", "grant", "undo", "ok", "reserve", "mint", "get"}
            \subseteq PCs \ {"idle"}
    BY DEF PCs, RedisCalls, Answered
  <1>3. CASE pc'[c] = pc[c] /\ day'[c] = day[c]
    BY <1>3 DEF KeepsDay
  <1>4. CASE \/ CountRequest(c) \/ ChargePlatform(c) \/ Reserve(c) \/ UndoCharge(c)
             \/ EnsureInitialCredits(c) \/ CountPurchase(c) \/ Mint(c) \/ GetBalance(c)
    <2>1. /\ UNCHANGED day /\ pc[c] # "idle"
          /\ \E next \in {"refused", "failed", "charge", "grant", "undo", "ok",
                           "reserve", "mint", "get"} :
                Answer(c, next)
      BY <1>4 DEF CountRequest, ChargePlatform, Reserve, UndoCharge, EnsureInitialCredits,
        CountPurchase, Mint, GetBalance, AfterGrant, AfterUndo, Compensations
    <2> QED  BY <1>1, <1>2, <2>1 DEF KeepsDay
  <1>5. CASE Fail(c)
    BY <1>0, <1>5 DEF Fail, Goto, OnError, RedisCalls, KeepsDay
  <1> QED
    BY <1>3, <1>4, <1>5, OwnStep

\* A settlement leaves the budgets alone, or corrects the day that the hold was charged on.
LEMMA SettlementBudgets ==
    ASSUME TypeOK, \A r \in Reservations : Dated(r),
           NEW s \in Settlements, ReadDay(s) \/ Commit(s) \/ Release(s)
    PROVE  /\ BudgetsAlone \/ \E r, delta : Corrects(r, delta)
           /\ \A r \in Reservations : HoldDated(r)
  <1> USE DEF asked, redis, history
  <1> DEFINE q == settlement[s].hold
             actual == settlement[s].actual
  <1>1. q \in Reservations /\ actual \in Nat
    BY SettleRequestLemma DEF TypeOK
  <1>2. hold \in [Reservations -> Holds] /\ hold[q] \in Holds /\ hold[q].amount \in Nat
    BY <1>1 DEF TypeOK, Holds
  <1> HIDE DEF q, actual
  <1>3. CASE UNCHANGED <<redis, history>>
    BY <1>3 DEF BudgetsAlone, HoldDated, Dated
  <1>4. ASSUME NEW status, NEW final \in Nat, NEW amount,
               hold[q].status = "reserved", hold[q].day = day[s],
               Settle(q, day[s], status, final, amount)
        PROVE  /\ \E r, delta : Corrects(r, delta)
               /\ \A r \in Reservations : HoldDated(r)
    <2>1. pc[q] # "idle" /\ day[q] = day[s]
      BY <1>1, <1>4 DEF Dated
    <2>2. final - hold[q].amount \in Int
      BY <1>2
    <2>3. Corrects(q, final - hold[q].amount)
      BY <1>1, <1>4, <2>1, <2>2 DEF Corrects, Settle
    <2>4. ASSUME NEW r \in Reservations
          PROVE  HoldDated(r)
      <3>1. CASE r = q
        <4>1. hold'[r].day = hold[r].day
          BY <1>2, <1>4, <3>1 DEF Settle, Holds
        <4> QED  BY <1>4, <2>1, <3>1, <4>1 DEF HoldDated
      <3>2. CASE r # q
        <4>1. hold'[r] = hold[r]
          BY <1>2, <1>4, <3>2 DEF Settle
        <4> QED  BY <4>1 DEF HoldDated, Dated
      <3> QED  BY <3>1, <3>2
    <2> QED  BY <2>3, <2>4
  <1>5. CASE hold[q].status = "reserved" /\ hold[q].day = day[s] /\ CommitHold(q, day[s], actual)
    BY <1>1, <1>4, <1>5 DEF CommitHold
  <1>6. CASE hold[q].status = "reserved" /\ hold[q].day = day[s] /\ ReleaseHold(q, day[s])
    BY <1>4, <1>6 DEF ReleaseHold
  <1> QED
    BY <1>3, <1>5, <1>6 DEF ReadDay, Commit, Release, q, actual

\* Every step leaves the budgets alone, or corrects one day by what it corrects one charge.
LEMMA BudgetCases ==
    ASSUME TypeOK, \A r \in Reservations : Dated(r), [Next]_vars
    PROVE  /\ BudgetsAlone \/ \E r, delta : Corrects(r, delta)
           /\ \A r \in Reservations : HoldDated(r)
  <1> USE DEF asked, redis, history
  <1>0. hold \in [Reservations -> Holds] /\ \A c \in Reservations : credits[c] \in Nat
    <2>1. \A c \in Reservations : credits[c] \in Amounts
      BY DEF TypeOK
    <2> QED  BY <2>1, AmountsAssumption DEF TypeOK
  <1>a. UNCHANGED hold => \A r \in Reservations : HoldDated(r)
    BY DEF HoldDated, Dated
  <1>1. ASSUME NEW r \in Reservations, ChargePlatform(r) \/ UndoCharge(r)
        PROVE  BudgetsAlone \/ \E q, delta : Corrects(q, delta)
    <2>1. pc[r] # "idle" /\ credits[r] \in Int /\ -credits[r] \in Int
      BY <1>0, <1>1 DEF ChargePlatform, UndoCharge, Compensations
    <2>2. BudgetsAlone \/ Corrects(r, credits[r]) \/ Corrects(r, -credits[r])
      BY <1>1, <2>1 DEF ChargePlatform, UndoCharge, BudgetsAlone, Corrects
    <2> QED  BY <2>2
  <1>2. ASSUME NEW r \in Reservations, Reserve(r), NEW q \in Reservations
        PROVE  HoldDated(q)
    BY <1>0, <1>2 DEF Reserve, HoldDated, Dated
  <1>3. ASSUME NEW r \in Reservations, Expire(r), NEW q \in Reservations
        PROVE  HoldDated(q)
    BY <1>0, <1>3 DEF Expire, Missing, HoldDated, Dated
  <1>4. CASE \E r \in Reservations : ChargePlatform(r) \/ UndoCharge(r)
    BY <1>a, <1>1, <1>4 DEF ChargePlatform, UndoCharge
  <1>5. CASE \E r \in Reservations : Reserve(r) \/ Expire(r)
    BY <1>2, <1>3, <1>5 DEF Reserve, Expire, BudgetsAlone
  <1>6. CASE \/ \E r \in Reservations : CountRequest(r)
             \/ \E c \in Accountable : EnsureInitialCredits(c)
             \/ \E c \in Purchases : CountPurchase(c) \/ Mint(c)
             \/ \E c \in Reads : GetBalance(c)
    BY <1>a, <1>6 DEF CountRequest, EnsureInitialCredits, CountPurchase, Mint, GetBalance, BudgetsAlone
  <1>7. CASE \/ \E c \in Calls : Fail(c)
             \/ \E c \in Reservations \cup Purchases : Arrive(c, "count", today)
             \/ \E c \in Settlements : Arrive(c, "day", NoDay)
             \/ \E c \in Reads : Arrive(c, "grant", NoDay)
             \/ \E c \in Purchases : Arrive(c, "refused", NoDay)
             \/ Midnight
             \/ UNCHANGED vars
    BY <1>a, <1>7 DEF Fail, Arrive, Midnight, vars, BudgetsAlone
  <1> QED
    BY <1>4, <1>5, <1>6, <1>7, NextCases, SettlementBudgets

\* No step charges a day or corrects one without its reservations' accounts.
LEMMA BudgetsKept ==
    ASSUME TypeOK, Budgets, [Next]_vars
    PROVE  Budgets'
  <1>1. /\ platformCredits \in [Days -> Int] /\ charge \in [Reservations -> Int]
        /\ IsFiniteSet(Reservations) /\ \A r \in Reservations : Dated(r)
        /\ today \in Days /\ NoDay \notin Days
    BY FiniteAssumption DEF TypeOK, Budgets, Days, NoDay
  <1>2. \A d \in Days : platformCredits[d] = Charged(d)
    BY DEF Budgets, PlatformConservation, Charged
  <1>3. ASSUME NEW r \in Reservations
        PROVE  Dated(r)'
    <2>1. charge'[r] # charge[r] => pc[r] # "idle"
      BY <1>1, BudgetCases DEF BudgetsAlone, Corrects, AdjustPlatformCredits
    <2>2. HoldDated(r)
      BY <1>1, BudgetCases
    <2>3. CASE KeepsDay(r)
      BY <1>1, <2>1, <2>2, <2>3 DEF Dated, KeepsDay, HoldDated
    <2>4. CASE Arrive(r, "count", today)
      <3>1. pc'[r] = "count" /\ day'[r] = today /\ UNCHANGED hold /\ pc[r] = "idle"
        BY <2>4 DEF Arrive, Goto, TypeOK, Calls, redis
      <3> QED  BY <1>1, <3>1 DEF Dated
    <2> QED  BY <2>3, <2>4, CallsAssumption, DayKept DEF Accountable
  <1>4. ASSUME NEW d \in Days
        PROVE  Charged(d)' = SumFunctionOnSet(charge', {r \in Reservations : day[r] = d})
    <2> DEFINE Old == {r \in Reservations : day[r] = d}
               New == {r \in Reservations : day'[r] = d}
    <2>1. CASE \A r \in Reservations : KeepsDay(r)
      <3>1. Old = New
        BY <2>1 DEF KeepsDay
      <3> QED  BY <3>1 DEF Charged
    <2>2. ASSUME NEW r \in Reservations, Arrive(r, "count", today)
          PROVE  Charged(d)' = SumFunctionOnSet(charge', Old)
      <3>1. /\ pc[r] = "idle" /\ day'[r] = today /\ charge' = charge
            /\ \A q \in Reservations \ {r} : day'[q] = day[q]
        BY <2>2 DEF Arrive, TypeOK, Calls, history
      <3>2. charge'[r] = 0 /\ day[r] # d
        BY <1>1, <3>1 DEF Dated
      <3>3. CASE d # today
        <4>1. Old = New
          BY <3>1, <3>2, <3>3
        <4> QED  BY <4>1 DEF Charged
      <3>4. CASE d = today
        <4>1. New = Old \cup {r} /\ r \notin Old
          BY <3>1, <3>2, <3>4
        <4>2. Old \in SUBSET Reservations /\ charge' \in [Reservations -> Int]
          BY <1>1, <3>1
        <4> HIDE DEF Old, New
        <4>3. IsFiniteSet(Old) /\ Numbers(charge', Old) /\ SumFunctionOnSet(charge', Old) \in Int
          BY <1>1, <4>2, SumType
        <4>4. r \notin Old /\ charge'[r] \in Int
          BY <3>2, <4>1
        <4>5. SumFunctionOnSet(charge', Old \cup {r}) = SumFunctionOnSet(charge', Old) + charge'[r]
          BY <4>3, <4>4, SumMore
        <4>6. Charged(d)' = SumFunctionOnSet(charge', New)
          BY DEF Charged, New
        <4>7. SumFunctionOnSet(charge', New) = SumFunctionOnSet(charge', Old) + 0
          BY <3>2, <4>1, <4>5
        <4> QED  BY <4>3, <4>6, <4>7
      <3> QED  BY <3>3, <3>4
    <2> QED  BY <2>1, <2>2, CallsAssumption, DayKept DEF Accountable
  <1>5. ASSUME NEW d \in Days
        PROVE  platformCredits'[d] = Charged(d)'
    <2> DEFINE T == {r \in Reservations : day[r] = d}
    <2>1. CASE BudgetsAlone
      BY <1>2, <1>4, <2>1 DEF BudgetsAlone, Charged
    <2>2. ASSUME NEW r, NEW delta, Corrects(r, delta)
          PROVE  platformCredits'[d] = Charged(d)'
      <3>1. /\ r \in Reservations /\ delta \in Int /\ day[r] \in Days
            /\ platformCredits' = [platformCredits EXCEPT ![day[r]] = @ + delta]
        BY <1>1, <2>2 DEF Corrects, AdjustPlatformCredits, Dated
      <3>2. /\ charge'[r] = charge[r] + delta
            /\ \A q \in Reservations \ {r} : charge'[q] = charge[q]
        BY <1>1, <2>2 DEF Corrects, AdjustPlatformCredits
      <3>a. IsFiniteSet(Reservations) /\ charge \in [Reservations -> Int]
        BY <1>1
      <3>3. T \in SUBSET Reservations /\ (r \in T <=> d = day[r])
        BY <3>1
      <3>4. platformCredits[d] = SumFunctionOnSet(charge, T) /\ Charged(d)' = SumFunctionOnSet(charge', T)
        BY <1>2, <1>4 DEF Charged
      <3> HIDE DEF T
      <3>5. CASE d = day[r]
        <4>1. SumFunctionOnSet(charge', T) = SumFunctionOnSet(charge, T) + delta
          BY <3>1, <3>2, <3>a, <3>3, <3>5, SumAdjusts
        <4>2. platformCredits'[d] = platformCredits[d] + delta
          BY <1>1, <3>1, <3>5
        <4> QED  BY <3>4, <4>1, <4>2
      <3>6. CASE d # day[r]
        <4>1. SumFunctionOnSet(charge', T) = SumFunctionOnSet(charge, T)
          BY <3>1, <3>2, <3>a, <3>3, <3>6, SumAdjusts
        <4>2. platformCredits'[d] = platformCredits[d]
          BY <1>1, <3>1, <3>6
        <4> QED  BY <3>4, <4>1, <4>2
      <3> QED  BY <3>5, <3>6
    <2> QED  BY <1>1, <2>1, <2>2, BudgetCases
  <1> QED
    BY <1>3, <1>5 DEF Budgets, PlatformConservation, Charged

\* The budget counter of a day is what its reservations have charged, in every
\* reachable state.
THEOREM PlatformConserved == Spec => []PlatformConservation
  <1>1. Init => Budgets
    <2> SUFFICES ASSUME Init PROVE Budgets
      OBVIOUS
    <2>1. /\ \A d \in Days : platformCredits[d] = 0
          /\ \A r \in Reservations : /\ pc[r] = "idle" /\ charge[r] = 0 /\ day[r] = NoDay
                                     /\ hold[r].status = "missing"
      BY DEF Init, Missing, Calls
    <2>2. ASSUME NEW d \in Days
          PROVE  Charged(d) = 0
      <3> DEFINE T == {r \in Reservations : day[r] = d}
      <3>1. IsFiniteSet(T) /\ \A r \in T : charge[r] = 0
        BY <2>1, FiniteAssumption, FS_Subset
      <3> HIDE DEF T
      <3> QED  BY <3>1, SumOfZeros DEF Charged, T
    <2> QED  BY <2>1, <2>2 DEF Budgets, PlatformConservation, Dated, Charged
  <1>2. TypeOK /\ Budgets /\ [Next]_vars => Budgets'
    BY BudgetsKept
  <1>3. Budgets => PlatformConservation
    BY DEF Budgets
  <1> QED
    BY <1>1, <1>2, <1>3, TypeCorrect, PTL DEF Spec

-----------------------------------------------------------------------------
(* The daily caps *)

\* The places behind the counter of a handler.
Passed(c) ==
    pc[c] \in (IF c \in Reservations THEN {"charge", "grant", "reserve", "undo", "revert", "ok"}
               ELSE {"grant", "mint", "ok"})

CountedOn(d) == {r \in Reservations : day[r] = d /\ Passed(r)}
BoughtOn(u, d) == {c \in Purchases : who[c] = u /\ day[c] = d /\ Passed(c)}

\* DailyCaps is inductive when it also speaks of the handlers that are past the
\* counter and not yet answered.
Caps ==
    /\ \A d \in Days :
        requests[d] <= PlatformDailyLimit /\ Cardinality(CountedOn(d)) <= requests[d]
    /\ \A u \in Users, d \in Days :
        /\ purchased[u][d] <= MaxPurchasesPerDay
        /\ Cardinality(BoughtOn(u, d)) <= purchased[u][d]

\* A handler gets past its counter only by counting.
LEMMA PassedByCount ==
    ASSUME TypeOK, [Next]_vars, NEW c \in Reservations \cup Purchases, Passed(c)'
    PROVE  \/ Passed(c) /\ day'[c] = day[c]
           \/ /\ c \in Reservations /\ day'[c] = day[c]
              /\ CountRequest(c) /\ Allowed(requests[day[c]], PlatformDailyLimit)
              /\ requests' = [requests EXCEPT ![day[c]] = @ + 1]
           \/ /\ c \in Purchases /\ day'[c] = day[c]
              /\ CountPurchase(c) /\ Allowed(purchased[who[c]][day[c]], MaxPurchasesPerDay)
              /\ purchased' = [purchased EXCEPT ![who[c]][day[c]] = @ + 1]
  <1>0. /\ pc \in [Calls -> PCs] /\ c \in Calls /\ c \in Accountable
        /\ c \in Reservations => c \notin Purchases
    BY CallsAssumption DEF TypeOK, Calls, Accountable
  <1>1. ASSUME NEW next \in PCs, Answer(c, next)
        PROVE  pc'[c] \in {next, pc[c], OnError(pc[c])}
    BY <1>0, <1>1, AnswerLemma
  <1>2. {"refused", "failed", "charge", "grant", "undo", "ok", "reserve", "mint", "get"}
            \subseteq PCs
    BY DEF PCs, RedisCalls, Answered
  <1>3. CASE pc'[c] = pc[c] /\ day'[c] = day[c]
    BY <1>3 DEF Passed
  <1>4. CASE c \in Reservations /\ CountRequest(c)
    <2>1. CASE Answer(c, "refused")
      BY <1>1, <1>2, <1>4, <2>1 DEF CountRequest, Passed, OnError
    <2>2. CASE /\ Allowed(requests[day[c]], PlatformDailyLimit)
               /\ requests' = [requests EXCEPT ![day[c]] = @ + 1]
      BY <1>4, <2>2 DEF CountRequest
    <2> QED  BY <1>4, <2>1, <2>2 DEF CountRequest
  <1>5. CASE c \in Purchases /\ CountPurchase(c)
    <2>1. CASE Answer(c, "refused")
      BY <1>0, <1>1, <1>2, <1>5, <2>1 DEF CountPurchase, Passed, OnError
    <2>2. CASE /\ Allowed(purchased[who[c]][day[c]], MaxPurchasesPerDay)
               /\ purchased' = [purchased EXCEPT ![who[c]][day[c]] = @ + 1]
      BY <1>5, <2>2 DEF CountPurchase
    <2> QED  BY <1>5, <2>1, <2>2 DEF CountPurchase
  <1>6. CASE c \in Reservations /\ (ChargePlatform(c) \/ Reserve(c) \/ UndoCharge(c))
    <2>1. Passed(c) /\ UNCHANGED day
      BY <1>6 DEF ChargePlatform, Reserve, UndoCharge, Compensations, Passed
    <2> QED  BY <2>1
  <1>7. CASE EnsureInitialCredits(c) \/ (c \in Purchases /\ Mint(c))
    <2>1. Passed(c) /\ UNCHANGED day
      BY <1>0, <1>7 DEF EnsureInitialCredits, Mint, Passed
    <2> QED  BY <2>1
  <1>8. CASE Fail(c)
    <2>1. day' = day /\ (pc'[c] \in {"failed", "refused"} \/ (pc[c] = "reserve" /\ pc'[c] = "revert"))
      BY <1>0, <1>8 DEF Fail, Goto, OnError
    <2> QED  BY <1>0, <2>1 DEF Passed
  <1>9. CASE Arrive(c, "count", today) \/ Arrive(c, "refused", NoDay)
    BY <1>0, <1>9 DEF Arrive, Goto, Passed
  <1> QED
    BY <1>0, <1>3, <1>4, <1>5, <1>6, <1>7, <1>8, <1>9, OwnStep, CallsAssumption

\* At most one element more.
LEMMA OneMore ==
    ASSUME NEW S, IsFiniteSet(S), NEW x, NEW T, T \subseteq S \cup {x}
    PROVE  /\ Cardinality(S) \in Nat /\ Cardinality(T) \in Nat
           /\ Cardinality(T) <= Cardinality(S) + 1
           /\ T \subseteq S => Cardinality(T) <= Cardinality(S)
  <1>1. /\ IsFiniteSet(S \cup {x}) /\ Cardinality(S) \in Nat
        /\ Cardinality(S \cup {x}) <= Cardinality(S) + 1 /\ Cardinality(S \cup {x}) \in Nat
    BY FS_AddElement, FS_CardinalityType
  <1>2. IsFiniteSet(T) /\ Cardinality(T) <= Cardinality(S \cup {x}) /\ Cardinality(T) \in Nat
    BY <1>1, FS_Subset, FS_CardinalityType
  <1>3. T \subseteq S => Cardinality(T) <= Cardinality(S)
    BY FS_Subset
  <1> QED  BY <1>1, <1>2, <1>3

\* The requests of a day: a step counts one, or lets nobody past.
LEMMA RequestsCounted ==
    ASSUME TypeOK, Caps, [Next]_vars, NEW d \in Days
    PROVE  /\ requests'[d] <= PlatformDailyLimit
           /\ Cardinality(CountedOn(d)') <= requests'[d]
  <1> USE DEF redis
  <1>0. /\ requests \in [Days -> Nat] /\ requests[d] \in Nat /\ PlatformDailyLimit \in Nat
        /\ requests[d] <= PlatformDailyLimit /\ Cardinality(CountedOn(d)) <= requests[d]
        /\ IsFiniteSet(CountedOn(d))
    BY FiniteAssumption, AmountsAssumption, FS_Subset DEF TypeOK, Caps, CountedOn
  <1>1. CASE \E r \in Reservations :
                /\ CountRequest(r) /\ Allowed(requests[day[r]], PlatformDailyLimit)
                /\ requests' = [requests EXCEPT ![day[r]] = @ + 1]
    <2>1. PICK q \in Reservations :
                /\ CountRequest(q) /\ Allowed(requests[day[q]], PlatformDailyLimit)
                /\ requests' = [requests EXCEPT ![day[q]] = @ + 1]
      BY <1>1
    <2>2. pc[q] = "count" /\ ~Passed(q)
      BY <2>1 DEF CountRequest, Passed
    <2>3. \A r \in Reservations : r # q /\ Passed(r)' => Passed(r) /\ day'[r] = day[r]
      <3>1. ASSUME NEW r \in Reservations, r # q
            PROVE  pc'[r] = pc[r]
        <4>1. q \in Calls /\ r \in Calls /\ {"charge", "refused"} \subseteq PCs
          BY DEF Calls, PCs, RedisCalls, Answered
        <4>2. Answer(q, "charge") \/ Answer(q, "refused")
          BY <2>1 DEF CountRequest
        <4> QED  BY <3>1, <4>1, <4>2, AnswerLemma
      <3> QED  BY <2>1, <3>1 DEF CountRequest, Passed
    <2>4. day' = day
      BY <2>1 DEF CountRequest
    <2>5. CASE d = day[q]
      <3>1. requests'[d] = requests[d] + 1 /\ requests[d] < PlatformDailyLimit
        BY <1>0, <2>1, <2>5 DEF Allowed
      <3>2. CountedOn(d)' \subseteq CountedOn(d) \cup {q}
        BY <2>3 DEF CountedOn
      <3>3. Cardinality(CountedOn(d)') <= Cardinality(CountedOn(d)) + 1
            /\ Cardinality(CountedOn(d)') \in Nat /\ Cardinality(CountedOn(d)) \in Nat
        BY <1>0, <3>2, OneMore
      <3> QED  BY <1>0, <3>1, <3>3
    <2>6. CASE d # day[q]
      <3>1. requests'[d] = requests[d]
        BY <1>0, <2>1, <2>6
      <3>2. CountedOn(d)' \subseteq CountedOn(d)
        BY <2>3, <2>4, <2>6 DEF CountedOn
      <3>3. /\ Cardinality(CountedOn(d)') <= Cardinality(CountedOn(d))
            /\ Cardinality(CountedOn(d)') \in Nat /\ Cardinality(CountedOn(d)) \in Nat
        BY <1>0, <3>2, OneMore
      <3> QED  BY <1>0, <3>1, <3>3
    <2> QED  BY <2>5, <2>6
  <1>2. CASE ~ \E r \in Reservations :
                /\ CountRequest(r) /\ Allowed(requests[day[r]], PlatformDailyLimit)
                /\ requests' = [requests EXCEPT ![day[r]] = @ + 1]
    <2>1. requests' = requests
      BY <1>2, NextCases DEF CountRequest, ChargePlatform, Reserve, UndoCharge, ReadDay, Commit,
        Release, CommitHold, ReleaseHold, EnsureInitialCredits, CountPurchase, Mint, GetBalance,
        Arrive, Fail, Expire, Midnight, vars
    <2>2. \A r \in Reservations : Passed(r)' => Passed(r) /\ day'[r] = day[r]
      BY <1>2, PassedByCount, CallsAssumption
    <2>3. CountedOn(d)' \subseteq CountedOn(d)
      BY <2>2 DEF CountedOn
    <2>4. /\ Cardinality(CountedOn(d)') <= Cardinality(CountedOn(d))
          /\ Cardinality(CountedOn(d)') \in Nat /\ Cardinality(CountedOn(d)) \in Nat
      BY <1>0, <2>3, OneMore
    <2> QED  BY <1>0, <2>1, <2>4
  <1> QED  BY <1>1, <1>2

\* The top-ups of a user and a day, in the same way.
LEMMA PurchasesCounted ==
    ASSUME TypeOK, Caps, [Next]_vars, NEW u \in Users, NEW d \in Days
    PROVE  /\ purchased'[u][d] <= MaxPurchasesPerDay
           /\ Cardinality(BoughtOn(u, d)') <= purchased'[u][d]
  <1> USE DEF asked, redis
  <1>0. /\ purchased \in [Users -> [Days -> Nat]] /\ purchased[u][d] \in Nat
        /\ MaxPurchasesPerDay \in Nat /\ \A c \in Purchases : who[c] \in Users
    BY AmountsAssumption DEF TypeOK, Accountable
  <1>b. /\ purchased[u][d] <= MaxPurchasesPerDay
        /\ Cardinality(BoughtOn(u, d)) <= purchased[u][d]
    BY DEF Caps
  <1>c. IsFiniteSet(BoughtOn(u, d))
    BY FiniteAssumption, FS_Subset DEF BoughtOn
  <1>a. who' = who
    BY NextCases DEF CountRequest, ChargePlatform, Reserve, UndoCharge, ReadDay, Commit,
      Release, EnsureInitialCredits, CountPurchase, Mint, GetBalance, Arrive, Fail, Expire,
      Midnight, vars
  <1>1. CASE \E c \in Purchases :
                /\ CountPurchase(c) /\ Allowed(purchased[who[c]][day[c]], MaxPurchasesPerDay)
                /\ purchased' = [purchased EXCEPT ![who[c]][day[c]] = @ + 1]
    <2>1. PICK q \in Purchases :
                /\ CountPurchase(q) /\ Allowed(purchased[who[q]][day[q]], MaxPurchasesPerDay)
                /\ purchased' = [purchased EXCEPT ![who[q]][day[q]] = @ + 1]
      BY <1>1
    <2>2. pc[q] = "count" /\ ~Passed(q) /\ day' = day
      BY <2>1, CallsAssumption DEF CountPurchase, Passed
    <2>3. \A c \in Purchases : c # q /\ Passed(c)' => Passed(c) /\ day'[c] = day[c]
      <3>1. ASSUME NEW c \in Purchases, c # q
            PROVE  pc'[c] = pc[c]
        <4>1. q \in Calls /\ c \in Calls /\ {"grant", "refused"} \subseteq PCs
          BY DEF Calls, PCs, RedisCalls, Answered
        <4>2. Answer(q, "grant") \/ Answer(q, "refused")
          BY <2>1 DEF CountPurchase
        <4> QED  BY <3>1, <4>1, <4>2, AnswerLemma
      <3> QED  BY <2>2, <3>1 DEF Passed
    <2>5. CASE u = who[q] /\ d = day[q]
      <3>1. purchased'[u][d] = purchased[u][d] + 1 /\ purchased[u][d] < MaxPurchasesPerDay
        BY <1>0, <2>1, <2>5 DEF Allowed
      <3>2. BoughtOn(u, d)' \subseteq BoughtOn(u, d) \cup {q}
        BY <1>a, <2>3 DEF BoughtOn
      <3>3. Cardinality(BoughtOn(u, d)') <= Cardinality(BoughtOn(u, d)) + 1
            /\ Cardinality(BoughtOn(u, d)') \in Nat /\ Cardinality(BoughtOn(u, d)) \in Nat
        BY <1>c, <3>2, OneMore
      <3> QED  BY <1>0, <1>b, <3>1, <3>3
    <2>6. CASE u # who[q] \/ d # day[q]
      <3>1. purchased'[u][d] = purchased[u][d]
        BY <1>0, <2>1, <2>6
      <3>2. BoughtOn(u, d)' \subseteq BoughtOn(u, d)
        BY <1>a, <2>2, <2>3, <2>6 DEF BoughtOn
      <3>3. /\ Cardinality(BoughtOn(u, d)') <= Cardinality(BoughtOn(u, d))
            /\ Cardinality(BoughtOn(u, d)') \in Nat /\ Cardinality(BoughtOn(u, d)) \in Nat
        BY <1>c, <3>2, OneMore
      <3> QED  BY <1>0, <1>b, <3>1, <3>3
    <2> QED  BY <2>5, <2>6
  <1>2. CASE ~ \E c \in Purchases :
                /\ CountPurchase(c) /\ Allowed(purchased[who[c]][day[c]], MaxPurchasesPerDay)
                /\ purchased' = [purchased EXCEPT ![who[c]][day[c]] = @ + 1]
    <2>1. purchased' = purchased
      BY <1>2, NextCases DEF CountRequest, ChargePlatform, Reserve, UndoCharge, ReadDay, Commit,
        Release, CommitHold, ReleaseHold, EnsureInitialCredits, CountPurchase, Mint, GetBalance,
        Arrive, Fail, Expire, Midnight, vars
    <2>2. \A c \in Purchases : Passed(c)' => Passed(c) /\ day'[c] = day[c]
      BY <1>2, PassedByCount, CallsAssumption
    <2>3. BoughtOn(u, d)' \subseteq BoughtOn(u, d)
      BY <1>a, <2>2 DEF BoughtOn
    <2>4. /\ Cardinality(BoughtOn(u, d)') <= Cardinality(BoughtOn(u, d))
          /\ Cardinality(BoughtOn(u, d)') \in Nat /\ Cardinality(BoughtOn(u, d)) \in Nat
      BY <1>c, <2>3, OneMore
    <2> QED  BY <1>0, <1>b, <2>1, <2>4
  <1> QED  BY <1>1, <1>2

\* No day has more requests or top-ups than its caps, nor more holds or top-ups
\* than were counted, in every reachable state.
THEOREM CapsHold == Spec => []DailyCaps
  <1>1. Init => Caps
    <2> SUFFICES ASSUME Init PROVE Caps
      OBVIOUS
    <2>1. \A d \in Days : requests[d] = 0 /\ CountedOn(d) = {}
      BY DEF Init, CountedOn, Passed, Calls
    <2>2. \A u \in Users, d \in Days : purchased[u][d] = 0 /\ BoughtOn(u, d) = {}
      BY DEF Init, BoughtOn, Passed, Calls
    <2>3. Cardinality({}) = 0 /\ 0 <= PlatformDailyLimit /\ 0 <= MaxPurchasesPerDay
      BY AmountsAssumption, FS_EmptySet
    <2>4. \A d \in Days :
            requests[d] <= PlatformDailyLimit /\ Cardinality(CountedOn(d)) <= requests[d]
      BY <2>1, <2>3
    <2>5. \A u \in Users, d \in Days :
            /\ purchased[u][d] <= MaxPurchasesPerDay
            /\ Cardinality(BoughtOn(u, d)) <= purchased[u][d]
      BY <2>2, <2>3
    <2> QED  BY <2>4, <2>5 DEF Caps
  <1>2. TypeOK /\ Caps /\ [Next]_vars => Caps'
    BY RequestsCounted, PurchasesCounted DEF Caps
  <1>3. TypeOK /\ Caps => DailyCaps
    <2> SUFFICES ASSUME TypeOK, Caps PROVE DailyCaps
      OBVIOUS
    <2>1. ASSUME NEW d \in Days
          PROVE  Cardinality({r \in Reservations : day[r] = d /\ pc[r] = "ok"}) <= requests[d]
      <3> DEFINE Held == {r \in Reservations : day[r] = d /\ pc[r] = "ok"}
      <3>1. Held \subseteq CountedOn(d) /\ IsFiniteSet(CountedOn(d))
        BY FiniteAssumption, FS_Subset DEF CountedOn, Passed
      <3> HIDE DEF Held
      <3>2. /\ Cardinality(Held) <= Cardinality(CountedOn(d)) /\ Cardinality(Held) \in Nat
            /\ Cardinality(CountedOn(d)) \in Nat
        BY <3>1, OneMore
      <3>3. Cardinality(CountedOn(d)) <= requests[d] /\ requests[d] \in Nat
        BY DEF Caps, TypeOK
      <3>4. Cardinality(Held) <= requests[d]
        BY <3>2, <3>3
      <3> QED  BY <3>4 DEF Held
    <2>2. ASSUME NEW u \in Users, NEW d \in Days
          PROVE  Cardinality({c \in Purchases : who[c] = u /\ day[c] = d /\ pc[c] = "ok"})
                    <= purchased[u][d]
      <3> DEFINE Sold == {c \in Purchases : who[c] = u /\ day[c] = d /\ pc[c] = "ok"}
      <3>1. Sold \subseteq BoughtOn(u, d) /\ IsFiniteSet(BoughtOn(u, d))
        BY FiniteAssumption, FS_Subset DEF BoughtOn, Passed
      <3> HIDE DEF Sold
      <3>2. /\ Cardinality(Sold) <= Cardinality(BoughtOn(u, d)) /\ Cardinality(Sold) \in Nat
            /\ Cardinality(BoughtOn(u, d)) \in Nat
        BY <3>1, OneMore
      <3>3. Cardinality(BoughtOn(u, d)) <= purchased[u][d] /\ purchased[u][d] \in Nat
        BY DEF Caps, TypeOK
      <3>4. Cardinality(Sold) <= purchased[u][d]
        BY <3>2, <3>3
      <3> QED  BY <3>4 DEF Sold
    <2> QED  BY <2>1, <2>2 DEF Caps, DailyCaps
  <1> QED
    BY <1>1, <1>2, <1>3, TypeCorrect, PTL DEF Spec

-----------------------------------------------------------------------------
(* The life of a hold *)

\* The stage of a hold is read off its status, and off the place of its handler
\* when there is no hash.
LEMMA StageLemma ==
    ASSUME NEW r \in Reservations
    PROVE  /\ hold[r].status = "reserved" => StageOf(r) = "open"
           /\ hold[r].status = "committed" => StageOf(r) = "billed"
           /\ hold[r].status = "released" => StageOf(r) = "returned"
           /\ hold[r].status = "missing" => StageOf(r) = IF pc[r] = "ok" THEN "gone" ELSE "none"
           /\ hold'[r].status = "reserved" => StageOf(r)' = "open"
           /\ hold'[r].status = "committed" => StageOf(r)' = "billed"
           /\ hold'[r].status = "released" => StageOf(r)' = "returned"
           /\ hold'[r].status = "missing" => StageOf(r)' = IF pc'[r] = "ok" THEN "gone" ELSE "none"
           /\ hold'[r].status = hold[r].status /\ (pc'[r] = "ok" <=> pc[r] = "ok")
                => StageOf(r)' = StageOf(r)
  BY DEF StageOf

\* What a step does to the lives of the holds: nothing, or it takes one of them one
\* step further.
LivesOn ==
    \A r \in Reservations : StageOf(r)' = StageOf(r) /\ debit'[r] = debit[r]

Moves(q, stage, bill) ==
    /\ q \in Reservations
    /\ StageOf(q)' = stage /\ debit'[q] = bill
    /\ \A r \in Reservations \ {q} : StageOf(r)' = StageOf(r) /\ debit'[r] = debit[r]

LifeStep(q) ==
    \/ \E n \in Amounts \cup Actuals :
        \/ StageOf(q) = "none" /\ Moves(q, "open", n)
        \/ StageOf(q) = "open" /\ Moves(q, "billed", n)
    \/ StageOf(q) = "open" /\ Moves(q, "returned", 0)
    \/ StageOf(q) \in {"open", "billed", "returned"} /\ Moves(q, "gone", debit[q])

\* These are the steps of HoldLife.
LEMMA LifeLemma ==
    ASSUME TypeOK, TypeOK', LivesOn \/ \E q \in Reservations : LifeStep(q)
    PROVE  [Life!Next]_<<[r \in Reservations |-> StageOf(r)], debit>>
  <1> DEFINE stages == [r \in Reservations |-> StageOf(r)]
  <1>1. /\ debit = [r \in Reservations |-> debit[r]] /\ debit' = [r \in Reservations |-> debit'[r]]
        /\ debit \in [Reservations -> Int]
    BY DEF TypeOK
  <1>2. CASE LivesOn
    <2>1. stages' = stages /\ debit' = debit
      BY <1>1, <1>2 DEF LivesOn
    <2> QED  BY <2>1
  <1>3. ASSUME NEW q \in Reservations, LifeStep(q)
        PROVE  Life!Next
    <2>1. ASSUME NEW stage, NEW bill, Moves(q, stage, bill)
          PROVE  stages' = [stages EXCEPT ![q] = stage] /\ debit' = [debit EXCEPT ![q] = bill]
      BY <1>1, <2>1 DEF Moves
    <2>2. stages[q] = StageOf(q)
      OBVIOUS
    <2>3. ASSUME NEW n \in Amounts \cup Actuals, StageOf(q) = "none", Moves(q, "open", n)
          PROVE  Life!Take(q, n)
      BY <2>1, <2>2, <2>3 DEF Life!Take
    <2>4. ASSUME NEW n \in Amounts \cup Actuals, StageOf(q) = "open", Moves(q, "billed", n)
          PROVE  Life!Bill(q, n)
      BY <2>1, <2>2, <2>4 DEF Life!Bill
    <2>5. ASSUME StageOf(q) = "open", Moves(q, "returned", 0)
          PROVE  Life!Return(q)
      BY <2>1, <2>2, <2>5 DEF Life!Return
    <2>6. ASSUME StageOf(q) \in {"open", "billed", "returned"}, Moves(q, "gone", debit[q])
          PROVE  Life!Expire(q)
      <3>1. debit' = [debit EXCEPT ![q] = debit[q]]
        BY <2>1, <2>6
      <3>2. debit' = debit
        BY <1>1, <3>1
      <3> QED  BY <2>1, <2>2, <2>6, <3>2 DEF Life!Expire
    <2> QED
      BY <1>3, <2>3, <2>4, <2>5, <2>6 DEF LifeStep, Life!Next
  <1> QED  BY <1>2, <1>3

\* When no reply is lost, a reservation is answered "ok" by the script that took
\* its credits, and stays answered.
LEMMA OkIsTaken ==
    ASSUME MaxLost = 0, TypeOK, [Next]_vars, NEW r \in Reservations
    PROVE  \/ pc'[r] = "ok" <=> pc[r] = "ok"
           \/ Reserve(r) /\ AdjustBalance(r, -credits[r])
  <1>0. /\ r \in Calls /\ r \in Accountable /\ pc \in [Calls -> PCs]
        /\ r \notin Purchases /\ r \notin Reads
    BY CallsAssumption DEF TypeOK, Calls, Accountable
  <1>1. ASSUME NEW next \in PCs, Answer(r, next)
        PROVE  pc'[r] = next
    <2>1. lost' \in [Calls -> 0 .. MaxLost]
      BY <1>0, <1>1, AnswerLemma
    <2>2. lost'[r] = 0
      BY <1>0, <2>1
    <2> QED  BY <1>0, <1>1, <2>2, AnswerLemma
  <1>2. {"refused", "failed", "charge", "grant", "undo", "reserve"} \subseteq PCs \ {"ok"}
    BY DEF PCs, RedisCalls, Answered
  <1>3. CASE CountRequest(r) \/ ChargePlatform(r) \/ UndoCharge(r) \/ EnsureInitialCredits(r)
    <2>1. /\ pc[r] # "ok"
          /\ \E next \in {"refused", "failed", "charge", "grant", "reserve"} : Answer(r, next)
      BY <1>3 DEF CountRequest, ChargePlatform, UndoCharge, EnsureInitialCredits, AfterGrant,
        AfterUndo, Compensations
    <2> QED  BY <1>1, <1>2, <2>1
  <1>4. CASE Reserve(r)
    <2>1. pc[r] # "ok"
      BY <1>4 DEF Reserve
    <2>2. CASE Answer(r, "undo")
      BY <1>1, <1>2, <2>1, <2>2
    <2> QED  BY <1>4, <2>2 DEF Reserve
  <1>5. CASE Fail(r)
    BY <1>0, <1>5 DEF Fail, Goto, OnError, RedisCalls
  <1>6. CASE Arrive(r, "count", today)
    BY <1>0, <1>6 DEF Arrive, Goto
  <1> QED
    BY <1>0, <1>3, <1>4, <1>5, <1>6, OwnStep

\* A settlement of an open hold is a step of its life.
LEMMA SettlementLives ==
    ASSUME MaxLost = 0, TypeOK, Books, [Next]_vars,
           NEW s \in Settlements, ReadDay(s) \/ Commit(s) \/ Release(s)
    PROVE  LivesOn \/ \E q \in Reservations : LifeStep(q)
  <1> USE DEF asked, redis, history
  <1>a. /\ settlement[s].hold \in Reservations
        /\ settlement[s].op = "commit" => settlement[s].actual \in Actuals
    <2>1. settlement[s] \in SettleRequests
      BY DEF TypeOK
    <2> QED  BY <2>1 DEF SettleRequests
  <1>b. PICK q, actual : q = settlement[s].hold /\ actual = settlement[s].actual
    BY <1>a
  <1>1. q \in Reservations /\ (settlement[s].op = "commit" => actual \in Actuals)
    BY <1>a, <1>b
  <1>2. /\ hold \in [Reservations -> Holds] /\ debit \in [Reservations -> Int]
        /\ hold[q] \in Holds /\ hold[q].amount \in Nat
    BY <1>1 DEF TypeOK, Holds
  <1>3. \A r \in Reservations : pc'[r] = pc[r]
    <2>1. \A r \in Reservations : r # s /\ r \in Calls /\ s \in Calls
      BY CallsAssumption DEF Calls
    <2>2. {"refused", "ok"} \subseteq PCs /\ pc \in [Calls -> PCs]
      BY DEF PCs, RedisCalls, Answered, TypeOK
    <2>3. CASE ReadDay(s)
      BY <2>1, <2>2, <2>3 DEF ReadDay, Goto
    <2>4. CASE Commit(s) \/ Release(s)
      <3>1. \E next \in {"refused", "ok"} : Answer(s, next)
        BY <2>4 DEF Commit, Release
      <3> QED  BY <2>1, <2>2, <3>1, AnswerLemma
    <2> QED  BY <2>3, <2>4
  <1>4. CASE UNCHANGED <<redis, history>>
    BY <1>3, <1>4, StageLemma DEF LivesOn
  <1>5. ASSUME NEW d, NEW status \in {"committed", "released"}, NEW final \in Nat, NEW amount,
               hold[q].status = "reserved", Settle(q, d, status, final, amount)
        PROVE  /\ StageOf(q) = "open"
               /\ Moves(q, IF status = "committed" THEN "billed" ELSE "returned", final)
    <2>1. lost[q] = 0 /\ q \in Calls
      BY <1>1 DEF TypeOK, Calls
    <2>2. pc[q] \in PCs /\ BooksOf(q) /\ pc[q] \notin {"day", "settle", "mint", "get"}
      BY <1>1, <2>1 DEF TypeOK, Books, OwnPlace
    <2>3. debit[q] = hold[q].amount
      BY <1>5, <2>2 DEF BooksOf, Untouched, PCs, RedisCalls, Answered
    <2>4. debit'[q] = debit[q] - (hold[q].amount - final)
      BY <1>1, <1>2, <1>5 DEF Settle, AdjustBalance
    <2>5. debit'[q] = final
      BY <1>2, <2>3, <2>4
    <2>6. hold'[q].status = status
      BY <1>1, <1>2, <1>5 DEF Settle, Holds
    <2>7. \A r \in Reservations \ {q} : hold'[r] = hold[r] /\ debit'[r] = debit[r]
      BY <1>2, <1>5 DEF Settle, AdjustBalance
    <2>8. \A r \in Reservations \ {q} : StageOf(r)' = StageOf(r)
      BY <1>3, <2>7, StageLemma
    <2>9. StageOf(q) = "open"
      BY <1>1, <1>5, StageLemma
    <2>10. CASE status = "committed"
      <3>1. hold'[q].status = "committed"
        BY <2>6, <2>10
      <3>2. StageOf(q)' = "billed"
        BY <1>1, <3>1, StageLemma
      <3> QED  BY <1>1, <2>5, <2>7, <2>8, <2>9, <2>10, <3>2 DEF Moves
    <2>11. CASE status = "released"
      <3>1. hold'[q].status = "released"
        BY <2>6, <2>11
      <3>2. StageOf(q)' = "returned"
        BY <1>1, <3>1, StageLemma
      <3> QED  BY <1>1, <2>5, <2>7, <2>8, <2>9, <2>11, <3>2 DEF Moves
    <2> QED  BY <2>10, <2>11
  <1>6. CASE settlement[s].op = "commit" /\ hold[q].status = "reserved" /\ CommitHold(q, day[s], actual)
    <2>1. actual \in Nat /\ actual \in Actuals
      BY <1>1, <1>6, AmountsAssumption
    <2>2. StageOf(q) = "open" /\ Moves(q, "billed", actual)
      BY <1>5, <1>6, <2>1 DEF CommitHold
    <2> QED  BY <1>1, <2>1, <2>2 DEF LifeStep
  <1>7. CASE hold[q].status = "reserved" /\ ReleaseHold(q, day[s])
    <2>1. StageOf(q) = "open" /\ Moves(q, "returned", 0)
      BY <1>5, <1>7 DEF ReleaseHold
    <2> QED  BY <1>1, <2>1 DEF LifeStep
  <1> QED
    BY <1>4, <1>6, <1>7, <1>b DEF ReadDay, Commit, Release

\* Without lost replies, a step leaves every hold alone, or takes, bills, returns or loses one.
LEMMA HoldSteps ==
    ASSUME MaxLost = 0, TypeOK, Books, [Next]_vars
    PROVE  LivesOn \/ \E q \in Reservations : LifeStep(q)
  <1> USE DEF asked, redis, history
  <1>0. hold \in [Reservations -> Holds] /\ debit \in [Reservations -> Int]
    BY DEF TypeOK
  <1>1. CASE /\ UNCHANGED <<hold, debit>>
             /\ \A r \in Reservations : pc'[r] = "ok" <=> pc[r] = "ok"
    BY <1>1, StageLemma DEF LivesOn
  <1>2. ASSUME NEW q \in Reservations, Reserve(q), AdjustBalance(q, -credits[q])
        PROVE  LifeStep(q)
    <2>1. credits[q] \in Amounts /\ credits[q] \in Nat \ {0}
      <3>1. credits[q] \in Amounts
        BY DEF TypeOK
      <3>2. credits[q] \in Nat \ {0}
        BY <3>1, AmountsAssumption
      <3> QED  BY <3>1, <3>2
    <2>2. debit[q] = 0 /\ hold[q].status = "missing" /\ pc[q] # "ok"
      <3>1. lost[q] = 0
        BY DEF TypeOK, Calls
      <3> QED  BY <1>2, <3>1 DEF Reserve, Books, BooksOf, Untouched
    <2>3. debit' = [debit EXCEPT ![q] = @ - (-credits[q])]
      BY <1>2 DEF AdjustBalance
    <2>4. debit'[q] = credits[q] /\ \A r \in Reservations \ {q} : debit'[r] = debit[r]
      BY <1>0, <2>1, <2>2, <2>3
    <2>5. debit' # debit
      BY <2>1, <2>2, <2>4
    <2>6. hold' = [hold EXCEPT ![q] =
                [status |-> "reserved", amount |-> credits[q], day |-> day[q]]]
      BY <1>2, <2>5 DEF Reserve
    <2>7. hold'[q].status = "reserved" /\ \A r \in Reservations \ {q} : hold'[r] = hold[r]
      BY <1>0, <2>6
    <2>8. ASSUME NEW r \in Reservations \ {q}
          PROVE  StageOf(r)' = StageOf(r)
      <3>1. q \in Calls /\ r \in Calls /\ {"undo", "ok"} \subseteq PCs
        BY DEF Calls, PCs, RedisCalls, Answered
      <3>2. Answer(q, "undo") \/ Answer(q, "ok")
        BY <1>2 DEF Reserve
      <3>3. pc'[r] = pc[r]
        BY <3>1, <3>2, AnswerLemma
      <3> QED  BY <2>7, <3>3, StageLemma
    <2>9. StageOf(q) = "none" /\ StageOf(q)' = "open"
      BY <2>2, <2>7, StageLemma
    <2>10. Moves(q, "open", credits[q])
      BY <2>4, <2>8, <2>9 DEF Moves
    <2> QED  BY <2>1, <2>9, <2>10 DEF LifeStep
  <1>3. ASSUME NEW q \in Reservations, Expire(q)
        PROVE  LifeStep(q)
    <2>1. /\ hold[q].status \in {"reserved", "committed", "released"}
          /\ hold'[q].status = "missing" /\ \A r \in Reservations \ {q} : hold'[r] = hold[r]
          /\ UNCHANGED <<debit, pc>>
      BY <1>0, <1>3 DEF Expire, Missing
    <2>2. pc[q] = "ok"
      <3>1. lost[q] = 0 /\ pc[q] \in PCs
        BY DEF TypeOK, Calls
      <3>2. BooksOf(q) /\ pc[q] \notin {"day", "settle", "mint", "get"}
        BY <3>1 DEF Books, OwnPlace
      <3> QED  BY <2>1, <3>1, <3>2 DEF BooksOf, Untouched, PCs, RedisCalls, Answered
    <2>3. StageOf(q) \in {"open", "billed", "returned"} /\ StageOf(q)' = "gone"
      BY <2>1, <2>2, StageLemma
    <2>4. \A r \in Reservations \ {q} : StageOf(r)' = StageOf(r)
      BY <2>1, StageLemma
    <2>5. Moves(q, "gone", debit[q])
      BY <2>1, <2>3, <2>4 DEF Moves
    <2> QED  BY <2>3, <2>5 DEF LifeStep
  <1>4. CASE UNCHANGED <<hold, debit>>
    <2>1. ASSUME NEW r \in Reservations
          PROVE  pc'[r] = "ok" <=> pc[r] = "ok"
      <3>1. CASE Reserve(r) /\ AdjustBalance(r, -credits[r])
        <4>1. credits[r] \in Amounts /\ debit[r] \in Int
          BY DEF TypeOK
        <4>2. credits[r] \in Nat \ {0}
          BY <4>1, AmountsAssumption
        <4>3. debit'[r] = debit[r] - (-credits[r])
          BY <1>0, <3>1 DEF AdjustBalance
        <4> QED  BY <1>4, <4>1, <4>2, <4>3
      <3> QED  BY <3>1, OkIsTaken
    <2> QED  BY <1>1, <1>4, <2>1
  <1>5. CASE \E r \in Reservations : Reserve(r)
    <2>1. PICK r \in Reservations : Reserve(r)
      BY <1>5
    <2>2. UNCHANGED <<hold, debit>> \/ AdjustBalance(r, -credits[r])
      BY <2>1 DEF Reserve
    <2> QED  BY <1>2, <1>4, <2>1, <2>2
  <1>6. CASE \/ \E r \in Reservations : CountRequest(r) \/ ChargePlatform(r) \/ UndoCharge(r)
             \/ \E c \in Accountable : EnsureInitialCredits(c)
             \/ \E c \in Purchases : CountPurchase(c) \/ Mint(c)
             \/ \E c \in Reads : GetBalance(c)
    BY <1>4, <1>6 DEF CountRequest, ChargePlatform, UndoCharge, EnsureInitialCredits,
      AdjustPlatformCredits, CountPurchase, Mint, GetBalance
  <1>7. CASE \/ \E c \in Calls : Fail(c)
             \/ \E c \in Reservations \cup Purchases : Arrive(c, "count", today)
             \/ \E c \in Settlements : Arrive(c, "day", NoDay)
             \/ \E c \in Reads : Arrive(c, "grant", NoDay)
             \/ \E c \in Purchases : Arrive(c, "refused", NoDay)
             \/ Midnight
             \/ UNCHANGED vars
    BY <1>4, <1>7 DEF Fail, Arrive, Midnight, vars
  <1> QED
    BY <1>3, <1>5, <1>6, <1>7, NextCases, SettlementLives

\* When no reply of Redis is lost, the handlers keep the promise that HoldLife.tla
\* states and Gateway.tla relies on: a hold is taken once, then billed, returned or
\* lost to its TTL, and its user pays for it at no other time.
THEOREM PromiseKept ==
    ASSUME MaxLost = 0
    PROVE  Spec => HoldsKeepTheirPromise
  <1>1. Init => Life!Init
    <2> SUFFICES ASSUME Init PROVE Life!Init
      OBVIOUS
    <2>1. /\ debit = [r \in Reservations |-> 0]
          /\ \A r \in Reservations : hold[r].status = "missing" /\ pc[r] = "idle"
      BY DEF Init, Missing, Calls
    <2>2. \A r \in Reservations : StageOf(r) = "none"
      BY <2>1, StageLemma
    <2> QED  BY <2>1, <2>2 DEF Life!Init
  <1>2. TypeOK /\ TypeOK' /\ Books /\ [Next]_vars
            => [Life!Next]_<<[r \in Reservations |-> StageOf(r)], debit>>
    BY HoldSteps, LifeLemma
  <1> QED
    BY <1>1, <1>2, TypeCorrect, BooksCorrect, PTL DEF Spec, HoldsKeepTheirPromise, Life!Spec

-----------------------------------------------------------------------------
(* The outcome of a hold *)

\* No step takes back a lost reply.
LEMMA LostStays ==
    ASSUME TypeOK, [Next]_vars, NEW c \in Calls, lost'[c] = 0
    PROVE  lost[c] = 0
  <1>1. ASSUME NEW b \in Calls, NEW next \in PCs, Answer(b, next)
        PROVE  lost[c] = 0
    BY <1>1, AnswerLemma
  <1>2. {"refused", "failed", "charge", "grant", "undo", "ok", "reserve", "mint", "get"}
            \subseteq PCs
    BY DEF PCs, RedisCalls, Answered
  <1>3. ASSUME NEW q \in Reservations,
               CountRequest(q) \/ ChargePlatform(q) \/ Reserve(q) \/ UndoCharge(q)
        PROVE  lost[c] = 0
    <2>1. \E next \in {"refused", "failed", "charge", "grant", "undo", "ok"} : Answer(q, next)
      BY <1>3 DEF CountRequest, ChargePlatform, Reserve, UndoCharge, AfterUndo
    <2> QED  BY <1>1, <1>2, <2>1 DEF Calls
  <1>4. ASSUME NEW s \in Settlements, ReadDay(s) \/ Commit(s) \/ Release(s)
        PROVE  lost[c] = 0
    <2>1. CASE ReadDay(s)
      BY <2>1 DEF ReadDay
    <2>2. CASE Commit(s) \/ Release(s)
      <3>1. \E next \in {"refused", "ok"} : Answer(s, next)
        BY <2>2 DEF Commit, Release
      <3> QED  BY <1>1, <1>2, <3>1 DEF Calls
    <2> QED  BY <1>4, <2>1, <2>2
  <1>5. ASSUME NEW b \in Accountable,
               \/ EnsureInitialCredits(b)
               \/ b \in Purchases /\ (CountPurchase(b) \/ Mint(b))
               \/ b \in Reads /\ GetBalance(b)
        PROVE  lost[c] = 0
    <2>1. \E next \in {"refused", "grant", "ok", "reserve", "mint", "get"} : Answer(b, next)
      BY <1>5 DEF EnsureInitialCredits, CountPurchase, Mint, GetBalance, AfterGrant
    <2> QED  BY <1>1, <1>2, <2>1 DEF Calls, Accountable
  <1>6. ASSUME NEW b, NEW p, NEW d, Arrive(b, p, d) \/ Fail(b) \/ Expire(b)
        PROVE  lost[c] = 0
    BY <1>6 DEF Arrive, Fail, Expire
  <1>7. CASE Midnight \/ UNCHANGED vars
    BY <1>7 DEF Midnight, vars
  <1> QED
    BY <1>3, <1>4, <1>5, <1>6, <1>7, NextCases

\* A settlement is told "ok" by its own script only, which finds the hold open or
\* already ended that way and leaves it ended that way.
EndsHold(s) ==
    LET q == settlement[s].hold
    IN  /\ hold[q].status \in {"reserved", OutcomeOf(s)}
        /\ hold'[q].status = OutcomeOf(s)
        /\ \A c \in Calls \ {s} : pc'[c] = pc[c]

\* Whoever is told "ok" was told so before or has just ended the hold.
LEMMA OkEndsHold ==
    ASSUME TypeOK, [Next]_vars, NEW s \in Settlements, pc'[s] = "ok"
    PROVE  pc[s] = "ok" \/ EndsHold(s)
  <1>0. /\ pc \in [Calls -> PCs] /\ s \in Calls /\ s \notin Accountable
        /\ hold \in [Reservations -> Holds] /\ settlement[s].hold \in Reservations
    BY CallsAssumption, SettleRequestLemma DEF TypeOK, Calls, Accountable
  <1>1. SUFFICES ASSUME pc[s] # "ok" PROVE EndsHold(s)
    OBVIOUS
  <1>2. {"refused", "failed", "charge", "grant", "undo", "ok", "reserve", "mint", "get"}
            \subseteq PCs
    BY DEF PCs, RedisCalls, Answered
  <1>3. ASSUME NEW b \in Calls, NEW next \in PCs, Answer(b, next)
        PROVE  b = s /\ next = "ok" /\ \A c \in Calls \ {s} : pc'[c] = pc[c]
    <2>1. b = s
      BY <1>0, <1>1, <1>3, AnswerLemma
    <2>2. next = "ok"
      BY <1>0, <1>1, <1>3, <2>1, AnswerLemma DEF OnError
    <2> QED  BY <1>3, <2>1, <2>2, AnswerLemma
  <1>4. ASSUME NEW q \in Reservations,
               CountRequest(q) \/ ChargePlatform(q) \/ Reserve(q) \/ UndoCharge(q)
        PROVE  FALSE
    <2>1. \E next \in {"refused", "failed", "charge", "grant", "undo", "ok"} : Answer(q, next)
      BY <1>4 DEF CountRequest, ChargePlatform, Reserve, UndoCharge, AfterUndo
    <2> QED  BY <1>0, <1>2, <1>3, <2>1 DEF Calls, Accountable
  <1>5. ASSUME NEW b \in Accountable,
               \/ EnsureInitialCredits(b)
               \/ b \in Purchases /\ (CountPurchase(b) \/ Mint(b))
               \/ b \in Reads /\ GetBalance(b)
        PROVE  FALSE
    <2>1. \E next \in {"refused", "grant", "ok", "reserve", "mint", "get"} : Answer(b, next)
      BY <1>5 DEF EnsureInitialCredits, CountPurchase, Mint, GetBalance, AfterGrant
    <2> QED  BY <1>0, <1>2, <1>3, <2>1 DEF Calls, Accountable
  <1>6. ASSUME NEW b \in Calls, NEW p \in {"count", "day", "grant", "refused"}, NEW d,
               Arrive(b, p, d) \/ Fail(b)
        PROVE  FALSE
    <2>1. CASE Arrive(b, p, d)
      BY <1>0, <1>1, <2>1 DEF Arrive, Goto
    <2>2. CASE Fail(b)
      BY <1>0, <1>1, <2>2 DEF Fail, Goto, OnError
    <2> QED  BY <1>6, <2>1, <2>2
  <1>7. CASE (\E q \in Reservations : Expire(q)) \/ Midnight \/ UNCHANGED vars
    BY <1>1, <1>7 DEF Expire, Midnight, vars
  <1>8. ASSUME NEW t \in Settlements, ReadDay(t) \/ Commit(t) \/ Release(t)
        PROVE  EndsHold(s)
    <2>1. t \in Calls
      BY DEF Calls
    <2>2. ~ReadDay(t)
      BY <1>0, <1>1, <2>1 DEF ReadDay, Goto
    <2>3. ~Answer(t, "refused")
      BY <1>2, <1>3, <2>1
    <2>4. Answer(t, "ok")
      BY <1>8, <2>2, <2>3 DEF Commit, Release
    <2>5. t = s /\ \A c \in Calls \ {s} : pc'[c] = pc[c]
      BY <1>2, <1>3, <2>1, <2>4
    <2>6. CASE Commit(s)
      BY <1>0, <2>3, <2>5, <2>6 DEF Commit, CommitHold, Settle, Holds, EndsHold, OutcomeOf,
        redis
    <2>7. CASE Release(s)
      BY <1>0, <2>3, <2>5, <2>7 DEF Release, ReleaseHold, Settle, Holds, EndsHold, OutcomeOf,
        redis
    <2> QED  BY <1>8, <2>2, <2>5, <2>6, <2>7
  <1>9. CASE \/ \E b \in Reservations \cup Purchases : Arrive(b, "count", today)
             \/ \E b \in Settlements : Arrive(b, "day", NoDay)
             \/ \E b \in Reads : Arrive(b, "grant", NoDay)
             \/ \E b \in Purchases : Arrive(b, "refused", NoDay)
    BY <1>6, <1>9 DEF Calls
  <1>10. CASE \E b \in Calls : Fail(b)
    BY <1>6, <1>10
  <1> QED
    BY <1>4, <1>5, <1>7, <1>8, <1>9, <1>10, NextCases

\* A settlement that was told "ok" settled a hold whose reservation is answered.
Settled(s) ==
    Told(s) =>
        /\ pc[settlement[s].hold] = "ok"
        /\ hold[settlement[s].hold].status \in {OutcomeOf(s), "missing"}

\* Settlements of one hold that are told "ok" are all commits or all releases, and
\* the hold ended that way.
THEOREM OutcomesAgree == Spec => []OneOutcome
  <1> DEFINE Inv == OneOutcome /\ \A s \in Settlements : Settled(s)
  <1>1. Init => Inv
    BY DEF Init, OneOutcome, Settled, Told, Calls
  <1>2. TypeOK /\ Books /\ Inv /\ [Next]_vars => Inv'
    <2> SUFFICES ASSUME TypeOK, Books, Inv, [Next]_vars PROVE Inv'
      OBVIOUS
    <2>0. /\ settlement' = settlement
          /\ \A s \in Settlements : settlement[s].hold \in Reservations
          /\ \A r \in Reservations : r \in Calls /\ pc[r] \in PCs /\ r \notin Settlements
      <3>1. settlement' = settlement
        BY NextCases DEF vars, asked, Midnight, Expire, Fail, Arrive, EnsureInitialCredits,
          CountPurchase, Mint, GetBalance, ReadDay, Commit, Release, CountRequest,
          ChargePlatform, Reserve, UndoCharge
      <3> QED  BY <3>1, CallsAssumption, SettleRequestLemma DEF TypeOK, Calls
    <2>1. ASSUME NEW s \in Settlements, Told(s)'
          PROVE  Told(s) \/ EndsHold(s)
      BY <2>0, <2>1, LostStays, OkEndsHold DEF Told
    <2>2. ASSUME NEW s \in Settlements, Told(s)
          PROVE  /\ pc'[settlement[s].hold] = "ok"
                 /\ hold'[settlement[s].hold].status \in {OutcomeOf(s), "missing"}
      <3>1. Closed(settlement[s].hold)
        BY <2>2 DEF Settled, Closed, Answered, OutcomeOf
      <3> QED  BY <2>0, <2>2, <3>1, ClosedStays DEF Settled
    <2>3. ASSUME NEW s \in Settlements, Told(s)', EndsHold(s)
          PROVE  /\ pc'[settlement[s].hold] = "ok"
                 /\ hold'[settlement[s].hold].status = OutcomeOf(s)
      <3> DEFINE q == settlement[s].hold
      <3>1. q \in Reservations /\ lost[q] = 0 /\ BooksOf(q) /\ OwnPlace(q)
        BY <2>0, <2>3, LostStays DEF Told, Books
      <3>2. hold[q].status # "missing"
        BY <2>3 DEF EndsHold, OutcomeOf
      <3>3. pc[q] = "ok"
        BY <2>0, <3>1, <3>2 DEF BooksOf, Untouched, OwnPlace, PCs, RedisCalls, Answered
      <3> QED  BY <2>0, <2>3, <3>1, <3>3 DEF EndsHold
    <2>4. ASSUME NEW s \in Settlements PROVE Settled(s)'
      BY <2>0, <2>1, <2>2, <2>3 DEF Settled, OutcomeOf
    <2>5. ASSUME NEW s \in Settlements, NEW t \in Settlements, Told(s)', Told(t)',
                 settlement[t].hold = settlement[s].hold
          PROVE  OutcomeOf(t) = OutcomeOf(s)
      <3>1. CASE Told(s) /\ Told(t)
        BY <2>5, <3>1 DEF OneOutcome, OutcomeOf
      <3>2. CASE Told(s) /\ EndsHold(t)
        BY <2>5, <3>2 DEF Settled, EndsHold, OutcomeOf
      <3>3. CASE Told(t) /\ EndsHold(s)
        BY <2>5, <3>3 DEF Settled, EndsHold, OutcomeOf
      <3>4. CASE EndsHold(s) /\ EndsHold(t)
        BY <2>5, <3>4 DEF EndsHold
      <3> QED  BY <2>1, <2>5, <3>1, <3>2, <3>3, <3>4
    <2>6. \A s \in Settlements : settlement[s].op \in {"commit", "release"}
      BY SettleRequestLemma DEF TypeOK
    <2> QED
      BY <2>0, <2>4, <2>5, <2>6 DEF OneOutcome, Settled, OutcomeOf
  <1> QED
    BY <1>1, <1>2, TypeCorrect, BooksCorrect, PTL DEF Spec, Settled, OneOutcome

=============================================================================
