------------------------------- MODULE Usage -------------------------------
(***************************************************************************)
(* The usage service (src/cmd/usage): credits held, settled, granted and   *)
(* topped up in Redis by HTTP handlers that run concurrently.              *)
(*                                                                         *)
(* A handler is a short sequence of Redis calls.  Each call (a Lua script  *)
(* or a single command) is atomic; between two of them any other handler,  *)
(* the TTL of a key, midnight, a cancelled request or a crash may come.    *)
(* So there is one action per Redis call, and pc[c] names the call that    *)
(* handler c makes next.                                                   *)
(*                                                                         *)
(* A reply can be lost after Redis executed the command.  The client       *)
(* library then either sends the command again or gives the handler an     *)
(* error: see Answer.                                                      *)
(***************************************************************************)
EXTENDS Integers, FiniteSetsExt

CONSTANTS
    Users,
    Reservations,        \* POST /v1/reservations calls, one fresh id each
    Settlements,         \* commit and release calls
    Purchases,           \* POST /v1/credits/purchase calls
    Reads,               \* GET /v1/users/{userId}/balance calls
    Amounts,             \* estimated_credits of a hold, credits of a top-up
    Actuals,             \* actual_credits of a commit
    LastDay,             \* bound on the UTC day
    MaxLost,             \* bound on the lost replies of one call
    PlatformDailyLimit,  \* PLATFORM_DAILY_REQUEST_LIMIT
    PlatformCreditLimit, \* PLATFORM_DAILY_CREDIT_LIMIT
    InitialCredits,      \* INITIAL_CREDITS
    MaxPurchasesPerDay,  \* MAX_PURCHASES_PER_DAY_PER_USER
    EnablePurchase       \* ENABLE_PURCHASE_API

ASSUME CallsAssumption ==
    /\ Reservations \cap (Settlements \cup Purchases \cup Reads) = {}
    /\ Settlements \cap (Purchases \cup Reads) = {}
    /\ Purchases \cap Reads = {}

\* The handlers answer 400 to any other amount and main() replaces any other
\* limit by its default.
ASSUME AmountsAssumption ==
    /\ Amounts \subseteq Nat \ {0}
    /\ Actuals \subseteq Nat
    /\ PlatformDailyLimit \in Nat \ {0}
    /\ PlatformCreditLimit \in Nat \ {0}
    /\ MaxPurchasesPerDay \in Nat \ {0}
    /\ InitialCredits \in Nat
    /\ EnablePurchase \in BOOLEAN

\* What is added up or counted over is finite.
ASSUME FiniteAssumption == IsFiniteSet(Reservations) /\ IsFiniteSet(Purchases)

ASSUME BoundsAssumption == LastDay \in Nat \ {0} /\ MaxLost \in Nat

Calls == Reservations \cup Settlements \cup Purchases \cup Reads
Accountable == Reservations \cup Purchases \cup Reads

NoDay == 0
Days == 1 .. LastDay

\* A hold is the hash reservation:<id>; a key that does not exist is "missing".
Statuses == {"missing", "reserved", "committed", "released"}
Holds == [status : Statuses, amount : Nat, day : Days \cup {NoDay}]
Missing == [status |-> "missing", amount |-> 0, day |-> NoDay]

SettleRequests ==
    [hold : Reservations, op : {"commit"}, actual : Actuals]
        \cup [hold : Reservations, op : {"release"}, actual : {0}]

Answered == {"ok", "refused", "failed"}
RedisCalls == {"count", "charge", "grant", "reserve", "undo", "revert",
               "day", "settle", "mint", "get"}
PCs == {"idle"} \cup RedisCalls \cup Answered

VARIABLES
    \* what each call asks for, chosen by its caller
    who, credits, settlement,
    \* Redis
    balance,          \* user:credits:<user>
    known,            \* the users whose balance key exists
    hold,             \* reservation:<id>
    requests,         \* platform:daily:<day>
    platformCredits,  \* platform:credits:<day>
    purchased,        \* user:purchases:<user>:<day>
    \* the clock and the handlers
    today, pc, day,
    \* history, read by the properties only
    lost,             \* replies lost to a call
    debit,            \* net credits a reservation has taken from its user
    charge,           \* net credits it has taken from the platform budget
    kept,             \* reservations whose compensation was not executed
    minted,           \* credits a user was sold
    debt,             \* what commits took from a user beyond the holds
    overrun           \* what commits took from a day's budget beyond the holds

asked == <<who, credits, settlement>>
redis == <<balance, known, hold, requests, platformCredits, purchased>>
history == <<debit, charge, kept, minted, debt, overrun>>
vars == <<asked, redis, today, pc, day, lost, history>>

-----------------------------------------------------------------------------
Init ==
    /\ who \in [Accountable -> Users]
    /\ credits \in [Reservations \cup Purchases -> Amounts]
    /\ settlement \in [Settlements -> SettleRequests]
    /\ balance = [u \in Users |-> 0]
    /\ known = {}
    /\ hold = [r \in Reservations |-> Missing]
    /\ requests = [d \in Days |-> 0]
    /\ platformCredits = [d \in Days |-> 0]
    /\ purchased = [u \in Users |-> [d \in Days |-> 0]]
    /\ today = 1
    /\ pc = [c \in Calls |-> "idle"]
    /\ day = [c \in Calls |-> NoDay]
    /\ lost = [c \in Calls |-> 0]
    /\ debit = [r \in Reservations |-> 0]
    /\ charge = [r \in Reservations |-> 0]
    /\ kept = {}
    /\ minted = [u \in Users |-> 0]
    /\ debt = [u \in Users |-> 0]
    /\ overrun = [d \in Days |-> 0]

-----------------------------------------------------------------------------
(* What a handler does with the outcome of a Redis call *)

\* The compensation of a budget charge, after a refusal and after an error of
\* the reserve script.  adjustPlatformCredits only logs its own error, so what
\* is answered afterwards (402 or 500) depends on the reserve script alone.
Compensations == {"undo", "revert"}

\* Mutant of OnError: an error of the reserve script is taken for a refusal that
\* has been compensated.
RefuseOnError(p) == IF p \in {"reserve", "undo"} THEN "refused" ELSE "failed"

\* A failed reserve script is followed by the compensation of the budget charge,
\* a failed compensation by the answer it was made for; every other failed call
\* ends the request with a 500.
OnError(p) ==
    CASE p = "reserve" -> "revert"
      [] p = "undo" -> "refused"
      [] OTHER -> "failed"

Goto(c, p) == pc' = [pc EXCEPT ![c] = p]

\* Redis executed the command of c.  Its reply arrives and the handler goes on
\* to next; or the reply is lost and go-redis sends the command again (pc stays)
\* or reports an error.
Answer(c, next) ==
    \/ Goto(c, next) /\ UNCHANGED lost
    \/ /\ lost[c] < MaxLost
       /\ lost' = [lost EXCEPT ![c] = @ + 1]
       /\ \E p \in {pc[c], OnError(pc[c])} : Goto(c, p)

\* Redis did not execute the command; or the context of the request was
\* cancelled, which fails this and all later calls; or the service crashed.
Fail(c) ==
    /\ pc[c] \in RedisCalls
    /\ \E p \in {OnError(pc[c]), "failed"} : Goto(c, p)
    /\ kept' = IF pc[c] \in Compensations THEN kept \cup {c} ELSE kept
    /\ UNCHANGED <<asked, redis, today, day, lost, debit, charge, minted, debt, overrun>>

\* A request arrives.  The handlers that meter by day read the clock here, once.
Arrive(c, p, d) ==
    /\ pc[c] = "idle"
    /\ Goto(c, p)
    /\ day' = [day EXCEPT ![c] = d]
    /\ UNCHANGED <<asked, redis, today, lost, history>>

-----------------------------------------------------------------------------
(* Steps that several handlers share *)

\* ensureInitialCredits: SETNX of the initial balance, before any use of it.
AfterGrant(c) ==
    IF c \in Reservations THEN "reserve" ELSE IF c \in Purchases THEN "mint" ELSE "get"

\* Mutant of EnsureInitialCredits: SET instead of SETNX.
GrantAlways(c) ==
    /\ pc[c] = "grant"
    /\ balance' = [balance EXCEPT ![who[c]] = InitialCredits]
    /\ known' = known \cup {who[c]}
    /\ Answer(c, AfterGrant(c))
    /\ UNCHANGED <<asked, hold, requests, platformCredits, purchased,
                   today, day, history>>

EnsureInitialCredits(c) ==
    /\ pc[c] = "grant"
    /\ \/ who[c] \in known /\ UNCHANGED <<balance, known>>
       \/ /\ who[c] \notin known
          /\ balance' = [balance EXCEPT ![who[c]] = InitialCredits]
          /\ known' = known \cup {who[c]}
    /\ Answer(c, AfterGrant(c))
    /\ UNCHANGED <<asked, hold, requests, platformCredits, purchased,
                   today, day, history>>

\* Mutant of AdjustPlatformCredits: the budget of the current day is corrected.
AdjustToday(r, d, delta) ==
    /\ platformCredits' = [platformCredits EXCEPT ![today] = @ + delta]
    /\ charge' = [charge EXCEPT ![r] = @ + delta]

\* IncrBy on the budget of the day of r, with what r has charged so far.
AdjustPlatformCredits(r, d, delta) ==
    /\ platformCredits' = [platformCredits EXCEPT ![d] = @ + delta]
    /\ charge' = [charge EXCEPT ![r] = @ + delta]

AdjustBalance(r, delta) ==
    /\ balance' = [balance EXCEPT ![who[r]] = @ + delta]
    /\ debit' = [debit EXCEPT ![r] = @ - delta]

-----------------------------------------------------------------------------
(* handleCreateReservation *)

\* Mutant of Allowed: off by one.
AllowedAtLimit(count, limit) == count <= limit

\* platformDailyScript increments a counter only while this holds.
Allowed(count, limit) == count < limit

\* Mutant of WithinBudget: the charge itself is left out of the comparison.
BelowLimit(d, amount) == platformCredits[d] < PlatformCreditLimit

\* platformCreditsScript charges an amount only while this holds.
WithinBudget(d, amount) == platformCredits[d] + amount <= PlatformCreditLimit

\* platformDailyScript on the requests of the day.
CountRequest(r) ==
    /\ pc[r] = "count"
    /\ \/ /\ ~Allowed(requests[day[r]], PlatformDailyLimit)
          /\ Answer(r, "refused")
          /\ UNCHANGED requests
       \/ /\ Allowed(requests[day[r]], PlatformDailyLimit)
          /\ requests' = [requests EXCEPT ![day[r]] = @ + 1]
          /\ Answer(r, "charge")
    /\ UNCHANGED <<asked, balance, known, hold, platformCredits, purchased,
                   today, day, history>>

\* platformCreditsScript.
ChargePlatform(r) ==
    /\ pc[r] = "charge"
    /\ \/ /\ ~WithinBudget(day[r], credits[r])
          /\ Answer(r, "refused")
          /\ UNCHANGED <<platformCredits, charge>>
       \/ /\ WithinBudget(day[r], credits[r])
          /\ AdjustPlatformCredits(r, day[r], credits[r])
          /\ Answer(r, "grant")
    /\ UNCHANGED <<asked, balance, known, hold, requests, purchased,
                   today, day, debit, kept, minted, debt, overrun>>

\* Mutant of Covers: any positive balance will do.
CoversSomething(u, amount) == balance[u] > 0

\* reserveScript takes an amount only from a balance that covers it.
Covers(u, amount) == balance[u] >= amount

\* reserveScript.  A refusal goes on to the compensation of the budget.
Reserve(r) ==
    /\ pc[r] = "reserve"
    /\ \/ /\ ~Covers(who[r], credits[r])
          /\ Answer(r, "undo")
          /\ UNCHANGED <<balance, hold, debit>>
       \/ /\ Covers(who[r], credits[r])
          /\ AdjustBalance(r, -credits[r])
          /\ hold' = [hold EXCEPT ![r] =
                [status |-> "reserved", amount |-> credits[r], day |-> day[r]]]
          /\ Answer(r, "ok")
    /\ UNCHANGED <<asked, known, requests, platformCredits, purchased,
                   today, day, charge, kept, minted, debt, overrun>>

AfterUndo(r) == IF pc[r] = "undo" THEN "refused" ELSE "failed"

\* Mutant of UndoCharge: a refusal keeps the budget charge.
RefuseWithoutUndo(r) ==
    /\ pc[r] \in Compensations
    /\ Answer(r, AfterUndo(r))
    /\ UNCHANGED <<asked, redis, today, day, history>>

\* adjustPlatformCredits after a refused or failed reserve script.
UndoCharge(r) ==
    /\ pc[r] \in Compensations
    /\ AdjustPlatformCredits(r, day[r], -credits[r])
    /\ Answer(r, AfterUndo(r))
    /\ UNCHANGED <<asked, balance, known, hold, requests, purchased,
                   today, day, debit, kept, minted, debt, overrun>>

ReservationStep(r) ==
    \/ Arrive(r, "count", today)
    \/ CountRequest(r)
    \/ ChargePlatform(r)
    \/ EnsureInitialCredits(r)
    \/ Reserve(r)
    \/ UndoCharge(r)

-----------------------------------------------------------------------------
(* handleCommit and handleRelease *)

\* Mutant of ReadDay: the handler polls until the hold exists.
ReadDayPolls(s) ==
    /\ pc[s] = "day"
    /\ hold[settlement[s].hold].status # "missing"
    /\ day' = [day EXCEPT ![s] = hold[settlement[s].hold].day]
    /\ Goto(s, "settle")
    /\ UNCHANGED <<asked, redis, today, lost, history>>

\* reservationDay: HGET of the hold's day, outside the script that settles it.
ReadDay(s) ==
    /\ pc[s] = "day"
    /\ day' = [day EXCEPT ![s] = hold[settlement[s].hold].day]
    /\ Goto(s, "settle")
    /\ UNCHANGED <<asked, redis, today, lost, history>>

\* Mutant of Settle: the script stores the difference instead of the amount.
SettleStoresDelta(r, d, status, final, amount) ==
    /\ AdjustBalance(r, hold[r].amount - final)
    /\ AdjustPlatformCredits(r, d, final - hold[r].amount)
    /\ hold' = [hold EXCEPT ![r] = [@ EXCEPT !.status = status, !.amount = amount - hold[r].amount]]

\* What both scripts do to an open hold of the expected day: it ends with the
\* given status and final amount, and the difference to what was reserved moves
\* between the hold, the user and the day's budget.  The script writes amount
\* on commit only.  The user is the user_id parameter of the call, which nobody
\* compares with the hash: that it is the reservation's user is assumed here of
\* the caller, and the gateway sends the user it reserved for.
Settle(r, d, status, final, amount) ==
    /\ AdjustBalance(r, hold[r].amount - final)
    /\ AdjustPlatformCredits(r, d, final - hold[r].amount)
    /\ hold' = [hold EXCEPT ![r] = [@ EXCEPT !.status = status, !.amount = amount]]

Excess(r, actual) ==
    IF actual > hold[r].amount THEN actual - hold[r].amount ELSE 0

\* commitScript: the overage of an underestimate becomes the user's debt.
CommitHold(r, d, actual) ==
    /\ Settle(r, d, "committed", actual, actual)
    /\ debt' = [debt EXCEPT ![who[r]] = @ + Excess(r, actual)]
    /\ overrun' = [overrun EXCEPT ![d] = @ + Excess(r, actual)]
    /\ UNCHANGED <<known, requests, purchased, kept, minted>>

\* releaseScript.
ReleaseHold(r, d) ==
    /\ Settle(r, d, "released", 0, hold[r].amount)
    /\ UNCHANGED <<known, requests, purchased, kept, minted, debt, overrun>>

Commit(s) ==
    LET r == settlement[s].hold
        actual == settlement[s].actual
    IN  /\ pc[s] = "settle"
        /\ settlement[s].op = "commit"
        /\ \/ /\ \/ hold[r].status \in {"missing", "released"}
                 \/ hold[r].status = "reserved" /\ hold[r].day # day[s]
              /\ Answer(s, "refused")
              /\ UNCHANGED <<redis, history>>
           \/ /\ hold[r].status = "committed"
              /\ Answer(s, "ok")
              /\ UNCHANGED <<redis, history>>
           \/ /\ hold[r].status = "reserved"
              /\ hold[r].day = day[s]
              /\ CommitHold(r, day[s], actual)
              /\ Answer(s, "ok")
        /\ UNCHANGED <<asked, today, day>>

\* Mutant of Release: the script does not look at the status.
ReleaseAgain(s) ==
    LET r == settlement[s].hold
    IN  /\ pc[s] = "settle"
        /\ settlement[s].op = "release"
        /\ \/ /\ hold[r].status = "missing" \/ hold[r].day # day[s]
              /\ Answer(s, "refused")
              /\ UNCHANGED <<redis, history>>
           \/ /\ hold[r].status # "missing"
              /\ hold[r].day = day[s]
              /\ ReleaseHold(r, day[s])
              /\ Answer(s, "ok")
        /\ UNCHANGED <<asked, today, day>>

Release(s) ==
    LET r == settlement[s].hold
    IN  /\ pc[s] = "settle"
        /\ settlement[s].op = "release"
        /\ \/ /\ \/ hold[r].status \in {"missing", "committed"}
                 \/ hold[r].status = "reserved" /\ hold[r].day # day[s]
              /\ Answer(s, "refused")
              /\ UNCHANGED <<redis, history>>
           \/ /\ hold[r].status = "released"
              /\ Answer(s, "ok")
              /\ UNCHANGED <<redis, history>>
           \/ /\ hold[r].status = "reserved"
              /\ hold[r].day = day[s]
              /\ ReleaseHold(r, day[s])
              /\ Answer(s, "ok")
        /\ UNCHANGED <<asked, today, day>>

SettlementStep(s) ==
    \/ Arrive(s, "day", NoDay)
    \/ ReadDay(s)
    \/ Commit(s)
    \/ Release(s)

-----------------------------------------------------------------------------
(* handlePurchase *)

\* platformDailyScript on the purchases of the user and the day.
CountPurchase(c) ==
    /\ pc[c] = "count"
    /\ \/ /\ ~Allowed(purchased[who[c]][day[c]], MaxPurchasesPerDay)
          /\ Answer(c, "refused")
          /\ UNCHANGED purchased
       \/ /\ Allowed(purchased[who[c]][day[c]], MaxPurchasesPerDay)
          /\ purchased' = [purchased EXCEPT ![who[c]][day[c]] = @ + 1]
          /\ Answer(c, "grant")
    /\ UNCHANGED <<asked, balance, known, hold, requests, platformCredits,
                   today, day, history>>

\* Mutant of Mint: SET instead of INCRBY.
MintSets(c) ==
    /\ pc[c] = "mint"
    /\ balance' = [balance EXCEPT ![who[c]] = credits[c]]
    /\ known' = known \cup {who[c]}
    /\ minted' = [minted EXCEPT ![who[c]] = @ + credits[c]]
    /\ Answer(c, "ok")
    /\ UNCHANGED <<asked, hold, requests, platformCredits, purchased,
                   today, day, debit, charge, kept, debt, overrun>>

\* INCRBY of the balance.
Mint(c) ==
    /\ pc[c] = "mint"
    /\ balance' = [balance EXCEPT ![who[c]] = @ + credits[c]]
    /\ known' = known \cup {who[c]}
    /\ minted' = [minted EXCEPT ![who[c]] = @ + credits[c]]
    /\ Answer(c, "ok")
    /\ UNCHANGED <<asked, hold, requests, platformCredits, purchased,
                   today, day, debit, charge, kept, debt, overrun>>

PurchaseStep(c) ==
    \/ ~EnablePurchase /\ Arrive(c, "refused", NoDay)
    \/ EnablePurchase /\ Arrive(c, "count", today)
    \/ CountPurchase(c)
    \/ EnsureInitialCredits(c)
    \/ Mint(c)

-----------------------------------------------------------------------------
(* handleUserRoutes: the balance route grants, then reads *)

GetBalance(c) ==
    /\ pc[c] = "get"
    /\ Answer(c, "ok")
    /\ UNCHANGED <<asked, redis, today, day, history>>

ReadStep(c) ==
    \/ Arrive(c, "grant", NoDay)
    \/ EnsureInitialCredits(c)
    \/ GetBalance(c)

-----------------------------------------------------------------------------
(* Time *)

\* The TTL of a hold removes the hash and gives nothing back.  An open hold
\* may expire at any time; a settled one is kept for 24 hours.
Expire(r) ==
    /\ \/ hold[r].status = "reserved"
       \/ hold[r].status \in {"committed", "released"} /\ hold[r].day < today
    /\ hold' = [hold EXCEPT ![r] = Missing]
    /\ UNCHANGED <<asked, balance, known, requests, platformCredits, purchased,
                   today, pc, day, lost, history>>

Midnight ==
    /\ today < LastDay
    /\ today' = today + 1
    /\ UNCHANGED <<asked, redis, pc, day, lost, history>>

\* Every request has been answered: the service waits for more.
Quiet ==
    /\ \A c \in Calls : pc[c] \in Answered
    /\ UNCHANGED vars

Next ==
    \/ \E r \in Reservations : ReservationStep(r) \/ Expire(r)
    \/ \E s \in Settlements : SettlementStep(s)
    \/ \E c \in Purchases : PurchaseStep(c)
    \/ \E c \in Reads : ReadStep(c)
    \/ \E c \in Calls : Fail(c)
    \/ Midnight
    \/ Quiet

Spec == Init /\ [][Next]_vars

\* A handler that has started runs on: net/http gives each request a goroutine.
\* Nothing obliges a request to arrive, a call to fail or a key to expire.
Fairness ==
    /\ \A r \in Reservations :
        /\ WF_vars(CountRequest(r))
        /\ WF_vars(ChargePlatform(r))
        /\ WF_vars(EnsureInitialCredits(r))
        /\ WF_vars(Reserve(r))
        /\ WF_vars(UndoCharge(r))
    /\ \A s \in Settlements : WF_vars(ReadDay(s)) /\ WF_vars(Commit(s) \/ Release(s))
    /\ \A c \in Purchases :
        WF_vars(CountPurchase(c)) /\ WF_vars(EnsureInitialCredits(c)) /\ WF_vars(Mint(c))
    /\ \A c \in Reads : WF_vars(EnsureInitialCredits(c)) /\ WF_vars(GetBalance(c))

FairSpec == Spec /\ Fairness

-----------------------------------------------------------------------------
(* Invariants *)

\* Every variable keeps its type; balances and budgets are integers because the
\* scripts may take a balance below zero.
TypeOK ==
    /\ who \in [Accountable -> Users]
    /\ credits \in [Reservations \cup Purchases -> Amounts]
    /\ settlement \in [Settlements -> SettleRequests]
    /\ balance \in [Users -> Int]
    /\ known \subseteq Users
    /\ hold \in [Reservations -> Holds]
    /\ requests \in [Days -> Nat]
    /\ platformCredits \in [Days -> Int]
    /\ purchased \in [Users -> [Days -> Nat]]
    /\ today \in Days
    /\ pc \in [Calls -> PCs]
    /\ day \in [Calls -> Days \cup {NoDay}]
    /\ lost \in [Calls -> 0 .. MaxLost]
    /\ debit \in [Reservations -> Int]
    /\ charge \in [Reservations -> Int]
    /\ kept \subseteq Calls
    /\ minted \in [Users -> Nat]
    /\ debt \in [Users -> Nat]
    /\ overrun \in [Days -> Nat]

\* No credit appears or vanishes: a balance is the one grant of the user (who
\* has a balance key) plus top-ups minus what reservations have taken, whatever
\* handlers interleave and whatever replies are lost.
UserConservation ==
    \A u \in Users :
        balance[u] = (IF u \in known THEN InitialCredits ELSE 0) + minted[u]
            - SumFunctionOnSet(debit, {r \in Reservations : who[r] = u})

\* The budget counter of a day is the sum of what the reservations made on that
\* day have charged: a settlement after midnight corrects the day of the hold.
PlatformConservation ==
    \A d \in Days :
        platformCredits[d] =
            SumFunctionOnSet(charge, {r \in Reservations : day[r] = d})

\* The books of a reservation at each place of its handler: what it has charged
\* to the platform, taken from the user and written to the hold.  A refusal (402)
\* leaves the user untouched and the platform as well, unless the call that was
\* to undo the charge failed.  From this the three invariants below follow.
Untouched(r) == debit[r] = 0 /\ hold[r].status = "missing"

Uncompensated(r) == IF r \in kept THEN credits[r] ELSE 0

BooksOf(r) ==
    /\ pc[r] \in {"idle", "count", "charge"} => Untouched(r) /\ charge[r] = 0
    /\ pc[r] \in {"grant", "reserve", "undo", "revert"} =>
        Untouched(r) /\ charge[r] = credits[r]
    /\ pc[r] = "refused" => Untouched(r) /\ charge[r] = Uncompensated(r)
    /\ pc[r] = "failed" =>
        Untouched(r) /\ charge[r] \in {Uncompensated(r), credits[r]}
    /\ pc[r] = "ok" =>
        /\ debit[r] = charge[r]
        /\ hold[r].status \in {"reserved", "committed"} => debit[r] = hold[r].amount
        /\ hold[r].status = "released" => debit[r] = 0

OwnPlace(r) ==
    /\ pc[r] \notin {"day", "settle", "mint", "get"}
    /\ r \in kept => pc[r] \in {"refused", "failed"}

Books ==
    \A r \in Reservations :
        /\ OwnPlace(r)
        /\ lost[r] = 0 => BooksOf(r)

\* Unless a reply of its own reserve call was lost, a reservation's user debit is
\* always covered by its budget charge, in every state between two Redis calls:
\* handleCreateReservation charges the budget first and undoes it last, and the
\* settling scripts move both together.
BudgetCoversDebit ==
    \A r \in Reservations : lost[r] = 0 => debit[r] <= charge[r]

\* What a user pays for a hold and what the platform is charged for it agree
\* with the hold and with each other, open or settled; after its expiry they
\* still agree.
HoldAgrees ==
    \A r \in Reservations : lost[r] = 0 =>
        /\ pc[r] = "ok" => debit[r] = charge[r]
        /\ hold[r].status \in {"reserved", "committed"} => debit[r] = hold[r].amount
        /\ hold[r].status = "released" => debit[r] = 0

\* The caller was told that nothing was reserved ("refused") only if nothing was
\* taken from the user and there is no hold; the platform budget keeps the charge
\* of exactly those refusals whose compensation was not executed.
RefusalIsUndone ==
    \A r \in Reservations : lost[r] = 0 /\ pc[r] = "refused" =>
        /\ debit[r] = 0 /\ hold[r].status = "missing"
        /\ charge[r] = Uncompensated(r)

\* Whatever commits and releases of one hold race each other, repeat or come too
\* late, those that are told "ok" are all of one kind, and the hold ended that way
\* and stays that way until its key expires.  (Unless a reply of its reserve call
\* was lost, when the script may run again and make a second hold of that id.)
OutcomeOf(s) == IF settlement[s].op = "commit" THEN "committed" ELSE "released"

Told(s) == pc[s] = "ok" /\ lost[settlement[s].hold] = 0

OneOutcome ==
    \A s \in Settlements : Told(s) =>
        /\ hold[settlement[s].hold].status \in {OutcomeOf(s), "missing"}
        /\ \A t \in Settlements :
            Told(t) /\ settlement[t].hold = settlement[s].hold =>
                settlement[t].op = settlement[s].op

\* A balance goes below zero by no more than the overages of commits: the
\* reserve script never takes what is not there.
DebtIsOverage == \A u \in Users : balance[u] + debt[u] >= 0

\* The budget of a day exceeds its limit by no more than the overages of
\* commits, however many requests are charged at once.
BudgetWithinLimit ==
    \A d \in Days : platformCredits[d] <= PlatformCreditLimit + overrun[d]

\* The daily counters never pass their caps, and no more holds or top-ups are
\* granted on a day than they counted.
DailyCaps ==
    /\ \A d \in Days :
        /\ requests[d] <= PlatformDailyLimit
        /\ Cardinality({r \in Reservations : day[r] = d /\ pc[r] = "ok"}) <= requests[d]
    /\ \A u \in Users, d \in Days :
        /\ purchased[u][d] <= MaxPurchasesPerDay
        /\ Cardinality({c \in Purchases : who[c] = u /\ day[c] = d /\ pc[c] = "ok"})
            <= purchased[u][d]

\* A balance is charged, topped up or shown only once the initial grant is in
\* it, so that no top-up creates the key without it.
GrantBeforeUse ==
    \A c \in Accountable : pc[c] \in {"reserve", "mint", "get"} => who[c] \in known

-----------------------------------------------------------------------------
(* Action properties *)

\* Once a reservation call is answered and its hold is settled, expired or was
\* never made, nothing charges or refunds it again: not a second commit, not a
\* release racing a commit, not a command sent twice.
Closed(r) == pc[r] \in Answered /\ hold[r].status # "reserved"

BillIsFinal ==
    [][\A r \in Reservations : Closed(r) =>
        /\ Closed(r)'
        /\ UNCHANGED <<debit[r], charge[r]>>]_vars

-----------------------------------------------------------------------------
(* Liveness *)

\* Every request that has started is answered.
HandlersAnswer ==
    \A c \in Calls : pc[c] \in RedisCalls ~> pc[c] \in Answered

-----------------------------------------------------------------------------
(* What the documents say of the service *)

\* docs/API.md: a commit that the balance cannot cover is refused with 402.
CommitNeedsBalance == \A u \in Users : balance[u] >= 0

=============================================================================
