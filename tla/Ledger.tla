------------------------------- MODULE Ledger -------------------------------
(***************************************************************************)
(* The ledger (src/cmd/ledger) behind the gateway: what the rows that      *)
(* requests and purchases leave add up to in the operator's reports.       *)
(*                                                                         *)
(* The gateway's steps are those of Gateway.tla; a row they insert gets    *)
(* the user it is about and the UTC day on which its insertion began.  The *)
(* purchase proxy of the gateway writes rows of its own.  A report is an   *)
(* operator: it reads one snapshot of the table and changes nothing.       *)
(***************************************************************************)
EXTENDS Gateway, FiniteSetsExt

CONSTANTS
    Users,      \* user ids, ordered as their text is
    Purchases,  \* POST /v1/credits/purchase calls
    Pack,       \* credits bought by each
    LastDay,    \* bound on the days that pass
    MaxSpan,    \* days that a report may cover
    MaxTop,     \* lines that a page of users may have
    DailyLimit  \* platform requests that make a day heavy

ASSUME LedgerAssumption ==
    /\ Pack \in Nat \ {0} /\ LastDay \in Nat
    /\ MaxSpan \in Nat \ {0} /\ DailyLimit \in Nat \ {0}
    /\ MaxTop \in Nat \ {0} /\ Users \subseteq Nat

\* What a report adds up or counts over is finite.
ASSUME FiniteAssumption ==
    IsFiniteSet(Requests) /\ IsFiniteSet(Purchases) /\ IsFiniteSet(Users)

VARIABLES
    who,      \* the user of each request and purchase
    byok,     \* the requests that bring their own key
    today,    \* the UTC day of the database
    straddling, \* whose insert may have begun before the last midnight
    table,    \* ledger_events with its columns user_id, event_type, credits, created_at
    buying,   \* the next call of the handler of a purchase
    minted,   \* the purchases that the usage service executed
    answered  \* what the client of a purchase was answered

purchaseVars == <<buying, minted, answered>>
bookVars == <<vars, who, byok, today, straddling, table, purchaseVars>>

Days == 0 .. LastDay

BookInit ==
    /\ Init
    /\ who \in [Requests \cup Purchases -> Users]
    /\ byok \in SUBSET {c \in Requests : ~ask[c].metered}
    /\ \A c \in Requests : ask[c].kind = "generate" /\ ~ask[c].metered => c \in byok
    /\ today = 0 /\ straddling = {}
    /\ table = {}
    /\ buying = [p \in Purchases |-> "call"]
    /\ minted = {}
    /\ answered = [p \in Purchases |-> "nothing"]

-----------------------------------------------------------------------------
(* The table *)

\* Mock chats and validations of a key are in no report either: the former are a
\* local_generate here, the latter are left out.
EventType(row) ==
    LET c == row.request
    IN  IF row.type # "unmetered" THEN row.type
        ELSE IF c \notin byok THEN "local_generate"
        ELSE IF Generate(c) THEN "byok_generate" ELSE "byok_chat"

\* Who may be waiting for an insert.
Writing ==
    {c \in Requests : pc[c] \in {"announce", "record"}}
        \cup {p \in Purchases : buying[p] = "note"}

\* created_at is NOW(), the start of the insert's transaction; the row is there for
\* others at its end, and midnight may fall between the two.
Dates(x) == {today} \cup {d \in Days : x \in straddling /\ d = today - 1}

\* user_id is what the gateway sent.
Entry(row, day) ==
    [id |-> <<row.key, row.slot>>, about |-> row.request,
     user |-> who[row.request], type |-> EventType(row), credits |-> row.credits,
     day |-> day]

\* A step of a request, with the row that it may insert.
RequestStep ==
    /\ Next
    /\ \E day \in [ledger' \ ledger -> Days] :
        /\ \A row \in ledger' \ ledger : day[row] \in Dates(row.request)
        /\ table' = table \cup {Entry(row, day[row]) : row \in ledger' \ ledger}
    /\ UNCHANGED <<who, byok, today, purchaseVars>>
    /\ straddling' = straddling \cap Writing'

NewDay ==
    /\ today < LastDay
    /\ today' = today + 1
    /\ straddling' = Writing
    /\ UNCHANGED <<vars, who, byok, table, purchaseVars>>

-----------------------------------------------------------------------------
(* The purchase proxy *)

Proceed(p, place) == buying' = [buying EXCEPT ![p] = place]

Reply(p, answer) == answered' = [answered EXCEPT ![p] = answer]

\* Credits that are not positive, a caller without a valid identity, a limit or
\* a switch of the usage service, a service that is down.
PurchaseRefused(p) ==
    /\ buying[p] = "call"
    /\ Proceed(p, "done")
    /\ Reply(p, "error")
    /\ UNCHANGED <<vars, who, byok, today, straddling, table, minted>>

\* Mutant of PurchaseLost: the event is emitted before the error is looked at.
PurchaseNoted(p) ==
    /\ buying[p] = "call"
    /\ \/ minted' = minted \cup {p}
       \/ UNCHANGED minted
    /\ Proceed(p, "note")
    /\ UNCHANGED <<vars, who, byok, today, straddling, table, answered>>

\* The usage service minted the credits, but the gateway timed out or the client
\* hung up first: an error to the client, and no row.
PurchaseLost(p) ==
    /\ buying[p] = "call"
    /\ minted' = minted \cup {p}
    /\ Proceed(p, "done")
    /\ Reply(p, "error")
    /\ UNCHANGED <<vars, who, byok, today, straddling, table>>

PurchaseMints(p) ==
    /\ buying[p] = "call"
    /\ minted' = minted \cup {p}
    /\ Proceed(p, "note")
    /\ UNCHANGED <<vars, who, byok, today, straddling, table, answered>>

\* The event has a fresh key, and the answer does not depend on what comes of it.
NotePurchase(p) ==
    /\ buying[p] = "note"
    /\ \/ \E day \in Dates(p) :
            table' = table \cup {[id |-> <<p>>, about |-> p, user |-> who[p],
                                  type |-> "credits_purchased", credits |-> Pack, day |-> day]}
       \/ UNCHANGED table
    /\ Proceed(p, "done")
    /\ Reply(p, "ok")
    /\ straddling' = straddling \ {p}
    /\ UNCHANGED <<vars, who, byok, today, minted>>

\* The gateway stops in the middle of the handler.
PurchaseCrash(p) ==
    /\ buying[p] \in {"call", "note"}
    /\ Proceed(p, "crashed")
    /\ straddling' = straddling \ {p}
    /\ UNCHANGED <<vars, who, byok, today, table, minted, answered>>

Purchase(p) ==
    \/ PurchaseRefused(p) \/ PurchaseLost(p) \/ PurchaseMints(p)
    \/ NotePurchase(p) \/ PurchaseCrash(p)

BookNext ==
    \/ RequestStep
    \/ NewDay
    \/ \E p \in Purchases : Purchase(p)

BookSpec == BookInit /\ [][BookNext]_bookVars

-----------------------------------------------------------------------------
(* The reports *)

\* The types of event that usageDailySQL counts, column by column.
DailyPlatform ==
    {"credits_committed", "credits_committed_unknown", "credits_released", "commit_failed"}
DailyByok == {"byok_generate", "byok_chat"}
DailyFailed == {"credits_released", "commit_failed"}

\* Mutant of DailyBilled: output without a usage report is left out.
BilledIfCounted == {"credits_committed"}

\* Mutant of DailyBilled: the credits of a run with a key of one's own are added.
BilledOrOwn == {"credits_committed", "credits_committed_unknown", "byok_generate"}

DailyBilled == {"credits_committed", "credits_committed_unknown"}
DailyActive ==
    {"credits_committed", "credits_committed_unknown", "credits_released", "commit_failed",
     "byok_generate", "byok_chat"}

\* Mutant of UserPlatform: a type that the other query has is forgotten in this one.
UserPlatformShort ==
    {"credits_committed", "credits_committed_unknown", "credits_released"}

\* The per_day table of usageUsersSQL has lists of its own.
UserPlatform ==
    {"credits_committed", "credits_committed_unknown", "credits_released", "commit_failed"}
UserByok == {"byok_generate", "byok_chat"}
UserFailed == {"credits_released", "commit_failed"}
UserBilled == {"credits_committed", "credits_committed_unknown"}

OfType(rows, types) == {e \in rows : e.type \in types}
Count(rows, types) == Cardinality(OfType(rows, types))
CreditsOf(rows, types) == SumFunctionOnSet([e \in rows |-> e.credits], OfType(rows, types))

\* parseUsageRange: both ends are inclusive, and the span is bounded.
Ranges == {r \in Days \X Days : r[1] <= r[2] /\ r[2] - r[1] < MaxSpan}

\* usageDailySQL, for the rows of one day.
UsageDay(rows) ==
    [platform  |-> Count(rows, DailyPlatform),
     byok      |-> Count(rows, DailyByok),
     failed    |-> Count(rows, DailyFailed),
     credits   |-> CreditsOf(rows, DailyBilled),
     purchased |-> CreditsOf(rows, {"credits_purchased"}),
     active    |-> Cardinality({e.user : e \in OfType(rows, DailyActive)})]

\* The whole platform, or one user; a quiet day is there, with zeros.
usageDaily(from, to, users) ==
    [day \in from .. to |-> UsageDay({e \in table : e.day = day /\ e.user \in users})]

\* A column of a report, added up.
Total(report, column) ==
    SumFunctionOnSet([x \in DOMAIN report |-> report[x][column]], DOMAIN report)

\* The HAVING clause of usageUsersSQL.
Listed(line) == line.platform + line.byok + line.purchased > 0

\* The per_day table of usageUsersSQL, for one user.
PerDay(from, to, user) ==
    [day \in from .. to |->
        LET rows == {e \in table : e.day = day /\ e.user = user}
        IN  [platform  |-> Count(rows, UserPlatform),
             byok      |-> Count(rows, UserByok),
             failed    |-> Count(rows, UserFailed),
             credits   |-> CreditsOf(rows, UserBilled),
             purchased |-> CreditsOf(rows, {"credits_purchased"}),
             purchases |-> Count(rows, {"credits_purchased"})]]

UsageUser(from, to, user) ==
    LET days == PerDay(from, to, user)
        Highest(column) == Max({days[d][column] : d \in from .. to})
    IN  [platform   |-> Total(days, "platform"),
         byok       |-> Total(days, "byok"),
         failed     |-> Total(days, "failed"),
         credits    |-> Total(days, "credits"),
         purchased  |-> Total(days, "purchased"),
         activeDays |-> Cardinality({d \in from .. to : days[d].platform + days[d].byok > 0}),
         peak       |-> Highest("platform"),
         heavyDays  |-> Cardinality({d \in from .. to : days[d].platform >= DailyLimit}),
         mostPurchases |-> Highest("purchases")]

Sorts == {"credits", "requests"}
SortKey(line, sort) == IF sort = "requests" THEN line.platform + line.byok ELSE line.credits

\* One line per user, before LIMIT.
usageUsers(from, to) ==
    LET line == [u \in Users |-> UsageUser(from, to, u)]
    IN  [u \in {v \in Users : Listed(line[v])} |-> line[u]]

\* ORDER BY the sort key, then the user id, and LIMIT.  (The order of the lines that
\* are left is left out.)
Page(lines, sort, limit) ==
    LET Before(u) == {v \in DOMAIN lines :
            \/ SortKey(lines[v], sort) > SortKey(lines[u], sort)
            \/ SortKey(lines[v], sort) = SortKey(lines[u], sort) /\ v < u}
    IN  [u \in {v \in DOMAIN lines : Cardinality(Before(v)) < limit} |-> lines[u]]

-----------------------------------------------------------------------------
(* Properties *)

\* Every variable of the ledger keeps its type, and no two rows share a key.
BookTypeOK ==
    /\ who \in [Requests \cup Purchases -> Users]
    /\ byok \subseteq Requests
    /\ today \in Days /\ straddling \subseteq Writing
    /\ \A e \in table : e.user \in Users /\ e.day \in 0 .. today /\ e.credits \in Nat
    /\ \A e, other \in table : e.id = other.id => e = other
    /\ buying \in [Purchases -> {"call", "note", "done", "crashed"}]
    /\ minted \subseteq Purchases
    /\ answered \in [Purchases -> {"nothing", "ok", "error"}]

\* The reports are queries of their own over one table, and say the same of every
\* range: the line of a user is what the user's days add up to, and all lines what the
\* days of the platform do.  The page of users that an operator sees never makes more,
\* leaves nobody out for one with less, and is all of it if everybody to be listed
\* fits its limit.  (TLC asks between two requests only: whatever the table holds
\* during one, it also holds after a crash of its handler.)
Columns == {"platform", "byok", "failed", "credits", "purchased"}

AgreeOn(r) ==
    LET days == usageDaily(r[1], r[2], Users)
        own == [u \in Users |-> usageDaily(r[1], r[2], {u})]
        total == [u \in Users |-> [column \in Columns |-> Total(own[u], column)]]
        lines == usageUsers(r[1], r[2])
    IN  /\ \A u \in DOMAIN lines :
            /\ \A column \in Columns : lines[u][column] = total[u][column]
            /\ lines[u].activeDays = Total(own[u], "active")
            /\ lines[u].heavyDays > 0 <=> lines[u].peak >= DailyLimit
        /\ \A column \in Columns : Total(lines, column) = Total(days, column)
        /\ Total(lines, "activeDays") = Total(days, "active")
        /\ \A sort \in Sorts, limit \in 1 .. MaxTop :
            LET page == Page(lines, sort, limit)
            IN  /\ \A column \in Columns : Total(page, column) <= Total(days, column)
                /\ \A u \in DOMAIN page, v \in Users \ DOMAIN page :
                    SortKey(total[v], sort) <= SortKey(total[u], sort)
                /\ Cardinality(DOMAIN lines) <= limit => page = lines

ReportsAgree == (\A c \in Requests : pc[c] \notin Active) => \A r \in Ranges : AgreeOn(r)

\* A report never charges a user for more than what was billed: the credits of all
\* days, and so of any of them, are at most the bills of the user's own requests,
\* whatever was lost, shared a key, expired, or ran on a key of the user's own.
ReportIsLowerBound ==
    \A u \in Users :
        Total(usageDaily(0, LastDay, {u}), "credits") <=
            SumFunctionOnSet(bill, {c \in Requests : who[c] = u})

\* Nothing is lost when nothing goes wrong: if all requests of a user are served,
\* none of their calls failed, nobody hung up or crashed and nobody else sent their
\* keys, the days of that user add up to exactly what the usage service billed, but
\* for the holds that expired, and each request with a hold is counted once.
Undisturbed(c) ==
    /\ pc[c] \in {"idle", "done"} /\ alive[c] /\ faults[c] = 0
    /\ \A d \in Requests \ {c} : ask[d].key = ask[c].key => pc[d] = "idle"

QuietReportIsExact ==
    \A u \in Users :
        LET own == {c \in Requests : who[c] = u}
            days == usageDaily(0, LastDay, {u})
        IN  (\A c \in own : Undisturbed(c)) =>
                /\ Total(days, "credits") =
                    SumFunctionOnSet(bill, {c \in own : stage[c] # "gone"})
                /\ Total(days, "platform") = Cardinality({c \in own : stage[c] # "none"})

\* Reported purchases happened: a row of one, or an answer of 200, is there only if
\* the usage service minted the credits.
PurchasesAreReal ==
    /\ \A e \in table : e.type = "credits_purchased" => e.about \in minted
    /\ \A p \in Purchases : answered[p] = "ok" => p \in minted

\* cmd/ledger/admin_usage.go: each request appears once.
EachRequestOnce ==
    \A c \in Requests :
        /\ pc[c] = "done" /\ alive[c] /\ faults[c] = 0
        /\ IF Metered(c) THEN stage[c] # "none" ELSE c \in byok
        /\ client[c].status = "ok" \/ run[c].broken
        => Cardinality({e \in table : e.about = c /\ e.type \in DailyPlatform \cup DailyByok}) = 1

=============================================================================
