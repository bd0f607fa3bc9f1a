---------------------------- MODULE LedgerProofs ----------------------------
(***************************************************************************)
(* Proofs about the ledger, for any requests, purchases, users and bounds. *)
(***************************************************************************)
EXTENDS Ledger, GatewayProofs, Sums, Sequences

-----------------------------------------------------------------------------
(* The gateway underneath *)

\* A step of the ledger's is one of the gateway's or leaves the gateway alone.
LEMMA StepLemma == [BookNext]_bookVars => [Next]_vars
  BY DEF BookNext, RequestStep, NewDay, Purchase, PurchaseRefused, PurchaseLost,
     PurchaseMints, NotePurchase, PurchaseCrash, bookVars

\* With days, users and purchases around it, the gateway of Gateway.tla is still
\* itself, and what is proved of it holds here.
THEOREM GatewayIsKept == BookSpec => Spec
  <1>1. BookInit => Init
    BY DEF BookInit
  <1>2. QED
    BY <1>1, StepLemma, PTL DEF BookSpec, Spec

\* The rows say no more than what happened, whatever else is in the table.
THEOREM RowsAreTrue == BookSpec => []LedgerIsLowerBound
  BY GatewayIsKept, LedgerIsTrue, PTL

-----------------------------------------------------------------------------
(* Types *)

\* A step writes at most one row, and never under a key that has one.
LEMMA InsertLemma ==
    ASSUME TypeOK, TypeOK', Next
    PROVE  \/ ledger' = ledger
           \/ \E new \in Rows :
                /\ ledger' = ledger \cup {new}
                /\ \A old \in ledger : <<old.key, old.slot>> # <<new.key, new.slot>>
  <1>1. ASSUME NEW c \in Requests, NEW slot, NEW type, NEW n, Emit(c, slot, type, n)
        PROVE  \/ ledger' = ledger
               \/ \E new \in Rows :
                    /\ ledger' = ledger \cup {new}
                    /\ \A old \in ledger : <<old.key, old.slot>> # <<new.key, new.slot>>
    <2> DEFINE new == [key |-> ask[c].key, slot |-> slot, request |-> c,
                       type |-> type, credits |-> n]
    <2>1. \/ ledger' = ledger
          \/ /\ ledger' = ledger \cup {new}
             /\ \A old \in ledger : ~(old.key = new.key /\ old.slot = new.slot)
      BY <1>1 DEF Emit, Insert
    <2>2. ledger' = ledger \cup {new} => new \in Rows
      BY DEF TypeOK
    <2>3. QED
      BY <2>1, <2>2
  <1>2. CASE ledger' # ledger
    <2>1. PICK c \in Requests :
            Refuse(c) \/ Arrive(c) \/ Handler(c) \/ HangUp(c) \/ Crash(c) \/ TTL(c)
      BY <1>2 DEF Next, Quiet, vars
    <2>2. Handler(c)
      BY <1>2, <2>1 DEF Refuse, Arrive, HangUp, Crash, TTL
    <2>3. /\ ~Reserve(c) /\ ~CallFails(c) /\ ~CallOpens(c) /\ ~StreamEnds(c)
          /\ ~StreamBreaks(c) /\ ~Settle(c) /\ ~Answer(c)
      BY <1>2 DEF Reserve, CallFails, CallOpens, StreamEnds, StreamBreaks, Settle, Answer
    <2>4. \A n \in Usages : ~CallAnswers(c, n)
      BY <1>2 DEF CallAnswers
    <2>5. \A frame \in Frames, n \in Usages : ~Relay(c, frame, n)
      BY <1>2 DEF Relay
    <2>6. Announce(c) \/ Record(c)
      BY <2>2, <2>3, <2>4, <2>5 DEF Handler
    <2>7. PICK slot, type, n : Emit(c, slot, type, n)
      BY <1>2, <2>6 DEF Announce, Record
    <2>8. QED
      BY <1>1, <2>7
  <1>3. QED
    BY <1>2

\* Where an entry of the table comes from.
FromRequest(e) ==
    /\ \E row \in ledger : e.id = <<row.key, row.slot>>
    /\ e.type # "credits_purchased"

FromPurchase(e) ==
    \E p \in Purchases :
        /\ e.id = <<p>> /\ e.about = p
        /\ buying[p] = "done" /\ p \in minted

BookInv ==
    /\ BookTypeOK
    /\ \A e \in table : FromRequest(e) \/ FromPurchase(e)
    /\ \A p \in Purchases : buying[p] = "note" \/ answered[p] = "ok" => p \in minted

\* The invariant holds of an empty table.
LEMMA BookInitOK == BookInit => BookInv
  BY LedgerAssumption DEF BookInit, BookInv, BookTypeOK, Days

\* Credits are natural numbers.
LEMMA CreditsAreNat == Credits \subseteq Nat
  <1>1. \A a \in Asks : a.estimate \in Nat
    BY AsksAssumption
  <1>2. Actuals \subseteq Nat
    BY AsksAssumption
  <1>3. ASSUME NEW x \in Credits
        PROVE  x \in Nat
    <2>1. x \in Actuals \/ (\E a \in Asks : x = a.estimate) \/ x = 0
      BY DEF Credits
    <2>2. CASE x \in Actuals
      BY <1>2, <2>2
    <2>3. CASE \E a \in Asks : x = a.estimate
      <3>1. PICK a \in Asks : x = a.estimate
        BY <2>3
      <3>2. QED
        BY <1>1, <3>1
    <2>4. CASE x = 0
      BY <2>4
    <2>5. QED
      BY <2>1, <2>2, <2>3, <2>4
  <1>4. QED
    BY <1>3

\* A row is dated today or on a day before, never later.
LEMMA DatesLemma ==
    ASSUME BookTypeOK, NEW x, NEW day \in Dates(x)
    PROVE  day \in 0 .. today
  <1>1. today \in Nat /\ Days \subseteq Nat
    BY LedgerAssumption DEF BookTypeOK, Days
  <1>2. day = today \/ (day \in Days /\ day = today - 1)
    BY DEF Dates
  <1>3. QED
    BY <1>1, <1>2

\* The entry of a row is of its request.
LEMMA EntryLemma ==
    ASSUME BookTypeOK, NEW row \in Rows, NEW day
    PROVE  /\ Entry(row, day).id = <<row.key, row.slot>>
           /\ Entry(row, day).user \in Users
           /\ Entry(row, day).day = day
           /\ Entry(row, day).credits \in Nat
           /\ Entry(row, day).type # "credits_purchased"
  <1>1. /\ row.request \in Requests /\ row.type \in EventTypes
        /\ row.credits \in Nat
    BY CreditsAreNat DEF Rows
  <1>2. EventType(row) # "credits_purchased"
    BY <1>1 DEF EventType, EventTypes
  <1>3. who[row.request] \in Users
    BY <1>1 DEF BookTypeOK
  <1>4. QED
    BY <1>1, <1>2, <1>3 DEF Entry

\* A step of a request enters the rows it has written, and no others.
LEMMA EntersLemma ==
    ASSUME TypeOK, TypeOK', RequestStep
    PROVE  \/ ledger' = ledger /\ table' = table
           \/ \E new \in Rows : \E day \in Dates(new.request) :
                /\ ledger' = ledger \cup {new}
                /\ \A old \in ledger : <<old.key, old.slot>> # <<new.key, new.slot>>
                /\ table' = table \cup {Entry(new, day)}
  <1>1. PICK on \in [ledger' \ ledger -> Days] :
            /\ \A row \in ledger' \ ledger : on[row] \in Dates(row.request)
            /\ table' = table \cup {Entry(row, on[row]) : row \in ledger' \ ledger}
    BY DEF RequestStep
  <1>2. CASE ledger' = ledger
    BY <1>1, <1>2
  <1>3. CASE ledger' # ledger
    <2>1. PICK new \in Rows :
                /\ ledger' = ledger \cup {new}
                /\ \A old \in ledger : <<old.key, old.slot>> # <<new.key, new.slot>>
      BY <1>3, InsertLemma DEF RequestStep
    <2>2. ledger' \ ledger = {new}
      BY <1>3, <2>1
    <2>3. on[new] \in Dates(new.request) /\ table' = table \cup {Entry(new, on[new])}
      BY <1>1, <2>2
    <2>4. QED
      BY <2>1, <2>3
  <1>4. QED
    BY <1>2, <1>3

\* The invariant survives it.
LEMMA RequestStepOK ==
    ASSUME BookInv, TypeOK, TypeOK', RequestStep
    PROVE  BookInv'
  <1>1. /\ UNCHANGED <<who, byok, today, buying, minted, answered>>
        /\ straddling' \subseteq Writing'
    BY DEF RequestStep, purchaseVars
  <1>2. CASE ledger' = ledger /\ table' = table
    BY <1>1, <1>2 DEF BookInv, BookTypeOK, FromRequest, FromPurchase
  <1>3. CASE \E new \in Rows : \E day \in Dates(new.request) :
                /\ ledger' = ledger \cup {new}
                /\ \A old \in ledger : <<old.key, old.slot>> # <<new.key, new.slot>>
                /\ table' = table \cup {Entry(new, day)}
    <2>0. PICK new \in Rows : \E day \in Dates(new.request) :
                /\ ledger' = ledger \cup {new}
                /\ \A old \in ledger : <<old.key, old.slot>> # <<new.key, new.slot>>
                /\ table' = table \cup {Entry(new, day)}
      BY <1>3
    <2>1. PICK day \in Dates(new.request) :
                /\ ledger' = ledger \cup {new}
                /\ \A old \in ledger : <<old.key, old.slot>> # <<new.key, new.slot>>
                /\ table' = table \cup {Entry(new, day)}
      BY <2>0
    <2> DEFINE entry == Entry(new, day)
    <2>2. table' = table \cup {entry}
      BY <2>1
    <2>3. /\ entry.id = <<new.key, new.slot>> /\ entry.user \in Users
          /\ entry.day \in 0 .. today /\ entry.credits \in Nat
          /\ entry.type # "credits_purchased"
      BY EntryLemma, DatesLemma DEF BookInv
    <2> HIDE DEF entry
    <2>4. \A e \in table : e.id # entry.id
      <3> SUFFICES ASSUME NEW e \in table PROVE e.id # <<new.key, new.slot>>
        BY <2>3
      <3>1. CASE FromRequest(e)
        BY <2>1, <3>1 DEF FromRequest
      <3>2. CASE FromPurchase(e)
        <4>1. PICK p \in Purchases : e.id = <<p>>
          BY <3>2 DEF FromPurchase
        <4>2. Len(<<p>>) = 1 /\ Len(<<new.key, new.slot>>) = 2
          OBVIOUS
        <4>3. QED
          BY <4>1, <4>2
      <3>3. QED
        BY <3>1, <3>2 DEF BookInv
    <2>5. \A e \in table' : FromRequest(e)' \/ FromPurchase(e)'
      BY <1>1, <2>1, <2>2, <2>3 DEF BookInv, FromRequest, FromPurchase
    <2>6. BookTypeOK'
      <3>1. \A e \in table' : e.user \in Users /\ e.day \in 0 .. today /\ e.credits \in Nat
        BY <2>2, <2>3 DEF BookInv, BookTypeOK
      <3>2. \A e, other \in table' : e.id = other.id => e = other
        BY <2>2, <2>4 DEF BookInv, BookTypeOK
      <3>3. QED
        BY <1>1, <3>1, <3>2 DEF BookInv, BookTypeOK
    <2>7. QED
      BY <1>1, <2>5, <2>6 DEF BookInv
  <1>4. QED
    BY <1>2, <1>3, EntersLemma

\* Midnight moves the date and leaves the table alone.
LEMMA NewDayOK ==
    ASSUME BookInv, NewDay
    PROVE  BookInv'
  <1>1. /\ today' = today + 1 /\ today' \in Days /\ 0 .. today \subseteq 0 .. today'
    BY LedgerAssumption DEF BookInv, BookTypeOK, NewDay, Days
  <1>2. UNCHANGED <<ledger, who, byok, table, buying, minted, answered>>
    BY DEF NewDay, vars, purchaseVars
  <1>3. straddling' \subseteq Writing'
    BY DEF NewDay, Writing, vars, purchaseVars
  <1>4. QED
    BY <1>1, <1>2, <1>3 DEF BookInv, BookTypeOK, FromRequest, FromPurchase

\* Every step of a purchase but the one that writes its row.
LEMMA PurchaseOK ==
    ASSUME BookInv, NEW p \in Purchases,
           PurchaseRefused(p) \/ PurchaseLost(p) \/ PurchaseMints(p) \/ PurchaseCrash(p)
    PROVE  BookInv'
  <1>1. /\ UNCHANGED <<ledger, who, byok, today, table>>
        /\ buying[p] # "done"
        /\ \E place \in {"note", "done", "crashed"} :
                /\ Proceed(p, place)
                /\ place = "note" => p \in minted'
        /\ answered' = answered \/ Reply(p, "error")
        /\ minted' = minted \/ minted' = minted \cup {p}
    BY DEF PurchaseRefused, PurchaseLost, PurchaseMints, PurchaseCrash, vars
  <1>2. /\ buying' \in [Purchases -> {"call", "note", "done", "crashed"}]
        /\ minted' \subseteq Purchases /\ minted \subseteq minted'
        /\ answered' \in [Purchases -> {"nothing", "ok", "error"}]
    BY <1>1 DEF BookInv, BookTypeOK, Proceed, Reply
  <1>3. \A q \in Purchases :
            /\ buying'[q] = "note" => buying[q] = "note" \/ q \in minted'
            /\ answered'[q] = "ok" => answered[q] = "ok"
            /\ buying[q] = "done" => buying'[q] = "done"
    BY <1>1 DEF BookInv, BookTypeOK, Proceed, Reply
  <1>4. straddling' \subseteq Writing'
    <2>1. /\ pc' = pc /\ \A q \in Purchases \ {p} : buying'[q] = buying[q]
          /\ \/ buying[p] = "call" /\ straddling' = straddling
             \/ straddling' = straddling \ {p}
      BY DEF PurchaseRefused, PurchaseLost, PurchaseMints, PurchaseCrash, vars, Proceed,
         BookInv, BookTypeOK
    <2>2. straddling \subseteq Writing
      BY DEF BookInv, BookTypeOK
    <2>3. QED
      BY <2>1, <2>2 DEF Writing
  <1>5. BookTypeOK'
    BY <1>1, <1>2, <1>4 DEF BookInv, BookTypeOK
  <1>6. \A e \in table' : FromRequest(e)' \/ FromPurchase(e)'
    BY <1>1, <1>2, <1>3 DEF BookInv, FromRequest, FromPurchase
  <1>7. QED
    BY <1>2, <1>3, <1>5, <1>6 DEF BookInv

\* The row of a purchase is entered after its credits were minted.
LEMMA NoteOK ==
    ASSUME BookInv, NEW p \in Purchases, NotePurchase(p)
    PROVE  BookInv'
  <1> DEFINE Event(day) == [id |-> <<p>>, about |-> p, user |-> who[p],
                           type |-> "credits_purchased", credits |-> Pack, day |-> day]
  <1>a. PICK day \in Dates(p) : table' = table \cup {Event(day)} \/ table' = table
    BY DEF NotePurchase, Dates
  <1>0. PICK entry :
            /\ entry = Event(day)
            /\ table' = table \cup {entry} \/ table' = table
    BY <1>a
  <1>1. /\ buying[p] = "note" /\ p \in minted
        /\ UNCHANGED <<ledger, who, byok, today, minted>>
        /\ pc' = pc /\ straddling' = straddling \ {p}
        /\ table' = table \cup {entry} \/ table' = table
        /\ Proceed(p, "done") /\ Reply(p, "ok")
    BY <1>0 DEF NotePurchase, BookInv, vars
  <1>2. /\ buying' \in [Purchases -> {"call", "note", "done", "crashed"}]
        /\ answered' \in [Purchases -> {"nothing", "ok", "error"}]
        /\ buying'[p] = "done"
        /\ \A q \in Purchases \ {p} : buying'[q] = buying[q] /\ answered'[q] = answered[q]
    BY <1>1 DEF BookInv, BookTypeOK, Proceed, Reply
  <1>3. \A e \in table : e.id # entry.id
    <2> SUFFICES ASSUME NEW e \in table PROVE e.id # <<p>>
      BY <1>0
    <2>1. CASE FromRequest(e)
      <3>1. PICK row \in ledger : e.id = <<row.key, row.slot>>
        BY <2>1 DEF FromRequest
      <3>2. Len(<<p>>) = 1 /\ Len(<<row.key, row.slot>>) = 2
        OBVIOUS
      <3>3. QED
        BY <3>1, <3>2
    <2>2. CASE FromPurchase(e)
      <3>1. PICK q \in Purchases : e.id = <<q>> /\ buying[q] = "done"
        BY <2>2 DEF FromPurchase
      <3>2. p # q
        BY <1>1, <3>1
      <3>3. <<p>>[1] = p /\ <<q>>[1] = q
        OBVIOUS
      <3>4. QED
        BY <3>1, <3>2, <3>3
    <2>3. QED
      BY <2>1, <2>2 DEF BookInv
  <1>4. /\ entry.user \in Users /\ entry.day \in 0 .. today /\ entry.credits \in Nat
        /\ entry.id = <<p>> /\ entry.about = p
    BY <1>0, LedgerAssumption, DatesLemma DEF BookInv, BookTypeOK
  <1>5. BookTypeOK'
    <2>1. \A e \in table' : e.user \in Users /\ e.day \in 0 .. today /\ e.credits \in Nat
      BY <1>1, <1>4 DEF BookInv, BookTypeOK
    <2>2. \A e, other \in table' : e.id = other.id => e = other
      BY <1>1, <1>3 DEF BookInv, BookTypeOK
    <2>3. straddling' \subseteq Writing'
      BY <1>1, <1>2 DEF BookInv, BookTypeOK, Writing
    <2>4. QED
      BY <1>1, <1>2, <2>1, <2>2, <2>3 DEF BookInv, BookTypeOK
  <1>6. \A e \in table' : FromRequest(e)' \/ FromPurchase(e)'
    <2>1. \A e \in table : FromRequest(e)' \/ FromPurchase(e)'
      BY <1>1, <1>2 DEF BookInv, FromRequest, FromPurchase
    <2>2. FromPurchase(entry)'
      BY <1>1, <1>2, <1>4 DEF FromPurchase
    <2>3. QED
      BY <1>1, <2>1, <2>2
  <1>7. QED
    BY <1>1, <1>2, <1>5, <1>6 DEF BookInv

\* No two rows of the table share a key, and the rest of the ledger keeps its types.
THEOREM BookKept == BookSpec => []BookInv
  <1>1. BookInit => BookInv
    BY BookInitOK
  <1>2. BookInv /\ TypeOK /\ TypeOK' /\ [BookNext]_bookVars => BookInv'
    <2> SUFFICES ASSUME BookInv, TypeOK, TypeOK', [BookNext]_bookVars PROVE BookInv'
      OBVIOUS
    <2>1. CASE RequestStep
      BY <2>1, RequestStepOK
    <2>2. CASE NewDay
      BY <2>2, NewDayOK
    <2>3. CASE \E p \in Purchases : Purchase(p)
      BY <2>3, PurchaseOK, NoteOK DEF Purchase
    <2>4. CASE UNCHANGED bookVars
      BY <2>4 DEF bookVars, vars, purchaseVars, BookInv, BookTypeOK, FromRequest, FromPurchase,
         Writing
    <2>5. QED
      BY <2>1, <2>2, <2>3, <2>4 DEF BookNext
  <1>3. BookSpec => []TypeOK
    BY GatewayIsKept, TypeCorrect, PTL
  <1>4. QED
    BY <1>1, <1>2, <1>3, PTL DEF BookSpec

\* Every reachable table is one of dated entries of known users, no two with the same key
\* (the unique idempotency_key of ledger_events and its ON CONFLICT DO NOTHING).
THEOREM BookTypeCorrect == BookSpec => []BookTypeOK
  <1>1. BookInv => BookTypeOK
    BY DEF BookInv
  <1>2. QED
    BY <1>1, BookKept, PTL

-----------------------------------------------------------------------------
(* Purchases *)

\* A purchase is on record, or answered 200, only if it was executed.
THEOREM PurchasesHappened == BookSpec => []PurchasesAreReal
  <1>1. BookInv => PurchasesAreReal
    BY DEF BookInv, PurchasesAreReal, FromRequest, FromPurchase
  <1>2. QED
    BY <1>1, BookKept, PTL

-----------------------------------------------------------------------------
(* The reports *)

\* Both queries list the same types of event for each of their columns.
LEMMA ListsAgree ==
    /\ UserPlatform = DailyPlatform /\ UserByok = DailyByok
    /\ UserFailed = DailyFailed /\ UserBilled = DailyBilled
    /\ DailyActive = DailyPlatform \cup DailyByok
  BY DEF UserPlatform, UserByok, UserFailed, UserBilled,
     DailyPlatform, DailyByok, DailyFailed, DailyBilled, DailyActive

\* The rows that each column is about, and what one of them adds to it.
TypesOf == [platform |-> DailyPlatform, byok |-> DailyByok, failed |-> DailyFailed,
            credits |-> DailyBilled, purchased |-> {"credits_purchased"}]

Weight(column) ==
    [e \in table |->
        IF e.type \notin TypesOf[column] THEN 0
        ELSE IF column \in {"credits", "purchased"} THEN e.credits ELSE 1]

\* What the reports need of the table.
Readable ==
    /\ IsFiniteSet(table)
    /\ \A e \in table : e.user \in Users /\ e.credits \in Nat

\* A COUNT with a FILTER adds one for each row that passes it.
LEMMA CountIsSum ==
    ASSUME Readable, NEW rows \in SUBSET table, NEW types, NEW f,
           \A e \in table : f[e] = IF e.type \in types THEN 1 ELSE 0
    PROVE  Count(rows, types) = SumFunctionOnSet(f, rows)
  <1>1. IsFiniteSet(rows)
    BY FS_Subset DEF Readable
  <1>2. /\ OfType(rows, types) \in SUBSET rows
        /\ \A e \in rows : f[e] = IF e \in OfType(rows, types) THEN 1 ELSE 0
    BY DEF OfType
  <1>3. QED
    BY <1>1, <1>2, SumCounts DEF Count

\* A SUM with a FILTER adds the credits of each row that passes it.
LEMMA CreditsAreSum ==
    ASSUME Readable, NEW rows \in SUBSET table, NEW types, NEW f,
           \A e \in table : f[e] = IF e.type \in types THEN e.credits ELSE 0
    PROVE  CreditsOf(rows, types) = SumFunctionOnSet(f, rows)
  <1> DEFINE part == OfType(rows, types)
             g == [e \in rows |-> e.credits]
  <1>1. IsFiniteSet(rows) /\ IsFiniteSet(part) /\ part \in SUBSET rows
    BY FS_Subset DEF Readable, OfType
  <1>2. /\ \A e \in part : g[e] \in Int /\ g[e] = f[e]
        /\ \A e \in rows : f[e] \in Int
        /\ \A e \in rows \ part : f[e] = 0
    BY DEF Readable, OfType
  <1> HIDE DEF part, g
  <1>3. Numbers(g, part) /\ Numbers(f, rows)
    BY <1>2 DEF Numbers
  <1>4. SumFunctionOnSet(g, part) = SumFunctionOnSet(f, part)
    BY <1>1, <1>2, <1>3, SumSame
  <1>5. SumFunctionOnSet(f, rows) = SumFunctionOnSet(f, part)
    BY <1>1, <1>2, <1>3, SumRestricts
  <1>6. QED
    BY <1>4, <1>5 DEF CreditsOf, part, g

\* Each column of a day adds up what its rows add to it, each one by itself.
LEMMA ColumnLemma ==
    ASSUME Readable, NEW rows \in SUBSET table
    PROVE  /\ Count(rows, DailyPlatform) = SumFunctionOnSet(Weight("platform"), rows)
           /\ Count(rows, DailyByok) = SumFunctionOnSet(Weight("byok"), rows)
           /\ Count(rows, DailyFailed) = SumFunctionOnSet(Weight("failed"), rows)
           /\ CreditsOf(rows, DailyBilled) = SumFunctionOnSet(Weight("credits"), rows)
           /\ CreditsOf(rows, {"credits_purchased"}) = SumFunctionOnSet(Weight("purchased"), rows)
  <1>1. \A e \in table :
            /\ Weight("platform")[e] = IF e.type \in DailyPlatform THEN 1 ELSE 0
            /\ Weight("byok")[e] = IF e.type \in DailyByok THEN 1 ELSE 0
            /\ Weight("failed")[e] = IF e.type \in DailyFailed THEN 1 ELSE 0
    BY DEF Weight, TypesOf
  <1>2. \A e \in table :
            /\ Weight("credits")[e] = IF e.type \in DailyBilled THEN e.credits ELSE 0
            /\ Weight("purchased")[e] = IF e.type \in {"credits_purchased"} THEN e.credits ELSE 0
    BY DEF Weight, TypesOf
  <1>3. Count(rows, DailyPlatform) = SumFunctionOnSet(Weight("platform"), rows)
    BY <1>1, CountIsSum
  <1>4. Count(rows, DailyByok) = SumFunctionOnSet(Weight("byok"), rows)
    BY <1>1, CountIsSum
  <1>5. Count(rows, DailyFailed) = SumFunctionOnSet(Weight("failed"), rows)
    BY <1>1, CountIsSum
  <1>6. CreditsOf(rows, DailyBilled) = SumFunctionOnSet(Weight("credits"), rows)
    BY <1>2, CreditsAreSum
  <1>7. CreditsOf(rows, {"credits_purchased"}) = SumFunctionOnSet(Weight("purchased"), rows)
    BY <1>2, CreditsAreSum
  <1>8. QED
    BY <1>3, <1>4, <1>5, <1>6, <1>7

\* The rows of some days and users.
RowsOf(days, users) == {e \in table : e.day \in days /\ e.user \in users}

\* A column is a natural number that none of its rows exceeds.
LEMMA WeightLemma ==
    ASSUME Readable, NEW rows \in SUBSET table, NEW column \in Columns
    PROVE  /\ IsFiniteSet(rows) /\ Numbers(Weight(column), rows)
           /\ \A e \in rows : Weight(column)[e] \in Nat
           /\ SumFunctionOnSet(Weight(column), rows) \in Nat
           /\ \A e \in rows : Weight(column)[e] <= SumFunctionOnSet(Weight(column), rows)
  <1> DEFINE f == Weight(column)
  <1>1. IsFiniteSet(rows)
    BY FS_Subset DEF Readable
  <1>2. \A e \in rows : f[e] \in Nat
    BY DEF Readable, Weight
  <1> HIDE DEF f
  <1>3. /\ Numbers(f, rows) /\ SumFunctionOnSet(f, rows) \in Nat
        /\ \A e \in rows : f[e] <= SumFunctionOnSet(f, rows)
    BY <1>1, <1>2, SumOfNaturals
  <1>4. QED
    BY <1>1, <1>2, <1>3 DEF f

\* The days of a report add up to what the rows of its days add up to.
LEMMA DaysAdd ==
    ASSUME Readable, NEW days, IsFiniteSet(days), NEW users, NEW column \in Columns,
           NEW report, DOMAIN report = days,
           \A d \in days :
                report[d][column] = SumFunctionOnSet(Weight(column), RowsOf({d}, users))
    PROVE  Total(report, column) = SumFunctionOnSet(Weight(column), RowsOf(days, users))
  <1> DEFINE f == Weight(column)
             rows == RowsOf(days, users)
             owner == [e \in rows |-> e.day]
             values == [d \in days |-> report[d][column]]
             groups == [d \in days |-> SumFunctionOnSet(f, {e \in rows : owner[e] = d})]
  <1>1. rows \in SUBSET table /\ \A e \in rows : owner[e] \in days
    BY DEF RowsOf
  <1>2. \A d \in days : {e \in rows : owner[e] = d} = RowsOf({d}, users)
    BY DEF RowsOf
  <1>3. groups = values
    BY <1>2
  <1>4. SumFunctionOnSet(f, rows) = SumFunctionOnSet(groups, days)
    <2>1. IsFiniteSet(rows) /\ Numbers(f, rows)
      BY <1>1, WeightLemma
    <2> HIDE DEF f, rows, owner
    <2>2. QED
      BY <1>1, <2>1, SumGroups
  <1>5. Total(report, column) = SumFunctionOnSet(values, days)
    BY DEF Total
  <1>6. QED
    BY <1>3, <1>4, <1>5

\* So do the days of usageDaily, and those of one user in usageUsers.
LEMMA TotalsLemma ==
    ASSUME Readable, NEW from \in Int, NEW to \in Int, NEW column \in Columns
    PROVE  /\ \A users : Total(usageDaily(from, to, users), column) =
                            SumFunctionOnSet(Weight(column), RowsOf(from .. to, users))
           /\ \A u : Total(PerDay(from, to, u), column) =
                            SumFunctionOnSet(Weight(column), RowsOf(from .. to, {u}))
  <1> DEFINE days == from .. to
  <1>1. IsFiniteSet(days)
    BY FS_Interval
  <1>2. ASSUME NEW rows \in SUBSET table
        PROVE  UsageDay(rows)[column] = SumFunctionOnSet(Weight(column), rows)
    BY ColumnLemma DEF UsageDay, Columns
  <1>3. ASSUME NEW users
        PROVE  Total(usageDaily(from, to, users), column) =
                    SumFunctionOnSet(Weight(column), RowsOf(days, users))
    <2> DEFINE report == usageDaily(from, to, users)
    <2>1. ASSUME NEW d \in days
          PROVE  report[d][column] = SumFunctionOnSet(Weight(column), RowsOf({d}, users))
      <3>1. RowsOf({d}, users) \in SUBSET table
        BY DEF RowsOf
      <3>2. report[d] = UsageDay(RowsOf({d}, users))
        <4>1. {e \in table : e.day = d /\ e.user \in users} = RowsOf({d}, users)
          BY DEF RowsOf
        <4>2. report[d] = UsageDay({e \in table : e.day = d /\ e.user \in users})
          BY DEF usageDaily
        <4>3. QED
          BY <4>1, <4>2
      <3>3. QED
        BY <1>2, <3>1, <3>2
    <2>2. DOMAIN report = days
      BY DEF usageDaily
    <2> HIDE DEF report, days
    <2>3. Total(report, column) = SumFunctionOnSet(Weight(column), RowsOf(days, users))
      BY <1>1, <2>1, <2>2, DaysAdd
    <2>4. QED
      BY <2>3 DEF report
  <1>4. ASSUME NEW u
        PROVE  Total(PerDay(from, to, u), column) =
                    SumFunctionOnSet(Weight(column), RowsOf(days, {u}))
    <2> DEFINE report == PerDay(from, to, u)
    <2>1. ASSUME NEW d \in days
          PROVE  report[d][column] = SumFunctionOnSet(Weight(column), RowsOf({d}, {u}))
      <3> DEFINE rows == RowsOf({d}, {u})
      <3>1. rows \in SUBSET table /\ rows = {e \in table : e.day = d /\ e.user = u}
        BY DEF RowsOf
      <3>2. report[d][column] = UsageDay(rows)[column]
        <4> HIDE DEF rows
        <4>1. QED
          BY <3>1, ListsAgree DEF PerDay, UsageDay, Columns
      <3>3. QED
        BY <1>2, <3>1, <3>2
    <2>2. DOMAIN report = days
      BY DEF PerDay
    <2> HIDE DEF report, days
    <2>3. Total(report, column) = SumFunctionOnSet(Weight(column), RowsOf(days, {u}))
      BY <1>1, <2>1, <2>2, DaysAdd
    <2>4. QED
      BY <2>3 DEF report
  <1>5. QED
    BY <1>3, <1>4

\* Whether a user spent or used a key of their own on some day.
Used(d, u) == \E e \in table : e.day = d /\ e.user = u /\ e.type \in DailyPlatform \cup DailyByok

DaysOfUse(days, u) == {d \in days : Used(d, u)}

\* Those days are what the two counts of usageUsers see.
LEMMA UsedLemma ==
    ASSUME Readable, NEW days, NEW u
    PROVE  LET total(column) == SumFunctionOnSet(Weight(column), RowsOf(days, {u}))
           IN  (\E d \in days : Used(d, u)) <=> total("platform") + total("byok") > 0
  <1> DEFINE rows == RowsOf(days, {u})
             total(column) == SumFunctionOnSet(Weight(column), rows)
  <1>1. rows \in SUBSET table
    BY DEF RowsOf
  <1>2. \A column \in {"platform", "byok"} :
            /\ IsFiniteSet(rows) /\ total(column) \in Nat
            /\ \A e \in rows : Weight(column)[e] <= total(column)
    BY <1>1, WeightLemma DEF Columns
  <1>3. \A e \in rows :
            /\ Weight("platform")[e] = IF e.type \in DailyPlatform THEN 1 ELSE 0
            /\ Weight("byok")[e] = IF e.type \in DailyByok THEN 1 ELSE 0
    BY <1>1 DEF Weight, TypesOf
  <1>4. (\E d \in days : Used(d, u)) <=> \E e \in rows : e.type \in DailyPlatform \cup DailyByok
    BY DEF Used, RowsOf
  <1>5. ASSUME NEW e \in rows, e.type \in DailyPlatform \cup DailyByok
        PROVE  total("platform") + total("byok") > 0
    <2> HIDE DEF total, rows
    <2>1. QED
      BY <1>2, <1>3, <1>5
  <1>6. ASSUME ~\E e \in rows : e.type \in DailyPlatform \cup DailyByok
        PROVE  total("platform") = 0 /\ total("byok") = 0
    <2> HIDE DEF rows
    <2>1. (\A e \in rows : Weight("platform")[e] = 0) /\ \A e \in rows : Weight("byok")[e] = 0
      BY <1>3, <1>6
    <2>2. QED
      BY <1>2, <2>1, SumOfZeros
  <1> HIDE DEF rows, total
  <1>7. (\E d \in days : Used(d, u)) <=> total("platform") + total("byok") > 0
    BY <1>4, <1>5, <1>6
  <1>8. QED
    BY <1>7 DEF total, rows

\* A line of usageUsers adds up its user's rows, and counts the days of use.
LEMMA LineLemma ==
    ASSUME Readable, NEW from \in Int, NEW to \in Int, NEW u
    PROVE  LET line == UsageUser(from, to, u)
           IN  /\ \A column \in Columns :
                    line[column] = SumFunctionOnSet(Weight(column), RowsOf(from .. to, {u}))
               /\ line.activeDays = Cardinality(DaysOfUse(from .. to, u))
  <1> DEFINE line == UsageUser(from, to, u)
             days == PerDay(from, to, u)
  <1>1. ASSUME NEW column \in Columns
        PROVE  line[column] = Total(days, column)
    BY DEF UsageUser, Columns
  <1>2. ASSUME NEW d \in from .. to
        PROVE  days[d].platform + days[d].byok > 0 <=> Used(d, u)
    <2> DEFINE rows == RowsOf({d}, {u})
    <2>1. rows \in SUBSET table /\ rows = {e \in table : e.day = d /\ e.user = u}
      BY DEF RowsOf
    <2>2. days[d].platform = Count(rows, DailyPlatform) /\ days[d].byok = Count(rows, DailyByok)
      <3> HIDE DEF rows
      <3>1. QED
        BY <2>1, ListsAgree DEF PerDay
    <2>3. /\ days[d].platform = SumFunctionOnSet(Weight("platform"), rows)
          /\ days[d].byok = SumFunctionOnSet(Weight("byok"), rows)
      <3> HIDE DEF rows
      <3>1. QED
        BY <2>1, <2>2, ColumnLemma
    <2>4. (\E day \in {d} : Used(day, u)) <=> Used(d, u)
      OBVIOUS
    <2> HIDE DEF days
    <2>5. QED
      BY <2>3, <2>4, UsedLemma
  <1>3. line.activeDays = Cardinality({d \in from .. to : days[d].platform + days[d].byok > 0})
    BY DEF UsageUser
  <1>4. {d \in from .. to : days[d].platform + days[d].byok > 0} = DaysOfUse(from .. to, u)
    <2> HIDE DEF days
    <2>1. QED
      BY <1>2 DEF DaysOfUse
  <1>5. ASSUME NEW column \in Columns
        PROVE  line[column] = SumFunctionOnSet(Weight(column), RowsOf(from .. to, {u}))
    BY <1>1, <1>5, TotalsLemma
  <1>6. QED
    BY <1>3, <1>4, <1>5

\* Who is left out of usageUsers has nothing in any column.
LEMMA UnlistedLemma ==
    ASSUME Readable, NEW from \in Int, NEW to \in Int, NEW u,
           ~Listed(UsageUser(from, to, u))
    PROVE  /\ \A column \in Columns : UsageUser(from, to, u)[column] = 0
           /\ \A d \in from .. to : ~Used(d, u)
  <1> DEFINE line == UsageUser(from, to, u)
             rows == RowsOf(from .. to, {u})
             total(column) == SumFunctionOnSet(Weight(column), rows)
  <1>1. rows \in SUBSET table
    BY DEF RowsOf
  <1>2. \A column \in Columns : line[column] = total(column)
    BY LineLemma
  <1>3. \A column \in Columns :
            /\ IsFiniteSet(rows) /\ total(column) \in Nat
            /\ \A e \in rows : Weight(column)[e] <= total(column)
    BY <1>1, WeightLemma
  <1>4. total("platform") = 0 /\ total("byok") = 0 /\ total("purchased") = 0
    <2>1. ~(line.platform + line.byok + line.purchased > 0)
      BY DEF Listed
    <2>2. /\ line.platform = total("platform") /\ line.byok = total("byok")
          /\ line.purchased = total("purchased")
      <3> HIDE DEF line, total
      <3>1. QED
        BY <1>2 DEF Columns
    <2>3. total("platform") \in Nat /\ total("byok") \in Nat /\ total("purchased") \in Nat
      <3> HIDE DEF total
      <3>1. QED
        BY <1>3 DEF Columns
    <2> HIDE DEF line, total
    <2>4. QED
      BY <2>1, <2>2, <2>3
  <1>5. \A e \in rows : e.type \notin DailyPlatform
    <2> SUFFICES ASSUME NEW e \in rows, e.type \in DailyPlatform PROVE FALSE
      OBVIOUS
    <2>1. Weight("platform")[e] = 1
      BY <1>1 DEF Weight, TypesOf
    <2>2. Weight("platform")[e] <= total("platform")
      BY <1>3 DEF Columns
    <2> HIDE DEF total
    <2>3. QED
      BY <1>4, <2>1, <2>2
  <1>6. \A e \in rows : Weight("failed")[e] = 0 /\ Weight("credits")[e] = 0
    BY <1>1, <1>5 DEF Weight, TypesOf, DailyPlatform, DailyFailed, DailyBilled
  <1>7. total("failed") = 0 /\ total("credits") = 0
    <2>1. IsFiniteSet(rows)
      BY <1>1, FS_Subset DEF Readable
    <2> HIDE DEF rows
    <2>2. QED
      BY <1>6, <2>1, SumOfZeros
  <1>8. \A column \in Columns : total(column) = 0
    <2> HIDE DEF total
    <2>1. QED
      BY <1>4, <1>7 DEF Columns
  <1>9. \A d \in from .. to : ~Used(d, u)
    <2>1. ~(total("platform") + total("byok") > 0)
      <3> HIDE DEF total
      <3>1. QED
        BY <1>4
    <2>2. ~\E d \in from .. to : Used(d, u)
      BY <2>1, UsedLemma
    <2>3. QED
      BY <2>2
  <1>10. QED
    BY <1>2, <1>8, <1>9

\* The lines of usageUsers, and who has one.
LEMMA LinesLemma ==
    ASSUME NEW from, NEW to
    PROVE  /\ DOMAIN usageUsers(from, to) = {v \in Users : Listed(UsageUser(from, to, v))}
           /\ \A u \in DOMAIN usageUsers(from, to) :
                usageUsers(from, to)[u] = UsageUser(from, to, u)
  BY DEF usageUsers

\* A column of usageUsers adds up what it would if everybody had a line.
LEMMA EverybodyLemma ==
    ASSUME FiniteAssumption, NEW from, NEW to, NEW column, NEW f, Numbers(f, Users),
           \A u \in Users : UsageUser(from, to, u)[column] = f[u],
           \A u \in Users : ~Listed(UsageUser(from, to, u)) => f[u] = 0
    PROVE  Total(usageUsers(from, to), column) = SumFunctionOnSet(f, Users)
  <1> DEFINE lines == usageUsers(from, to)
             listed == {v \in Users : Listed(UsageUser(from, to, v))}
             values == [u \in listed |-> lines[u][column]]
  <1>1. DOMAIN lines = listed /\ \A u \in listed : lines[u] = UsageUser(from, to, u)
    BY LinesLemma
  <1>2. Total(lines, column) = SumFunctionOnSet(values, listed)
    <2> HIDE DEF lines, listed
    <2>1. QED
      BY <1>1 DEF Total
  <1>3. listed \in SUBSET Users /\ \A u \in Users \ listed : f[u] = 0
    OBVIOUS
  <1>4. \A u \in listed : f[u] = values[u]
    BY <1>1
  <1>5. IsFiniteSet(Users) /\ IsFiniteSet(listed) /\ Numbers(f, listed)
    BY <1>3, FS_Subset DEF FiniteAssumption, Numbers
  <1> HIDE DEF listed, values
  <1>6. SumFunctionOnSet(f, Users) = SumFunctionOnSet(f, listed)
    BY <1>3, <1>5, SumRestricts
  <1>7. SumFunctionOnSet(f, listed) = SumFunctionOnSet(values, listed)
    BY <1>4, <1>5, SumSame
  <1>8. QED
    BY <1>2, <1>6, <1>7

\* The users' lines add up to the rows of the days.
LEMMA UsersAdd ==
    ASSUME FiniteAssumption, Readable, NEW from \in Int, NEW to \in Int, NEW column \in Columns
    PROVE  Total(usageUsers(from, to), column) =
           SumFunctionOnSet(Weight(column), RowsOf(from .. to, Users))
  <1> DEFINE w == Weight(column)
             rows == RowsOf(from .. to, Users)
             owner == [e \in rows |-> e.user]
             f == [u \in Users |-> SumFunctionOnSet(w, {e \in rows : owner[e] = u})]
  <1>1. rows \in SUBSET table /\ \A e \in rows : owner[e] \in Users
    BY DEF RowsOf
  <1>2. \A u \in Users : f[u] = UsageUser(from, to, u)[column]
    <2>1. \A u \in Users : {e \in rows : owner[e] = u} = RowsOf(from .. to, {u})
      BY DEF RowsOf
    <2>2. \A u \in Users : f[u] = SumFunctionOnSet(w, RowsOf(from .. to, {u}))
      BY <2>1
    <2> HIDE DEF f
    <2>3. ASSUME NEW u \in Users
          PROVE  UsageUser(from, to, u)[column] = SumFunctionOnSet(w, RowsOf(from .. to, {u}))
      BY LineLemma
    <2>4. QED
      BY <2>2, <2>3
  <1>3. Numbers(f, Users)
    <2>1. \A u \in Users : {e \in rows : owner[e] = u} \in SUBSET table
      BY <1>1
    <2>2. \A u \in Users : SumFunctionOnSet(w, {e \in rows : owner[e] = u}) \in Nat
      BY <2>1, WeightLemma
    <2>3. QED
      BY <2>2 DEF Numbers
  <1>4. SumFunctionOnSet(w, rows) = SumFunctionOnSet(f, Users)
    <2>1. IsFiniteSet(rows) /\ Numbers(w, rows) /\ IsFiniteSet(Users)
      BY <1>1, WeightLemma DEF FiniteAssumption
    <2> HIDE DEF w, rows, owner
    <2>2. QED
      BY <1>1, <2>1, SumGroups
  <1>5. Total(usageUsers(from, to), column) = SumFunctionOnSet(f, Users)
    <2> HIDE DEF f
    <2>1. \A u \in Users : ~Listed(UsageUser(from, to, u)) => f[u] = 0
      BY <1>2, UnlistedLemma
    <2>2. QED
      BY <1>2, <1>3, <2>1, EverybodyLemma
  <1>6. QED
    BY <1>4, <1>5

\* The users of a day are those who spent or used a key of their own on it.
LEMMA ActiveLemma ==
    ASSUME Readable, NEW from, NEW to, NEW users \in SUBSET Users, NEW d \in from .. to
    PROVE  usageDaily(from, to, users)[d].active = Cardinality({u \in users : Used(d, u)})
  <1> DEFINE rows == {e \in table : e.day = d /\ e.user \in users}
  <1>1. usageDaily(from, to, users)[d] = UsageDay(rows)
    BY DEF usageDaily
  <1>2. {e.user : e \in OfType(rows, DailyPlatform \cup DailyByok)} = {u \in users : Used(d, u)}
    BY DEF OfType, Used
  <1> HIDE DEF rows
  <1>3. UsageDay(rows).active = Cardinality({e.user : e \in OfType(rows, DailyPlatform \cup DailyByok)})
    BY ListsAgree DEF UsageDay
  <1>4. QED
    BY <1>1, <1>2, <1>3

\* Adding up the users of each day is adding up the days of each user.
LEMMA ActiveAdds ==
    ASSUME FiniteAssumption, Readable, NEW from \in Int, NEW to \in Int
    PROVE  Total(usageDaily(from, to, Users), "active") =
           Total(usageUsers(from, to), "activeDays")
  <1> DEFINE days == from .. to
             report == usageDaily(from, to, Users)
             m == [d \in days |-> [u \in Users |-> IF Used(d, u) THEN 1 ELSE 0]]
             byDay == [d \in days |-> SumFunctionOnSet(m[d], Users)]
             column(u) == [d \in days |-> m[d][u]]
             byUser == [u \in Users |-> SumFunctionOnSet(column(u), days)]
  <1>1. IsFiniteSet(days) /\ IsFiniteSet(Users)
    BY FS_Interval DEF FiniteAssumption
  <1>2. m \in [days -> [Users -> Int]]
    OBVIOUS
  <1>3. SumFunctionOnSet(byDay, days) = SumFunctionOnSet(byUser, Users)
    <2> HIDE DEF m, days
    <2>1. QED
      BY <1>1, <1>2, SumSwaps
  <1>4. \A d \in days : report[d].active = byDay[d]
    <2> SUFFICES ASSUME NEW d \in days PROVE report[d].active = byDay[d]
      OBVIOUS
    <2> DEFINE f == m[d]
               used == {u \in Users : Used(d, u)}
    <2>1. used \in SUBSET Users /\ \A u \in Users : f[u] = IF u \in used THEN 1 ELSE 0
      OBVIOUS
    <2>2. Cardinality(used) = SumFunctionOnSet(f, Users)
      <3> HIDE DEF f, used
      <3>1. QED
        BY <1>1, <2>1, SumCounts
    <2>3. report[d].active = Cardinality(used)
      BY ActiveLemma
    <2>4. QED
      BY <2>2, <2>3
  <1>5. Total(report, "active") = SumFunctionOnSet(byDay, days)
    <2>1. DOMAIN report = days
      BY DEF usageDaily
    <2>2. [d \in days |-> report[d].active] = byDay
      BY <1>4
    <2> HIDE DEF report, byDay, days
    <2>3. QED
      BY <2>1, <2>2 DEF Total
  <1>6. ASSUME NEW u \in Users
        PROVE  UsageUser(from, to, u).activeDays = byUser[u]
    <2> DEFINE f == column(u)
               used == DaysOfUse(days, u)
    <2>1. used \in SUBSET days /\ \A d \in days : f[d] = IF d \in used THEN 1 ELSE 0
      BY DEF DaysOfUse
    <2>2. Cardinality(used) = SumFunctionOnSet(f, days)
      <3> HIDE DEF f, used, days
      <3>1. QED
        BY <1>1, <2>1, SumCounts
    <2>3. UsageUser(from, to, u).activeDays = Cardinality(used)
      BY LineLemma
    <2>4. QED
      BY <2>2, <2>3
  <1>7. ASSUME NEW u \in Users
        PROVE  byUser[u] \in Int /\ (~Listed(UsageUser(from, to, u)) => byUser[u] = 0)
    <2> DEFINE f == column(u)
    <2>1. byUser[u] = SumFunctionOnSet(f, days) /\ \A d \in days : f[d] \in Nat
      OBVIOUS
    <2>2. ASSUME ~Listed(UsageUser(from, to, u))
          PROVE  \A d \in days : f[d] = 0
      BY <2>2, UnlistedLemma
    <2> HIDE DEF f, byUser, days
    <2>3. SumFunctionOnSet(f, days) \in Nat
      BY <1>1, <2>1, SumOfNaturals
    <2>4. QED
      BY <1>1, <2>1, <2>2, <2>3, SumOfZeros
  <1>8. Total(usageUsers(from, to), "activeDays") = SumFunctionOnSet(byUser, Users)
    <2> HIDE DEF byUser
    <2>1. Numbers(byUser, Users)
      BY <1>7 DEF Numbers
    <2>2. QED
      BY <1>6, <1>7, <2>1, EverybodyLemma
  <1>9. QED
    BY <1>3, <1>5, <1>8

\* A report about one user has the days that the user's line counts.
LEMMA OwnActive ==
    ASSUME FiniteAssumption, Readable, NEW from \in Int, NEW to \in Int, NEW u \in Users
    PROVE  Total(usageDaily(from, to, {u}), "active") = UsageUser(from, to, u).activeDays
  <1> DEFINE days == from .. to
             report == usageDaily(from, to, {u})
             f == [d \in days |-> report[d].active]
             used == DaysOfUse(days, u)
  <1>1. IsFiniteSet(days) /\ used \in SUBSET days
    BY FS_Interval DEF DaysOfUse
  <1>2. ASSUME NEW d \in days
        PROVE  f[d] = IF d \in used THEN 1 ELSE 0
    <2>1. f[d] = Cardinality({v \in {u} : Used(d, v)})
      BY ActiveLemma
    <2>2. CASE Used(d, u)
      <3>1. {v \in {u} : Used(d, v)} = {u}
        BY <2>2
      <3>2. QED
        BY <2>1, <2>2, <3>1, FS_Singleton DEF DaysOfUse
    <2>3. CASE ~Used(d, u)
      <3>1. {v \in {u} : Used(d, v)} = {}
        BY <2>3
      <3>2. QED
        BY <2>1, <2>3, <3>1, FS_EmptySet DEF DaysOfUse
    <2>4. QED
      BY <2>2, <2>3
  <1>3. Total(report, "active") = SumFunctionOnSet(f, days)
    <2>1. DOMAIN report = days
      BY DEF usageDaily
    <2> HIDE DEF report, days
    <2>2. QED
      BY <2>1 DEF Total
  <1>4. UsageUser(from, to, u).activeDays = Cardinality(used)
    BY LineLemma
  <1>5. Cardinality(used) = SumFunctionOnSet(f, days)
    <2> HIDE DEF f, used, days
    <2>1. QED
      BY <1>1, <1>2, SumCounts
  <1>6. QED
    BY <1>3, <1>4, <1>5

\* A user has heavy days exactly if the highest of the user's days is one.
LEMMA PeakLemma ==
    ASSUME Readable, NEW from \in Int, NEW to \in Int, from <= to, NEW u
    PROVE  LET line == UsageUser(from, to, u)
           IN  line.heavyDays > 0 <=> line.peak >= DailyLimit
  <1> DEFINE days == from .. to
             report == PerDay(from, to, u)
             counts == {report[d].platform : d \in days}
             heavy == {d \in days : report[d].platform >= DailyLimit}
  <1>1. IsFiniteSet(days) /\ from \in days
    BY FS_Interval
  <1>2. \A d \in days : report[d].platform \in Nat
    <2> SUFFICES ASSUME NEW d \in days PROVE report[d].platform \in Nat
      OBVIOUS
    <2> DEFINE rows == OfType({e \in table : e.day = d /\ e.user = u}, DailyPlatform)
    <2>1. report[d].platform = Cardinality(rows)
      BY ListsAgree DEF PerDay, Count
    <2>2. IsFiniteSet(rows)
      BY FS_Subset DEF Readable, OfType
    <2>3. QED
      BY <2>1, <2>2, FS_CardinalityType
  <1> HIDE DEF report
  <1>3. counts \subseteq Int /\ counts # {} /\ IsFiniteSet(counts)
    <2>1. counts # {} /\ counts \subseteq Int
      BY <1>1, <1>2
    <2> DEFINE of == [d \in days |-> report[d].platform]
    <2>2. of \in Surjection(days, counts)
      BY DEF Surjection
    <2> HIDE DEF days, of, counts
    <2>a. IsFiniteSet(counts)
      BY <1>1, <2>2, FS_Surjection
    <2>3. QED
      BY <2>1, <2>a
  <1>4. Max(counts) \in counts /\ \A n \in counts : Max(counts) >= n
    <2> HIDE DEF counts
    <2>1. \E x \in counts : \A y \in counts : x >= y
      BY <1>3, MaxExists
    <2>2. QED
      BY <2>1 DEF Max
  <1>5. Max(counts) >= DailyLimit <=> heavy # {}
    <2>1. DailyLimit \in Int /\ Max(counts) \in Int
      BY <1>3, <1>4, LedgerAssumption
    <2>2. PICK d \in days : Max(counts) = report[d].platform
      BY <1>4
    <2>3. ASSUME NEW h \in heavy
          PROVE  Max(counts) >= DailyLimit
      <3>1. Max(counts) >= report[h].platform /\ report[h].platform >= DailyLimit
        BY <1>4
      <3>2. report[h].platform \in Int
        BY <1>2
      <3> HIDE DEF counts
      <3>3. QED
        BY <2>1, <3>1, <3>2
    <2>4. Max(counts) >= DailyLimit => d \in heavy
      BY <2>2
    <2>5. QED
      BY <2>3, <2>4
  <1>6. Cardinality(heavy) > 0 <=> heavy # {}
    <2>1. IsFiniteSet(heavy)
      BY <1>1, FS_Subset
    <2> HIDE DEF heavy
    <2>2. Cardinality(heavy) \in Nat /\ (Cardinality(heavy) = 0 <=> heavy = {})
      BY <2>1, FS_CardinalityType, FS_EmptySet
    <2>3. QED
      BY <2>2
  <1>7. UsageUser(from, to, u).peak = Max(counts) /\ UsageUser(from, to, u).heavyDays = Cardinality(heavy)
    BY DEF UsageUser, report
  <1>8. QED
    BY <1>5, <1>6, <1>7

\* A page keeps lines, the first ones of their order, and all of them if they fit.
LEMMA PageLemma ==
    ASSUME NEW lines, NEW S \in SUBSET Nat, IsFiniteSet(S), DOMAIN lines = S,
           NEW sort, \A u \in S : SortKey(lines[u], sort) \in Nat, NEW limit \in Nat
    PROVE  LET page == Page(lines, sort, limit)
           IN  /\ DOMAIN page \in SUBSET S /\ \A u \in DOMAIN page : page[u] = lines[u]
               /\ page = [u \in DOMAIN page |-> lines[u]]
               /\ \A u \in DOMAIN page, v \in S \ DOMAIN page :
                    SortKey(lines[v], sort) <= SortKey(lines[u], sort)
               /\ Cardinality(S) <= limit => DOMAIN page = S
  <1> DEFINE page == Page(lines, sort, limit)
             key(u) == SortKey(lines[u], sort)
             Before(u) == {v \in S : key(v) > key(u) \/ (key(v) = key(u) /\ v < u)}
  <1>1. /\ DOMAIN page = {v \in S : Cardinality(Before(v)) < limit}
        /\ \A u \in DOMAIN page : page[u] = lines[u]
        /\ page = [u \in DOMAIN page |-> lines[u]]
    BY DEF Page
  <1>2. \A u \in S : IsFiniteSet(Before(u)) /\ Cardinality(Before(u)) \in Nat
    BY FS_Subset, FS_CardinalityType
  <1>3. ASSUME NEW u \in DOMAIN page, NEW v \in S \ DOMAIN page, key(v) > key(u)
        PROVE  FALSE
    <2>1. u \in S /\ Cardinality(Before(u)) < limit /\ ~(Cardinality(Before(v)) < limit)
      BY <1>1
    <2>2. \A x \in S : key(x) \in Nat
      OBVIOUS
    <2>3. Before(v) \subseteq Before(u)
      <3> SUFFICES ASSUME NEW x \in Before(v) PROVE key(x) > key(u)
        OBVIOUS
      <3>1. key(x) >= key(v) /\ key(x) \in Nat /\ key(v) \in Nat /\ key(u) \in Nat
        <4>1. key(x) > key(v) \/ key(x) = key(v)
          OBVIOUS
        <4>2. key(x) \in Nat /\ key(v) \in Nat /\ key(u) \in Nat
          BY <2>1, <2>2
        <4> HIDE DEF key
        <4>3. QED
          BY <4>1, <4>2
      <3> HIDE DEF key
      <3>2. QED
        BY <1>3, <3>1
    <2>4. Cardinality(Before(v)) <= Cardinality(Before(u))
      <3> HIDE DEF Before
      <3>1. QED
        BY <1>2, <2>1, <2>3, FS_Subset
    <2> HIDE DEF Before
    <2>5. QED
      BY <1>2, <2>1, <2>4
  <1>4. ASSUME NEW v \in S, Cardinality(S) <= limit
        PROVE  v \in DOMAIN page
    <2>1. Before(v) \subseteq S \ {v}
      <3>1. key(v) \in Nat /\ v \in Nat
        OBVIOUS
      <3> HIDE DEF key
      <3>2. QED
        BY <3>1
    <2>2. /\ Cardinality(S) \in Nat /\ IsFiniteSet(S \ {v})
          /\ Cardinality(S \ {v}) = Cardinality(S) - 1
      BY FS_CardinalityType, FS_RemoveElement
    <2> HIDE DEF Before
    <2>3. Cardinality(Before(v)) <= Cardinality(S \ {v})
      BY <2>1, <2>2, FS_Subset
    <2>4. Cardinality(Before(v)) < limit
      BY <1>2, <1>4, <2>2, <2>3
    <2>5. QED
      BY <1>1, <2>4
  <1> HIDE DEF page, Before
  <1>5. \A u \in DOMAIN page, v \in S \ DOMAIN page : key(v) <= key(u)
    <2> SUFFICES ASSUME NEW u \in DOMAIN page, NEW v \in S \ DOMAIN page
                 PROVE  key(v) <= key(u)
      OBVIOUS
    <2>1. ~(key(v) > key(u))
      BY <1>3
    <2>2. u \in S /\ key(u) \in Nat /\ key(v) \in Nat
      BY <1>1
    <2> HIDE DEF key
    <2>3. QED
      BY <2>1, <2>2
  <1>6. DOMAIN page \in SUBSET S
    BY <1>1
  <1>7. Cardinality(S) <= limit => DOMAIN page = S
    BY <1>4, <1>6
  <1>8. QED
    BY <1>1, <1>5, <1>6, <1>7 DEF page

\* Some of the lines never make more than all of them.
LEMMA PartTotal ==
    ASSUME NEW lines, NEW page, IsFiniteSet(DOMAIN lines), DOMAIN page \in SUBSET DOMAIN lines,
           \A u \in DOMAIN page : page[u] = lines[u],
           NEW column, \A u \in DOMAIN lines : lines[u][column] \in Nat
    PROVE  Total(page, column) <= Total(lines, column)
  <1> DEFINE S == DOMAIN lines
             P == DOMAIN page
             f == [u \in S |-> lines[u][column]]
             g == [u \in P |-> page[u][column]]
  <1>1. Total(lines, column) = SumFunctionOnSet(f, S) /\ Total(page, column) = SumFunctionOnSet(g, P)
    BY DEF Total
  <1>2. \A u \in S : f[u] \in Nat
    OBVIOUS
  <1>3. \A u \in P : f[u] = g[u]
    OBVIOUS
  <1>4. P \in SUBSET S /\ IsFiniteSet(S) /\ IsFiniteSet(P) /\ IsFiniteSet(S \ P)
    BY FS_Subset
  <1> HIDE DEF f, g, S, P
  <1>5. Numbers(f, S) /\ Numbers(f, P) /\ SumFunctionOnSet(f, S \ P) \in Nat
    BY <1>2, <1>4, SumOfNaturals
  <1>6. SumFunctionOnSet(f, P) = SumFunctionOnSet(g, P)
    BY <1>3, <1>4, <1>5, SumSame
  <1>7. /\ SumFunctionOnSet(f, P) \in Int
        /\ SumFunctionOnSet(f, S) = SumFunctionOnSet(f, P) + SumFunctionOnSet(f, S \ P)
    BY <1>4, <1>5, SumSplits
  <1>8. QED
    BY <1>1, <1>5, <1>6, <1>7

\* The reports agree on any finite table of entries of users.
LEMMA ReportsLemma ==
    ASSUME Readable, NEW r \in Ranges
    PROVE  AgreeOn(r)
  <1> DEFINE from == r[1]
             to == r[2]
  <1>1. from \in Int /\ to \in Int /\ from <= to
    BY LedgerAssumption DEF Ranges, Days
  <1> HIDE DEF from, to
  <1> DEFINE days == usageDaily(from, to, Users)
             lines == usageUsers(from, to)
             own == [u \in Users |-> usageDaily(from, to, {u})]
             total == [u \in Users |-> [column \in Columns |-> Total(own[u], column)]]
             listed == DOMAIN lines
  <1>2. \A column \in Columns : Total(lines, column) = Total(days, column)
    BY <1>1, FiniteAssumption, TotalsLemma, UsersAdd
  <1>3. Total(lines, "activeDays") = Total(days, "active")
    BY <1>1, FiniteAssumption, ActiveAdds
  <1>4. ASSUME NEW u \in Users, NEW column \in Columns
        PROVE  total[u][column] = UsageUser(from, to, u)[column] /\ total[u][column] \in Nat
    <2>1. total[u][column] = Total(usageDaily(from, to, {u}), column)
      OBVIOUS
    <2> DEFINE rows == RowsOf(from .. to, {u})
    <2>2. Total(usageDaily(from, to, {u}), column) = SumFunctionOnSet(Weight(column), rows)
      BY <1>1, TotalsLemma
    <2>3. UsageUser(from, to, u)[column] = SumFunctionOnSet(Weight(column), rows)
      BY <1>1, LineLemma
    <2>4. rows \in SUBSET table
      BY DEF RowsOf
    <2> HIDE DEF total, rows
    <2>5. SumFunctionOnSet(Weight(column), rows) \in Nat
      BY <2>4, WeightLemma
    <2>6. QED
      BY <2>1, <2>2, <2>3, <2>5
  <1>5. /\ listed = {u \in Users : Listed(UsageUser(from, to, u))}
        /\ \A u \in listed : lines[u] = UsageUser(from, to, u)
        /\ lines = [u \in listed |-> lines[u]]
    BY LinesLemma DEF usageUsers
  <1>6. \A u \in Users : own[u] = usageDaily(from, to, {u})
    OBVIOUS
  <1> HIDE DEF days, lines, own, total
  <1>7. ASSUME NEW u \in listed
        PROVE  /\ \A column \in Columns : lines[u][column] = total[u][column]
               /\ lines[u].activeDays = Total(own[u], "active")
               /\ lines[u].heavyDays > 0 <=> lines[u].peak >= DailyLimit
    <2>1. u \in Users /\ lines[u] = UsageUser(from, to, u)
      BY <1>5
    <2>2. \A column \in Columns : lines[u][column] = total[u][column]
      BY <1>4, <2>1
    <2>3. lines[u].activeDays = Total(own[u], "active")
      BY <1>1, <1>6, <2>1, FiniteAssumption, OwnActive
    <2>4. lines[u].heavyDays > 0 <=> lines[u].peak >= DailyLimit
      BY <1>1, <2>1, PeakLemma
    <2>5. QED
      BY <2>2, <2>3, <2>4
  <1>8. ASSUME NEW sort \in Sorts, NEW limit \in 1 .. MaxTop
        PROVE  LET page == Page(lines, sort, limit)
               IN  /\ \A column \in Columns : Total(page, column) <= Total(days, column)
                   /\ \A u \in DOMAIN page, v \in Users \ DOMAIN page :
                        SortKey(total[v], sort) <= SortKey(total[u], sort)
                   /\ Cardinality(DOMAIN lines) <= limit => page = lines
    <2> DEFINE page == Page(lines, sort, limit)
    <2>1. \A u \in Users :
            /\ total[u].platform \in Nat /\ total[u].byok \in Nat /\ total[u].credits \in Nat
      BY <1>4 DEF Columns
    <2>2. \A u \in listed :
            /\ lines[u].platform = total[u].platform /\ lines[u].byok = total[u].byok
            /\ lines[u].credits = total[u].credits
      BY <1>7 DEF Columns
    <2>3. listed \in SUBSET Users /\ listed \in SUBSET Nat /\ IsFiniteSet(listed)
      BY <1>5, LedgerAssumption, FiniteAssumption, FS_Subset
    <2>4. \A u \in Users : SortKey(total[u], sort) \in Nat
      BY <2>1 DEF SortKey
    <2>5. \A u \in listed : SortKey(lines[u], sort) = SortKey(total[u], sort)
      BY <2>2 DEF SortKey
    <2>6. /\ DOMAIN page \in SUBSET listed /\ \A u \in DOMAIN page : page[u] = lines[u]
          /\ page = [u \in DOMAIN page |-> lines[u]]
          /\ \A u \in DOMAIN page, v \in listed \ DOMAIN page :
                SortKey(lines[v], sort) <= SortKey(lines[u], sort)
          /\ Cardinality(listed) <= limit => DOMAIN page = listed
      <3>1. limit \in Nat
        OBVIOUS
      <3>2. \A u \in listed : SortKey(lines[u], sort) \in Nat
        BY <2>3, <2>4, <2>5
      <3>3. QED
        BY <2>3, <3>1, <3>2, PageLemma
    <2> HIDE DEF page
    <2>7. \A column \in Columns : Total(page, column) <= Total(days, column)
      <3> SUFFICES ASSUME NEW column \in Columns PROVE Total(page, column) <= Total(lines, column)
        BY <1>2
      <3>1. \A u \in listed : lines[u][column] \in Nat
        BY <1>4, <1>7, <2>3
      <3>2. QED
        BY <2>3, <2>6, <3>1, PartTotal
    <2>8. ASSUME NEW v \in Users \ listed
          PROVE  SortKey(total[v], sort) = 0
      <3>1. \A column \in Columns : total[v][column] = 0
        BY <1>1, <1>4, <1>5, UnlistedLemma
      <3>2. total[v].platform = 0 /\ total[v].byok = 0 /\ total[v].credits = 0
        BY <3>1 DEF Columns
      <3>3. QED
        BY <3>2 DEF SortKey
    <2>9. ASSUME NEW u \in DOMAIN page, NEW v \in Users \ DOMAIN page
          PROVE  SortKey(total[v], sort) <= SortKey(total[u], sort)
      <3>1. u \in listed /\ u \in Users
        BY <2>3, <2>6
      <3>2. CASE v \in listed
        BY <2>5, <2>6, <3>1, <3>2
      <3>3. CASE v \notin listed
        BY <2>4, <2>8, <3>1, <3>3
      <3>4. QED
        BY <3>2, <3>3
    <2>10. Cardinality(listed) <= limit => page = lines
      BY <1>5, <2>6
    <2>11. QED
      BY <2>7, <2>9, <2>10 DEF page
  <1>9. /\ \A u \in DOMAIN lines :
            /\ \A column \in Columns : lines[u][column] = total[u][column]
            /\ lines[u].activeDays = Total(own[u], "active")
            /\ lines[u].heavyDays > 0 <=> lines[u].peak >= DailyLimit
        /\ \A column \in Columns : Total(lines, column) = Total(days, column)
        /\ Total(lines, "activeDays") = Total(days, "active")
        /\ \A sort \in Sorts, limit \in 1 .. MaxTop :
            LET page == Page(lines, sort, limit)
            IN  /\ \A column \in Columns : Total(page, column) <= Total(days, column)
                /\ \A u \in DOMAIN page, v \in Users \ DOMAIN page :
                    SortKey(total[v], sort) <= SortKey(total[u], sort)
                /\ Cardinality(DOMAIN lines) <= limit => page = lines
    BY <1>2, <1>3, <1>7, <1>8
  <1>10. QED
    BY <1>9 DEF AgreeOn, days, lines, own, total, from, to

\* The table stays finite: a step adds at most one row.
LEMMA TableIsFinite == BookSpec => []IsFiniteSet(table)
  <1>1. BookInit => IsFiniteSet(table)
    BY FS_EmptySet DEF BookInit
  <1>2. IsFiniteSet(table) /\ TypeOK /\ TypeOK' /\ [BookNext]_bookVars => IsFiniteSet(table)'
    <2> SUFFICES ASSUME IsFiniteSet(table), TypeOK, TypeOK', [BookNext]_bookVars
                 PROVE  IsFiniteSet(table')
      OBVIOUS
    <2>1. table' = table \/ \E entry : table' = table \cup {entry}
      <3>1. CASE RequestStep
        BY <3>1, EntersLemma
      <3>2. CASE \E p \in Purchases : Purchase(p)
        BY <3>2 DEF Purchase, PurchaseRefused, PurchaseLost, PurchaseMints, NotePurchase,
           PurchaseCrash
      <3>3. CASE NewDay \/ UNCHANGED bookVars
        BY <3>3 DEF NewDay, bookVars
      <3>4. QED
        BY <3>1, <3>2, <3>3 DEF BookNext
    <2>2. QED
      BY <2>1, FS_AddElement
  <1>3. BookSpec => []TypeOK
    BY GatewayIsKept, TypeCorrect, PTL
  <1>4. QED
    BY <1>1, <1>2, <1>3, PTL DEF BookSpec

\* The three reports agree about every range of days at any moment, also while requests
\* are running, and so in particular when the property asks.
THEOREM ReportsAreOne == BookSpec => [](\A r \in Ranges : AgreeOn(r)) /\ []ReportsAgree
  <1>1. BookTypeOK /\ IsFiniteSet(table) => \A r \in Ranges : AgreeOn(r)
    BY ReportsLemma DEF BookTypeOK, Readable
  <1>2. (\A r \in Ranges : AgreeOn(r)) => ReportsAgree
    BY DEF ReportsAgree
  <1>3. QED
    BY <1>1, <1>2, BookTypeCorrect, TableIsFinite, PTL

-----------------------------------------------------------------------------
(* The quiet report *)

\* What the entry of a row says, but for its day.
OfRow(e, row) ==
    /\ e.id = <<row.key, row.slot>> /\ e.about = row.request
    /\ e.user = who[row.request]
    /\ e.type = EventType(row) /\ e.credits = row.credits

\* The table holds the entries of the ledger's rows and of purchases, and no others.
TableInv ==
    /\ \A row \in ledger : \E e \in table : OfRow(e, row)
    /\ \A e \in table : e.type = "credits_purchased" \/ \E row \in ledger : OfRow(e, row)

\* An entry stays that of its row.
LEMMA OfRowLemma ==
    ASSUME ask' = ask, who' = who, byok' = byok, NEW e, NEW row
    PROVE  OfRow(e, row)' <=> OfRow(e, row)
  BY DEF OfRow, EventType, Generate

\* The table and the ledger stay in step.
LEMMA TableKept == BookSpec => []TableInv
  <1>1. BookInit => TableInv
    BY DEF BookInit, Init, TableInv
  <1>2. TypeOK /\ TypeOK' /\ TableInv /\ [BookNext]_bookVars => TableInv'
    <2> SUFFICES ASSUME TypeOK, TypeOK', TableInv, [BookNext]_bookVars PROVE TableInv'
      OBVIOUS
    <2>1. ask' = ask /\ who' = who /\ byok' = byok
      <3>1. [Next]_vars
        BY StepLemma
      <3>2. ask' = ask
        BY <3>1, NextCases, HarmLemma DEF vars
      <3>3. who' = who /\ byok' = byok
        BY DEF BookNext, RequestStep, NewDay, Purchase, PurchaseRefused, PurchaseLost,
           PurchaseMints, NotePurchase, PurchaseCrash, bookVars
      <3>4. QED
        BY <3>2, <3>3
    <2>2. \A e, row : OfRow(e, row)' <=> OfRow(e, row)
      BY <2>1, OfRowLemma
    <2>3. CASE RequestStep
      <3>1. \/ ledger' = ledger /\ table' = table
            \/ \E new, entry :
                /\ ledger' = ledger \cup {new} /\ table' = table \cup {entry}
                /\ OfRow(entry, new)
        <4>1. \A row, day : OfRow(Entry(row, day), row)
          BY DEF OfRow, Entry
        <4>2. QED
          BY <2>3, <4>1, EntersLemma
      <3>2. \A row \in ledger' : \E e \in table' : OfRow(e, row)'
        BY <2>2, <3>1 DEF TableInv
      <3>3. \A e \in table' : e.type = "credits_purchased" \/ \E row \in ledger' : OfRow(e, row)'
        BY <2>2, <3>1 DEF TableInv
      <3>4. QED
        BY <3>2, <3>3 DEF TableInv
    <2>4. CASE ~RequestStep
      <3>1. ledger' = ledger
        BY <2>4 DEF BookNext, NewDay, Purchase, PurchaseRefused, PurchaseLost,
           PurchaseMints, NotePurchase, PurchaseCrash, bookVars, vars
      <3>2. table \subseteq table' /\ \A e \in table' \ table : e.type = "credits_purchased"
        BY <2>4 DEF BookNext, NewDay, Purchase, PurchaseRefused, PurchaseLost,
           PurchaseMints, NotePurchase, PurchaseCrash, bookVars
      <3>3. QED
        BY <2>2, <3>1, <3>2 DEF TableInv
    <2>5. QED
      BY <2>3, <2>4
  <1>3. BookSpec => []TypeOK
    BY GatewayIsKept, TypeCorrect, PTL
  <1>4. QED
    BY <1>1, <1>2, <1>3, PTL DEF BookSpec

\* All that is known of a state of the ledger.
Known ==
    /\ BookTypeOK /\ IsFiniteSet(table) /\ TableInv
    /\ TypeOK /\ RequestInv /\ LedgerInv /\ QuietInv

\* It is known of every state.
LEMMA AllKnown == BookSpec => []Known
  <1>1. BookSpec => []TypeOK /\ []RequestInv /\ []LedgerInv /\ []QuietInv
    BY GatewayIsKept, TypeCorrect, RequestsOK, LedgerAgrees, QuietKept, PTL
  <1>2. QED
    BY <1>1, BookTypeCorrect, TableIsFinite, TableKept, PTL DEF Known

\* A bill is a natural number.
LEMMA BillLemma ==
    ASSUME Known, NEW c \in Requests
    PROVE  bill[c] \in Nat
  <1>1. bill[c] \in Credits
    BY DEF Known, TypeOK
  <1>2. QED
    BY <1>1, CreditsAreNat

\* The entries of a user's requests that count as platform requests.
Counted(u) == {e \in RowsOf(0 .. LastDay, {u}) : e.type \in DailyPlatform}

\* Each is the terminal entry of a metered request of that user.
LEMMA CountedLemma ==
    ASSUME Known, NEW u, NEW e \in Counted(u)
    PROVE  \E row \in ledger :
                /\ OfRow(e, row) /\ e.about = row.request /\ row.request \in Requests
                /\ row.type = e.type /\ row.slot # "reserve" /\ who[row.request] = u
                /\ Metered(row.request) /\ stage[row.request] # "none" /\ RowOK(row)
  <1>1. e \in table /\ e.user = u /\ e.type \in DailyPlatform
    BY DEF Counted, RowsOf
  <1>2. PICK row \in ledger : OfRow(e, row)
    BY <1>1 DEF Known, TableInv, DailyPlatform, DailyBilled, DailyFailed
  <1>3. RowOK(row) /\ row.request \in Requests
    BY DEF Known, LedgerInv, TypeOK, Rows
  <1>4. row.type = e.type
    BY <1>1, <1>2 DEF OfRow, EventType, DailyPlatform, DailyBilled, DailyFailed
  <1>5. row.type # "unmetered" /\ row.type # "credits_reserved"
    BY <1>1, <1>4 DEF DailyPlatform, DailyBilled, DailyFailed
  <1>6. row.slot # "reserve" /\ Metered(row.request) /\ stage[row.request] # "none"
    BY <1>3, <1>5 DEF RowOK
  <1>7. QED
    BY <1>1, <1>2, <1>3, <1>4, <1>6 DEF OfRow

\* No request has two.
LEMMA CountedOnce ==
    ASSUME Known, NEW u, NEW e \in Counted(u), NEW other \in Counted(u), e.about = other.about
    PROVE  e = other
  <1>1. PICK row \in ledger : OfRow(e, row) /\ e.about = row.request /\ row.slot # "reserve"
    BY CountedLemma
  <1>2. PICK row2 \in ledger :
            OfRow(other, row2) /\ other.about = row2.request /\ row2.slot # "reserve"
    BY CountedLemma
  <1>3. row = row2
    BY <1>1, <1>2 DEF Known, LedgerInv, OneEnd
  <1>4. e.id = other.id /\ e \in table /\ other \in table
    BY <1>1, <1>2, <1>3 DEF OfRow, Counted, RowsOf
  <1>5. QED
    BY <1>4 DEF Known, BookTypeOK

\* An undisturbed request with a hold has one, and it says what was billed.
LEMMA UndisturbedLemma ==
    ASSUME Known, NEW c \in Requests, Undisturbed(c)
    PROVE  /\ stage[c] = "none" => bill[c] = 0
           /\ \A e \in Counted(who[c]) : e.about = c =>
                \/ e.type \in DailyBilled /\ e.credits = bill[c] /\ stage[c] = "billed"
                \/ e.type \in DailyFailed /\ stage[c] = "returned" /\ bill[c] = 0
                \/ e.type \in DailyFailed /\ stage[c] = "gone"
           /\ stage[c] # "none" => \E e \in Counted(who[c]) : e.about = c
  <1>1. /\ Unharmed(c) /\ pc[c] \in {"idle", "done"} /\ RequestOK(c)
        /\ FairlySettled(c) /\ OnRecord(c)
    BY DEF Known, RequestInv, QuietInv, Undisturbed, Unharmed, Alone
  <1>2. stage[c] = "none" => bill[c] = 0
    BY <1>1 DEF RequestOK, HoldInv
  <1>3. ASSUME NEW e \in Counted(who[c]), e.about = c
        PROVE  \/ e.type \in DailyBilled /\ e.credits = bill[c] /\ stage[c] = "billed"
               \/ e.type \in DailyFailed /\ stage[c] = "returned" /\ bill[c] = 0
               \/ e.type \in DailyFailed /\ stage[c] = "gone"
    <2>1. PICK row \in ledger :
                /\ OfRow(e, row) /\ e.about = row.request
                /\ row.type = e.type /\ row.slot # "reserve" /\ Metered(row.request) /\ RowOK(row)
      BY CountedLemma
    <2>2. row.request = c /\ row.credits = e.credits /\ Metered(c)
      BY <1>3, <2>1 DEF OfRow
    <2>3. settled[c] \in {"ok", "error"}
      BY <2>1, <2>2 DEF RowOK, Known, TypeOK
    <2>4. settled[c] = "ok" => stage[c] \in {"returned", "billed"}
      BY <1>1, <2>2 DEF RequestOK, SettledInv
    <2>5. settled[c] = "error" => stage[c] = "gone"
      BY <1>1, <2>2 DEF FairlySettled
    <2>6. /\ stage[c] = "returned" => bill[c] = 0 /\ BeforeOutput(c)
          /\ stage[c] = "billed" => bill[c] = Cost(c) /\ ~BeforeOutput(c)
      BY <1>1 DEF RequestOK, HoldInv
    <2>7. CASE e.type \in DailyBilled
      <3>1. settled[c] = "ok" /\ ~BeforeOutput(c) /\ row.credits = Cost(c)
        BY <2>1, <2>2, <2>7 DEF RowOK, DailyBilled
      <3>2. QED
        BY <2>2, <2>4, <2>6, <2>7, <3>1
    <2>8. CASE e.type = "credits_released"
      <3>1. BeforeOutput(c)
        BY <2>1, <2>2, <2>8 DEF RowOK
      <3>2. QED
        BY <2>3, <2>4, <2>5, <2>6, <2>8, <3>1 DEF DailyFailed
    <2>9. CASE e.type = "commit_failed"
      <3>1. settled[c] = "error"
        BY <2>1, <2>2, <2>9 DEF RowOK
      <3>2. QED
        BY <2>5, <2>9, <3>1 DEF DailyFailed
    <2>10. QED
      BY <2>7, <2>8, <2>9 DEF Counted, DailyPlatform, DailyBilled
  <1>4. ASSUME stage[c] # "none"
        PROVE  \E e \in Counted(who[c]) : e.about = c
    <2>1. pc[c] = "done"
      BY <1>1, <1>4 DEF RequestOK, HoldInv
    <2>2. PICK row \in ledger : row.request = c /\ row.slot # "reserve"
      BY <1>1, <1>4, <2>1 DEF OnRecord
    <2>3. Metered(c) /\ RowOK(row) /\ row.type \in EventTypes
      BY <1>1, <1>4 DEF RequestOK, HoldInv, Known, LedgerInv, TypeOK, Rows
    <2>4. row.type \in DailyPlatform
      BY <2>2, <2>3 DEF RowOK, EventTypes, DailyPlatform, DailyBilled, DailyFailed
    <2>5. PICK e \in table : OfRow(e, row)
      BY DEF Known, TableInv
    <2>6. e.about = c /\ e.user = who[c] /\ e.type \in DailyPlatform
      <3>1. row.type # "unmetered"
        BY <2>4 DEF DailyPlatform, DailyBilled, DailyFailed
      <3>2. EventType(row) = row.type
        BY <3>1 DEF EventType
      <3>3. QED
        BY <2>2, <2>4, <2>5, <3>2 DEF OfRow
    <2>7. e.day \in 0 .. LastDay
      <3>1. e.day \in 0 .. today /\ today \in 0 .. LastDay
        BY DEF Known, BookTypeOK, Days
      <3>2. QED
        BY <3>1, LedgerAssumption
    <2>8. QED
      BY <2>6, <2>7 DEF Counted, RowsOf
  <1>5. QED
    BY <1>2, <1>3, <1>4

\* What the counted entries of a user add up to, by request.
LEMMA ByRequest ==
    ASSUME FiniteAssumption, Known, NEW u, NEW w, NEW v,
           \A e \in Counted(u) : w[e] \in Int,
           \A c \in {b \in Requests : who[b] = u} : v[c] \in Int,
           \A c \in {b \in Requests : who[b] = u} :
                \/ \E e \in Counted(u) : e.about = c /\ w[e] = v[c]
                \/ (\A e \in Counted(u) : e.about # c) /\ v[c] = 0
    PROVE  SumFunctionOnSet(w, Counted(u)) = SumFunctionOnSet(v, {b \in Requests : who[b] = u})
  <1> DEFINE rows == Counted(u)
             own == {b \in Requests : who[b] = u}
             owner == [e \in rows |-> e.about]
             at(c) == {e \in rows : owner[e] = c}
             g == [c \in own |-> SumFunctionOnSet(w, at(c))]
  <1>1. IsFiniteSet(rows) /\ IsFiniteSet(own)
    BY FS_Subset DEF Known, Counted, RowsOf, FiniteAssumption
  <1>2. \A e \in rows : owner[e] \in own
    BY CountedLemma
  <1>3. Numbers(w, rows)
    BY DEF Numbers
  <1>4. SumFunctionOnSet(w, rows) = SumFunctionOnSet(g, own)
    <2> HIDE DEF rows, own, owner
    <2>1. QED
      BY <1>1, <1>2, <1>3, SumGroups
  <1>5. ASSUME NEW c \in own
        PROVE  g[c] = v[c]
    <2>1. g[c] = SumFunctionOnSet(w, at(c))
      OBVIOUS
    <2>2. CASE \E e \in rows : e.about = c /\ w[e] = v[c]
      <3>1. PICK e \in rows : e.about = c /\ w[e] = v[c]
        BY <2>2
      <3>2. at(c) = {e} /\ w[e] \in Int
        BY <3>1, CountedOnce
      <3>3. SumFunctionOnSet(w, {e}) = w[e]
        BY <3>2, SumOfOne
      <3> HIDE DEF at, g
      <3>4. QED
        BY <2>1, <3>1, <3>2, <3>3
    <2>3. CASE (\A e \in rows : e.about # c) /\ v[c] = 0
      <3>1. at(c) = {}
        BY <2>3
      <3>2. SumFunctionOnSet(w, {}) = 0
        BY FS_EmptySet, SumOfZeros
      <3> HIDE DEF at, g
      <3>3. QED
        BY <2>1, <2>3, <3>1, <3>2
    <2>4. QED
      BY <2>2, <2>3
  <1>6. SumFunctionOnSet(g, own) = SumFunctionOnSet(v, own)
    <2>1. Numbers(g, own)
      BY <1>5 DEF Numbers
    <2> HIDE DEF g, own
    <2>2. QED
      BY <1>1, <1>5, <2>1, SumSame
  <1>7. QED
    BY <1>4, <1>6

\* A platform column of all days adds up the counted entries.
LEMMA CountedTotal ==
    ASSUME Known, NEW u, NEW column \in {"credits", "platform"}
    PROVE  /\ Total(usageDaily(0, LastDay, {u}), column) =
                SumFunctionOnSet(Weight(column), Counted(u))
           /\ \A e \in Counted(u) : Weight(column)[e] \in Int
  <1> DEFINE rows == RowsOf(0 .. LastDay, {u})
             w == Weight(column)
  <1>1. Readable /\ column \in Columns /\ LastDay \in Int
    BY LedgerAssumption DEF Known, BookTypeOK, Readable, Columns
  <1>2. Total(usageDaily(0, LastDay, {u}), column) = SumFunctionOnSet(w, rows)
    BY <1>1, TotalsLemma
  <1>3. rows \in SUBSET table /\ Counted(u) \in SUBSET rows
    BY DEF RowsOf, Counted
  <1>4. IsFiniteSet(rows) /\ Numbers(w, rows)
    BY <1>1, <1>3, WeightLemma
  <1>5. \A e \in rows \ Counted(u) : w[e] = 0
    BY <1>3 DEF Counted, Weight, TypesOf, DailyPlatform, DailyBilled
  <1> HIDE DEF w, rows
  <1>6. SumFunctionOnSet(w, rows) = SumFunctionOnSet(w, Counted(u))
    BY <1>3, <1>4, <1>5, SumRestricts
  <1>7. \A e \in Counted(u) : w[e] \in Int
    BY <1>3, <1>4 DEF Numbers
  <1>8. QED
    BY <1>2, <1>6, <1>7 DEF w

\* A user whose requests went well reads in the report what was billed.
LEMMA QuietLemma ==
    ASSUME FiniteAssumption, Known, NEW u \in Users,
           \A c \in {b \in Requests : who[b] = u} : Undisturbed(c)
    PROVE  LET own == {b \in Requests : who[b] = u}
               days == usageDaily(0, LastDay, {u})
           IN  /\ Total(days, "credits") =
                    SumFunctionOnSet(bill, {c \in own : stage[c] # "gone"})
               /\ Total(days, "platform") = Cardinality({c \in own : stage[c] # "none"})
  <1> DEFINE own == {b \in Requests : who[b] = u}
             charged == {c \in own : stage[c] # "gone"}
             held == {c \in own : stage[c] # "none"}
             v == [c \in own |-> IF stage[c] = "gone" THEN 0 ELSE bill[c]]
             one == [c \in own |-> IF c \in held THEN 1 ELSE 0]
             wc == Weight("credits")
             wp == Weight("platform")
  <1>1. IsFiniteSet(own) /\ charged \in SUBSET own /\ held \in SUBSET own
    BY FS_Subset DEF FiniteAssumption
  <1>2. \A c \in own : bill[c] \in Int
    <2> SUFFICES ASSUME NEW c \in own PROVE bill[c] \in Int
      OBVIOUS
    <2>1. c \in Requests
      OBVIOUS
    <2> HIDE DEF own, v, charged, held, one
    <2>2. bill[c] \in Nat
      BY <2>1, BillLemma
    <2>3. QED
      BY <2>2
  <1>3. \A e \in Counted(u) :
            /\ wp[e] = 1
            /\ e.type \in DailyBilled => wc[e] = e.credits
            /\ e.type \notin DailyBilled => wc[e] = 0
    BY DEF Counted, RowsOf, Weight, TypesOf
  <1>4. ASSUME NEW c \in own
        PROVE  /\ v[c] \in Int /\ one[c] \in Int
               /\ \/ \E e \in Counted(u) : e.about = c /\ wc[e] = v[c]
                  \/ (\A e \in Counted(u) : e.about # c) /\ v[c] = 0
               /\ \/ \E e \in Counted(u) : e.about = c /\ wp[e] = one[c]
                  \/ (\A e \in Counted(u) : e.about # c) /\ one[c] = 0
    <2>1. v[c] \in Int /\ one[c] \in Int
      BY <1>2
    <2>2. Undisturbed(c) /\ who[c] = u /\ c \in Requests
      OBVIOUS
    <2>3. CASE stage[c] = "none"
      <3>1. v[c] = 0 /\ one[c] = 0
        BY <2>2, <2>3, UndisturbedLemma
      <3>2. \A e \in Counted(u) : e.about # c
        BY <2>3, CountedLemma
      <3>3. QED
        BY <2>1, <3>1, <3>2
    <2>4. CASE stage[c] # "none"
      <3>1. PICK e \in Counted(u) : e.about = c
        BY <2>2, <2>4, UndisturbedLemma
      <3>2. \/ e.type \in DailyBilled /\ e.credits = bill[c] /\ stage[c] = "billed"
            \/ e.type \in DailyFailed /\ stage[c] = "returned" /\ bill[c] = 0
            \/ e.type \in DailyFailed /\ stage[c] = "gone"
        BY <2>2, <3>1, UndisturbedLemma
      <3>3. wc[e] = v[c]
        <4>1. e.type \in DailyFailed => e.type \notin DailyBilled
          BY DEF DailyFailed, DailyBilled
        <4>2. v[c] = IF stage[c] = "gone" THEN 0 ELSE bill[c]
          OBVIOUS
        <4> HIDE DEF v, wc
        <4>3. QED
          BY <1>3, <3>2, <4>1, <4>2
      <3>4. wp[e] = one[c]
        BY <1>3, <2>4
      <3> HIDE DEF v, one, wc, wp
      <3>5. QED
        BY <2>1, <3>1, <3>3, <3>4
    <2>5. QED
      BY <2>3, <2>4
  <1>5. SumFunctionOnSet(wc, Counted(u)) = SumFunctionOnSet(v, own)
    <2>1. \A e \in Counted(u) : wc[e] \in Int
      BY CountedTotal
    <2> HIDE DEF wc, wp, v, one
    <2>2. \A c \in own : v[c] \in Int
      BY <1>4
    <2>3. \A c \in own :
            \/ \E e \in Counted(u) : e.about = c /\ wc[e] = v[c]
            \/ (\A e \in Counted(u) : e.about # c) /\ v[c] = 0
      BY <1>4
    <2>4. QED
      BY <2>1, <2>2, <2>3, ByRequest
  <1>6. SumFunctionOnSet(wp, Counted(u)) = SumFunctionOnSet(one, own)
    <2>1. \A e \in Counted(u) : wp[e] \in Int
      BY CountedTotal
    <2> HIDE DEF wc, wp, v, one
    <2>2. \A c \in own : one[c] \in Int
      BY <1>4
    <2>3. \A c \in own :
            \/ \E e \in Counted(u) : e.about = c /\ wp[e] = one[c]
            \/ (\A e \in Counted(u) : e.about # c) /\ one[c] = 0
      BY <1>4
    <2>4. QED
      BY <2>1, <2>2, <2>3, ByRequest
  <1>7. SumFunctionOnSet(v, own) = SumFunctionOnSet(bill, charged)
    <2>1. \A c \in own \ charged : v[c] = 0
      OBVIOUS
    <2>2. \A c \in charged : v[c] = bill[c]
      OBVIOUS
    <2>3. Numbers(v, own) /\ Numbers(v, charged) /\ IsFiniteSet(charged)
      BY <1>1, <1>4, FS_Subset DEF Numbers
    <2> HIDE DEF v, own, charged
    <2>4. QED
      BY <1>1, <2>1, <2>2, <2>3, SumRestricts, SumSame
  <1>8. Cardinality(held) = SumFunctionOnSet(one, own)
    <2>1. \A c \in own : one[c] = IF c \in held THEN 1 ELSE 0
      OBVIOUS
    <2> HIDE DEF one, own, held
    <2>2. QED
      BY <1>1, <2>1, SumCounts
  <1>9. Total(usageDaily(0, LastDay, {u}), "credits") = SumFunctionOnSet(bill, charged)
    BY <1>5, <1>7, CountedTotal
  <1>10. Total(usageDaily(0, LastDay, {u}), "platform") = Cardinality(held)
    BY <1>6, <1>8, CountedTotal
  <1>11. QED
    BY <1>9, <1>10

\* Nothing is lost when nothing goes wrong: the days of such a user add up to exactly
\* what the usage service billed, and each of the user's holds is counted once.
THEOREM QuietIsExact == BookSpec => []QuietReportIsExact
  <1>1. Known => QuietReportIsExact
    BY FiniteAssumption, QuietLemma DEF QuietReportIsExact
  <1>2. QED
    BY <1>1, AllKnown, PTL

-----------------------------------------------------------------------------
(* The bound *)

\* A counted entry says no more than its request was billed.
LEMMA WorthLemma ==
    ASSUME Known, LedgerIsLowerBound, NEW u, NEW e \in Counted(u)
    PROVE  Weight("credits")[e] <= bill[e.about]
  <1>1. PICK row \in ledger :
            /\ OfRow(e, row) /\ e.about = row.request /\ row.request \in Requests
            /\ row.type = e.type
    BY CountedLemma
  <1>2. bill[e.about] \in Nat
    BY <1>1, BillLemma
  <1>3. e \in table /\ e.credits \in Nat
    BY DEF Counted, RowsOf, Known, BookTypeOK
  <1>4. CASE e.type \in DailyBilled
    <2>1. bill[e.about] = e.credits
      BY <1>1, <1>4 DEF LedgerIsLowerBound, RowIsTrue, OfRow, DailyBilled
    <2>2. Weight("credits")[e] = e.credits
      BY <1>3, <1>4 DEF Weight, TypesOf
    <2>3. QED
      BY <1>3, <2>1, <2>2
  <1>5. CASE e.type \notin DailyBilled
    <2>1. Weight("credits")[e] = 0
      BY <1>3, <1>5 DEF Weight, TypesOf
    <2>2. QED
      BY <1>2, <2>1
  <1>6. QED
    BY <1>4, <1>5

\* So the entries of a user say no more than the user's requests were billed.
LEMMA BoundLemma ==
    ASSUME FiniteAssumption, Known, LedgerIsLowerBound, NEW u
    PROVE  Total(usageDaily(0, LastDay, {u}), "credits") <=
                SumFunctionOnSet(bill, {c \in Requests : who[c] = u})
  <1> DEFINE own == {c \in Requests : who[c] = u}
             w == Weight("credits")
             v == [c \in own |->
                    IF \E e \in Counted(u) : e.about = c
                    THEN w[CHOOSE e \in Counted(u) : e.about = c] ELSE 0]
  <1>1. IsFiniteSet(own) /\ \A c \in own : bill[c] \in Nat
    BY FS_Subset, BillLemma DEF FiniteAssumption
  <1>2. /\ Total(usageDaily(0, LastDay, {u}), "credits") = SumFunctionOnSet(w, Counted(u))
        /\ \A e \in Counted(u) : w[e] \in Int
    BY CountedTotal
  <1>3. ASSUME NEW c \in own
        PROVE  /\ v[c] \in Int /\ v[c] <= bill[c]
               /\ \/ \E e \in Counted(u) : e.about = c /\ w[e] = v[c]
                  \/ (\A e \in Counted(u) : e.about # c) /\ v[c] = 0
    <2>1. CASE \E e \in Counted(u) : e.about = c
      <3>1. PICK e \in Counted(u) : e.about = c /\ v[c] = w[e]
        BY <2>1
      <3>2. w[e] \in Int /\ w[e] <= bill[c]
        BY <1>2, <3>1, WorthLemma
      <3> HIDE DEF v, w
      <3>3. QED
        BY <3>1, <3>2
    <2>2. CASE ~\E e \in Counted(u) : e.about = c
      <3>1. v[c] = 0 /\ bill[c] \in Nat
        BY <1>1, <2>2
      <3> HIDE DEF v, w
      <3>2. QED
        BY <2>2, <3>1
    <2>3. QED
      BY <2>1, <2>2
  <1> HIDE DEF v, w
  <1>4. SumFunctionOnSet(w, Counted(u)) = SumFunctionOnSet(v, own)
    <2>1. \A c \in own : v[c] \in Int
      BY <1>3
    <2>2. \A c \in own :
            \/ \E e \in Counted(u) : e.about = c /\ w[e] = v[c]
            \/ (\A e \in Counted(u) : e.about # c) /\ v[c] = 0
      BY <1>3
    <2>3. QED
      BY <1>2, <2>1, <2>2, ByRequest
  <1>5. SumFunctionOnSet(v, own) <= SumFunctionOnSet(bill, own)
    <2> HIDE DEF own
    <2>1. QED
      BY <1>1, <1>3, SumBelow
  <1>6. QED
    BY <1>2, <1>4, <1>5

\* The days of a user never add up to more than the bills of the user's requests, for
\* any losses, retries and crashes: what the page of a user may be read as.
THEOREM ReportsAreBounded == BookSpec => []ReportIsLowerBound
  <1>1. Known /\ LedgerIsLowerBound => ReportIsLowerBound
    BY FiniteAssumption, BoundLemma DEF ReportIsLowerBound
  <1>2. QED
    BY <1>1, AllKnown, RowsAreTrue, PTL

=============================================================================
