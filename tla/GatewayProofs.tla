--------------------------- MODULE GatewayProofs ---------------------------
(***************************************************************************)
(* Proofs about the gateway, for any requests, asks, keys and bounds.      *)
(***************************************************************************)
EXTENDS Gateway, TLAPS

-----------------------------------------------------------------------------
(* Lemmas about calls *)

\* Whatever becomes of a call, it counts at most one fault, hangs up at most its
\* own client, and touches no other request.
LEMMA CallLemma ==
    ASSUME TypeOK, NEW c \in Requests, Replied(c) \/ ReplyLost(c) \/ NotExecuted(c)
    PROVE  /\ faults' \in [Requests -> 0 .. MaxFaults]
           /\ alive' \in [Requests -> BOOLEAN]
           /\ \A b \in Requests \ {c} : faults'[b] = faults[b] /\ alive'[b] = alive[b]
           /\ alive'[c] => alive[c]
           /\ faults'[c] = 0 => faults[c] = 0
           /\ ~Cancellable(c) /\ (ReplyLost(c) \/ NotExecuted(c)) => faults'[c] # 0
  <1>1. /\ faults \in [Requests -> 0 .. MaxFaults]
        /\ alive \in [Requests -> BOOLEAN]
        /\ MaxFaults \in Nat
    BY FaultsAssumption DEF TypeOK
  <1>2. Fault(c) => /\ faults' \in [Requests -> 0 .. MaxFaults]
                    /\ \A b \in Requests \ {c} : faults'[b] = faults[b]
                    /\ faults'[c] # 0
    BY <1>1 DEF Fault
  <1>3. QED
    BY <1>1, <1>2 DEF Replied, ReplyLost, NotExecuted

\* What a request asks for.
LEMMA AskLemma ==
    ASSUME TypeOK, NEW c \in Requests
    PROVE  /\ ask[c] \in Asks
           /\ ask[c].metered \in BOOLEAN
           /\ ask[c].estimate \in Nat \ {0}
           /\ ask[c].key \in Keys
  <1>1. ask[c] \in Asks
    BY DEF TypeOK
  <1>2. ask[c] \in [kind : Kinds, metered : BOOLEAN, hangs : BOOLEAN,
                    estimate : Nat \ {0}, key : Keys]
    BY <1>1, AsksAssumption
  <1>3. QED
    BY <1>1, <1>2

\* The ledger takes an event or leaves it, and its rows keep their type.
LEMMA EmitLemma ==
    ASSUME TypeOK, NEW c \in Requests, NEW slot \in Slots, NEW type \in EventTypes,
           NEW n \in Credits, Emit(c, slot, type, n)
    PROVE  /\ ledger' \subseteq Rows
           /\ faults' \in [Requests -> 0 .. MaxFaults]
           /\ alive' \in [Requests -> BOOLEAN]
           /\ \A b \in Requests \ {c} : faults'[b] = faults[b] /\ alive'[b] = alive[b]
           /\ alive'[c] => alive[c]
           /\ faults'[c] = 0 => faults[c] = 0
  <1> DEFINE row == [key |-> ask[c].key, slot |-> slot, request |-> c,
                     type |-> type, credits |-> n]
  <1>0. ask[c].key \in Keys
    BY AskLemma
  <1>1. ledger \subseteq Rows
    BY DEF TypeOK
  <1>2. row \in Rows
    BY <1>0 DEF Rows
  <1>3. ledger' = ledger \/ ledger' = ledger \cup {row}
    BY DEF Emit, Insert
  <1>4. Replied(c) \/ ReplyLost(c) \/ NotExecuted(c)
    BY DEF Emit
  <1>5. QED
    BY <1>1, <1>2, <1>3, <1>4, CallLemma

\* What a request costs and holds are credits.
LEMMA CreditsLemma ==
    ASSUME TypeOK, NEW c \in Requests
    PROVE  /\ ask[c] \in Asks /\ Metered(c) \in BOOLEAN
           /\ Estimate(c) \in Credits
           /\ Cost(c) \in Credits
           /\ ActualCredits(c) \in Credits
           /\ 0 \in Credits
  <1>1. ask[c] \in Asks /\ run[c] \in Runs
    BY DEF TypeOK
  <1>2. Estimate(c) \in Credits
    BY <1>1 DEF Estimate, Credits
  <1>3. Metered(c) \in BOOLEAN
    BY <1>1, AsksAssumption DEF Metered
  <1>4. ActualCredits(c) \in Credits
    BY <1>1 DEF Runs, Usages, Credits, ActualCredits, SawUsage
  <1>5. QED
    BY <1>1, <1>2, <1>3, <1>4 DEF Cost, Credits

-----------------------------------------------------------------------------
(* Type correctness *)

\* The initial state has the types.
LEMMA InitType == Init => TypeOK
  <1> SUFFICES ASSUME Init PROVE TypeOK
    OBVIOUS
  <1>1. /\ client \in [Requests -> Clients]
        /\ run \in [Requests -> Runs]
    BY DEF Init, Clients, Runs, Usages
  <1>2. /\ stage \in [Requests -> Usage!Stages]
        /\ bill \in [Requests -> Credits]
    BY DEF Init, Usage!Init, Usage!Stages, Credits
  <1>3. faults \in [Requests -> 0 .. MaxFaults]
    <2>1. 0 \in 0 .. MaxFaults
      BY FaultsAssumption
    <2>2. faults = [c \in Requests |-> 0]
      BY DEF Init
    <2>3. QED
      BY <2>1, <2>2
  <1>4. QED
    BY <1>1, <1>2, <1>3 DEF Init, TypeOK, Active, Ended

\* What the usage service does to a hold keeps its type.
LEMMA HoldLemma ==
    ASSUME TypeOK, NEW c \in Requests, NEW n \in Credits,
           Usage!Take(c, n) \/ Usage!Bill(c, n) \/ Usage!Return(c) \/ Usage!Expire(c)
    PROVE  /\ stage' \in [Requests -> Usage!Stages]
           /\ bill' \in [Requests -> Credits]
           /\ \A b \in Requests \ {c} : stage'[b] = stage[b] /\ bill'[b] = bill[b]
  <1>1. stage \in [Requests -> Usage!Stages] /\ bill \in [Requests -> Credits]
    BY DEF TypeOK
  <1>2. 0 \in Credits
    BY DEF Credits
  <1>3. QED
    BY <1>1, <1>2 DEF Usage!Take, Usage!Bill, Usage!Return, Usage!Expire, Usage!Stages

\* A handler moves, and sends to its client, within the types.
LEMMA MoveLemma ==
    ASSUME TypeOK, NEW c \in Requests
    PROVE  /\ \A p \in {"idle"} \cup Active \cup Ended : Goto(c, p) =>
                pc' \in [Requests -> {"idle"} \cup Active \cup Ended]
           /\ \A update \in Clients : Send(c, update) => client' \in [Requests -> Clients]
           /\ \A update \in Runs : Learn(c, update) => run' \in [Requests -> Runs]
  <1>1. \A p \in {"idle"} \cup Active \cup Ended : Goto(c, p) =>
            pc' \in [Requests -> {"idle"} \cup Active \cup Ended]
    BY DEF TypeOK, Goto
  <1>2. \A update \in Clients : Send(c, update) => client' \in [Requests -> Clients]
    <2>1. client \in [Requests -> Clients]
      BY DEF TypeOK
    <2>2. QED
      BY <2>1 DEF Send
  <1>3. \A update \in Runs : Learn(c, update) => run' \in [Requests -> Runs]
    <2>1. run \in [Requests -> Runs]
      BY DEF TypeOK
    <2>2. QED
      BY <2>1 DEF Learn
  <1>4. QED
    BY <1>1, <1>2, <1>3

\* The fields that a handler sets have the types of their records.
LEMMA FieldLemma ==
    ASSUME TypeOK, NEW c \in Requests
    PROVE  /\ client[c] \in Clients
           /\ run[c] \in Runs
           /\ [client[c] EXCEPT !.status = "error"] \in Clients
           /\ [run[c] EXCEPT !.broken = TRUE] \in Runs
  <1>1. client[c] \in Clients
    BY DEF TypeOK
  <1>2. run[c] \in Runs
    BY DEF TypeOK
  <1>3. [client[c] EXCEPT !.status = "error"] \in Clients
    BY <1>1 DEF Clients
  <1>4. [run[c] EXCEPT !.broken = TRUE] \in Runs
    BY <1>2 DEF Runs
  <1>5. QED
    BY <1>1, <1>2, <1>3, <1>4

\* Refusing or admitting a request keeps the types.
LEMMA RefuseType ==
    ASSUME TypeOK, NEW c \in Requests, Refuse(c) \/ Arrive(c)
    PROVE  TypeOK'
  <1>1. CASE Refuse(c)
    <2>1. [client[c] EXCEPT !.status = "error"] \in Clients
      BY FieldLemma
    <2>2. client' \in [Requests -> Clients]
      BY <1>1, <2>1, MoveLemma DEF Refuse
    <2>3. pc' \in [Requests -> {"idle"} \cup Active \cup Ended]
      BY <1>1, MoveLemma DEF Refuse, Ended
    <2>4. QED
      BY <1>1, <2>2, <2>3 DEF Refuse, TypeOK, holds
  <1>2. CASE Arrive(c)
    <2>1. pc' \in [Requests -> {"idle"} \cup Active \cup Ended]
      BY <1>2, MoveLemma DEF Arrive, Active
    <2>2. QED
      BY <1>2, <2>1 DEF Arrive, TypeOK, holds
  <1>3. QED
    BY <1>1, <1>2

\* The reservation keeps the types.
LEMMA ReserveType ==
    ASSUME TypeOK, NEW c \in Requests, Reserve(c)
    PROVE  TypeOK'
  <1>1. /\ faults' \in [Requests -> 0 .. MaxFaults]
        /\ alive' \in [Requests -> BOOLEAN]
    BY CallLemma DEF Reserve
  <1>2. /\ stage' \in [Requests -> Usage!Stages]
        /\ bill' \in [Requests -> Credits]
    BY HoldLemma, CreditsLemma DEF Reserve, holds, TypeOK
  <1>3. [client[c] EXCEPT !.status = "error"] \in Clients
    BY FieldLemma
  <1>4. client' \in [Requests -> Clients]
    BY <1>3, MoveLemma DEF Reserve, TypeOK
  <1>5. pc' \in [Requests -> {"idle"} \cup Active \cup Ended]
    BY MoveLemma DEF Reserve, Active, Ended
  <1>6. QED
    BY <1>1, <1>2, <1>4, <1>5 DEF Reserve, TypeOK

\* The event of a reservation keeps the types.
LEMMA AnnounceType ==
    ASSUME TypeOK, NEW c \in Requests, Announce(c)
    PROVE  TypeOK'
  <1>1. "reserve" \in Slots /\ "credits_reserved" \in EventTypes
    BY DEF Slots, EventTypes
  <1>2. Estimate(c) \in Credits
    BY CreditsLemma
  <1>3. /\ ledger' \subseteq Rows
        /\ faults' \in [Requests -> 0 .. MaxFaults]
        /\ alive' \in [Requests -> BOOLEAN]
    BY <1>1, <1>2, EmitLemma DEF Announce
  <1>4. pc' \in [Requests -> {"idle"} \cup Active \cup Ended]
    BY MoveLemma DEF Announce, Active
  <1>5. QED
    BY <1>3, <1>4 DEF Announce, TypeOK, holds

\* The upstream call keeps the types, however it comes out.
LEMMA CallType ==
    ASSUME TypeOK, NEW c \in Requests, NEW n \in Usages,
           CallFails(c) \/ CallAnswers(c, n) \/ CallOpens(c)
    PROVE  TypeOK'
  <1>1. run[c] \in Runs
    BY DEF TypeOK
  <1>2. pc' \in [Requests -> {"idle"} \cup Active \cup Ended]
    BY MoveLemma DEF CallFails, CallAnswers, CallOpens, Active
  <1>3. CASE CallFails(c)
    <2>1. [run[c] EXCEPT !.broken = TRUE] \in Runs
      BY <1>1 DEF Runs
    <2>2. run' \in [Requests -> Runs]
      BY <1>3, <2>1, MoveLemma DEF CallFails
    <2>3. QED
      BY <1>2, <1>3, <2>2 DEF CallFails, TypeOK, holds
  <1>4. CASE CallAnswers(c, n)
    <2>1. [run[c] EXCEPT !.usage = n] \in Runs
      BY <1>1 DEF Runs
    <2>2. run' \in [Requests -> Runs]
      BY <1>4, <2>1, MoveLemma DEF CallAnswers
    <2>3. QED
      BY <1>2, <1>4, <2>2 DEF CallAnswers, TypeOK, holds
  <1>5. CASE CallOpens(c)
    BY <1>2, <1>5 DEF CallOpens, TypeOK, holds
  <1>6. QED
    BY <1>3, <1>4, <1>5

\* A relayed frame keeps the types.
LEMMA RelayType ==
    ASSUME TypeOK, NEW c \in Requests, NEW frame \in Frames,
           NEW n \in Usages, Relay(c, frame, n)
    PROVE  TypeOK'
  <1>1. run[c] \in Runs /\ client[c] \in Clients
    BY DEF TypeOK
  <1>2. run' \in [Requests -> Runs]
    <2> DEFINE new == [run[c] EXCEPT
            !.opened = TRUE,
            !.billableStarted = @ \/ frame = "text_delta",
            !.usage = IF frame = "usage" THEN n ELSE @,
            !.sawError = @ \/ frame = "error"]
    <2>1. new \in Runs
      BY <1>1 DEF Runs
    <2>2. QED
      BY <2>1, MoveLemma DEF Relay
  <1>3. client' \in [Requests -> Clients]
    <2> DEFINE new == [client[c] EXCEPT
            !.status = "ok",
            !.output = @ \/ frame = "text_delta",
            !.told = IF frame # "usage" THEN @ ELSE IF Metered(c) THEN n ELSE 0,
            !.last = frame]
    <2>1. new \in Clients
      BY <1>1 DEF Clients
    <2>2. QED
      BY <2>1, MoveLemma DEF Relay
  <1>4. upstream' \in [Requests -> {"closed", "open", "counted", "ended"}]
    BY DEF Relay, Yields, TypeOK
  <1>5. QED
    BY <1>2, <1>3, <1>4 DEF Relay, TypeOK, holds

\* The end of a stream keeps the types.
LEMMA StreamType ==
    ASSUME TypeOK, NEW c \in Requests, StreamEnds(c) \/ StreamBreaks(c)
    PROVE  TypeOK'
  <1>1. pc' \in [Requests -> {"idle"} \cup Active \cup Ended]
    BY MoveLemma DEF StreamEnds, StreamBreaks, Active
  <1>2. [run[c] EXCEPT !.broken = TRUE] \in Runs
    BY FieldLemma
  <1>3. run' \in [Requests -> Runs]
    BY <1>2, MoveLemma DEF StreamEnds, StreamBreaks, TypeOK
  <1>4. QED
    BY <1>1, <1>3 DEF StreamEnds, StreamBreaks, TypeOK, holds

\* The settlement keeps the types.
LEMMA SettleType ==
    ASSUME TypeOK, NEW c \in Requests, Settle(c)
    PROVE  TypeOK'
  <1>1. /\ faults' \in [Requests -> 0 .. MaxFaults]
        /\ alive' \in [Requests -> BOOLEAN]
    BY CallLemma DEF Settle, TypeOK
  <1>2. /\ stage' \in [Requests -> Usage!Stages]
        /\ bill' \in [Requests -> Credits]
    BY HoldLemma, CreditsLemma DEF Settle, Apply, holds, TypeOK
  <1>3. settled' \in [Requests -> {"not yet", "ok", "error"}]
    BY DEF Settle, TypeOK
  <1>4. pc' \in [Requests -> {"idle"} \cup Active \cup Ended]
    BY MoveLemma DEF Settle, Active
  <1>5. QED
    BY <1>1, <1>2, <1>3, <1>4 DEF Settle, TypeOK

\* The terminal event is one of four, or none.
LEMMA RecordLemma ==
    ASSUME TypeOK, NEW c \in Requests, Record(c)
    PROVE  \/ \E slot \in Slots, type \in EventTypes, n \in Credits : Emit(c, slot, type, n)
           \/ UNCHANGED <<faults, alive, ledger>>
  BY CreditsLemma DEF Record, Slots, EventTypes

\* The terminal event keeps the types.
LEMMA RecordType ==
    ASSUME TypeOK, NEW c \in Requests, Record(c)
    PROVE  TypeOK'
  <1>1. /\ ledger' \subseteq Rows
        /\ faults' \in [Requests -> 0 .. MaxFaults]
        /\ alive' \in [Requests -> BOOLEAN]
    BY RecordLemma, EmitLemma DEF TypeOK
  <1>2. pc' \in [Requests -> {"idle"} \cup Active \cup Ended]
    BY MoveLemma DEF Record, Active
  <1>3. QED
    BY <1>1, <1>2 DEF Record, TypeOK, holds

\* The answer keeps the types.
LEMMA AnswerType ==
    ASSUME TypeOK, NEW c \in Requests, Answer(c)
    PROVE  TypeOK'
  <1>1. client[c] \in Clients /\ run[c] \in Runs
    BY DEF TypeOK
  <1>2. /\ [client[c] EXCEPT !.status = "error"] \in Clients
        /\ [client[c] EXCEPT !.last = "error"] \in Clients
        /\ [client[c] EXCEPT !.status = "ok", !.output = TRUE,
                !.told = IF Metered(c) \/ Generate(c) THEN ActualCredits(c) ELSE 0]
            \in Clients
    BY <1>1 DEF Clients, Runs, Frames, ActualCredits
  <1>3. client' \in [Requests -> Clients]
    <2>1. CASE Stream(c)
      BY <1>2, <2>1, MoveLemma DEF Answer, AnswerStream, TypeOK
    <2>2. CASE ~Stream(c)
      BY <1>2, <2>2, MoveLemma DEF Answer, AnswerWhole
    <2>3. QED
      BY <2>1, <2>2
  <1>4. pc' \in [Requests -> {"idle"} \cup Active \cup Ended]
    BY MoveLemma DEF Answer, Ended
  <1>5. QED
    BY <1>3, <1>4 DEF Answer, TypeOK, holds

\* A hang-up, a crash and an expiry keep the types.
LEMMA EnvironmentType ==
    ASSUME TypeOK, NEW c \in Requests, HangUp(c) \/ Crash(c) \/ TTL(c)
    PROVE  TypeOK'
  <1>1. CASE HangUp(c)
    BY <1>1 DEF HangUp, TypeOK, holds
  <1>2. CASE Crash(c)
    <2>1. pc' \in [Requests -> {"idle"} \cup Active \cup Ended]
      BY <1>2, MoveLemma DEF Crash, Ended
    <2>2. QED
      BY <1>2, <2>1 DEF Crash, TypeOK, holds
  <1>3. CASE TTL(c)
    <2>1. /\ stage' \in [Requests -> Usage!Stages]
          /\ bill' \in [Requests -> Credits]
      BY <1>3, HoldLemma, CreditsLemma DEF TTL
    <2>2. QED
      BY <1>3, <2>1 DEF TTL, TypeOK
  <1>4. QED
    BY <1>1, <1>2, <1>3

\* The steps of one request, for the proofs by cases below.
StepOf(c) ==
    \/ Refuse(c) \/ Arrive(c)
    \/ Reserve(c)
    \/ Announce(c)
    \/ \E n \in Usages : CallFails(c) \/ CallAnswers(c, n) \/ CallOpens(c)
    \/ \E frame \in Frames, n \in Usages : Relay(c, frame, n)
    \/ StreamEnds(c) \/ StreamBreaks(c)
    \/ Settle(c)
    \/ Record(c)
    \/ Answer(c)
    \/ HangUp(c) \/ Crash(c) \/ TTL(c)

\* A step of the gateway is a step of one request, or stutters.
LEMMA NextCases ==
    ASSUME [Next]_vars
    PROVE  (\E c \in Requests : StepOf(c)) \/ UNCHANGED vars
  BY DEF Next, Handler, Quiet, StepOf, Usages

\* Every variable of the gateway keeps its type.
THEOREM TypeCorrect == Spec => []TypeOK
  <1>1. TypeOK /\ [Next]_vars => TypeOK'
    <2> SUFFICES ASSUME TypeOK, [Next]_vars PROVE TypeOK'
      OBVIOUS
    <2>1. CASE UNCHANGED vars
      BY <2>1 DEF vars, holds, TypeOK
    <2>2. CASE \E c \in Requests : StepOf(c)
      <3>1. PICK c \in Requests : StepOf(c)
        BY <2>2
      <3>2. QED
        BY <3>1, RefuseType, ReserveType, AnnounceType, CallType, RelayType, StreamType,
           SettleType, RecordType, AnswerType, EnvironmentType DEF StepOf
    <2>3. QED
      BY <2>1, <2>2, NextCases
  <1>2. QED
    BY <1>1, InitType, PTL DEF Spec

-----------------------------------------------------------------------------
(* The inductive invariant *)

\* The handler before its upstream call, and the handler from its settlement on.
Starting == {"idle", "reserve", "announce", "call"}
Settling == {"record", "answer"}

\* The hold follows the handler, and what it becomes follows the verdict.
HoldInv(c) ==
    /\ pc[c] \in {"idle", "reserve"} => stage[c] = "none"
    /\ Metered(c) /\ pc[c] \in {"announce", "call", "relay", "settle"} =>
            stage[c] \in {"open", "gone"}
    /\ Metered(c) /\ pc[c] \in Settling => stage[c] # "none"
    /\ ~Metered(c) => stage[c] = "none" /\ pc[c] \notin {"reserve", "announce"}
    /\ stage[c] = "none" => bill[c] = 0
    /\ stage[c] \in {"open", "gone"} => bill[c] = Estimate(c)
    /\ stage[c] = "returned" => bill[c] = 0 /\ BeforeOutput(c)
    /\ stage[c] = "billed" => bill[c] = Cost(c) /\ ~BeforeOutput(c)
    /\ stage[c] \in {"returned", "billed"} => pc[c] \in Settling \cup Ended

\* What the handler knows agrees with what the client was sent.
RunInv(c) ==
    /\ pc[c] = "relay" => Stream(c)
    /\ pc[c] \in Starting =>
            /\ client[c].status = "none" /\ client[c].told = NoUsage
            /\ run[c].usage = NoUsage /\ ~run[c].sawError /\ ~run[c].broken
            /\ ~client[c].output /\ ~run[c].opened
    /\ ~Stream(c) => ~run[c].sawError /\ ~run[c].billableStarted
    /\ Stream(c) /\ client[c].output => run[c].billableStarted
    /\ ~Stream(c) /\ client[c].output => pc[c] = "done" /\ ~run[c].broken
    /\ Metered(c) /\ client[c].output => stage[c] # "none"

\* What the gateway believes of its settlement is so, unless a call failed.
SettledInv(c) ==
    /\ pc[c] \notin Settling \cup Ended => settled[c] = "not yet"
    /\ pc[c] \in Settling => settled[c] # "not yet"
    /\ settled[c] = "not yet" => stage[c] \notin {"returned", "billed"}
    /\ Metered(c) /\ settled[c] = "ok" => stage[c] \in {"returned", "billed"}
    /\ ~Generate(c) /\ Metered(c) /\ settled[c] = "error" /\ faults[c] = 0 => stage[c] = "gone"

\* The end of a stream is marked for a client that is there to see it, and it was
\* told what the handler knows.
MarkInv(c) ==
    /\ pc[c] \in Starting => upstream[c] = "closed"
    /\ Stream(c) /\ pc[c] \in {"settle"} \cup Settling /\ ~run[c].broken =>
            upstream[c] = "ended"
    /\ Stream(c) /\ alive[c] /\ upstream[c] = "ended" => client[c].last \in {"done", "error"}
    /\ run[c].sawError => upstream[c] = "ended" /\ (alive[c] => client[c].last = "error")
    /\ Stream(c) /\ alive[c] /\ pc[c] = "done" /\ client[c].status = "ok" =>
            IF run[c].broken THEN client[c].last = "error" ELSE upstream[c] = "ended"
    /\ Stream(c) /\ Metered(c) /\ alive[c] => client[c].told = run[c].usage
    /\ ~Stream(c) /\ client[c].status = "ok" =>
            /\ pc[c] = "done" /\ ~run[c].broken
            /\ Metered(c) => client[c].told = ActualCredits(c)
            /\ Generate(c) => settled[c] = "ok" /\ SawUsage(c)
    /\ Generate(c) /\ pc[c] \in {"settle"} \cup Settling /\ ~run[c].broken => SawUsage(c)
    /\ pc[c] = "done" /\ client[c].status = "ok" => settled[c] # "not yet"

\* Together they are inductive.
RequestOK(c) == HoldInv(c) /\ RunInv(c) /\ SettledInv(c) /\ MarkInv(c)
RequestInv == \A c \in Requests : RequestOK(c)

\* A client that is told of an error keeps what it was sent before.
LEMMA ErrorLemma ==
    ASSUME TypeOK, NEW c \in Requests, Send(c, [client[c] EXCEPT !.status = "error"])
    PROVE  /\ client'[c].output = client[c].output
           /\ client'[c].told = client[c].told
           /\ client'[c].last = client[c].last
           /\ client'[c].status = IF alive[c] THEN "error" ELSE client[c].status
  <1>1. client'[c] = IF alive[c] THEN [client[c] EXCEPT !.status = "error"] ELSE client[c]
    BY DEF TypeOK, Send
  <1>2. client[c] \in Clients
    BY FieldLemma
  <1>3. CASE alive[c]
    BY <1>1, <1>2, <1>3 DEF Clients
  <1>4. CASE ~alive[c]
    BY <1>1, <1>4
  <1>5. QED
    BY <1>3, <1>4

\* Every request starts within the invariant.
LEMMA InitRequest ==
    ASSUME Init, NEW c \in Requests
    PROVE  RequestOK(c)
  BY DEF Init, Usage!Init, RequestOK, HoldInv, RunInv, SettledInv, MarkInv, Starting,
     Settling, Ended, NoUsage

\* A refused request keeps the invariant: it holds nothing and was sent no output.
LEMMA RefuseOK ==
    ASSUME TypeOK, NEW c \in Requests, RequestOK(c), Refuse(c)
    PROVE  RequestOK(c)'
  <1>1. /\ pc[c] = "idle" /\ pc'[c] = "done"
        /\ UNCHANGED <<ask, alive, upstream, run, settled, faults, stage, bill>>
    BY DEF Refuse, Goto, TypeOK, holds
  <1>2. /\ client'[c].output = client[c].output
        /\ client'[c].told = client[c].told
        /\ client'[c].last = client[c].last
        /\ client'[c].status = IF alive[c] THEN "error" ELSE client[c].status
    BY ErrorLemma DEF Refuse
  <1> USE <1>1, <1>2 DEF RequestOK, Metered, Estimate, Stream, Generate, Starting,
          Settling, Ended
  <1>3. HoldInv(c)'
    BY DEF HoldInv
  <1>4. RunInv(c)'
    BY DEF RunInv
  <1>5. SettledInv(c)'
    BY DEF SettledInv, HoldInv
  <1>6. MarkInv(c)'
    BY DEF MarkInv, RunInv, SettledInv
  <1>7. QED
    BY <1>3, <1>4, <1>5, <1>6

\* An admitted request keeps the invariant.
LEMMA ArriveOK ==
    ASSUME TypeOK, NEW c \in Requests, RequestOK(c), Arrive(c)
    PROVE  RequestOK(c)'
  <1>1. /\ pc[c] = "idle" /\ pc'[c] = IF Metered(c) THEN "reserve" ELSE "call"
        /\ UNCHANGED <<ask, alive, client, upstream, run, settled, faults, stage, bill>>
    BY DEF Arrive, Goto, TypeOK, holds
  <1> USE <1>1 DEF RequestOK, Metered, Estimate, Stream, Generate, Starting,
          Settling, Ended
  <1>2. HoldInv(c)'
    BY DEF HoldInv
  <1>3. RunInv(c)'
    BY DEF RunInv
  <1>4. SettledInv(c)'
    BY DEF SettledInv, HoldInv
  <1>5. MarkInv(c)'
    BY DEF MarkInv
  <1>6. QED
    BY <1>2, <1>3, <1>4, <1>5

\* A taken hold is open and its user pays the estimate.
LEMMA TakeLemma ==
    ASSUME TypeOK, NEW c \in Requests, Usage!Take(c, Estimate(c))
    PROVE  stage[c] = "none" /\ stage'[c] = "open" /\ bill'[c] = Estimate(c)
  BY DEF TypeOK, Usage!Take

\* The reservation keeps the invariant, also when only its reply is lost.
LEMMA ReserveOK ==
    ASSUME TypeOK, NEW c \in Requests, RequestOK(c), Reserve(c)
    PROVE  RequestOK(c)'
  <1>1. /\ pc[c] = "reserve"
        /\ UNCHANGED <<ask, upstream, run, settled>>
        /\ alive'[c] => alive[c]
        /\ faults'[c] = 0 => faults[c] = 0
    BY CallLemma DEF Reserve
  <1>2. Metered(c) /\ stage[c] = "none" /\ settled[c] = "not yet"
    BY <1>1 DEF RequestOK, HoldInv, SettledInv, Settling, Ended
  <1>3. \/ stage'[c] = "open" /\ bill'[c] = Estimate(c)
        \/ stage'[c] = stage[c] /\ bill'[c] = bill[c] /\ pc'[c] = "done"
    BY TakeLemma DEF Reserve, Goto, TypeOK, holds
  <1>4. \/ pc'[c] = "announce" /\ UNCHANGED client
        \/ /\ pc'[c] = "done"
           /\ Send(c, [client[c] EXCEPT !.status = "error"])
    BY DEF Reserve, Goto, TypeOK
  <1>5. /\ client'[c].output = client[c].output
        /\ client'[c].told = client[c].told
        /\ client'[c].last = client[c].last
        /\ client'[c].status \in {client[c].status, "error"}
    BY <1>4, ErrorLemma
  <1> HIDE DEF Reserve
  <1> USE <1>1, <1>2, <1>3, <1>4, <1>5 DEF RequestOK, Metered, Estimate, Stream, Generate,
          Starting, Settling, Ended
  <1>6. HoldInv(c)'
    BY DEF HoldInv
  <1>7. RunInv(c)'
    BY DEF RunInv
  <1>8. SettledInv(c)'
    BY DEF SettledInv
  <1>9. MarkInv(c)'
    BY DEF MarkInv, RunInv
  <1>10. QED
    BY <1>6, <1>7, <1>8, <1>9

\* The event of a reservation keeps the invariant.
LEMMA AnnounceOK ==
    ASSUME TypeOK, NEW c \in Requests, RequestOK(c), Announce(c)
    PROVE  RequestOK(c)'
  <1>1. "reserve" \in Slots /\ "credits_reserved" \in EventTypes /\ Estimate(c) \in Credits
    BY CreditsLemma DEF Slots, EventTypes
  <1>2. /\ alive'[c] => alive[c]
        /\ faults'[c] = 0 => faults[c] = 0
    BY <1>1, EmitLemma DEF Announce
  <1>3. /\ pc[c] = "announce" /\ pc'[c] = "call"
        /\ UNCHANGED <<ask, client, upstream, run, settled, stage, bill>>
    BY DEF Announce, Goto, TypeOK, holds
  <1> USE <1>2, <1>3 DEF RequestOK, Metered, Estimate, Stream, Generate, Starting,
          Settling, Ended
  <1>4. HoldInv(c)'
    BY DEF HoldInv
  <1>5. RunInv(c)'
    BY DEF RunInv
  <1>6. SettledInv(c)'
    BY DEF SettledInv
  <1>7. MarkInv(c)'
    BY DEF MarkInv
  <1>8. QED
    BY <1>4, <1>5, <1>6, <1>7

\* The hold between the announcement and the settlement: it is open or gone, so
\* its bill is the estimate.
LEMMA UpstreamLemma ==
    ASSUME TypeOK, NEW c \in Requests, RequestOK(c), pc[c] \in {"call", "relay"}
    PROVE  /\ stage[c] \notin {"returned", "billed"}
           /\ settled[c] = "not yet"
  BY DEF RequestOK, HoldInv, SettledInv, Settling, Ended

\* The upstream call keeps the invariant.
LEMMA CallOK ==
    ASSUME TypeOK, NEW c \in Requests, NEW n \in Usages, RequestOK(c),
           CallFails(c) \/ CallAnswers(c, n) \/ CallOpens(c)
    PROVE  RequestOK(c)'
  <1>1. /\ pc[c] = "call"
        /\ UNCHANGED <<ask, alive, client, settled, faults, stage, bill>>
    BY DEF CallFails, CallAnswers, CallOpens, holds
  <1>2. \/ /\ pc'[c] = "settle" /\ upstream' = upstream
           /\ run'[c] = [run[c] EXCEPT !.broken = TRUE]
        \/ /\ pc'[c] = "settle" /\ upstream' = upstream /\ ~Stream(c)
           /\ run'[c] = [run[c] EXCEPT !.usage = n] /\ (Generate(c) => n # NoUsage)
        \/ /\ pc'[c] = "relay" /\ upstream'[c] = "open" /\ Stream(c)
           /\ run' = run
    BY DEF CallFails, CallAnswers, CallOpens, Goto, Learn, TypeOK
  <1>3. /\ run'[c].billableStarted = run[c].billableStarted
        /\ run'[c].sawError = run[c].sawError
        /\ Stream(c) => run'[c].usage = run[c].usage
        /\ Stream(c) /\ pc'[c] = "settle" => run'[c].broken
        /\ Generate(c) /\ pc'[c] = "settle" /\ ~run'[c].broken => run'[c].usage # NoUsage
    BY <1>2 DEF TypeOK, Runs, Stream, Generate
  <1>4. stage[c] \notin {"returned", "billed"} /\ settled[c] = "not yet"
    BY <1>1, UpstreamLemma
  <1> USE <1>1, <1>2, <1>3, <1>4 DEF RequestOK, Metered, Estimate, Stream, Generate,
          Starting, Settling, Ended
  <1>5. HoldInv(c)'
    BY DEF HoldInv
  <1>6. RunInv(c)'
    BY DEF RunInv
  <1>7. SettledInv(c)'
    BY DEF SettledInv
  <1>8. MarkInv(c)'
    BY DEF MarkInv, RunInv, SawUsage
  <1>9. QED
    BY <1>5, <1>6, <1>7, <1>8

\* What a relayed frame changes, field by field.
LEMMA RelayLemma ==
    ASSUME TypeOK, NEW c \in Requests, NEW frame \in Frames,
           NEW n \in Usages, Relay(c, frame, n)
    PROVE  /\ run'[c].billableStarted = (run[c].billableStarted \/ frame = "text_delta")
           /\ run'[c].usage = IF frame = "usage" THEN n ELSE run[c].usage
           /\ run'[c].sawError = (run[c].sawError \/ frame = "error")
           /\ run'[c].broken = run[c].broken
           /\ alive[c] =>
                /\ client'[c].output = (client[c].output \/ frame = "text_delta")
                /\ client'[c].told = IF frame # "usage" THEN client[c].told
                                     ELSE IF Metered(c) THEN n ELSE 0
                /\ client'[c].last = frame
           /\ ~alive[c] => client'[c] = client[c]
  <1>1. run[c] \in Runs /\ client[c] \in Clients
    BY DEF TypeOK
  <1>2. run'[c] = [run[c] EXCEPT
            !.opened = TRUE,
            !.billableStarted = @ \/ frame = "text_delta",
            !.usage = IF frame = "usage" THEN n ELSE @,
            !.sawError = @ \/ frame = "error"]
    BY DEF Relay, Learn, TypeOK
  <1>3. alive[c] => client'[c] = [client[c] EXCEPT
            !.status = "ok",
            !.output = @ \/ frame = "text_delta",
            !.told = IF frame # "usage" THEN @ ELSE IF Metered(c) THEN n ELSE 0,
            !.last = frame]
    BY DEF Relay, Send, TypeOK
  <1>4. ~alive[c] => client'[c] = client[c]
    BY DEF Relay, Send, TypeOK
  <1>5. QED
    BY <1>1, <1>2, <1>3, <1>4 DEF Runs, Clients

\* A relayed frame keeps the invariant: handler and client learn the same.
LEMMA RelayOK ==
    ASSUME TypeOK, NEW c \in Requests, NEW frame \in Frames,
           NEW n \in Usages, RequestOK(c), Relay(c, frame, n)
    PROVE  RequestOK(c)'
  <1>1. /\ pc[c] = "relay" /\ Stream(c)
        /\ UNCHANGED <<ask, pc, alive, settled, faults, stage, bill>>
    BY DEF Relay, RequestOK, RunInv, holds
  <1>2. /\ upstream[c] # "ended"
        /\ upstream'[c] = "ended" <=> frame \in {"done", "error"}
    BY DEF Relay, Yields, TypeOK, Frames
  <1>3. stage[c] \notin {"returned", "billed"} /\ settled[c] = "not yet"
    BY <1>1, UpstreamLemma
  <1>a. Metered(c) /\ alive[c] => client[c].told = run[c].usage
    BY <1>1 DEF RequestOK, MarkInv
  <1>b. Metered(c) /\ alive[c] => client'[c].told = run'[c].usage
    BY <1>1, <1>a, RelayLemma
  <1>c. run'[c].sawError => frame = "error"
    <2>1. ~run[c].sawError
      BY <1>2 DEF RequestOK, MarkInv
    <2>2. run'[c].sawError = (run[c].sawError \/ frame = "error")
      BY RelayLemma
    <2>3. QED
      BY <2>1, <2>2
  <1> HIDE DEF Frames
  <1> USE <1>1, <1>2, <1>3, RelayLemma DEF RequestOK, Metered, Estimate, Stream, Generate,
          Starting, Settling, Ended
  <1>4. HoldInv(c)'
    BY DEF HoldInv
  <1>5. RunInv(c)'
    BY DEF RunInv, HoldInv
  <1>6. SettledInv(c)'
    BY DEF SettledInv
  <1>7. MarkInv(c)'
    <2>1. CASE ~alive[c]
      BY <2>1 DEF MarkInv
    <2>2. CASE alive[c]
      <3>1. upstream'[c] = "ended" => client'[c].last \in {"done", "error"}
        BY <2>2
      <3>2. run'[c].sawError => upstream'[c] = "ended" /\ client'[c].last = "error"
        BY <1>c, <2>2
      <3>3. Metered(c) => client'[c].told = run'[c].usage
        BY <1>b, <2>2
      <3>4. QED
        BY <2>2, <3>1, <3>2, <3>3 DEF MarkInv
    <2>3. QED
      BY <2>1, <2>2
  <1>8. QED
    BY <1>4, <1>5, <1>6, <1>7

\* The end of a stream keeps the invariant.
LEMMA StreamOK ==
    ASSUME TypeOK, NEW c \in Requests, RequestOK(c), StreamEnds(c) \/ StreamBreaks(c)
    PROVE  RequestOK(c)'
  <1>1. /\ pc[c] = "relay" /\ pc'[c] = "settle" /\ Stream(c)
        /\ UNCHANGED <<ask, alive, client, upstream, settled, faults, stage, bill>>
    BY DEF StreamEnds, StreamBreaks, Goto, TypeOK, RequestOK, RunInv, holds
  <1>2. \/ run' = run /\ upstream[c] = "ended"
        \/ run'[c] = [run[c] EXCEPT !.broken = TRUE]
    BY DEF StreamEnds, StreamBreaks, Learn, TypeOK
  <1>3. /\ run'[c].billableStarted = run[c].billableStarted
        /\ run'[c].sawError = run[c].sawError
        /\ run'[c].usage = run[c].usage
        /\ run'[c].broken \/ upstream[c] = "ended"
    BY <1>2 DEF TypeOK, Runs
  <1>4. stage[c] \notin {"returned", "billed"} /\ settled[c] = "not yet"
    BY <1>1, UpstreamLemma
  <1> USE <1>1, <1>3, <1>4 DEF RequestOK, Metered, Estimate, Stream, Generate,
          Starting, Settling, Ended
  <1>5. HoldInv(c)'
    BY DEF HoldInv
  <1>6. RunInv(c)'
    BY DEF RunInv
  <1>7. SettledInv(c)'
    BY DEF SettledInv
  <1>8. MarkInv(c)'
    BY DEF MarkInv
  <1>9. QED
    BY <1>5, <1>6, <1>7, <1>8

\* A settlement that the usage service executes does what the verdict says.
LEMMA ApplyLemma ==
    ASSUME TypeOK, NEW c \in Requests, Apply(c)
    PROVE  /\ stage[c] = "open"
           /\ IF BeforeOutput(c) THEN stage'[c] = "returned" /\ bill'[c] = 0
                                 ELSE stage'[c] = "billed" /\ bill'[c] = Cost(c)
  BY DEF TypeOK, Apply, Verdict, Usage!Return, Usage!Bill

\* What an operator of the run returns does not change as long as the run does not.
LEMMA SameRunLemma ==
    ASSUME NEW c \in Requests, ask' = ask, run'[c] = run[c]
    PROVE  /\ BeforeOutput(c)' = BeforeOutput(c)
           /\ Cost(c)' = Cost(c)
           /\ Estimate(c)' = Estimate(c)
           /\ Metered(c)' = Metered(c)
           /\ ActualCredits(c)' = ActualCredits(c)
           /\ SawUsage(c)' = SawUsage(c)
  BY DEF BeforeOutput, Failed, Cost, Reported, SawUsage, ActualCredits, Estimate, Metered

\* The settlement keeps the invariant: the hold becomes what the verdict says, or the
\* gateway knows that something failed.
LEMMA SettleOK ==
    ASSUME TypeOK, NEW c \in Requests, RequestOK(c), Settle(c)
    PROVE  RequestOK(c)'
  <1>1. /\ pc[c] = "settle" /\ pc'[c] = "record"
        /\ UNCHANGED <<ask, client, upstream, run>>
    BY DEF Settle, Goto, TypeOK
  <1>2. /\ alive'[c] => alive[c]
        /\ faults'[c] = 0 => faults[c] = 0
    BY CallLemma DEF Settle
  <1>3. /\ Metered(c) => stage[c] \in {"open", "gone"}
        /\ ~Metered(c) => stage[c] = "none"
        /\ settled[c] = "not yet"
    BY <1>1 DEF RequestOK, HoldInv, SettledInv, Settling, Ended
  <1>4. \/ /\ ~Metered(c) /\ settled'[c] = "ok"
           /\ stage'[c] = stage[c] /\ bill'[c] = bill[c]
        \/ Metered(c) /\ settled'[c] = "ok" /\ Apply(c)
        \/ /\ Metered(c) /\ settled'[c] = "error"
           /\ Apply(c) \/ (stage'[c] = stage[c] /\ bill'[c] = bill[c])
    BY DEF Settle, TypeOK, holds
  <1>5. Metered(c) /\ ~Generate(c) /\ settled'[c] = "error" /\ faults'[c] = 0 =>
            stage[c] = "gone" /\ stage'[c] = "gone"
    <2> SUFFICES ASSUME Metered(c), ~Generate(c), settled'[c] = "error", faults'[c] = 0
                 PROVE  stage[c] = "gone" /\ stage'[c] = "gone"
      OBVIOUS
    <2>1. ~Cancellable(c)
      BY <1>1 DEF Cancellable
    <2>2. ~ReplyLost(c) /\ ~NotExecuted(c)
      BY <2>1, CallLemma
    <2>3. stage[c] # "open" /\ stage' = stage
      BY <2>2 DEF Settle, TypeOK, holds
    <2>4. QED
      BY <1>3, <2>3
  <1>6. /\ BeforeOutput(c)' = BeforeOutput(c)
        /\ Cost(c)' = Cost(c)
        /\ Estimate(c)' = Estimate(c)
        /\ ActualCredits(c)' = ActualCredits(c)
        /\ SawUsage(c)' = SawUsage(c)
    BY <1>1, SameRunLemma
  <1>7. /\ Metered(c) /\ settled'[c] = "ok" => stage'[c] \in {"returned", "billed"}
        /\ stage'[c] = "returned" => bill'[c] = 0 /\ BeforeOutput(c)
        /\ stage'[c] = "billed" => bill'[c] = Cost(c) /\ ~BeforeOutput(c)
        /\ stage'[c] \notin {"returned", "billed"} =>
                stage'[c] = stage[c] /\ bill'[c] = bill[c]
        /\ stage'[c] = "none" <=> stage[c] = "none"
        /\ settled'[c] \in {"ok", "error"}
        /\ Metered(c) \/ stage'[c] = "none"
    BY <1>3, <1>4, ApplyLemma
  <1> HIDE DEF Apply, Settle
  <1> USE <1>1, <1>2, <1>3, <1>5, <1>6, <1>7 DEF RequestOK, Metered, Stream, Generate,
          Starting, Settling, Ended
  <1>8. HoldInv(c)'
    BY DEF HoldInv
  <1>9. RunInv(c)'
    BY DEF RunInv
  <1>10. SettledInv(c)'
    BY DEF SettledInv
  <1>11. MarkInv(c)'
    BY DEF MarkInv
  <1>12. QED
    BY <1>8, <1>9, <1>10, <1>11

\* The terminal event keeps the invariant.
LEMMA RecordOK ==
    ASSUME TypeOK, NEW c \in Requests, RequestOK(c), Record(c)
    PROVE  RequestOK(c)'
  <1>1. /\ pc[c] = "record" /\ pc'[c] = "answer"
        /\ UNCHANGED <<ask, client, upstream, run, settled, stage, bill>>
    BY DEF Record, Goto, TypeOK, holds
  <1>2. /\ alive'[c] => alive[c]
        /\ faults'[c] = 0 => faults[c] = 0
    BY RecordLemma, EmitLemma
  <1>3. /\ BeforeOutput(c)' = BeforeOutput(c)
        /\ Cost(c)' = Cost(c)
        /\ Estimate(c)' = Estimate(c)
        /\ ActualCredits(c)' = ActualCredits(c)
        /\ SawUsage(c)' = SawUsage(c)
    BY <1>1, SameRunLemma
  <1> USE <1>1, <1>2, <1>3 DEF RequestOK, Metered, Stream, Generate, Starting,
          Settling, Ended
  <1>4. HoldInv(c)'
    BY DEF HoldInv
  <1>5. RunInv(c)'
    BY DEF RunInv
  <1>6. SettledInv(c)'
    BY DEF SettledInv
  <1>7. MarkInv(c)'
    BY DEF MarkInv
  <1>8. QED
    BY <1>4, <1>5, <1>6, <1>7

\* What the answer changes, field by field.
LEMMA AnswerLemma ==
    ASSUME TypeOK, NEW c \in Requests, RequestOK(c), Answer(c)
    PROVE  /\ ~alive[c] => client'[c] = client[c]
           /\ alive[c] /\ Stream(c) =>
                /\ client'[c].output = client[c].output
                /\ client'[c].told = client[c].told
                /\ client'[c].last \in {client[c].last, "error"}
                /\ client'[c].status = "ok" /\ run[c].broken => client'[c].last = "error"
           /\ alive[c] /\ ~Stream(c) /\ client'[c].output => ~run[c].broken \/ client[c].output
           /\ alive[c] /\ ~Stream(c) /\ client'[c].status = "ok" =>
                /\ ~run[c].broken
                /\ Generate(c) => settled[c] # "error"
                /\ Metered(c) => client'[c].told = ActualCredits(c)
           /\ alive[c] /\ ~Stream(c) => client'[c].last = client[c].last
  <1>1. run[c] \in Runs /\ client[c] \in Clients
    BY DEF TypeOK
  <1>2. CASE ~alive[c]
    BY <1>2 DEF Answer, AnswerStream, AnswerWhole, Send, TypeOK
  <1>3. CASE alive[c] /\ Stream(c)
    <2>1. \/ ~run[c].broken /\ client'[c] = client[c]
          \/ run[c].broken /\ client'[c] = [client[c] EXCEPT !.status = "error"]
          \/ run[c].sawError /\ client'[c] = client[c]
          \/ client'[c] = [client[c] EXCEPT !.last = "error"]
      BY <1>3 DEF Answer, AnswerStream, Send, TypeOK
    <2>2. run[c].sawError => client[c].last = "error"
      BY <1>3 DEF RequestOK, MarkInv
    <2>3. QED
      BY <1>1, <1>3, <2>1, <2>2 DEF Clients
  <1>4. CASE alive[c] /\ ~Stream(c)
    <2>1. client'[c] = IF run[c].broken \/ (Generate(c) /\ settled[c] = "error")
            THEN [client[c] EXCEPT !.status = "error"]
            ELSE [client[c] EXCEPT !.status = "ok", !.output = TRUE,
                    !.told = IF Metered(c) \/ Generate(c) THEN ActualCredits(c) ELSE 0]
      BY <1>4 DEF Answer, AnswerWhole, Send, TypeOK
    <2>2. QED
      BY <1>1, <1>4, <2>1 DEF Clients
  <1>5. QED
    BY <1>2, <1>3, <1>4

\* The answer keeps the invariant.
LEMMA AnswerOK ==
    ASSUME TypeOK, NEW c \in Requests, RequestOK(c), Answer(c)
    PROVE  RequestOK(c)'
  <1>1. /\ pc[c] = "answer" /\ pc'[c] = "done"
        /\ UNCHANGED <<ask, alive, upstream, run, settled, faults, stage, bill>>
    BY DEF Answer, Goto, TypeOK, holds
  <1>2. /\ BeforeOutput(c)' = BeforeOutput(c)
        /\ Cost(c)' = Cost(c)
        /\ Estimate(c)' = Estimate(c)
        /\ ActualCredits(c)' = ActualCredits(c)
        /\ SawUsage(c)' = SawUsage(c)
    BY <1>1, SameRunLemma
  <1>3. settled[c] \in {"ok", "error"}
    BY <1>1 DEF RequestOK, SettledInv, Settling, TypeOK
  <1> USE <1>1, <1>2, <1>3, AnswerLemma DEF RequestOK, Metered, Stream, Generate,
          Starting, Settling, Ended
  <1>4. HoldInv(c)'
    BY DEF HoldInv
  <1>5. RunInv(c)'
    BY DEF RunInv, HoldInv
  <1>6. SettledInv(c)'
    BY DEF SettledInv
  <1>7. MarkInv(c)'
    <2>1. CASE ~alive[c]
      BY <2>1 DEF MarkInv
    <2>2. CASE alive[c] /\ Stream(c)
      BY <2>2 DEF MarkInv
    <2>3. CASE alive[c] /\ ~Stream(c)
      BY <2>3 DEF MarkInv
    <2>4. QED
      BY <2>1, <2>2, <2>3
  <1>8. QED
    BY <1>4, <1>5, <1>6, <1>7

\* A hang-up, a crash and an expiry keep the invariant.
LEMMA EnvironmentOK ==
    ASSUME TypeOK, NEW c \in Requests, RequestOK(c), HangUp(c) \/ Crash(c) \/ TTL(c)
    PROVE  RequestOK(c)'
  <1>1. /\ pc'[c] = pc[c] \/ (pc[c] \in Active /\ pc'[c] = "crashed")
        /\ alive'[c] => alive[c]
        /\ UNCHANGED <<ask, client, upstream, run, settled, faults>>
    BY DEF HangUp, Crash, TTL, Goto, TypeOK, holds
  <1>2. /\ \/ stage'[c] = stage[c]
           \/ stage[c] = "open" /\ stage'[c] = "gone"
        /\ bill'[c] = bill[c]
    BY DEF HangUp, Crash, TTL, Usage!Expire, TypeOK, holds
  <1>3. /\ BeforeOutput(c)' = BeforeOutput(c)
        /\ Cost(c)' = Cost(c)
        /\ Estimate(c)' = Estimate(c)
        /\ ActualCredits(c)' = ActualCredits(c)
        /\ SawUsage(c)' = SawUsage(c)
    BY <1>1, SameRunLemma
  <1> USE <1>1, <1>2, <1>3 DEF RequestOK, Metered, Stream, Generate, Starting,
          Settling, Ended
  <1>4. HoldInv(c)'
    BY DEF HoldInv
  <1>5. RunInv(c)'
    BY DEF RunInv, Active
  <1>6. SettledInv(c)'
    BY DEF SettledInv
  <1>7. MarkInv(c)'
    BY DEF MarkInv, Active
  <1>8. QED
    BY <1>4, <1>5, <1>6, <1>7

\* A step of one request leaves all others as they are.
LEMMA FrameLemma ==
    ASSUME TypeOK, NEW c \in Requests, NEW b \in Requests \ {c}, StepOf(c)
    PROVE  /\ ask' = ask
           /\ pc'[b] = pc[b] /\ alive'[b] = alive[b] /\ client'[b] = client[b]
           /\ upstream'[b] = upstream[b] /\ run'[b] = run[b] /\ settled'[b] = settled[b]
           /\ faults'[b] = faults[b] /\ stage'[b] = stage[b] /\ bill'[b] = bill[b]
  <1>1. ASSUME Replied(c) \/ ReplyLost(c) \/ NotExecuted(c)
        PROVE  faults'[b] = faults[b] /\ alive'[b] = alive[b]
    BY <1>1, CallLemma
  <1>2. ASSUME NEW n \in Credits,
               Usage!Take(c, n) \/ Usage!Bill(c, n) \/ Usage!Return(c) \/ Usage!Expire(c)
        PROVE  stage'[b] = stage[b] /\ bill'[b] = bill[b]
    BY <1>2, HoldLemma
  <1>3. Estimate(c) \in Credits /\ Cost(c) \in Credits
    BY CreditsLemma
  <1> USE DEF TypeOK, Goto, Send, Learn, holds
  <1>4. CASE Refuse(c) \/ Arrive(c)
    BY <1>4 DEF Refuse, Arrive
  <1>5. CASE Reserve(c)
    BY <1>5, <1>1, <1>2, <1>3 DEF Reserve
  <1>6. CASE Announce(c)
    BY <1>6, <1>1 DEF Announce, Emit
  <1>7. CASE \E n \in Usages : CallFails(c) \/ CallAnswers(c, n) \/ CallOpens(c)
    BY <1>7 DEF CallFails, CallAnswers, CallOpens
  <1>8. CASE \E frame \in Frames, n \in Usages : Relay(c, frame, n)
    BY <1>8 DEF Relay, Yields
  <1>9. CASE StreamEnds(c) \/ StreamBreaks(c)
    BY <1>9 DEF StreamEnds, StreamBreaks
  <1>10. CASE Settle(c)
    BY <1>10, <1>1, <1>2, <1>3 DEF Settle, Apply
  <1>11. CASE Record(c)
    BY <1>11, <1>1 DEF Record, Emit
  <1>12. CASE Answer(c)
    BY <1>12 DEF Answer, AnswerStream, AnswerWhole
  <1>13. CASE HangUp(c) \/ Crash(c) \/ TTL(c)
    BY <1>13 DEF HangUp, Crash, TTL, Usage!Expire
  <1>14. QED
    BY <1>4, <1>5, <1>6, <1>7, <1>8, <1>9, <1>10, <1>11, <1>12, <1>13 DEF StepOf

\* A request of which nothing changes keeps the invariant.
LEMMA SameRequestLemma ==
    ASSUME NEW b \in Requests, RequestOK(b), ask' = ask,
           pc'[b] = pc[b], alive'[b] = alive[b], client'[b] = client[b],
           upstream'[b] = upstream[b], run'[b] = run[b], settled'[b] = settled[b],
           faults'[b] = faults[b], stage'[b] = stage[b], bill'[b] = bill[b]
    PROVE  RequestOK(b)'
  <1>1. /\ BeforeOutput(b)' = BeforeOutput(b)
        /\ Cost(b)' = Cost(b)
        /\ ActualCredits(b)' = ActualCredits(b)
        /\ SawUsage(b)' = SawUsage(b)
    BY DEF BeforeOutput, Failed, Cost, Reported, SawUsage, ActualCredits, Estimate
  <1> USE <1>1 DEF RequestOK, Metered, Estimate, Stream, Generate
  <1>2. HoldInv(b)'
    BY DEF HoldInv
  <1>3. RunInv(b)'
    BY DEF RunInv
  <1>4. SettledInv(b)'
    BY DEF SettledInv
  <1>5. MarkInv(b)'
    BY DEF MarkInv
  <1>6. QED
    BY <1>2, <1>3, <1>4, <1>5

\* Every step of a request keeps its invariant.
LEMMA StepOK ==
    ASSUME TypeOK, NEW c \in Requests, RequestOK(c), StepOf(c)
    PROVE  RequestOK(c)'
  BY RefuseOK, ArriveOK, ReserveOK, AnnounceOK, CallOK, RelayOK, StreamOK, SettleOK,
     RecordOK, AnswerOK, EnvironmentOK DEF StepOf

\* The inductive invariant of a request holds in every reachable state.
THEOREM RequestsOK == Spec => []RequestInv
  <1>1. Init => RequestInv
    BY InitRequest DEF RequestInv
  <1>2. TypeOK /\ RequestInv /\ [Next]_vars => RequestInv'
    <2> SUFFICES ASSUME TypeOK, RequestInv, [Next]_vars, NEW b \in Requests
                 PROVE  RequestOK(b)'
      BY DEF RequestInv
    <2>0. \A c \in Requests : RequestOK(c)
      BY DEF RequestInv
    <2>1. CASE UNCHANGED vars
      BY <2>0, <2>1, SameRequestLemma DEF vars, holds
    <2>2. CASE \E c \in Requests : StepOf(c)
      <3>1. PICK c \in Requests : StepOf(c)
        BY <2>2
      <3>2. CASE b = c
        BY <2>0, <3>1, <3>2, StepOK
      <3>3. CASE b # c
        BY <2>0, <3>1, <3>3, FrameLemma, SameRequestLemma
      <3>4. QED
        BY <3>2, <3>3
    <2>3. QED
      BY <2>1, <2>2, NextCases
  <1>3. QED
    BY <1>1, <1>2, TypeCorrect, PTL DEF Spec

-----------------------------------------------------------------------------
(* What follows *)

\* Output is paid for: the hold of a metered client that was sent any is never
\* released (settleChat releases only what failed before the first billable frame),
\* and its user pays nothing only for a run that ended well and whose provider
\* reported a usage of no tokens.
THEOREM OutputsArePaid == Spec => []OutputIsPaid
  <1>1. TypeOK /\ RequestInv => OutputIsPaid
    <2> SUFFICES ASSUME TypeOK, RequestInv, NEW c \in Requests, Metered(c), client[c].output
                 PROVE  /\ stage[c] \notin {"none", "returned"}
                        /\ bill[c] = 0 => Reported(c) /\ run[c].usage = 0
      BY DEF OutputIsPaid
    <2>1. RequestOK(c)
      BY DEF RequestInv
    <2>2. stage[c] # "none"
      BY <2>1 DEF RequestOK, RunInv
    <2>3. ~BeforeOutput(c)
      BY <2>1 DEF RequestOK, RunInv, BeforeOutput, Failed
    <2>4. stage[c] \notin {"none", "returned"}
      BY <2>1, <2>2, <2>3 DEF RequestOK, HoldInv
    <2>5. Estimate(c) # 0
      BY AskLemma DEF Estimate
    <2>6. bill[c] = Estimate(c) \/ bill[c] = Cost(c)
      BY <2>1, <2>4 DEF RequestOK, HoldInv, TypeOK, Usage!Stages
    <2>7. QED
      BY <2>4, <2>5, <2>6 DEF Cost, Reported, ActualCredits
  <1>2. QED
    BY <1>1, TypeCorrect, RequestsOK, PTL

\* No upstream works for a metered request that holds nothing.
THEOREM HeldFirst == Spec => []HeldBeforeCall
  <1>1. RequestInv => HeldBeforeCall
    BY DEF RequestInv, RequestOK, HoldInv, HeldBeforeCall
  <1>2. QED
    BY <1>1, RequestsOK, PTL

\* A hang-up alone strands no hold of a chat that reached its settlement.
THEOREM HangUpsSettle == Spec => []HangUpSettles
  <1>1. TypeOK /\ RequestInv => HangUpSettles
    <2> SUFFICES ASSUME TypeOK, RequestInv, NEW c \in Requests, ~Generate(c), Metered(c),
                        settled[c] # "not yet", faults[c] = 0
                 PROVE  stage[c] # "open"
      BY DEF HangUpSettles
    <2>1. settled[c] \in {"ok", "error"}
      BY DEF TypeOK
    <2>2. QED
      BY <2>1 DEF RequestInv, RequestOK, SettledInv
  <1>2. QED
    BY <1>1, TypeCorrect, RequestsOK, PTL

\* A client that stayed sees how its stream ended.
THEOREM EndsAreMarked == Spec => []EndIsMarked
  <1>1. RequestInv => EndIsMarked
    BY DEF RequestInv, RequestOK, MarkInv, EndIsMarked
  <1>2. QED
    BY <1>1, RequestsOK, PTL

\* A client that stayed to a good end is billed what it was told.
THEOREM ToldAreBilled == Spec => []ToldIsBilled
  <1>1. TypeOK /\ RequestInv => ToldIsBilled
    <2> SUFFICES ASSUME TypeOK, RequestInv, NEW c \in Requests,
                        Metered(c), pc[c] = "done", client[c].status = "ok",
                        client[c].told # NoUsage, ~(Buffered(c) /\ client[c].told = 0),
                        \/ Generate(c)
                        \/ /\ alive[c] /\ faults[c] = 0 /\ stage[c] # "gone"
                           /\ client[c].last # "error"
                 PROVE  bill[c] = client[c].told
      BY DEF ToldIsBilled
    <2>1. RequestOK(c)
      BY DEF RequestInv
    <2>a. ~run[c].broken /\ ~run[c].sawError
      BY <2>1 DEF RequestOK, MarkInv, RunInv, Stream, Generate
    <2>b. Stream(c) \/ Buffered(c) \/ Generate(c)
      <3>1. ask[c].kind \in Kinds
        BY AsksAssumption, AskLemma
      <3>2. QED
        BY <3>1 DEF Stream, Buffered, Generate, Kinds
    <2>2. SawUsage(c) /\ client[c].told = ActualCredits(c)
      <3>1. CASE Stream(c)
        BY <2>1, <3>1 DEF RequestOK, MarkInv, Stream, Generate, SawUsage, ActualCredits
      <3>2. CASE Generate(c)
        BY <2>1, <3>2 DEF RequestOK, MarkInv, Stream, Generate
      <3>3. CASE Buffered(c)
        BY <2>1, <3>3 DEF RequestOK, MarkInv, Stream, Buffered, ActualCredits
      <3>4. QED
        BY <2>b, <3>1, <3>2, <3>3
    <2>3. Reported(c) /\ ~BeforeOutput(c) /\ Cost(c) = client[c].told
      BY <2>a, <2>2 DEF Reported, Failed, BeforeOutput, Cost
    <2>4. settled[c] = "ok"
      <3>1. settled[c] \in {"ok", "error"}
        BY <2>1 DEF RequestOK, MarkInv, TypeOK
      <3>2. QED
        BY <2>1, <3>1 DEF RequestOK, MarkInv, SettledInv, Stream, Generate
    <2>5. QED
      BY <2>1, <2>3, <2>4 DEF RequestOK, HoldInv, SettledInv
  <1>2. QED
    BY <1>1, TypeCorrect, RequestsOK, PTL

-----------------------------------------------------------------------------
(* The ledger *)

\* A row agrees with its request: it was written at its place in the handler, after
\* the settlement or, for a reservation, before the call.
RowOK(row) ==
    LET c == row.request
    IN  /\ row.key = ask[c].key
        /\ row.slot = "reserve" <=> row.type = "credits_reserved"
        /\ row.slot # "reserve" => pc[c] \in {"answer"} \cup Ended /\ settled[c] # "not yet"
        /\ row.type # "unmetered" => Metered(c) /\ stage[c] # "none"
        /\ row.type \in {"credits_committed", "credits_committed_unknown"} =>
                settled[c] = "ok" /\ ~BeforeOutput(c) /\ row.credits = Cost(c)
        /\ row.type = "credits_released" => BeforeOutput(c)
        /\ row.type = "commit_failed" => settled[c] = "error"
        /\ row.type = "unmetered" => ~Metered(c)

\* A request writes its terminal row once.
OneEnd ==
    \A row, other \in ledger :
        row.request = other.request /\ "reserve" \notin {row.slot, other.slot} => row = other

LedgerInv == (\A row \in ledger : RowOK(row)) /\ OneEnd

\* A hold once taken stays on record, and a handler that wrote its terminal row
\* changes no more what the row says.
LEMMA LaterLemma ==
    ASSUME TypeOK, NEW c \in Requests, RequestOK(c), StepOf(c)
    PROVE  /\ stage[c] # "none" => stage'[c] # "none"
           /\ pc[c] \in {"answer"} \cup Ended =>
                /\ pc'[c] \in {"answer"} \cup Ended
                /\ settled'[c] = settled[c] /\ run'[c] = run[c]
  <1> USE DEF TypeOK, Goto, Ended
  <1>1. CASE Refuse(c) \/ Arrive(c)
    BY <1>1 DEF Refuse, Arrive, holds
  <1>2. CASE Reserve(c)
    BY <1>2 DEF Reserve, RequestOK, HoldInv
  <1>3. CASE Announce(c)
    BY <1>3 DEF Announce, holds
  <1>4. CASE \E n \in Usages : CallFails(c) \/ CallAnswers(c, n) \/ CallOpens(c)
    BY <1>4 DEF CallFails, CallAnswers, CallOpens, holds
  <1>5. CASE \E frame \in Frames, n \in Usages : Relay(c, frame, n)
    BY <1>5 DEF Relay, holds
  <1>6. CASE StreamEnds(c) \/ StreamBreaks(c)
    BY <1>6 DEF StreamEnds, StreamBreaks, holds
  <1>7. CASE Settle(c)
    BY <1>7, ApplyLemma DEF Settle, holds
  <1>8. CASE Record(c)
    BY <1>8 DEF Record, holds
  <1>9. CASE Answer(c)
    BY <1>9 DEF Answer, holds
  <1>10. CASE HangUp(c) \/ Crash(c) \/ TTL(c)
    BY <1>10 DEF HangUp, Crash, TTL, Usage!Expire, Active, holds
  <1>11. QED
    BY <1>1, <1>2, <1>3, <1>4, <1>5, <1>6, <1>7, <1>8, <1>9, <1>10 DEF StepOf

\* A row stays right.
LEMMA KeepLemma ==
    ASSUME TypeOK, RequestInv, NEW c \in Requests, StepOf(c), NEW row \in Rows, RowOK(row)
    PROVE  RowOK(row)'
  <1> DEFINE b == row.request
  <1>1. b \in Requests
    BY DEF Rows
  <1>2. RequestOK(c) /\ ask' = ask
    BY DEF RequestInv, StepOf, Refuse, Arrive, Reserve, Announce, CallFails, CallAnswers,
       CallOpens, Relay, StreamEnds, StreamBreaks, Settle, Record, Answer, HangUp, Crash, TTL
  <1>3. /\ stage[b] # "none" => stage'[b] # "none"
        /\ pc[b] \in {"answer"} \cup Ended =>
            /\ pc'[b] \in {"answer"} \cup Ended
            /\ settled'[b] = settled[b] /\ run'[b] = run[b]
    BY <1>1, <1>2, LaterLemma, FrameLemma
  <1>4. run'[b] = run[b] => /\ BeforeOutput(b)' = BeforeOutput(b)
                            /\ Cost(b)' = Cost(b)
                            /\ Metered(b)' = Metered(b)
    BY <1>1, <1>2, SameRunLemma
  <1>5. ASSUME row.slot # "reserve"
        PROVE  /\ pc'[b] \in {"answer"} \cup Ended
               /\ settled'[b] = settled[b]
               /\ BeforeOutput(b)' = BeforeOutput(b) /\ Cost(b)' = Cost(b)
    BY <1>3, <1>4, <1>5 DEF RowOK
  <1>6. ask'[b].key = ask[b].key /\ Metered(b)' = Metered(b)
    BY <1>2 DEF Metered
  <1>7. QED
    BY <1>3, <1>5, <1>6 DEF RowOK

\* A step that is neither an announcement nor a record writes no row; a row that
\* is written is right and is the first terminal row of its request.
LEMMA WriteLemma ==
    ASSUME TypeOK, RequestInv, LedgerInv, NEW c \in Requests, StepOf(c)
    PROVE  \/ ledger' = ledger
           \/ \E new \in Rows :
                /\ ledger' = ledger \cup {new}
                /\ new.request = c
                /\ RowOK(new)'
                /\ \A row \in ledger :
                    row.request = c => "reserve" \in {row.slot, new.slot}
  <1>1. RequestOK(c) /\ ledger \subseteq Rows
    BY DEF RequestInv, TypeOK
  <1>2. ASSUME NEW slot \in Slots, NEW type \in EventTypes, NEW n \in Credits,
               Emit(c, slot, type, n)
        PROVE  \/ ledger' = ledger
               \/ \E new \in Rows :
                    /\ ledger' = ledger \cup {new}
                    /\ new.request = c /\ new.slot = slot /\ new.key = ask[c].key
                    /\ new.type = type /\ new.credits = n
    <2> DEFINE new == [key |-> ask[c].key, slot |-> slot, request |-> c,
                       type |-> type, credits |-> n]
    <2>1. ask[c].key \in Keys
      BY AskLemma
    <2>2. new \in Rows
      BY <2>1 DEF Rows
    <2>3. ledger' = ledger \/ ledger' = ledger \cup {new}
      BY <1>2 DEF Emit, Insert
    <2>4. QED
      BY <2>2, <2>3
  <1>3. CASE Announce(c)
    <2>1. "reserve" \in Slots /\ "credits_reserved" \in EventTypes /\ Estimate(c) \in Credits
      BY CreditsLemma DEF Slots, EventTypes
    <2>2. stage'[c] # "none" /\ Metered(c) /\ ask' = ask
      BY <1>1, <1>3 DEF Announce, RequestOK, HoldInv, holds
    <2>3. ASSUME NEW new \in Rows, new.request = c, new.slot = "reserve",
                 new.type = "credits_reserved", new.key = ask[c].key
          PROVE  RowOK(new)'
      BY <2>2, <2>3 DEF RowOK, Metered
    <2>4. QED
      BY <1>2, <1>3, <2>1, <2>3 DEF Announce
  <1>4. CASE Record(c)
    <2>1. /\ pc[c] = "record" /\ pc'[c] = "answer"
          /\ UNCHANGED <<ask, run, settled, stage>>
          /\ settled[c] # "not yet" /\ (Metered(c) => stage[c] # "none")
      BY <1>1, <1>4 DEF Record, Goto, TypeOK, holds, RequestOK, SettledInv, HoldInv, Settling
    <2>2. \A row \in ledger : row.request = c => row.slot = "reserve"
      BY <2>1 DEF LedgerInv, RowOK, Ended
    <2>3. /\ BeforeOutput(c)' = BeforeOutput(c)
          /\ Cost(c)' = Cost(c)
          /\ Metered(c)' = Metered(c)
      BY <2>1, SameRunLemma
    <2>4. \/ ledger' = ledger
          \/ \E slot \in Slots, type \in EventTypes, n \in Credits :
                /\ Emit(c, slot, type, n)
                /\ slot # "reserve" /\ type # "credits_reserved"
                /\ type \in {"credits_committed", "credits_committed_unknown"} =>
                    settled[c] = "ok" /\ ~BeforeOutput(c) /\ n = Cost(c)
                /\ type = "credits_released" => BeforeOutput(c)
                /\ type = "commit_failed" => settled[c] = "error"
                /\ IF type = "unmetered" THEN ~Metered(c) ELSE Metered(c)
      BY <1>4, CreditsLemma DEF Record, Verdict, Slots, EventTypes
    <2>5. CASE ledger' = ledger
      BY <2>5
    <2>6. CASE ledger' # ledger
      <3>1. PICK slot \in Slots, type \in EventTypes, n \in Credits :
                /\ Emit(c, slot, type, n)
                /\ slot # "reserve" /\ type # "credits_reserved"
                /\ type \in {"credits_committed", "credits_committed_unknown"} =>
                    settled[c] = "ok" /\ ~BeforeOutput(c) /\ n = Cost(c)
                /\ type = "credits_released" => BeforeOutput(c)
                /\ type = "commit_failed" => settled[c] = "error"
                /\ IF type = "unmetered" THEN ~Metered(c) ELSE Metered(c)
        BY <2>4, <2>6
      <3>2. PICK new \in Rows :
                /\ ledger' = ledger \cup {new}
                /\ new.request = c /\ new.slot = slot /\ new.key = ask[c].key
                /\ new.type = type /\ new.credits = n
        BY <1>2, <2>6, <3>1
      <3>3. RowOK(new)'
        BY <2>1, <2>3, <3>1, <3>2 DEF RowOK
      <3>4. QED
        BY <2>2, <3>2, <3>3
    <2>7. QED
      BY <2>5, <2>6
  <1>5. CASE ~Announce(c) /\ ~Record(c)
    BY <1>5 DEF StepOf, Refuse, Arrive, Reserve, CallFails, CallAnswers, CallOpens, Relay,
       StreamEnds, StreamBreaks, Settle, Answer, HangUp, Crash, TTL
  <1>6. QED
    BY <1>3, <1>4, <1>5

\* The rows of the ledger agree with their requests in every reachable state.
THEOREM LedgerAgrees == Spec => []LedgerInv
  <1>1. Init => LedgerInv
    BY DEF Init, LedgerInv, OneEnd
  <1>2. TypeOK /\ RequestInv /\ LedgerInv /\ [Next]_vars => LedgerInv'
    <2> SUFFICES ASSUME TypeOK, RequestInv, LedgerInv, [Next]_vars PROVE LedgerInv'
      OBVIOUS
    <2>1. CASE UNCHANGED vars
      BY <2>1 DEF vars, holds, LedgerInv, OneEnd, RowOK, BeforeOutput, Failed, Cost,
         Reported, SawUsage, ActualCredits, Estimate, Metered
    <2>2. CASE \E c \in Requests : StepOf(c)
      <3>1. PICK c \in Requests : StepOf(c)
        BY <2>2
      <3>2. \A row \in ledger : RowOK(row)'
        BY <3>1, KeepLemma DEF LedgerInv, TypeOK
      <3>3. CASE ledger' = ledger
        BY <3>2, <3>3 DEF LedgerInv, OneEnd
      <3>4. CASE ledger' # ledger
        <4>1. PICK new \in Rows :
                /\ ledger' = ledger \cup {new}
                /\ new.request = c
                /\ RowOK(new)'
                /\ \A row \in ledger :
                    row.request = c => "reserve" \in {row.slot, new.slot}
          BY <3>1, <3>4, WriteLemma
        <4>2. OneEnd'
          BY <4>1 DEF LedgerInv, OneEnd
        <4>3. QED
          BY <3>2, <4>1, <4>2 DEF LedgerInv
      <3>5. QED
        BY <3>3, <3>4
    <2>3. QED
      BY <2>1, <2>2, NextCases
  <1>3. QED
    BY <1>1, <1>2, TypeCorrect, RequestsOK, PTL DEF Spec

\* The ledger never says more than what happened.
THEOREM LedgerIsTrue == Spec => []LedgerIsLowerBound
  <1>1. TypeOK /\ RequestInv /\ LedgerInv => LedgerIsLowerBound
    <2> SUFFICES ASSUME TypeOK, RequestInv, LedgerInv, NEW row \in ledger
                 PROVE  RowIsTrue(row)
      BY DEF LedgerInv, OneEnd, LedgerIsLowerBound
    <2> DEFINE c == row.request
    <2>1. c \in Requests /\ row.type \in EventTypes
      BY DEF TypeOK, Rows
    <2>2. RequestOK(c) /\ RowOK(row)
      BY <2>1 DEF RequestInv, LedgerInv
    <2>3. Estimate(c) \in Nat
      BY <2>1, AskLemma DEF Estimate
    <2>4. stage[c] \in Usage!Stages
      BY <2>1 DEF TypeOK
    <2>5. stage[c] # "billed" => bill[c] <= Estimate(c)
      BY <2>2, <2>3, <2>4 DEF RequestOK, HoldInv, Usage!Stages
    <2>6. CASE row.type \in {"credits_committed", "credits_committed_unknown"}
      BY <2>2, <2>6 DEF RequestOK, HoldInv, SettledInv, RowOK, RowIsTrue
    <2>7. CASE row.type = "credits_released"
      BY <2>2, <2>5, <2>7 DEF RequestOK, HoldInv, RowOK, RowIsTrue
    <2>8. CASE row.type \in {"credits_reserved", "unmetered", "commit_failed"}
      BY <2>2, <2>8 DEF RequestOK, HoldInv, RowOK, RowIsTrue
    <2>9. QED
      BY <2>1, <2>6, <2>7, <2>8 DEF EventTypes
  <1>2. QED
    BY <1>1, TypeCorrect, RequestsOK, LedgerAgrees, PTL

-----------------------------------------------------------------------------
(* Requests that nothing went wrong for *)

\* The client is there, no call failed, and no other request that started has its key.
Alone(c) == \A d \in Requests \ {c} : ask[d].key = ask[c].key => pc[d] = "idle"
Unharmed(c) == alive[c] /\ faults[c] = 0 /\ Alone(c)

\* The settlement is only refused when the hold is gone, and the terminal row is there.
FairlySettled(c) == Metered(c) /\ settled[c] = "error" => stage[c] = "gone"
OnRecord(c) ==
    pc[c] \in {"answer", "done"} /\ stage[c] # "none" =>
        \E row \in ledger : row.request = c /\ row.slot # "reserve"

QuietInv == \A c \in Requests : Unharmed(c) => FairlySettled(c) /\ OnRecord(c)

\* A call that neither failed nor cost the client was answered.
LEMMA CleanCall ==
    ASSUME TypeOK, NEW c \in Requests, Replied(c) \/ ReplyLost(c) \/ NotExecuted(c),
           alive'[c], faults'[c] = 0
    PROVE  Replied(c) /\ ~ReplyLost(c) /\ ~NotExecuted(c)
  <1>1. alive \in [Requests -> BOOLEAN] /\ faults \in [Requests -> 0 .. MaxFaults] /\ MaxFaults \in Nat
    BY FaultsAssumption DEF TypeOK
  <1>2. ~Fault(c)
    BY <1>1 DEF Fault
  <1>3. ~ReplyLost(c)
    BY <1>1, <1>2 DEF ReplyLost
  <1>4. ~NotExecuted(c)
    BY <1>1, <1>2 DEF NotExecuted
  <1>5. QED
    BY <1>3, <1>4

\* Nothing that went wrong is undone, and no request starts again.
LEMMA HarmLemma ==
    ASSUME TypeOK, NEW c \in Requests, StepOf(c)
    PROVE  /\ ask' = ask
           /\ alive'[c] => alive[c]
           /\ faults'[c] = 0 => faults[c] = 0
           /\ \A d \in Requests : pc'[d] = "idle" => pc[d] = "idle"
  <1> USE DEF TypeOK, Goto, Active, Ended
  <1>1. ASSUME Replied(c) \/ ReplyLost(c) \/ NotExecuted(c)
        PROVE  (alive'[c] => alive[c]) /\ (faults'[c] = 0 => faults[c] = 0)
    BY <1>1, CallLemma
  <1>2. CASE Refuse(c) \/ Arrive(c)
    BY <1>2 DEF Refuse, Arrive
  <1>3. CASE Reserve(c)
    BY <1>1, <1>3 DEF Reserve
  <1>4. CASE Announce(c)
    BY <1>1, <1>4 DEF Announce, Emit
  <1>5. CASE \E n \in Usages : CallFails(c) \/ CallAnswers(c, n) \/ CallOpens(c)
    BY <1>5 DEF CallFails, CallAnswers, CallOpens
  <1>6. CASE \E frame \in Frames, n \in Usages : Relay(c, frame, n)
    BY <1>6 DEF Relay
  <1>7. CASE StreamEnds(c) \/ StreamBreaks(c)
    BY <1>7 DEF StreamEnds, StreamBreaks
  <1>8. CASE Settle(c)
    BY <1>1, <1>8 DEF Settle
  <1>9. CASE Record(c)
    BY <1>1, <1>9 DEF Record, Emit
  <1>10. CASE Answer(c)
    BY <1>10 DEF Answer
  <1>11. CASE HangUp(c) \/ Crash(c) \/ TTL(c)
    BY <1>11 DEF HangUp, Crash, TTL
  <1>12. QED
    BY <1>2, <1>3, <1>4, <1>5, <1>6, <1>7, <1>8, <1>9, <1>10, <1>11 DEF StepOf

\* A settlement that nothing went wrong with is refused only if the hold is gone.
LEMMA SettleFairly ==
    ASSUME TypeOK, NEW c \in Requests, RequestOK(c), Settle(c), alive'[c], faults'[c] = 0
    PROVE  FairlySettled(c)'
  <1>1. pc[c] = "settle" /\ ask' = ask /\ (Metered(c) => stage[c] \in {"open", "gone"})
    BY DEF Settle, RequestOK, HoldInv
  <1>2. CASE ~Metered(c)
    BY <1>1, <1>2 DEF FairlySettled, Metered
  <1>3. CASE Metered(c)
    <2>1. Replied(c) /\ ~ReplyLost(c) /\ ~NotExecuted(c)
      BY <1>3, CleanCall DEF Settle
    <2>2. settled'[c] = "error" => stage[c] # "open" /\ stage'[c] = stage[c]
      BY <1>3, <2>1 DEF Settle, TypeOK, holds
    <2>3. QED
      BY <1>1, <1>3, <2>2 DEF FairlySettled
  <1>4. QED
    BY <1>2, <1>3

\* The terminal row of a request that is alone with its key is written.
LEMMA RecordLands ==
    ASSUME TypeOK, RequestInv, LedgerInv, NEW c \in Requests, Record(c), Unharmed(c),
           alive'[c], faults'[c] = 0
    PROVE  OnRecord(c)'
  <1>1. pc[c] = "record" /\ stage' = stage /\ RequestOK(c)
    BY DEF Record, RequestInv, holds
  <1>2. CASE ~Metered(c)
    <2>1. stage[c] = "none"
      BY <1>1, <1>2 DEF RequestOK, HoldInv
    <2>2. QED
      BY <1>1, <2>1 DEF OnRecord
  <1>3. CASE Metered(c)
    <2>1. PICK slot, type, n : Emit(c, slot, type, n) /\ slot # "reserve"
      BY <1>3 DEF Record, Verdict
    <2> DEFINE row == [key |-> ask[c].key, slot |-> slot, request |-> c,
                       type |-> type, credits |-> n]
    <2>2. Insert(row)
      <3>1. ~NotExecuted(c)
        BY <2>1, CleanCall DEF Emit
      <3>2. QED
        BY <2>1, <3>1 DEF Emit
    <2>3. ASSUME NEW old \in ledger, old.key = row.key, old.slot = row.slot
          PROVE  FALSE
      <3> DEFINE d == old.request
      <3>1. d \in Requests /\ old.slot # "reserve" /\ RowOK(old)
        BY <2>1, <2>3 DEF TypeOK, Rows, LedgerInv
      <3>2. ask[d].key = ask[c].key /\ pc[d] \in {"answer"} \cup Ended
        BY <2>3, <3>1 DEF RowOK
      <3>3. d # c /\ pc[d] # "idle"
        BY <1>1, <3>2 DEF Ended
      <3>4. QED
        BY <3>1, <3>2, <3>3 DEF Unharmed, Alone
    <2>4. row \in ledger'
      BY <2>2, <2>3 DEF Insert
    <2>5. row.request = c /\ row.slot # "reserve"
      BY <2>1
    <2>6. QED
      BY <2>4, <2>5 DEF OnRecord
  <1>4. QED
    BY <1>2, <1>3

\* Any step of a request that it survives unharmed leaves it settled and on record.
LEMMA QuietStep ==
    ASSUME TypeOK, RequestInv, LedgerInv, NEW c \in Requests, StepOf(c),
           Unharmed(c), alive'[c], faults'[c] = 0, FairlySettled(c), OnRecord(c)
    PROVE  FairlySettled(c)' /\ OnRecord(c)'
  <1>1. RequestOK(c) /\ ask' = ask
    BY HarmLemma DEF RequestInv
  <1>2. ledger \subseteq ledger'
    BY WriteLemma
  <1> USE DEF TypeOK, Goto, Ended
  <1>3. ASSUME settled' = settled, stage[c] \in {"none", "gone"} => stage'[c] \in {stage[c], "open"},
               stage[c] = "gone" \/ stage'[c] = "gone" => stage'[c] = "gone"
        PROVE  FairlySettled(c)'
    BY <1>1, <1>3 DEF FairlySettled, Metered
  <1>4. ASSUME stage'[c] # "none" /\ pc'[c] \in {"answer", "done"} =>
                    stage[c] # "none" /\ pc[c] \in {"answer", "done"}
        PROVE  OnRecord(c)'
    BY <1>2, <1>4 DEF OnRecord
  <1>5. CASE Refuse(c) \/ Arrive(c)
    <2>1. /\ settled' = settled /\ stage' = stage /\ stage[c] = "none"
      BY <1>1, <1>5 DEF Refuse, Arrive, holds, RequestOK, HoldInv
    <2>2. QED
      BY <1>3, <1>4, <2>1
  <1>6. CASE Reserve(c)
    <2>1. settled' = settled /\ pc[c] = "reserve" /\ settled[c] = "not yet"
      BY <1>1, <1>6 DEF Reserve, RequestOK, SettledInv, Settling
    <2>2. pc'[c] = "done" => stage'[c] = "none"
      <3>1. ~ReplyLost(c) /\ stage[c] = "none"
        BY <1>1, <1>6, CleanCall DEF Reserve, RequestOK, HoldInv
      <3>2. QED
        BY <1>6, <3>1 DEF Reserve, holds
    <2>3. pc'[c] # "answer"
      BY <1>6 DEF Reserve
    <2>4. QED
      BY <1>4, <2>1, <2>2, <2>3 DEF FairlySettled
  <1>7. CASE Settle(c)
    <2>1. pc'[c] = "record"
      BY <1>7 DEF Settle
    <2>2. QED
      BY <1>1, <1>4, <1>7, <2>1, SettleFairly
  <1>8. CASE Record(c)
    <2>1. settled' = settled /\ stage' = stage
      BY <1>8 DEF Record, holds
    <2>2. QED
      BY <1>3, <1>8, <2>1, RecordLands
  <1>9. CASE Answer(c)
    <2>1. settled' = settled /\ stage' = stage /\ pc[c] = "answer"
      BY <1>9 DEF Answer, holds
    <2>2. QED
      BY <1>3, <1>4, <2>1
  <1>10. CASE \/ Announce(c)
              \/ \E n \in Usages : CallFails(c) \/ CallAnswers(c, n) \/ CallOpens(c)
              \/ \E frame \in Frames, n \in Usages : Relay(c, frame, n)
              \/ StreamEnds(c) \/ StreamBreaks(c)
    <2>1. settled' = settled /\ stage' = stage /\ pc'[c] \notin {"answer", "done"}
      BY <1>10 DEF Announce, CallFails, CallAnswers, CallOpens, Relay, StreamEnds, StreamBreaks,
         holds
    <2>2. QED
      BY <1>3, <1>4, <2>1
  <1>11. CASE HangUp(c) \/ Crash(c)
    <2>1. ~alive'[c]
      BY <1>11 DEF HangUp, Crash
    <2>2. QED
      BY <2>1
  <1>12. CASE TTL(c)
    <2>1. /\ settled' = settled /\ pc' = pc
          /\ stage[c] = "open" /\ stage'[c] = "gone"
      BY <1>12 DEF TTL, Usage!Expire
    <2>2. QED
      BY <1>3, <1>4, <2>1
  <1>13. QED
    BY <1>5, <1>6, <1>7, <1>8, <1>9, <1>10, <1>11, <1>12 DEF StepOf

\* What nothing went wrong with is settled, if its hold was there, and on record.
THEOREM QuietKept == Spec => []QuietInv
  <1>1. Init => QuietInv
    BY DEF Init, QuietInv, FairlySettled, OnRecord
  <1>2. TypeOK /\ RequestInv /\ LedgerInv /\ QuietInv /\ [Next]_vars => QuietInv'
    <2> SUFFICES ASSUME TypeOK, RequestInv, LedgerInv, QuietInv, [Next]_vars,
                        NEW b \in Requests, Unharmed(b)'
                 PROVE  FairlySettled(b)' /\ OnRecord(b)'
      BY DEF QuietInv
    <2>1. CASE UNCHANGED vars
      BY <2>1 DEF QuietInv, vars, holds, Unharmed, Alone, FairlySettled, OnRecord, Metered
    <2>2. CASE \E c \in Requests : StepOf(c)
      <3>1. PICK c \in Requests : StepOf(c)
        BY <2>2
      <3>2. /\ ask' = ask
            /\ \A d \in Requests : pc'[d] = "idle" => pc[d] = "idle"
            /\ alive'[c] => alive[c]
            /\ faults'[c] = 0 => faults[c] = 0
        BY <3>1, HarmLemma
      <3>3. Alone(b)
        BY <3>2 DEF Unharmed, Alone
      <3>4. CASE b = c
        <4>1. Unharmed(c) /\ alive'[c] /\ faults'[c] = 0
          BY <3>2, <3>3, <3>4 DEF Unharmed
        <4>2. FairlySettled(c) /\ OnRecord(c)
          BY <4>1 DEF QuietInv
        <4>3. QED
          BY <3>1, <3>4, <4>1, <4>2, QuietStep
      <3>5. CASE b # c
        <4>1. /\ pc'[b] = pc[b] /\ alive'[b] = alive[b] /\ faults'[b] = faults[b]
              /\ stage'[b] = stage[b] /\ settled'[b] = settled[b]
          BY <3>1, <3>5, FrameLemma
        <4>2. FairlySettled(b) /\ OnRecord(b)
          BY <3>3, <4>1 DEF QuietInv, Unharmed
        <4>3. ledger \subseteq ledger'
          BY <3>1, WriteLemma
        <4>4. QED
          BY <3>2, <4>1, <4>2, <4>3 DEF FairlySettled, OnRecord, Metered
      <3>6. QED
        BY <3>4, <3>5
    <2>3. QED
      BY <2>1, <2>2, NextCases
  <1>3. QED
    BY <1>1, <1>2, TypeCorrect, RequestsOK, LedgerAgrees, PTL DEF Spec

=============================================================================
