------------------------------ MODULE Gateway ------------------------------
(***************************************************************************)
(* The gateway's metered requests (src/cmd/gateway): a hold is taken from  *)
(* the usage service, an upstream produces output, the hold is settled,    *)
(* and each step is reported to the ledger.                                *)
(*                                                                         *)
(* handleChat serves streams and buffered answers, handleGenerate buffered *)
(* answers only.  There is one action per call to another service and one  *)
(* per frame of a stream; between two of them the client may hang up, the  *)
(* TTL of the hold may pass, and the gateway may crash.                    *)
(*                                                                         *)
(* The usage service is what HoldLife.tla says of it.  Its refusals are    *)
(* nondeterministic here, as they depend on balances and budgets.          *)
(***************************************************************************)
EXTENDS Integers

CONSTANTS
    Requests,   \* POST /v1/chat and /v1/generate calls, one fresh reservation id each
    Asks,       \* what a request may ask for
    Keys,       \* idempotency keys
    Actuals,    \* credits of the usage that a provider reports
    MaxFaults   \* bound on the calls of one request that fail or lose their reply

Kinds == {"stream", "buffered", "generate"}

\* A request is metered unless it brings its own key, or is a chat served by a
\* local model or the mock.  estimate is ToCredits(Ceiling(...)), at least 1;
\* ToCredits of a reported usage of no tokens is 0.  The adapter's mock has a script
\* that hangs: a stream is answered 200 and nothing follows.  (A buffered chat with
\* that script gets no response header in time, and a generate has no scripts.)
ASSUME AsksAssumption ==
    /\ Asks \subseteq [kind : Kinds, metered : BOOLEAN, hangs : BOOLEAN,
                       estimate : Nat \ {0}, key : Keys]
    /\ \A a \in Asks : a.hangs => a.kind = "stream"
    /\ Actuals \subseteq Nat

ASSUME FaultsAssumption == MaxFaults \in Nat

VARIABLES
    ask,       \* what each request asks for
    pc,        \* the next call of its handler
    alive,     \* its context is not cancelled: the client is there
    client,    \* what the client was sent
    upstream,  \* how far the adapter's stream is
    run,       \* what the handler knows of the run
    settled,   \* the outcome of the settlement as the handler sees it
    faults,    \* calls that failed or lost their reply
    stage, bill,  \* the holds, kept by the usage service
    ledger        \* the rows of ledger_events

Usage == INSTANCE HoldLife WITH
    Holds <- Requests, Credits <- Actuals \cup {a.estimate : a \in Asks} \cup {0}

holds == <<stage, bill>>
vars == <<ask, pc, alive, client, upstream, run, settled, faults, holds, ledger>>

Active == {"reserve", "announce", "call", "relay", "settle", "record", "answer"}
Ended == {"done", "crashed"}

\* No usage was reported: no amount of credits, and not a usage of 0 either.
NoUsage == -1
Usages == Actuals \cup {NoUsage}

Credits == Actuals \cup {a.estimate : a \in Asks} \cup {0}

Frames == {"text_delta", "usage", "done", "error"}

\* The locals of handleChat; relayErr # nil is called broken.
Runs == [opened : BOOLEAN, billableStarted : BOOLEAN, usage : Usages,
         sawError : BOOLEAN, broken : BOOLEAN]

\* A client has an HTTP status, perhaps some output, the credits it was told,
\* and the last frame of its stream.
Clients == [status : {"none", "ok", "error"}, output : BOOLEAN,
            told : Usages \cup {0}, last : Frames \cup {"none"}]

Slots == {"reserve", "commit", "commit_failed", "release"}
EventTypes == {"credits_reserved", "credits_committed", "credits_committed_unknown",
               "credits_released", "commit_failed", "unmetered"}
Rows == [key : Keys, slot : Slots, request : Requests, type : EventTypes,
         credits : Credits]

Init ==
    /\ ask \in [Requests -> Asks]
    /\ pc = [c \in Requests |-> "idle"]
    /\ alive = [c \in Requests |-> TRUE]
    /\ client = [c \in Requests |->
            [status |-> "none", output |-> FALSE, told |-> NoUsage, last |-> "none"]]
    /\ upstream = [c \in Requests |-> "closed"]
    /\ run = [c \in Requests |->
            [opened |-> FALSE, billableStarted |-> FALSE, usage |-> NoUsage,
             sawError |-> FALSE, broken |-> FALSE]]
    /\ settled = [c \in Requests |-> "not yet"]
    /\ faults = [c \in Requests |-> 0]
    /\ Usage!Init
    /\ ledger = {}

-----------------------------------------------------------------------------
(* Calls to other services *)

Metered(c) == ask[c].metered
Estimate(c) == ask[c].estimate
Stream(c) == ask[c].kind = "stream"
Generate(c) == ask[c].kind = "generate"
Buffered(c) == ask[c].kind = "buffered"

Goto(c, p) == pc' = [pc EXCEPT ![c] = p]

\* Mutant of Cancellable: the settlement runs on the context of the request.
AlwaysCancellable(c) == TRUE

\* Calls before the settlement run on the request's context.  settleChat
\* detaches the context of a metered chat, so that a hang-up cannot cancel its
\* settlement; handleGenerate does not.
Cancellable(c) ==
    \/ pc[c] \notin {"settle", "record"}
    \/ Generate(c)
    \/ ~Metered(c)

Fault(c) == faults[c] < MaxFaults /\ faults' = [faults EXCEPT ![c] = @ + 1]

\* The other side executed the call and its answer arrived.
Replied(c) ==
    /\ Cancellable(c) => alive[c]
    /\ UNCHANGED <<faults, alive>>

\* It executed the call, but the gateway timed out or the client hung up first.
ReplyLost(c) ==
    \/ Fault(c) /\ UNCHANGED alive /\ (Cancellable(c) => alive[c])
    \/ /\ Cancellable(c) /\ alive[c]
       /\ alive' = [alive EXCEPT ![c] = FALSE]
       /\ UNCHANGED faults

\* The call was never executed: its context is cancelled or the service is down.
NotExecuted(c) ==
    /\ \/ Fault(c)
       \/ Cancellable(c) /\ ~alive[c] /\ UNCHANGED faults
    /\ UNCHANGED alive

\* Mutant of Insert: the key is not unique.
InsertAgain(row) == ledger' = ledger \cup {row}

\* INSERT ... ON CONFLICT (idempotency_key) keeps the first row of a key.
Insert(row) ==
    IF \E old \in ledger : old.key = row.key /\ old.slot = row.slot
    THEN UNCHANGED ledger
    ELSE ledger' = ledger \cup {row}

\* emitLedgerEvent is best effort: the handler goes on whatever comes of it.
Emit(c, slot, type, n) ==
    \/ /\ Replied(c) \/ ReplyLost(c)
       /\ Insert([key |-> ask[c].key, slot |-> slot, request |-> c,
                  type |-> type, credits |-> n])
    \/ NotExecuted(c) /\ UNCHANGED ledger

\* Writes to a client that is gone reach nobody.
Send(c, update) ==
    client' = [client EXCEPT ![c] = IF alive[c] THEN update ELSE @]

-----------------------------------------------------------------------------
(* Before the upstream *)

\* Validation, authentication, the rate limit and the kill switch answer with
\* an HTTP status and touch nothing.
Refuse(c) ==
    /\ pc[c] = "idle"
    /\ Send(c, [client[c] EXCEPT !.status = "error"])
    /\ Goto(c, "done")
    /\ UNCHANGED <<ask, alive, upstream, run, settled, faults, holds, ledger>>

Arrive(c) ==
    /\ pc[c] = "idle"
    /\ Goto(c, IF Metered(c) THEN "reserve" ELSE "call")
    /\ UNCHANGED <<ask, alive, client, upstream, run, settled, faults, holds, ledger>>

\* POST /v1/reservations.  Any error ends the request with an HTTP status, even
\* when the hold was taken and only the reply is missing.
Reserve(c) ==
    /\ pc[c] = "reserve"
    /\ \/ /\ Replied(c)
          /\ Usage!Take(c, Estimate(c))
          /\ Goto(c, "announce")
          /\ UNCHANGED client
       \/ /\ \/ (Replied(c) \/ NotExecuted(c)) /\ UNCHANGED holds
             \/ ReplyLost(c) /\ Usage!Take(c, Estimate(c))
          /\ Goto(c, "done")
          /\ Send(c, [client[c] EXCEPT !.status = "error"])
    /\ UNCHANGED <<ask, upstream, run, settled, ledger>>

Announce(c) ==
    /\ pc[c] = "announce"
    /\ Emit(c, "reserve", "credits_reserved", Estimate(c))
    /\ Goto(c, "call")
    /\ UNCHANGED <<ask, client, upstream, run, settled, holds>>

-----------------------------------------------------------------------------
(* The upstream call *)

Learn(c, update) == run' = [run EXCEPT ![c] = update]

\* The adapter refuses, the provider fails before its first chunk, no response
\* header arrives in time, or the client hangs up first.
CallFails(c) ==
    /\ pc[c] = "call"
    /\ Learn(c, [run[c] EXCEPT !.broken = TRUE])
    /\ Goto(c, "settle")
    /\ UNCHANGED <<ask, alive, client, upstream, settled, faults, holds, ledger>>

\* A whole answer arrives.  Its usage is always there, but a buffered chat with a
\* total of 0 tokens counts as one without (sawUsage); a generate's is billed as it is.
CallAnswers(c, n) ==
    /\ pc[c] = "call" /\ alive[c]
    /\ ~Stream(c)
    /\ n # IF Generate(c) THEN NoUsage ELSE 0
    /\ Learn(c, [run[c] EXCEPT !.usage = n])
    /\ Goto(c, "settle")
    /\ UNCHANGED <<ask, alive, client, upstream, settled, faults, holds, ledger>>

CallOpens(c) ==
    /\ pc[c] = "call" /\ alive[c]
    /\ Stream(c)
    /\ upstream' = [upstream EXCEPT ![c] = "open"]
    /\ Goto(c, "relay")
    /\ UNCHANGED <<ask, alive, client, run, settled, faults, holds, ledger>>

\* stream_events of the adapter: deltas, then one usage frame if the provider
\* reported any, then done; a provider error ends the deltas with an error frame.
\* A script that hangs yields nothing.
Yields(c, frame) ==
    /\ ~ask[c].hangs
    /\ \/ upstream[c] = "open"
       \/ upstream[c] = "counted" /\ frame = "done"
    /\ upstream' = [upstream EXCEPT ![c] =
            CASE frame = "text_delta" -> "open"
              [] frame = "usage"      -> "counted"
              [] OTHER                -> "ended"]

\* The closure given to PostSSE takes note of a frame and forwards it; n is the
\* reported usage in credits, and a client that pays none is told 0.  A
\* tool_call_delta is a text_delta here.
Relay(c, frame, n) ==
    /\ pc[c] = "relay"
    /\ (frame = "usage") = (n # NoUsage)
    /\ Yields(c, frame)
    /\ Learn(c, [run[c] EXCEPT
            !.opened = TRUE,
            !.billableStarted = @ \/ frame = "text_delta",
            !.usage = IF frame = "usage" THEN n ELSE @,
            !.sawError = @ \/ frame = "error"])
    /\ Send(c, [client[c] EXCEPT
            !.status = "ok",
            !.output = @ \/ frame = "text_delta",
            !.told = IF frame # "usage" THEN @ ELSE IF Metered(c) THEN n ELSE 0,
            !.last = frame])
    /\ UNCHANGED <<ask, pc, alive, settled, faults, holds, ledger>>

\* Mutant of StreamEnds: the relay waits for a usage frame.
EndsIfCounted(c) ==
    /\ pc[c] = "relay" /\ upstream[c] = "ended" /\ run[c].usage # NoUsage
    /\ Goto(c, "settle")
    /\ UNCHANGED <<ask, alive, client, upstream, run, settled, faults, holds, ledger>>

\* PostSSE returns nil at the end of the body.
StreamEnds(c) ==
    /\ pc[c] = "relay" /\ upstream[c] = "ended"
    /\ Goto(c, "settle")
    /\ UNCHANGED <<ask, alive, client, upstream, run, settled, faults, holds, ledger>>

\* PostSSE returns an error, at any point until the end of the body was read: the
\* adapter is gone, a frame is too large, or the client hung up.
StreamBreaks(c) ==
    /\ pc[c] = "relay"
    /\ Learn(c, [run[c] EXCEPT !.broken = TRUE])
    /\ Goto(c, "settle")
    /\ UNCHANGED <<ask, alive, client, upstream, settled, faults, holds, ledger>>

-----------------------------------------------------------------------------
(* Settlement *)

Failed(c) == run[c].broken \/ run[c].sawError
SawUsage(c) == run[c].usage # NoUsage
ActualCredits(c) == IF SawUsage(c) THEN run[c].usage ELSE 0

\* Mutant of Reported: the reported usage is ignored.
NeverReported(c) == FALSE

\* settleChat's table; handleGenerate only ever meets its first two rows.
Reported(c) == ~Failed(c) /\ SawUsage(c)
\* Mutant of BeforeOutput: any failure releases, even after output.
AnyFailure(c) == Failed(c)

BeforeOutput(c) == Failed(c) /\ ~run[c].billableStarted
Verdict(c) ==
    IF BeforeOutput(c) THEN "release" ELSE "commit"
\* Mutant of Cost: the cost is added to the hold.
CostOnTop(c) == ActualCredits(c) + Estimate(c)

Cost(c) == IF Reported(c) THEN ActualCredits(c) ELSE Estimate(c)

\* What the usage service does to an open hold.
Apply(c) ==
    IF Verdict(c) = "release" THEN Usage!Return(c) ELSE Usage!Bill(c, Cost(c))

\* Mutant of Settle: the handler waits for something to commit.
SettleCommits(c) ==
    /\ pc[c] = "settle" /\ Verdict(c) = "commit"
    /\ \/ Replied(c) /\ stage[c] = "open" /\ Usage!Bill(c, Cost(c))
       \/ (Replied(c) \/ NotExecuted(c)) /\ UNCHANGED holds
    /\ settled' = [settled EXCEPT ![c] = "ok"]
    /\ Goto(c, "record")
    /\ UNCHANGED <<ask, client, upstream, run, ledger>>

\* commitReservation or releaseReservation; 409 if the hold expired.
Settle(c) ==
    /\ pc[c] = "settle"
    /\ \/ ~Metered(c) /\ settled' = [settled EXCEPT ![c] = "ok"]
          /\ UNCHANGED <<faults, alive, holds>>
       \/ /\ Metered(c)
          /\ Replied(c)
          /\ Apply(c)
          /\ settled' = [settled EXCEPT ![c] = "ok"]
       \/ /\ Metered(c)
          /\ \/ Replied(c) /\ stage[c] # "open" /\ UNCHANGED holds
             \/ ReplyLost(c) /\ Apply(c)
             \/ NotExecuted(c) /\ UNCHANGED holds
          /\ settled' = [settled EXCEPT ![c] = "error"]
    /\ Goto(c, "record")
    /\ UNCHANGED <<ask, client, upstream, run, ledger>>

\* Mutant of Record: the outcome of the commit is ignored.
RecordCommit(c) ==
    /\ pc[c] = "record"
    /\ \/ /\ Verdict(c) = "release"
          /\ Emit(c, "release", "credits_released", Estimate(c))
       \/ /\ Verdict(c) = "commit"
          /\ Emit(c, "commit", "credits_committed", Cost(c))
    /\ Goto(c, "answer")
    /\ UNCHANGED <<ask, client, upstream, run, settled, holds>>

\* The terminal event of a request.  A release is reported whether or not it
\* succeeded; a failed BYOK generate is not reported at all, and one that answers
\* with the credits that it would have cost, had it been metered.
Record(c) ==
    /\ pc[c] = "record"
    /\ \/ /\ Metered(c) /\ Verdict(c) = "release"
          /\ Emit(c, "release", "credits_released", Estimate(c))
       \/ /\ Metered(c) /\ Verdict(c) = "commit" /\ settled[c] = "error"
          /\ Emit(c, "commit_failed", "commit_failed", Cost(c))
       \/ /\ Metered(c) /\ Verdict(c) = "commit" /\ settled[c] = "ok"
          /\ Emit(c, "commit", IF Reported(c) THEN "credits_committed"
                               ELSE "credits_committed_unknown", Cost(c))
       \/ /\ ~Metered(c)
          /\ ~(Generate(c) /\ Failed(c))
          /\ Emit(c, "commit", "unmetered", IF Generate(c) THEN ActualCredits(c) ELSE 0)
       \/ /\ ~Metered(c) /\ Generate(c) /\ Failed(c)
          /\ UNCHANGED <<faults, alive, ledger>>
    /\ Goto(c, "answer")
    /\ UNCHANGED <<ask, client, upstream, run, settled, holds>>

-----------------------------------------------------------------------------
(* The answer *)

\* Mutant of AnswerStream: a broken stream gets no error frame.
StatusOnly(c) ==
    \/ (~run[c].broken \/ run[c].opened) /\ UNCHANGED client
    \/ /\ run[c].broken /\ ~run[c].opened
       /\ Send(c, [client[c] EXCEPT !.status = "error"])

\* The end of handleChat for a stream: a status if nothing was sent yet, an
\* error frame of the gateway's own if the adapter's stream broke off.
AnswerStream(c) ==
    \/ ~run[c].broken /\ UNCHANGED client
    \/ /\ run[c].broken /\ ~run[c].opened
       /\ Send(c, [client[c] EXCEPT !.status = "error"])
    \/ /\ run[c].broken /\ run[c].opened /\ run[c].sawError
       /\ UNCHANGED client
    \/ /\ run[c].broken /\ run[c].opened /\ ~run[c].sawError
       /\ Send(c, [client[c] EXCEPT !.last = "error"])

\* bufferedChat answers whatever became of the commit; handleGenerate answers
\* 409 if it failed.  A generate with a key of its own is told credits as well.
AnswerWhole(c) ==
    Send(c, IF run[c].broken \/ (Generate(c) /\ settled[c] = "error")
            THEN [client[c] EXCEPT !.status = "error"]
            ELSE [client[c] EXCEPT !.status = "ok", !.output = TRUE,
                    !.told = IF Metered(c) \/ Generate(c) THEN ActualCredits(c) ELSE 0])

Answer(c) ==
    /\ pc[c] = "answer"
    /\ IF Stream(c) THEN AnswerStream(c) ELSE AnswerWhole(c)
    /\ Goto(c, "done")
    /\ UNCHANGED <<ask, alive, upstream, run, settled, faults, holds, ledger>>

-----------------------------------------------------------------------------
(* The environment *)

HangUp(c) ==
    /\ pc[c] \in Active /\ alive[c]
    /\ alive' = [alive EXCEPT ![c] = FALSE]
    /\ UNCHANGED <<ask, pc, client, upstream, run, settled, faults, holds, ledger>>

\* The gateway stops in the middle of the handler.
Crash(c) ==
    /\ pc[c] \in Active
    /\ Goto(c, "crashed")
    /\ alive' = [alive EXCEPT ![c] = FALSE]
    /\ UNCHANGED <<ask, client, upstream, run, settled, faults, holds, ledger>>

\* The TTL of an open hold: 600 s for a chat, 180 s for a generate.
TTL(c) ==
    /\ stage[c] = "open"
    /\ Usage!Expire(c)
    /\ UNCHANGED <<ask, pc, alive, client, upstream, run, settled, faults, ledger>>

\* Every request has been served.
Quiet ==
    /\ \A c \in Requests : pc[c] \in Ended
    /\ UNCHANGED vars

Handler(c) ==
    \/ Reserve(c)
    \/ Announce(c)
    \/ CallFails(c)
    \/ CallOpens(c)
    \/ \E n \in Usages : CallAnswers(c, n)
    \/ \E frame \in Frames, n \in Usages : Relay(c, frame, n)
    \/ StreamEnds(c)
    \/ StreamBreaks(c)
    \/ Settle(c)
    \/ Record(c)
    \/ Answer(c)

Next ==
    \/ \E c \in Requests :
        Refuse(c) \/ Arrive(c) \/ Handler(c) \/ HangUp(c) \/ Crash(c) \/ TTL(c)
    \/ Quiet

Spec == Init /\ [][Next]_vars

\* A handler that has started runs on, and its waits are bounded: calls by the
\* timeouts of their clients, a response by ResponseHeaderTimeout, the stream of a
\* provider by max_output_tokens and the 300 s that the adapter gives it.  Nothing
\* bounds a stream that hangs, but for its client: the read of the body fails once
\* the request's context is cancelled.  The TTL is left out, so that what follows is
\* not its doing.
Fairness ==
    \A c \in Requests :
        /\ WF_vars(Reserve(c)) /\ WF_vars(Announce(c))
        /\ WF_vars(CallFails(c) \/ CallOpens(c)
                    \/ \E n \in Usages : CallAnswers(c, n))
        /\ WF_vars(\E frame \in Frames, n \in Usages : Relay(c, frame, n))
        /\ WF_vars(StreamEnds(c)) /\ WF_vars(~alive[c] /\ StreamBreaks(c))
        /\ WF_vars(Settle(c)) /\ WF_vars(Record(c)) /\ WF_vars(Answer(c))

FairSpec == Spec /\ Fairness

-----------------------------------------------------------------------------
(* Invariants *)

\* Every variable keeps its type.
TypeOK ==
    /\ ask \in [Requests -> Asks]
    /\ pc \in [Requests -> {"idle"} \cup Active \cup Ended]
    /\ alive \in [Requests -> BOOLEAN]
    /\ client \in [Requests -> Clients]
    /\ upstream \in [Requests -> {"closed", "open", "counted", "ended"}]
    /\ run \in [Requests -> Runs]
    /\ settled \in [Requests -> {"not yet", "ok", "error"}]
    /\ faults \in [Requests -> 0 .. MaxFaults]
    /\ stage \in [Requests -> Usage!Stages]
    /\ bill \in [Requests -> Credits]
    /\ ledger \subseteq Rows

\* Output is paid for: a metered client that was sent any of it had a hold, which
\* is never released, however the run ends.  All of it comes back in one case only:
\* a run that ended well and whose reported usage is of no tokens is committed for 0.
OutputIsPaid ==
    \A c \in Requests : Metered(c) /\ client[c].output =>
        /\ stage[c] \notin {"none", "returned"}
        /\ bill[c] = 0 => Reported(c) /\ run[c].usage = 0

\* The upstream works for a metered request only once its hold is taken, and
\* until the settlement nothing but the TTL closes it.
HeldBeforeCall ==
    \A c \in Requests : Metered(c) /\ pc[c] \in {"announce", "call", "relay", "settle"} =>
        stage[c] \in {"open", "gone"}

\* A hang-up alone strands no hold of a chat that reached its settlement: if none
\* of its calls failed, its hold is settled or has expired by then.
HangUpSettles ==
    \A c \in Requests :
        ~Generate(c) /\ Metered(c) /\ settled[c] # "not yet" /\ faults[c] = 0 =>
            stage[c] # "open"

\* A client that stayed to the end of a run that ended well is billed exactly
\* what it was told; a generate that answered 200 is so whatever failed.  (A
\* buffered chat of 0 tokens is told 0 and billed its hold, as without a usage.)
ToldIsBilled ==
    \A c \in Requests :
        /\ Metered(c) /\ pc[c] = "done" /\ client[c].status = "ok"
        /\ client[c].told # NoUsage /\ ~(Buffered(c) /\ client[c].told = 0)
        /\ \/ Generate(c)
           \/ alive[c] /\ faults[c] = 0 /\ stage[c] # "gone" /\ client[c].last # "error"
        => bill[c] = client[c].told

\* A client that is there at the end of a stream has seen how it ended: with a
\* done or an error frame, never with a stream that just stops.
EndIsMarked ==
    \A c \in Requests :
        Stream(c) /\ pc[c] = "done" /\ alive[c] /\ client[c].status = "ok" =>
            client[c].last \in {"done", "error"}

\* The ledger never says more than what happened: a row that says credits were
\* committed has the amount that was billed, a request has one such row at most and
\* none if its hold was returned, and a row without a hold is of a request that paid
\* nothing, whatever credits it carries (a generate with a key of its own does).
RowIsTrue(row) ==
    LET c == row.request
    IN  CASE row.type = "credits_reserved" -> stage[c] # "none"
          [] row.type \in {"credits_committed", "credits_committed_unknown"} ->
                stage[c] = "billed" /\ bill[c] = row.credits
          [] row.type = "credits_released" -> stage[c] # "billed" /\ bill[c] <= Estimate(c)
          [] row.type = "unmetered" -> stage[c] = "none" /\ bill[c] = 0
          [] OTHER -> TRUE

LedgerIsLowerBound ==
    /\ \A row \in ledger : RowIsTrue(row)
    /\ \A row, other \in ledger :
        row.request = other.request /\ "reserve" \notin {row.slot, other.slot} => row = other

-----------------------------------------------------------------------------
(* Liveness *)

\* A stream that hangs while its client stays: nothing in the gateway ends it.
Waits(c) == ask[c].hangs /\ alive[c] /\ pc[c] = "relay"

\* The hold of a chat does not wait for its TTL: it is settled because the
\* handler gets there, unless a call fails, the gateway crashes or the stream hangs.
HoldSettles ==
    \A c \in Requests :
        ~Generate(c) /\ pc[c] \in Active /\ stage[c] = "open"
            ~> stage[c] # "open" \/ faults[c] > 0 \/ pc[c] \in Ended \ {"done"} \/ Waits(c)

\* Every handler that has started ends, but for one that relays a stream that hangs
\* to a client that stays; a hang-up ends that one too.
HandlersEnd == \A c \in Requests : pc[c] \in Active ~> pc[c] \in Ended \/ Waits(c)

-----------------------------------------------------------------------------
(* What the documents say of the gateway *)

\* docs/openapi/gateway.yaml: a reported usage event commits the real cost.
UsageIsBilled ==
    \A c \in Requests :
        Metered(c) /\ Stream(c) /\ pc[c] = "done" /\ faults[c] = 0
            /\ client[c].last = "done" /\ client[c].told # NoUsage /\ stage[c] = "billed"
        => bill[c] = client[c].told

\* tests/smoke/features/generate.feature: on failure the reservation is released.
FailureIsReleased ==
    \A c \in Requests :
        Generate(c) /\ Metered(c) /\ pc[c] = "done" /\ faults[c] = 0 /\ Failed(c)
        => stage[c] # "open"

=============================================================================
