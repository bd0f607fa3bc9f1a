------------------------------ MODULE Upstream ------------------------------
(***************************************************************************)
(* One call of the gateway to the service that talks to the LLM providers: *)
(* the LiteLLM adapter (src/services/litellm_adapter) or the llmproxy that *)
(* it replaced and that stays as its rollback (src/cmd/llmproxy).          *)
(*                                                                         *)
(* Three parties run concurrently: the handler of the service, which reads *)
(* a provider's chunks and writes items (a status, frames, the end of the  *)
(* body) to a connection; the connection, which keeps their order and may  *)
(* be cut; and the gateway's PostSSE or PostJSON, which reads them and may *)
(* leave at any time.  Calls share no state, so one is enough.             *)
(*                                                                         *)
(* A chunk carries at most one part: one with several is several chunks.   *)
(***************************************************************************)
EXTENDS Naturals, Sequences

CONSTANTS
    Asks,      \* the calls to consider
    Tokens,    \* token totals that a provider may report; 0 stands for none
    MaxChunks  \* bound on the chunks of one answer

Parts == {"text_delta", "tool_call_delta"}
Chunks == [part : Parts \cup {"none"}, tokens : Tokens]

\* litellm is any provider behind the adapter; gemini and ollama are those of
\* llmproxy that can chat; script is the mock, and hang its script that never
\* says anything.
SourcesOf(server) ==
    {"script", "hang"} \cup
        (IF server = "adapter" THEN {"litellm"} ELSE {"gemini", "ollama"})

ASSUME AsksAssumption ==
    /\ Asks \subseteq [server : {"adapter", "llmproxy"},
                       source : {"litellm", "gemini", "ollama", "script", "hang"},
                       kind : {"stream", "buffered", "generate"},
                       tool : BOOLEAN]
    /\ \A a \in Asks :
        /\ a.source \in SourcesOf(a.server)
        /\ a.kind = "generate" => a.source # "hang"

ASSUME BoundsAssumption == Tokens \subseteq Nat /\ 0 \in Tokens /\ MaxChunks \in Nat

VARIABLES
    ask,       \* the call; tool: a tool call is required of the model
    pc,        \* where the handler of the service is
    first,     \* the chunk that _prepared_events read ahead, if any
    usage,     \* the handler's count of tokens, 0 at the start
    chunks,    \* number of chunks the provider yielded
    produced,  \* the parts the provider yielded
    sent,      \* every item written to the connection while it was up
    read,      \* how many of them the gateway has read
    conn,      \* the connection: up or cut
    reader     \* the gateway's PostSSE or PostJSON

provider == <<first, usage, chunks, produced>>
vars == <<ask, pc, provider, sent, read, conn, reader>>

Types == {"refusal", "answer", "header", "usage", "done", "error", "eof"} \cup Parts
Item(type, n) == [type |-> type, tokens |-> n]

Stream == ask.kind = "stream"
Adapter == ask.server = "adapter"

Init ==
    /\ ask \in Asks
    /\ pc = "accept"
    /\ first = <<>> /\ usage = 0 /\ chunks = 0 /\ produced = <<>>
    /\ sent = <<>> /\ read = 0
    /\ conn = "up"
    /\ reader = "waiting"

-----------------------------------------------------------------------------
(* Writing *)

\* What is written to a cut connection is heard by nobody.
Write(items) == sent' = IF conn = "up" THEN items ELSE sent

\* emit of streamChat opens the response with its first frame.  The adapter's
\* response was opened before.
Opened == IF sent = <<>> THEN <<Item("header", 0)>> ELSE sent
Emit(type, n) == Write(Append(Opened, Item(type, n)))
Reply(type, n) == Write(Append(sent, Item(type, n)))

\* A failure is a status as long as nothing was written, and a frame after that.
ReportFailure ==
    IF Stream /\ sent # <<>>
    THEN Emit("error", 0) /\ pc' = "close"
    ELSE Reply("refusal", 0) /\ pc' = "closed"

-----------------------------------------------------------------------------
(* The handler *)

\* Invalid requests, unknown models, providers that cannot chat, and providers
\* that refuse or cannot be reached: an HTTP status, nothing else.
Refuse ==
    /\ pc = "accept"
    /\ Reply("refusal", 0)
    /\ pc' = "closed"
    /\ UNCHANGED <<ask, provider, read, conn, reader>>

\* Mutant of Prepare: the response is opened before the first chunk is read.
PrepareUnread ==
    /\ pc = "accept" /\ Adapter /\ Stream /\ ask.source = "litellm"
    /\ Reply("header", 0)
    /\ pc' = "read"
    /\ UNCHANGED <<ask, provider, read, conn, reader>>

\* _prepared_events: the adapter reads the first chunk, or the end of an empty
\* body, before it answers 200.
Prepare ==
    /\ pc = "accept" /\ Adapter /\ Stream /\ ask.source = "litellm"
    /\ \/ /\ pc' = "count"
          /\ UNCHANGED provider
       \/ /\ MaxChunks > 0
          /\ \E c \in Chunks :
                /\ first' = <<c>>
                /\ produced' = IF c.part = "none" THEN <<>> ELSE <<c.part>>
          /\ chunks' = 1
          /\ pc' = "read"
          /\ UNCHANGED usage
    /\ Reply("header", 0)
    /\ UNCHANGED <<ask, read, conn, reader>>

\* Every other chat.  The adapter's mock is answered 200 before its script runs,
\* llmproxy answers with its first frame, and a buffered chat at the end.
Open ==
    /\ pc = "accept" /\ ask.kind # "generate"
    /\ ~(Adapter /\ Stream /\ ask.source = "litellm")
    /\ IF Adapter /\ Stream THEN Reply("header", 0) ELSE UNCHANGED sent
    /\ pc' = "read"
    /\ UNCHANGED <<ask, provider, read, conn, reader>>

\* Mutant of Counted: the counts of the chunks are added up.
AddedUp(n) == {usage + n}

\* The counts of a chunk replace earlier ones.  Ollama's are those of the last
\* frame, present or not; gemini's are kept if positive; the adapter keeps what a
\* usage block says, and n = 0 is a block of zeros or none.
Counted(n) ==
    CASE ask.source = "ollama" \/ n > 0  -> {n}
      [] ask.source = "gemini" /\ n = 0 -> {usage}
      [] OTHER                           -> {usage, 0}

\* Mutant of Read: chunks() forgets the chunk that was read ahead.
ReadOn(c) ==
    /\ pc = "read" /\ ask.source # "hang"
    /\ chunks < MaxChunks /\ chunks' = chunks + 1
    /\ produced' = IF c.part = "none" THEN produced ELSE Append(produced, c.part)
    /\ first' = <<>>
    /\ usage' \in Counted(c.tokens)
    /\ IF Stream /\ c.part # "none" THEN Emit(c.part, 0) ELSE UNCHANGED sent
    /\ UNCHANGED <<ask, pc, read, conn, reader>>

\* One turn of the loop over the chunks: a part is passed on as a frame, or kept
\* for the answer of a buffered chat.
Read(c) ==
    /\ pc = "read" /\ ask.source # "hang"
    /\ \/ first = <<c>> /\ UNCHANGED <<chunks, produced>>
       \/ /\ first = <<>>
          /\ chunks < MaxChunks /\ chunks' = chunks + 1
          /\ produced' = IF c.part = "none" THEN produced ELSE Append(produced, c.part)
    /\ first' = <<>>
    /\ usage' \in Counted(c.tokens)
    /\ IF Stream /\ c.part # "none" THEN Emit(c.part, 0) ELSE UNCHANGED sent
    /\ UNCHANGED <<ask, pc, read, conn, reader>>

\* Mutant of ToolMissing: prose is as good as a tool call.
NeverMissing == FALSE

\* llmproxy fails a run without the tool call that was required of it; the
\* adapter passes tool_choice on and leaves it at that.
ToolMissing ==
    /\ ask.tool /\ ask.source \in {"gemini", "ollama"}
    /\ \A i \in DOMAIN produced : produced[i] # "tool_call_delta"

\* The provider's body is read to its end.
BodyEnds ==
    /\ pc = "read" /\ ask.source # "hang" /\ first = <<>>
    /\ IF ToolMissing
       THEN ReportFailure
       ELSE pc' = (IF Stream THEN "count" ELSE "answer") /\ UNCHANGED sent
    /\ UNCHANGED <<ask, provider, read, conn, reader>>

\* The provider breaks off: a read error, a line that is no JSON, the timeout of
\* its client.  The scripts that end with an error begin with a delta.
ProviderFails ==
    /\ pc = "read" /\ ask.source # "hang" /\ first = <<>>
    /\ ask.source = "script" => produced # <<>>
    /\ ReportFailure
    /\ UNCHANGED <<ask, provider, read, conn, reader>>

\* A script that does not exist raises in the adapter after it answered 200.
Abort ==
    /\ pc = "read" /\ Adapter /\ Stream /\ ask.source = "script" /\ chunks = 0
    /\ conn' = "cut"
    /\ pc' = "closed"
    /\ UNCHANGED <<ask, provider, sent, read, reader>>

\* Mutant of EmitUsage: a frame without a count is sent as well.
EmitAnyUsage ==
    /\ pc = "count"
    /\ Emit("usage", usage)
    /\ pc' = "finish"
    /\ UNCHANGED <<ask, provider, read, conn, reader>>

\* No frame without a count, except for ollama.
EmitUsage ==
    /\ pc = "count"
    /\ IF usage > 0 \/ ask.source = "ollama" THEN Emit("usage", usage) ELSE UNCHANGED sent
    /\ pc' = "finish"
    /\ UNCHANGED <<ask, provider, read, conn, reader>>

\* Mutant of EmitDone: a stream that was opened needs no done frame.
EmitFirstDone ==
    /\ pc = "finish"
    /\ IF sent = <<>> THEN Emit("done", 0) ELSE UNCHANGED sent
    /\ pc' = "close"
    /\ UNCHANGED <<ask, provider, read, conn, reader>>

EmitDone ==
    /\ pc = "finish"
    /\ Emit("done", 0)
    /\ pc' = "close"
    /\ UNCHANGED <<ask, provider, read, conn, reader>>

Close ==
    /\ pc = "close"
    /\ Reply("eof", 0)
    /\ pc' = "closed"
    /\ UNCHANGED <<ask, provider, read, conn, reader>>

\* A buffered chat answers with what the frames added up to, 0 tokens if there
\* was no count.
AnswerChat ==
    /\ pc = "answer"
    /\ Reply("answer", usage)
    /\ pc' = "closed"
    /\ UNCHANGED <<ask, provider, read, conn, reader>>

\* llmproxy fails it if the arguments of a tool call do not parse; the adapter
\* passes them on as text.
RejectArguments ==
    /\ pc = "answer" /\ ~Adapter
    /\ \E i \in DOMAIN produced : produced[i] = "tool_call_delta"
    /\ Reply("refusal", 0)
    /\ pc' = "closed"
    /\ UNCHANGED <<ask, provider, read, conn, reader>>

\* The count of a provider that gives one; the scripts have none.
Reported == IF ask.source = "script" THEN {} ELSE Tokens \ {0}

\* An estimate stands for a missing count: at least one token for the adapter, the
\* words of prompt and output for llmproxy, which may be none.
Estimates == IF Adapter THEN Tokens \ {0} ELSE Tokens

AnswerGenerate ==
    /\ pc = "accept" /\ ask.kind = "generate"
    /\ \E n \in Reported \cup Estimates : Reply("answer", n)
    /\ pc' = "closed"
    /\ UNCHANGED <<ask, provider, read, conn, reader>>

\* The context of a Go handler, and a streaming response of the adapter, are
\* cancelled when the other side is gone.  The adapter's other handlers run on.
Stop ==
    /\ conn = "cut" /\ pc # "closed"
    /\ Stream \/ ~Adapter
    /\ pc' = "closed"
    /\ UNCHANGED <<ask, provider, sent, read, conn, reader>>

Serve ==
    \/ Refuse \/ Prepare \/ Open
    \/ (\E c \in Chunks : Read(c)) \/ BodyEnds \/ ProviderFails \/ Abort
    \/ EmitUsage \/ EmitDone \/ Close
    \/ AnswerChat \/ RejectArguments \/ AnswerGenerate
    \/ Stop

-----------------------------------------------------------------------------
(* The gateway and the connection *)

Listening == reader \in {"waiting", "reading"}

\* PostSSE and PostJSON take the next item.
Receive ==
    /\ Listening /\ read < Len(sent)
    /\ read' = read + 1
    /\ reader' = IF sent[read'].type \in {"refusal", "answer", "eof"}
                 THEN "ended" ELSE "reading"
    /\ UNCHANGED <<ask, pc, provider, sent, conn>>

Leave ==
    /\ reader' = "broken"
    /\ conn' = "cut"
    /\ UNCHANGED <<ask, pc, provider, sent, read>>

\* Mutant of HeaderTimeout: a client without ResponseHeaderTimeout.
NoHeaderTimeout == FALSE /\ Leave

\* ResponseHeaderTimeout, which runs until the first item is there.
HeaderTimeout == reader = "waiting" /\ Leave

\* The gateway's own client hangs up, or a frame is too large or no JSON.
HangUp == Listening /\ Leave

\* Network failure, or the end of the process of the service.
Cut ==
    /\ Listening /\ conn = "up"
    /\ conn' = "cut"
    /\ UNCHANGED <<ask, pc, provider, sent, read, reader>>

\* A read from a connection that was cut fails, at once or after what had arrived.
ReadFails ==
    /\ Listening /\ conn = "cut"
    /\ Leave

\* The adapter's buffered mock of a script that hangs is left alone for ever.
Hung == Adapter /\ ~Stream /\ ask.source = "hang" /\ pc = "read"

Quiet ==
    /\ ~Listening
    /\ pc = "closed" \/ Hung
    /\ UNCHANGED vars

Next ==
    \/ Serve
    \/ Receive \/ HeaderTimeout \/ HangUp \/ Cut \/ ReadFails
    \/ Quiet

Spec == Init /\ [][Next]_vars

\* A handler runs on and its waits for a provider are bounded (litellm by 300 s, the
\* clients of llmproxy by 30 s or 120 s), except for the script that hangs.  The
\* gateway reads what has arrived and its timeout fires.
Fairness ==
    /\ WF_vars(Serve)
    /\ WF_vars(Receive) /\ WF_vars(HeaderTimeout) /\ WF_vars(ReadFails)

FairSpec == Spec /\ Fairness

-----------------------------------------------------------------------------
(* Properties *)

\* Every variable keeps its type.
TypeOK ==
    /\ ask \in Asks
    /\ pc \in {"accept", "read", "count", "finish", "close", "answer", "closed"}
    /\ first = <<>> \/ \E c \in Chunks : first = <<c>>
    /\ usage \in Tokens
    /\ chunks \in 0 .. MaxChunks
    /\ produced \in Seq(Parts)
    /\ sent \in Seq([type : Types, tokens : Tokens])
    /\ read \in 0 .. Len(sent)
    /\ conn \in {"up", "cut"}
    /\ reader \in {"waiting", "reading", "ended", "broken"}

Heard(type) == \E k \in 1 .. read : sent[k].type = type

\* A stream that is heard to be done was heard whole: every part the provider
\* yielded, the one read ahead included, arrived before, once and in order.
DoneIsWhole ==
    \A k \in 1 .. read : sent[k].type = "done" =>
        \A i \in DOMAIN produced : i + 1 < k /\ sent[i + 1].type = produced[i]

\* A failure that comes before anything else is an HTTP status, never a 200 with
\* an error in it: the adapter has a chunk, llmproxy a part, before it opens a
\* stream that may fail.
StatusBeforeStream ==
    Heard("error") => chunks > 0 /\ (~Adapter => produced # <<>>)

\* llmproxy reports no success for a run that was to call a tool and did not.
RequiredToolIsCalled ==
    /\ ask.tool /\ ask.source \in {"gemini", "ollama"}
    /\ Heard("done") \/ (ask.kind = "buffered" /\ Heard("answer"))
    => \E i \in DOMAIN produced : produced[i] = "tool_call_delta"

\* No frame and no generate of the adapter counts zero tokens, so that its streams
\* are billed what they cost or what was held; nor do gemini's streams.
UsageIsPositive ==
    \A k \in 1 .. read :
        \/ sent[k].type = "usage" /\ ask.source # "ollama"
        \/ sent[k].type = "answer" /\ ask.kind = "generate" /\ Adapter
        => sent[k].tokens > 0

\* The gateway's side of every call ends, except for the adapter's stream that was
\* answered 200 and hangs; and so does every handler, also when the gateway has
\* left, except for the adapter's script that hangs.
BothSidesEnd ==
    /\ Listening /\ ~(Adapter /\ Stream /\ ask.source = "hang") ~> ~Listening
    /\ ~(Adapter /\ ask.source = "hang") ~> pc = "closed"

\* docs/openapi/llmproxy.yaml: token counts are reported by the provider, or
\* estimated when it returns none.
UsageIsCounted ==
    \A k \in 1 .. read :
        sent[k].type = "usage" /\ produced # <<>> => sent[k].tokens > 0

-----------------------------------------------------------------------------
(* The contract *)

\* What the gateway has heard so far, in the terms of Exchange.tla.
Phase ==
    IF reader \in {"waiting", "broken"} THEN reader
    ELSE CASE sent[read].type = "refusal" -> "refused"
           [] sent[read].type = "answer"  -> "answered"
           [] sent[read].type = "usage"   -> "counted"
           [] sent[read].type = "done"    -> "finished"
           [] sent[read].type = "error"   -> "failed"
           [] sent[read].type = "eof"     -> "over"
           [] OTHER                       -> "open"

Output == \E k \in 1 .. read : sent[k].type \in Parts

Contract == INSTANCE Exchange WITH phase <- Phase, output <- Output

\* Whichever service and provider answer, and wherever the exchange is cut, the
\* gateway hears what it was written for.
KeepsContract == Contract!Spec

=============================================================================
