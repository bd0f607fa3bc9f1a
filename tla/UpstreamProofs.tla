--------------------------- MODULE UpstreamProofs ---------------------------
(***************************************************************************)
(* Theorems about Upstream.tla: types, what a finished stream has carried, *)
(* when a failure is a status, and that either service, with any provider  *)
(* and any cut of the connection, implements Exchange.tla.                 *)
(***************************************************************************)
EXTENDS Upstream, TLAPS

Items == [type : Types, tokens : Tokens]

-----------------------------------------------------------------------------
(* Sequences that grow *)

\* Append keeps what is there and adds one element at the end.
LEMMA Appended ==
    ASSUME NEW S, NEW s \in Seq(S), NEW x \in S
    PROVE  /\ Append(s, x) \in Seq(S)
           /\ Len(s) \in Nat
           /\ Len(Append(s, x)) = Len(s) + 1
           /\ \A k \in 1 .. Len(s) : Append(s, x)[k] = s[k]
           /\ Append(s, x)[Len(s) + 1] = x
           /\ Append(s, x) # <<>>
  OBVIOUS

\* Every item that is ever written is one.
LEMMA ItemType ==
    ASSUME NEW t \in Types, NEW n \in Tokens
    PROVE  /\ Item(t, n) \in Items
           /\ Item(t, n).type = t
           /\ Item(t, n).tokens = n
  BY DEF Item, Items

\* Writing keeps the type of what was sent, and opening is a header at most.
LEMMA WriteType ==
    ASSUME TypeOK, NEW t \in Types, NEW n \in Tokens
    PROVE  /\ Opened \in Seq(Items)
           /\ Opened # <<>>
           /\ Append(Opened, Item(t, n)) \in Seq(Items)
           /\ Append(sent, Item(t, n)) \in Seq(Items)
           /\ Emit(t, n) => sent' \in Seq(Items) /\ Len(sent) <= Len(sent')
           /\ Reply(t, n) => sent' \in Seq(Items) /\ Len(sent) <= Len(sent')
  <1>1. sent \in Seq(Items)
    BY DEF TypeOK, Items
  <1>2. "header" \in Types /\ 0 \in Tokens
    BY BoundsAssumption DEF Types
  <1>3. Item("header", 0) \in Items /\ Item(t, n) \in Items
    BY <1>2, ItemType
  <1>4. Opened \in Seq(Items) /\ Opened # <<>> /\ Len(sent) <= Len(Opened)
    BY <1>1, <1>3 DEF Opened
  <1>5. /\ Append(Opened, Item(t, n)) \in Seq(Items)
        /\ Len(Append(Opened, Item(t, n))) = Len(Opened) + 1
    BY <1>3, <1>4, Appended
  <1>6. /\ Append(sent, Item(t, n)) \in Seq(Items)
        /\ Len(Append(sent, Item(t, n))) = Len(sent) + 1
    BY <1>1, <1>3, Appended
  <1>7. Len(sent) \in Nat /\ Len(Opened) \in Nat
    BY <1>1, <1>4
  <1>8. ASSUME NEW items \in Seq(Items), Len(sent) <= Len(items), Write(items)
        PROVE  sent' \in Seq(Items) /\ Len(sent) <= Len(sent')
    BY <1>1, <1>7, <1>8 DEF Write
  <1>9. /\ Len(sent) <= Len(Append(Opened, Item(t, n)))
        /\ Len(sent) <= Len(Append(sent, Item(t, n)))
    BY <1>4, <1>5, <1>6, <1>7
  <1>10. Emit(t, n) => sent' \in Seq(Items) /\ Len(sent) <= Len(sent')
    BY <1>5, <1>8, <1>9 DEF Emit
  <1>11. Reply(t, n) => sent' \in Seq(Items) /\ Len(sent) <= Len(sent')
    BY <1>6, <1>8, <1>9 DEF Reply
  <1>. QED
    BY <1>4, <1>5, <1>6, <1>10, <1>11

-----------------------------------------------------------------------------
(* Types *)

\* A failure writes an item of the right type.
LEMMA FailureType ==
    ASSUME TypeOK, ReportFailure
    PROVE  /\ sent' \in Seq(Items) /\ Len(sent) <= Len(sent')
           /\ pc' \in {"close", "closed"}
  <1>1. {"error", "refusal"} \subseteq Types /\ 0 \in Tokens
    BY BoundsAssumption DEF Types
  <1>. QED
    BY <1>1, WriteType DEF ReportFailure

\* Every step keeps the types.
LEMMA TypeStep ==
    ASSUME TypeOK, [Next]_vars
    PROVE  TypeOK'
  <1>. USE BoundsAssumption
  <1>a. {"refusal", "answer", "header", "usage", "done", "error", "eof"} \subseteq Types
        /\ Parts \subseteq Types
    BY DEF Types
  <1>b. ASSUME sent' \in Seq(Items), Len(sent) <= Len(sent'), UNCHANGED read
        PROVE  /\ sent' \in Seq([type : Types, tokens : Tokens])
               /\ read' \in 0 .. Len(sent')
    <2>1. sent \in Seq(Items)
      BY DEF TypeOK, Items
    <2>2. Len(sent) \in Nat /\ Len(sent') \in Nat
      BY <2>1, <1>b
    <2>. QED
      BY <2>2, <1>b DEF TypeOK, Items
  <1>c. UNCHANGED sent => sent' \in Seq(Items) /\ Len(sent) <= Len(sent')
    <2>1. sent \in Seq(Items)
      BY DEF TypeOK, Items
    <2>2. Len(sent) \in Nat
      BY <2>1
    <2>. QED
      BY <2>1, <2>2
  <1>d. usage \in Tokens
    BY DEF TypeOK
  <1>1. CASE Refuse
    BY <1>1, <1>a, <1>b, WriteType DEF Refuse, TypeOK, provider
  <1>2. CASE Prepare
    <2>1. sent' \in Seq(Items) /\ Len(sent) <= Len(sent')
      BY <1>2, <1>a, WriteType DEF Prepare
    <2>2. /\ first' = <<>> \/ \E c \in Chunks : first' = <<c>>
          /\ usage' \in Tokens /\ chunks' \in 0 .. MaxChunks /\ produced' \in Seq(Parts)
      <3>1. CASE UNCHANGED provider
        BY <3>1 DEF provider, TypeOK
      <3>2. CASE /\ MaxChunks > 0
                 /\ \E c \in Chunks :
                      /\ first' = <<c>>
                      /\ produced' = IF c.part = "none" THEN <<>> ELSE <<c.part>>
                 /\ chunks' = 1 /\ UNCHANGED usage
        BY <3>2 DEF TypeOK, Chunks
      <3>. QED
        BY <1>2, <3>1, <3>2 DEF Prepare
    <2>. QED
      BY <1>2, <2>1, <2>2, <1>b DEF Prepare, TypeOK
  <1>3. CASE Open
    <2>1. sent' \in Seq(Items) /\ Len(sent) <= Len(sent')
      BY <1>3, <1>a, <1>c, WriteType DEF Open
    <2>. QED
      BY <1>3, <2>1, <1>b DEF Open, TypeOK, provider
  <1>4. ASSUME NEW c \in Chunks, Read(c)
        PROVE  TypeOK'
    <2>1. sent' \in Seq(Items) /\ Len(sent) <= Len(sent')
      <3>1. CASE UNCHANGED sent
        BY <3>1, <1>c
      <3>2. CASE c.part # "none" /\ Emit(c.part, 0)
        <4>1. c.part \in Types
          BY <3>2, <1>a DEF Chunks
        <4>. QED
          BY <3>2, <4>1, WriteType
      <3>. QED
        BY <1>4, <3>1, <3>2 DEF Read
    <2>2. usage' \in Tokens
      BY <1>4 DEF Read, Counted, TypeOK, Chunks
    <2>3. chunks' \in 0 .. MaxChunks /\ produced' \in Seq(Parts)
      <3>1. CASE UNCHANGED <<chunks, produced>>
        BY <3>1 DEF TypeOK
      <3>2. CASE /\ chunks < MaxChunks /\ chunks' = chunks + 1
                 /\ produced' = IF c.part = "none" THEN produced
                                ELSE Append(produced, c.part)
        <4>1. c.part = "none" \/ c.part \in Parts
          BY DEF Chunks
        <4>2. produced' \in Seq(Parts)
          BY <3>2, <4>1 DEF TypeOK
        <4>. QED
          BY <3>2, <4>2 DEF TypeOK
      <3>. QED
        BY <1>4, <3>1, <3>2 DEF Read
    <2>. QED
      BY <1>4, <2>1, <2>2, <2>3, <1>b DEF Read, TypeOK
  <1>5. CASE BodyEnds
    <2>1. /\ sent' \in Seq(Items) /\ Len(sent) <= Len(sent')
          /\ pc' \in {"close", "closed", "count", "answer"}
      BY <1>5, FailureType DEF BodyEnds, TypeOK, Items
    <2>. QED
      BY <1>5, <2>1, <1>b DEF BodyEnds, TypeOK, provider
  <1>6. CASE ProviderFails
    BY <1>6, FailureType, <1>b DEF ProviderFails, TypeOK, provider
  <1>7. CASE Abort
    BY <1>7 DEF Abort, TypeOK, provider
  <1>8. CASE EmitUsage
    <2>1. sent' \in Seq(Items) /\ Len(sent) <= Len(sent')
      BY <1>8, <1>a, <1>c, <1>d, WriteType DEF EmitUsage
    <2>. QED
      BY <1>8, <2>1, <1>b DEF EmitUsage, TypeOK, provider
  <1>9. CASE EmitDone
    BY <1>9, <1>a, <1>b, WriteType DEF EmitDone, TypeOK, provider
  <1>10. CASE Close
    BY <1>10, <1>a, <1>b, WriteType DEF Close, TypeOK, provider
  <1>11. CASE AnswerChat \/ RejectArguments
    <2>1. usage \in Tokens
      BY DEF TypeOK
    <2>2. sent' \in Seq(Items) /\ Len(sent) <= Len(sent')
      BY <1>11, <2>1, <1>a, WriteType DEF AnswerChat, RejectArguments
    <2>. QED
      BY <1>11, <2>2, <1>b DEF AnswerChat, RejectArguments, TypeOK, provider
  <1>12. CASE AnswerGenerate
    <2>1. PICK n \in Tokens : Reply("answer", n)
      BY <1>12 DEF AnswerGenerate, Reported, Estimates
    <2>2. sent' \in Seq(Items) /\ Len(sent) <= Len(sent')
      BY <2>1, <1>a, WriteType
    <2>. QED
      BY <1>12, <2>2, <1>b DEF AnswerGenerate, TypeOK, provider
  <1>13. CASE Stop
    BY <1>13 DEF Stop, TypeOK, provider
  <1>14. CASE Receive
    BY <1>14 DEF Receive, TypeOK, provider
  <1>15. CASE Leave
    BY <1>15 DEF Leave, TypeOK, provider
  <1>16. CASE Cut
    BY <1>16 DEF Cut, TypeOK, provider
  <1>17. CASE UNCHANGED vars
    BY <1>17 DEF vars, provider, TypeOK
  <1>. QED
    BY <1>1, <1>2, <1>3, <1>4, <1>5, <1>6, <1>7, <1>8, <1>9, <1>10, <1>11, <1>12, <1>13,
       <1>14, <1>15, <1>16, <1>17
    DEF Next, Serve, HeaderTimeout, HangUp, ReadFails, Quiet

\* Every variable keeps its type, for any calls, token counts and bound.
THEOREM TypeCorrect == Spec => []TypeOK
  <1>1. Init => TypeOK
    BY BoundsAssumption DEF Init, TypeOK
  <1>2. TypeOK /\ [Next]_vars => TypeOK'
    BY TypeStep
  <1>. QED
    BY <1>1, <1>2, PTL DEF Spec

-----------------------------------------------------------------------------
(* The inductive invariant *)

Body == {"header"} \cup Parts
Whole == {"refusal", "answer", "eof"}  \* the items after which nothing comes
Up == conn = "up"
Sent(type) == \E k \in 1 .. Len(sent) : sent[k].type = type
LastIn(types) == sent # <<>> /\ sent[Len(sent)].type \in types

\* Which item may come after which.
Follows(t, u) ==
    \/ t \in Body /\ u \in Parts \cup {"usage", "done", "error"}
    \/ t = "usage" /\ u = "done"
    \/ t \in {"done", "error"} /\ u = "eof"

OrderInv ==
    /\ sent # <<>> => sent[1].type \in {"header", "refusal", "answer"}
    /\ \A k \in 1 .. Len(sent) - 1 : Follows(sent[k].type, sent[k + 1].type)

\* What was written last, at every place of the handler; once the connection is
\* cut nothing is written any more.
PlaceInv ==
    /\ pc = "accept" => sent = <<>> /\ first = <<>> /\ produced = <<>> /\ chunks = 0
    /\ pc \in {"count", "finish"} => first = <<>>
    /\ pc \in {"count", "finish", "close"} => Stream
    /\ pc \in {"read", "count", "finish", "answer"} => ask.kind # "generate"
    /\ pc \in {"read", "answer"} /\ ~Stream => sent = <<>>
    /\ pc = "answer" => ~Stream
    /\ Up =>
        /\ pc \in {"read", "count"} /\ sent # <<>> => LastIn(Body)
        /\ pc = "finish" /\ sent # <<>> => LastIn(Body \cup {"usage"})
        /\ pc = "close" => LastIn({"done", "error"})

\* The parts that the provider yielded are the frames that follow the header.
PartsInv ==
    /\ Up /\ Stream /\ pc = "read" /\ first = <<>> =>
        Len(produced) = IF sent = <<>> THEN 0 ELSE Len(sent) - 1
    /\ Up /\ Stream /\ pc = "read" /\ first # <<>> =>
        /\ Len(sent) = 1
        /\ \A c \in Chunks : first = <<c>> =>
            produced = IF c.part = "none" THEN <<>> ELSE <<c.part>>
    /\ Up /\ Stream /\ pc \in {"read", "count", "finish"} /\ first = <<>> =>
        \A i \in 1 .. Len(produced) :
            i + 1 <= Len(sent) /\ sent[i + 1].type = produced[i]

\* The same once the stream is done.
DoneInv ==
    /\ Sent("done") => pc \in {"close", "closed"}
    /\ \A k \in 1 .. Len(sent) : sent[k].type = "done" =>
        \A i \in 1 .. Len(produced) : i + 1 < k /\ sent[i + 1].type = produced[i]

\* What the provider has yielded before a stream may fail.
StatusInv ==
    /\ produced # <<>> => chunks > 0
    /\ first # <<>> => Adapter
    /\ Stream /\ pc = "read" /\ ask.source = "litellm" => chunks > 0
    /\ ~Adapter /\ pc = "read" /\ sent # <<>> => produced # <<>>
    /\ Sent("error") => chunks > 0 /\ (~Adapter => produced # <<>>)

CallsTool == \E i \in 1 .. Len(produced) : produced[i] = "tool_call_delta"

ToolInv ==
    ask.tool /\ ask.source \in {"gemini", "ollama"} =>
        /\ pc \in {"count", "finish", "answer"} => CallsTool
        /\ Sent("done") => CallsTool
        /\ ask.kind = "buffered" /\ Sent("answer") => CallsTool

CountInv ==
    \A k \in 1 .. Len(sent) :
        \/ sent[k].type = "usage" /\ ask.source # "ollama"
        \/ sent[k].type = "answer" /\ ask.kind = "generate" /\ Adapter
        => sent[k].tokens > 0

\* What the gateway is doing follows from the last item that it read.
ReaderInv ==
    /\ reader = "waiting" => read = 0
    /\ reader = "reading" => read > 0 /\ sent[read].type \notin Whole
    /\ reader = "ended" => read > 0 /\ sent[read].type \in Whole

-----------------------------------------------------------------------------
(* What a write does *)

\* A frame goes to the end, after a header if it is the first; a cut connection
\* takes nothing.
LEMMA EmitFacts ==
    ASSUME TypeOK, NEW t \in Types, NEW n \in Tokens, Emit(t, n)
    PROVE  /\ Len(sent) \in Nat /\ Len(sent') \in Nat
           /\ ~Up => sent' = sent
           /\ Up => /\ sent' # <<>>
                    /\ Len(sent') = IF sent = <<>> THEN 2 ELSE Len(sent) + 1
                    /\ sent'[Len(sent')].type = t /\ sent'[Len(sent')].tokens = n
                    /\ sent = <<>> => sent'[1].type = "header"
           /\ \A k \in 1 .. Len(sent) : sent'[k] = sent[k]
  <1>1. sent \in Seq(Items)
    BY DEF TypeOK, Items
  <1>2. "header" \in Types /\ 0 \in Tokens
    BY BoundsAssumption DEF Types
  <1>3. /\ Item("header", 0) \in Items /\ Item("header", 0).type = "header"
        /\ Item(t, n) \in Items /\ Item(t, n).type = t /\ Item(t, n).tokens = n
    BY <1>2, ItemType
  <1>4. CASE ~Up
    BY <1>1, <1>4 DEF Emit, Write, Up
  <1>5. CASE Up /\ sent = <<>>
    <2>1. sent' = Append(<<Item("header", 0)>>, Item(t, n))
      BY <1>5 DEF Emit, Write, Up, Opened
    <2>2. /\ <<Item("header", 0)>> \in Seq(Items)
          /\ Len(<<Item("header", 0)>>) = 1
          /\ <<Item("header", 0)>>[1] = Item("header", 0)
      BY <1>3
    <2>3. /\ Len(sent') = 2 /\ sent' # <<>>
          /\ sent'[1] = Item("header", 0) /\ sent'[2] = Item(t, n)
      BY <2>1, <2>2, <1>3, Appended
    <2>. QED
      BY <1>1, <1>3, <1>5, <2>3
  <1>6. CASE Up /\ sent # <<>>
    <2>1. sent' = Append(sent, Item(t, n))
      BY <1>6 DEF Emit, Write, Up, Opened
    <2>. QED
      BY <1>1, <1>3, <1>6, <2>1, Appended
  <1>. QED
    BY <1>4, <1>5, <1>6

\* A status, an answer or the end of the body goes to the end as it is.
LEMMA ReplyFacts ==
    ASSUME TypeOK, NEW t \in Types, NEW n \in Tokens, Reply(t, n)
    PROVE  /\ Len(sent) \in Nat /\ Len(sent') \in Nat
           /\ ~Up => sent' = sent
           /\ Up => /\ sent' # <<>>
                    /\ Len(sent') = Len(sent) + 1
                    /\ sent'[Len(sent')].type = t /\ sent'[Len(sent')].tokens = n
           /\ \A k \in 1 .. Len(sent) : sent'[k] = sent[k]
  <1>1. sent \in Seq(Items)
    BY DEF TypeOK, Items
  <1>2. Item(t, n) \in Items /\ Item(t, n).type = t /\ Item(t, n).tokens = n
    BY ItemType
  <1>3. CASE ~Up
    BY <1>1, <1>3 DEF Reply, Write, Up
  <1>4. CASE Up
    <2>1. sent' = Append(sent, Item(t, n))
      BY <1>4 DEF Reply, Write, Up
    <2>. QED
      BY <1>1, <1>2, <1>4, <2>1, Appended
  <1>. QED
    BY <1>3, <1>4

\* The sequences of a state are what their types say.
LEMMA Lengths ==
    ASSUME TypeOK
    PROVE  /\ Len(sent) \in Nat /\ Len(produced) \in Nat
           /\ (sent = <<>>) = (Len(sent) = 0)
           /\ (produced = <<>>) = (Len(produced) = 0)
           /\ read \in Nat /\ read <= Len(sent)
           /\ \A i \in 1 .. Len(produced) : produced[i] \in Parts
           /\ DOMAIN produced = 1 .. Len(produced)
  <1>1. sent \in Seq([type : Types, tokens : Tokens]) /\ produced \in Seq(Parts)
    BY DEF TypeOK
  <1>2. read \in 0 .. Len(sent)
    BY DEF TypeOK
  <1>. QED
    BY <1>1, <1>2

\* The names of the items and the count 0 are in the types that the lemmas ask for.
LEMMA Names ==
    /\ {"refusal", "answer", "header", "usage", "done", "error", "eof"} \subseteq Types
    /\ Parts \subseteq Types
    /\ 0 \in Tokens
  BY BoundsAssumption DEF Types

-----------------------------------------------------------------------------
(* The order of the items *)

\* A frame may follow what was written last, or open the stream.
LEMMA OrderEmit ==
    ASSUME TypeOK, OrderInv, NEW t \in Parts \cup {"usage", "done", "error"},
           NEW n \in Tokens, Emit(t, n),
           Up /\ sent # <<>> => Follows(sent[Len(sent)].type, t)
    PROVE  OrderInv'
  <1>1. t \in Types
    BY Names
  <1>2. /\ Len(sent) \in Nat /\ Len(sent') \in Nat
        /\ ~Up => sent' = sent
        /\ Up => /\ sent' # <<>>
                 /\ Len(sent') = IF sent = <<>> THEN 2 ELSE Len(sent) + 1
                 /\ sent'[Len(sent')].type = t
                 /\ sent = <<>> => sent'[1].type = "header"
        /\ \A k \in 1 .. Len(sent) : sent'[k] = sent[k]
    BY <1>1, EmitFacts
  <1>3. (sent = <<>>) = (Len(sent) = 0)
    BY Lengths
  <1>4. CASE ~Up
    BY <1>2, <1>4 DEF OrderInv
  <1>5. CASE Up /\ sent = <<>>
    <2>1. Follows("header", t)
      BY DEF Follows, Body
    <2>2. /\ Len(sent') = 2 /\ sent' # <<>>
          /\ sent'[1].type = "header" /\ sent'[2].type = t
      BY <1>2, <1>5
    <2>3. ASSUME NEW k \in 1 .. Len(sent') - 1
          PROVE  Follows(sent'[k].type, sent'[k + 1].type)
      <3>1. k = 1 /\ k + 1 = 2
        BY <2>2
      <3>. QED
        BY <2>1, <2>2, <3>1
    <2>. QED
      BY <2>2, <2>3 DEF OrderInv
  <1>6. CASE Up /\ sent # <<>>
    <2>1. Len(sent') = Len(sent) + 1 /\ Len(sent) >= 1
      BY <1>2, <1>3, <1>6
    <2>2. sent'[1] = sent[1] /\ sent'[Len(sent)] = sent[Len(sent)]
      BY <1>2, <2>1
    <2>3. ASSUME NEW k \in 1 .. Len(sent') - 1
          PROVE  Follows(sent'[k].type, sent'[k + 1].type)
      <3>1. CASE k = Len(sent)
        BY <1>2, <1>6, <2>1, <2>2, <3>1
      <3>2. CASE k # Len(sent)
        <4>1. k \in 1 .. Len(sent) - 1 /\ k \in 1 .. Len(sent) /\ k + 1 \in 1 .. Len(sent)
          BY <1>2, <2>1, <3>2
        <4>. QED
          BY <1>2, <4>1 DEF OrderInv
      <3>. QED
        BY <3>1, <3>2
    <2>. QED
      BY <1>6, <2>2, <2>3 DEF OrderInv
  <1>. QED
    BY <1>4, <1>5, <1>6

\* So may the items that are written as they are.
LEMMA OrderReply ==
    ASSUME TypeOK, OrderInv, NEW t \in Types, NEW n \in Tokens, Reply(t, n),
           Up => IF sent = <<>> THEN t \in {"header", "refusal", "answer"}
                 ELSE Follows(sent[Len(sent)].type, t)
    PROVE  OrderInv'
  <1>2. /\ Len(sent) \in Nat /\ Len(sent') \in Nat
        /\ ~Up => sent' = sent
        /\ Up => /\ sent' # <<>>
                 /\ Len(sent') = Len(sent) + 1
                 /\ sent'[Len(sent')].type = t
        /\ \A k \in 1 .. Len(sent) : sent'[k] = sent[k]
    BY ReplyFacts
  <1>3. (sent = <<>>) = (Len(sent) = 0)
    BY Lengths
  <1>4. CASE ~Up
    BY <1>2, <1>4 DEF OrderInv
  <1>5. CASE Up /\ sent = <<>>
    <2>0. t \in {"header", "refusal", "answer"}
      BY <1>5
    <2>1. Len(sent') = 1 /\ sent'[1].type = t /\ t \in {"header", "refusal", "answer"}
      <3>1. Len(sent) = 0
        BY <1>3, <1>5
      <3>2. Len(sent') = Len(sent) + 1 /\ sent'[Len(sent')].type = t
        BY <1>2, <1>5
      <3>3. Len(sent') = 1
        BY <3>1, <3>2
      <3>. QED
        BY <2>0, <3>2, <3>3
    <2>2. 1 .. Len(sent') - 1 = {}
      BY <2>1
    <2>. QED
      BY <2>1, <2>2 DEF OrderInv
  <1>6. CASE Up /\ sent # <<>>
    <2>1. Len(sent') = Len(sent) + 1 /\ Len(sent) >= 1
      BY <1>2, <1>3, <1>6
    <2>2. sent'[1] = sent[1] /\ sent'[Len(sent)] = sent[Len(sent)]
      BY <1>2, <2>1
    <2>3. ASSUME NEW k \in 1 .. Len(sent') - 1
          PROVE  Follows(sent'[k].type, sent'[k + 1].type)
      <3>1. CASE k = Len(sent)
        BY <1>2, <1>6, <2>1, <2>2, <3>1
      <3>2. CASE k # Len(sent)
        <4>1. k \in 1 .. Len(sent) - 1 /\ k \in 1 .. Len(sent) /\ k + 1 \in 1 .. Len(sent)
          BY <1>2, <2>1, <3>2
        <4>. QED
          BY <1>2, <4>1 DEF OrderInv
      <3>. QED
        BY <3>1, <3>2
    <2>. QED
      BY <1>6, <2>2, <2>3 DEF OrderInv
  <1>. QED
    BY <1>4, <1>5, <1>6

\* What a failure does to the sequence, and where it leaves the handler.
LEMMA OrderFailure ==
    ASSUME TypeOK, OrderInv, PlaceInv, pc = "read", ReportFailure
    PROVE  OrderInv'
  <1>1. CASE Stream /\ sent # <<>>
    <2>1. Emit("error", 0)
      BY <1>1 DEF ReportFailure
    <2>2. Up => sent[Len(sent)].type \in Body
      BY <1>1 DEF PlaceInv, LastIn
    <2>3. Up => Follows(sent[Len(sent)].type, "error")
      BY <2>2 DEF Follows
    <2>. QED
      BY <2>1, <2>3, OrderEmit, Names
  <1>2. CASE ~(Stream /\ sent # <<>>)
    <2>1. Reply("refusal", 0) /\ sent = <<>>
      BY <1>2 DEF ReportFailure, PlaceInv
    <2>. QED
      BY <2>1, OrderReply, Names
  <1>. QED
    BY <1>1, <1>2

\* Every step keeps the order of the items.
LEMMA OrderStep ==
    ASSUME TypeOK, OrderInv, PlaceInv, [Next]_vars
    PROVE  OrderInv'
  <1>0. usage \in Tokens
    BY DEF TypeOK
  <1>a. UNCHANGED sent => OrderInv'
    BY DEF OrderInv
  <1>1. CASE Refuse
    BY <1>1, OrderReply, Names DEF Refuse, PlaceInv
  <1>2. CASE Prepare
    BY <1>2, OrderReply, Names DEF Prepare, PlaceInv
  <1>3. CASE Open
    BY <1>3, <1>a, OrderReply, Names DEF Open, PlaceInv
  <1>4. ASSUME NEW c \in Chunks, Read(c)
        PROVE  OrderInv'
    <2>1. CASE UNCHANGED sent
      BY <2>1, <1>a
    <2>2. CASE c.part # "none" /\ Emit(c.part, 0)
      <3>1. c.part \in Parts
        BY <2>2 DEF Chunks
      <3>2. Up /\ sent # <<>> => sent[Len(sent)].type \in Body
        BY <1>4 DEF Read, PlaceInv, LastIn
      <3>3. Up /\ sent # <<>> => Follows(sent[Len(sent)].type, c.part)
        BY <3>1, <3>2 DEF Follows
      <3>. QED
        BY <2>2, <3>1, <3>3, OrderEmit, Names
    <2>. QED
      BY <1>4, <2>1, <2>2 DEF Read
  <1>5. CASE BodyEnds
    BY <1>5, <1>a, OrderFailure DEF BodyEnds
  <1>6. CASE ProviderFails
    BY <1>6, OrderFailure DEF ProviderFails
  <1>7. CASE EmitUsage
    <2>1. CASE UNCHANGED sent
      BY <2>1, <1>a
    <2>2. CASE Emit("usage", usage)
      <3>1. Up /\ sent # <<>> => sent[Len(sent)].type \in Body
        BY <1>7 DEF EmitUsage, PlaceInv, LastIn
      <3>2. Up /\ sent # <<>> => Follows(sent[Len(sent)].type, "usage")
        BY <3>1 DEF Follows
      <3>. QED
        BY <2>2, <3>2, <1>0, OrderEmit
    <2>. QED
      BY <1>7, <2>1, <2>2 DEF EmitUsage
  <1>8. CASE EmitDone
    <2>1. Up /\ sent # <<>> => sent[Len(sent)].type \in Body \cup {"usage"}
      BY <1>8 DEF EmitDone, PlaceInv, LastIn
    <2>2. Up /\ sent # <<>> => Follows(sent[Len(sent)].type, "done")
      BY <2>1 DEF Follows
    <2>. QED
      BY <1>8, <2>2, OrderEmit, Names DEF EmitDone
  <1>9. CASE Close
    <2>1. Up => sent # <<>> /\ sent[Len(sent)].type \in {"done", "error"}
      BY <1>9 DEF Close, PlaceInv, LastIn
    <2>2. Up => Follows(sent[Len(sent)].type, "eof")
      BY <2>1 DEF Follows
    <2>. QED
      BY <1>9, <2>1, <2>2, OrderReply, Names DEF Close
  <1>10. CASE AnswerChat \/ RejectArguments
    <2>1. sent = <<>>
      BY <1>10 DEF AnswerChat, RejectArguments, PlaceInv
    <2>. QED
      BY <1>10, <2>1, <1>0, OrderReply, Names DEF AnswerChat, RejectArguments
  <1>11. CASE AnswerGenerate
    <2>1. PICK n \in Tokens : Reply("answer", n)
      BY <1>11 DEF AnswerGenerate, Reported, Estimates
    <2>. QED
      BY <1>11, <2>1, OrderReply, Names DEF AnswerGenerate, PlaceInv
  <1>12. CASE Abort \/ Stop \/ Receive \/ Leave \/ Cut \/ UNCHANGED vars
    BY <1>12, <1>a DEF Abort, Stop, Receive, Leave, Cut, vars
  <1>. QED
    BY <1>1, <1>2, <1>3, <1>4, <1>5, <1>6, <1>7, <1>8, <1>9, <1>10, <1>11, <1>12
    DEF Next, Serve, HeaderTimeout, HangUp, ReadFails, Quiet

-----------------------------------------------------------------------------
(* The places of the handler *)

\* What was written last, after a frame or a reply.
LEMMA LastEmitted ==
    ASSUME TypeOK, NEW t \in Types, NEW n \in Tokens, Emit(t, n) \/ Reply(t, n)
    PROVE  Up => LastIn({t})'
  BY EmitFacts, ReplyFacts DEF LastIn

\* A failure leaves the handler at a place that fits.
LEMMA PlaceFailure ==
    ASSUME TypeOK, PlaceInv, pc = "read", ReportFailure,
           UNCHANGED <<ask, provider, conn>>
    PROVE  PlaceInv'
  <1>1. CASE Stream /\ sent # <<>>
    <2>1. Emit("error", 0) /\ pc' = "close" /\ Stream'
      BY <1>1 DEF ReportFailure, Stream
    <2>2. Up' => LastIn({"error"})'
      BY <2>1, LastEmitted, Names DEF Up
    <2>. QED
      BY <2>1, <2>2 DEF PlaceInv, LastIn
  <1>2. CASE ~(Stream /\ sent # <<>>)
    BY <1>2 DEF ReportFailure, PlaceInv
  <1>. QED
    BY <1>1, <1>2

\* Every step leaves the handler at a place that fits what it has written.
LEMMA PlaceStep ==
    ASSUME TypeOK, PlaceInv, [Next]_vars
    PROVE  PlaceInv'
  <1>0. usage \in Tokens
    BY DEF TypeOK
  <1>1. CASE Refuse \/ Abort \/ Close \/ AnswerChat \/ RejectArguments \/ AnswerGenerate \/ Stop
    BY <1>1 DEF Refuse, Abort, Close, AnswerChat, RejectArguments, AnswerGenerate, Stop, PlaceInv
  <1>2. CASE Prepare
    <2>1. /\ pc' \in {"read", "count"} /\ Stream' /\ ask'.kind # "generate"
          /\ pc' = "count" => first' = <<>>
      BY <1>2 DEF Prepare, PlaceInv, Stream, provider
    <2>2. Up' => LastIn({"header"})'
      BY <1>2, LastEmitted, Names DEF Prepare, Up
    <2>3. Up' => LastIn(Body)'
      BY <2>2 DEF LastIn, Body
    <2>. QED
      BY <2>1, <2>3 DEF PlaceInv, Stream
  <1>3. CASE Open
    <2>1. /\ pc' = "read" /\ ask'.kind # "generate" /\ UNCHANGED <<ask, conn>>
          /\ sent = <<>>
          /\ ~Stream => UNCHANGED sent
      BY <1>3 DEF Open, PlaceInv
    <2>2. sent' # <<>> => Reply("header", 0)
      BY <1>3, <2>1 DEF Open
    <2>3. Up' /\ sent' # <<>> => LastIn({"header"})'
      BY <2>1, <2>2, LastEmitted, Names DEF Up
    <2>4. Up' /\ sent' # <<>> => LastIn(Body)'
      BY <2>3 DEF LastIn, Body
    <2>. QED
      BY <2>1, <2>4 DEF PlaceInv, Stream
  <1>4. ASSUME NEW c \in Chunks, Read(c)
        PROVE  PlaceInv'
    <2>1. pc = "read" /\ pc' = "read" /\ UNCHANGED <<ask, conn>>
      BY <1>4 DEF Read
    <2>2. CASE UNCHANGED sent
      BY <2>1, <2>2 DEF PlaceInv, Up, Stream, LastIn
    <2>3. CASE Stream /\ c.part # "none" /\ Emit(c.part, 0)
      <3>1. c.part \in Parts
        BY <2>3 DEF Chunks
      <3>2. Up' => LastIn({c.part})'
        BY <2>1, <2>3, <3>1, LastEmitted, Names DEF Up
      <3>3. Up' => LastIn(Body)'
        BY <3>1, <3>2 DEF LastIn, Body
      <3>. QED
        BY <2>1, <2>3, <3>3 DEF PlaceInv, Stream
    <2>. QED
      BY <1>4, <2>2, <2>3 DEF Read
  <1>5. CASE BodyEnds
    <2>1. CASE ReportFailure
      BY <1>5, <2>1, PlaceFailure DEF BodyEnds
    <2>2. CASE pc' = (IF Stream THEN "count" ELSE "answer") /\ UNCHANGED sent
      BY <1>5, <2>2 DEF BodyEnds, PlaceInv, Up, Stream, LastIn, provider
    <2>. QED
      BY <1>5, <2>1, <2>2 DEF BodyEnds
  <1>6. CASE ProviderFails
    BY <1>6, PlaceFailure DEF ProviderFails
  <1>7. CASE EmitUsage
    <2>1. /\ pc = "count" /\ pc' = "finish" /\ UNCHANGED <<ask, provider, conn>>
          /\ Stream /\ Stream' /\ first' = <<>> /\ ask'.kind # "generate"
      BY <1>7 DEF EmitUsage, PlaceInv, Stream, provider
    <2>2. CASE UNCHANGED sent
      BY <2>1, <2>2 DEF PlaceInv, Up, Stream, LastIn
    <2>3. CASE Emit("usage", usage)
      <3>1. Up' => LastIn({"usage"})'
        BY <2>1, <2>3, <1>0, LastEmitted, Names DEF Up
      <3>. QED
        BY <2>1, <3>1 DEF PlaceInv, LastIn, Stream
    <2>. QED
      BY <1>7, <2>2, <2>3 DEF EmitUsage
  <1>8. CASE EmitDone
    <2>1. pc' = "close" /\ Stream'
      BY <1>8 DEF EmitDone, PlaceInv, Stream
    <2>2. Up' => LastIn({"done"})'
      BY <1>8, LastEmitted, Names DEF EmitDone, Up
    <2>. QED
      BY <2>1, <2>2 DEF PlaceInv, LastIn
  <1>9. CASE Receive \/ Leave \/ Cut \/ UNCHANGED vars
    BY <1>9 DEF Receive, Leave, Cut, vars, provider, PlaceInv, Up, Stream, LastIn
  <1>. QED
    BY <1>1, <1>2, <1>3, <1>4, <1>5, <1>6, <1>7, <1>8, <1>9
    DEF Next, Serve, HeaderTimeout, HangUp, ReadFails, Quiet

-----------------------------------------------------------------------------
(* What is written stays *)

\* Every item after a write was there before, or is the new one, or is the header
\* that opened the stream.
LEMMA Written ==
    ASSUME TypeOK, NEW t \in Types, NEW n \in Tokens, Emit(t, n) \/ Reply(t, n)
    PROVE  \A k \in 1 .. Len(sent') :
              \/ k \in 1 .. Len(sent) /\ sent'[k] = sent[k]
              \/ Up /\ k = Len(sent') /\ k > Len(sent)
                 /\ sent'[k].type = t /\ sent'[k].tokens = n
              \/ sent'[k].type = "header"
  <1>1. CASE Emit(t, n)
    <2>1. /\ Len(sent) \in Nat /\ Len(sent') \in Nat
          /\ ~Up => sent' = sent
          /\ Up => /\ Len(sent') = IF sent = <<>> THEN 2 ELSE Len(sent) + 1
                   /\ sent'[Len(sent')].type = t /\ sent'[Len(sent')].tokens = n
                   /\ sent = <<>> => sent'[1].type = "header"
          /\ \A k \in 1 .. Len(sent) : sent'[k] = sent[k]
      BY <1>1, EmitFacts
    <2>2. (sent = <<>>) = (Len(sent) = 0)
      BY Lengths
    <2>. QED
      BY <2>1, <2>2
  <1>2. CASE Reply(t, n)
    <2>1. /\ Len(sent) \in Nat /\ Len(sent') \in Nat
          /\ ~Up => sent' = sent
          /\ Up => /\ Len(sent') = Len(sent) + 1
                   /\ sent'[Len(sent')].type = t /\ sent'[Len(sent')].tokens = n
          /\ \A k \in 1 .. Len(sent) : sent'[k] = sent[k]
      BY <1>2, ReplyFacts
    <2>. QED
      BY <2>1
  <1>. QED
    BY <1>1, <1>2

\* A write takes nothing back.
LEMMA Grown ==
    ASSUME TypeOK, NEW t \in Types, NEW n \in Tokens, Emit(t, n) \/ Reply(t, n)
    PROVE  /\ Len(sent') \in Nat /\ Len(sent) <= Len(sent')
           /\ \A k \in 1 .. Len(sent) : sent'[k] = sent[k]
  <1>1. Len(sent) \in Nat /\ Len(sent') \in Nat /\ Len(sent) <= Len(sent')
    <2>1. Len(sent) <= Len(sent')
      BY WriteType
    <2>2. Len(sent) \in Nat /\ Len(sent') \in Nat
      BY EmitFacts, ReplyFacts
    <2>. QED
      BY <2>1, <2>2
  <1>2. \A k \in 1 .. Len(sent) : sent'[k] = sent[k]
    BY EmitFacts, ReplyFacts
  <1>. QED
    BY <1>1, <1>2

\* Every step of the service writes one item, or none.
LEMMA ServeWrites ==
    ASSUME TypeOK, Serve
    PROVE  \/ UNCHANGED sent
           \/ \E t \in Types, n \in Tokens : Emit(t, n) \/ Reply(t, n)
  <1>0. usage \in Tokens
    BY DEF TypeOK
  <1>1. ReportFailure => \E t \in Types, n \in Tokens : Emit(t, n) \/ Reply(t, n)
    BY Names DEF ReportFailure
  <1>2. ASSUME NEW c \in Chunks, Read(c)
        PROVE  UNCHANGED sent \/ \E t \in Types, n \in Tokens : Emit(t, n)
    <2>1. CASE UNCHANGED sent
      BY <2>1
    <2>2. CASE c.part # "none" /\ Emit(c.part, 0)
      BY <2>2, Names DEF Chunks
    <2>. QED
      BY <1>2, <2>1, <2>2 DEF Read
  <1>3. CASE Refuse \/ Prepare \/ Open
    BY <1>3, Names DEF Refuse, Prepare, Open
  <1>4. CASE BodyEnds \/ ProviderFails \/ Abort \/ Stop
    BY <1>1, <1>4 DEF BodyEnds, ProviderFails, Abort, Stop
  <1>5. CASE EmitUsage \/ EmitDone \/ Close
    BY <1>0, <1>5, Names DEF EmitUsage, EmitDone, Close
  <1>6. CASE AnswerChat \/ RejectArguments
    BY <1>0, <1>6, Names DEF AnswerChat, RejectArguments
  <1>7. CASE AnswerGenerate
    <2>1. PICK n \in Tokens : Reply("answer", n)
      BY <1>7 DEF AnswerGenerate, Reported, Estimates
    <2>. QED
      BY <2>1, Names
  <1>. QED
    BY <1>2, <1>3, <1>4, <1>5, <1>6, <1>7 DEF Serve

\* No step takes back what was written.
LEMMA SentGrows ==
    ASSUME TypeOK, [Next]_vars
    PROVE  \A k \in 1 .. Len(sent) : k \in 1 .. Len(sent') /\ sent'[k] = sent[k]
  <1>0. Len(sent) \in Nat
    BY Lengths
  <1>1. CASE UNCHANGED sent
    BY <1>1
  <1>2. CASE Serve
    <2>1. ASSUME NEW t \in Types, NEW n \in Tokens, Emit(t, n) \/ Reply(t, n)
          PROVE  \A k \in 1 .. Len(sent) : k \in 1 .. Len(sent') /\ sent'[k] = sent[k]
      BY <1>0, <2>1, Grown
    <2>. QED
      BY <1>1, <1>2, <2>1, ServeWrites
  <1>. QED
    BY <1>1, <1>2
    DEF Next, Receive, Leave, HeaderTimeout, HangUp, Cut, ReadFails, Quiet, vars

-----------------------------------------------------------------------------
(* The gateway's reader *)

\* The gateway's state fits the item that it read last.
LEMMA ReaderStep ==
    ASSUME TypeOK, ReaderInv, [Next]_vars
    PROVE  ReaderInv'
  <1>1. read \in Nat /\ read <= Len(sent) /\ Len(sent) \in Nat
    BY Lengths
  <1>2. CASE Receive
    BY <1>1, <1>2 DEF Receive, ReaderInv, Whole
  <1>3. CASE Leave
    BY <1>3 DEF Leave, ReaderInv
  <1>4. CASE UNCHANGED <<read, reader>>
    <2>1. read > 0 => sent'[read] = sent[read]
      BY <1>1, SentGrows
    <2>. QED
      BY <1>4, <2>1 DEF ReaderInv
  <1>5. Serve \/ Cut => UNCHANGED <<read, reader>>
    BY DEF Serve, Refuse, Prepare, Open, Read, BodyEnds, ProviderFails, Abort, EmitUsage,
           EmitDone, Close, AnswerChat, RejectArguments, AnswerGenerate, Stop, Cut
  <1>. QED
    BY <1>2, <1>3, <1>4, <1>5
    DEF Next, HeaderTimeout, HangUp, ReadFails, Quiet, vars

\* The next item that the gateway reads may follow the one that it read last.
LEMMA NextItem ==
    ASSUME TypeOK, OrderInv, Receive
    PROVE  /\ read = 0 => sent[1].type \in {"header", "refusal", "answer"}
           /\ read > 0 => Follows(sent[read].type, sent[read + 1].type)
  <1>1. read \in Nat /\ Len(sent) \in Nat /\ read < Len(sent)
        /\ (sent = <<>>) = (Len(sent) = 0)
    BY Lengths DEF Receive
  <1>. QED
    BY <1>1 DEF OrderInv
-----------------------------------------------------------------------------
(* The contract *)

\* The first item and every later one is a step that the contract allows.
LEMMA ReceiveKeeps ==
    ASSUME TypeOK, OrderInv, ReaderInv, Receive
    PROVE  [Contract!Next]_<<Phase, Output>>
  <1>1. /\ read \in Nat /\ read' = read + 1
        /\ UNCHANGED sent
        /\ reader' = IF sent[read + 1].type \in Whole THEN "ended" ELSE "reading"
    BY Lengths DEF Receive, Whole
  <1>2. Output' = (Output \/ sent[read + 1].type \in Parts)
    <2>1. 1 .. read' = (1 .. read) \cup {read + 1}
      BY <1>1
    <2>2. Output' = \E k \in 1 .. read' : sent[k].type \in Parts
      BY <1>1 DEF Output
    <2>. QED
      BY <2>1, <2>2, Zenon DEF Output
  <1>3. CASE read = 0
    <2>1. sent[1].type \in {"header", "refusal", "answer"}
      BY <1>3, NextItem
    <2>2. reader = "waiting"
      BY <1>3 DEF ReaderInv, Receive, Listening
    <2>3. Phase = "waiting"
      BY <2>2 DEF Phase
    <2>4. Output' = Output
      <3>1. sent[read + 1].type \notin Parts
        BY <1>3, <2>1 DEF Parts
      <3>2. Output \in BOOLEAN
        BY DEF Output
      <3>. QED
        BY <1>2, <3>1, <3>2
    <2>5. CASE sent[1].type = "header"
      <3>1. Phase' = "open"
        BY <1>1, <1>3, <2>5 DEF Phase, Whole
      <3>. QED
        BY <2>3, <2>4, <3>1 DEF Contract!Next, Contract!Opens
    <2>6. CASE sent[1].type = "refusal"
      <3>1. Phase' = "refused"
        BY <1>1, <1>3, <2>6 DEF Phase, Whole
      <3>. QED
        BY <2>3, <2>4, <3>1 DEF Contract!Next, Contract!Refused
    <2>7. CASE sent[1].type = "answer"
      <3>1. Phase' = "answered"
        BY <1>1, <1>3, <2>7 DEF Phase, Whole
      <3>. QED
        BY <2>3, <2>4, <3>1 DEF Contract!Next, Contract!Answered
    <2>. QED
      BY <2>1, <2>5, <2>6, <2>7
  <1>4. CASE read > 0
    <2>1. Follows(sent[read].type, sent[read + 1].type)
      BY <1>4, NextItem
    <2>2. reader = "reading"
      BY <1>4 DEF ReaderInv, Receive, Listening
    <2>3. CASE sent[read].type \in Body
      <3>1. Phase = "open"
        BY <2>2, <2>3 DEF Phase, Body, Parts
      <3>2. CASE sent[read + 1].type \in Parts
        <4>1. Phase' = "open" /\ Output'
          BY <1>1, <1>2, <3>2 DEF Phase, Whole, Parts
        <4>. QED
          BY <3>1, <4>1 DEF Contract!Next, Contract!Delta
      <3>3. CASE sent[read + 1].type = "usage"
        <4>1. Phase' = "counted" /\ Output' = Output
          BY <1>1, <1>2, <3>3 DEF Phase, Whole, Parts, Output
        <4>. QED
          BY <3>1, <4>1 DEF Contract!Next, Contract!Counts
      <3>4. CASE sent[read + 1].type = "done"
        <4>1. Phase' = "finished" /\ Output' = Output
          BY <1>1, <1>2, <3>4 DEF Phase, Whole, Parts, Output
        <4>. QED
          BY <3>1, <4>1 DEF Contract!Next, Contract!Finishes
      <3>5. CASE sent[read + 1].type = "error"
        <4>1. Phase' = "failed" /\ Output' = Output
          BY <1>1, <1>2, <3>5 DEF Phase, Whole, Parts, Output
        <4>. QED
          BY <3>1, <4>1 DEF Contract!Next, Contract!Fails
      <3>. QED
        BY <2>1, <2>3, <3>2, <3>3, <3>4, <3>5 DEF Follows, Body, Parts
    <2>4. CASE sent[read].type = "usage" /\ sent[read + 1].type = "done"
      <3>1. Phase = "counted" /\ Phase' = "finished"
        BY <1>1, <2>2, <2>4 DEF Phase, Whole
      <3>2. Output' = Output
        BY <1>2, <2>4 DEF Parts, Output
      <3>. QED
        BY <3>1, <3>2 DEF Contract!Next, Contract!Finishes
    <2>5. CASE sent[read].type \in {"done", "error"} /\ sent[read + 1].type = "eof"
      <3>1. Phase \in {"finished", "failed"} /\ Phase' = "over"
        BY <1>1, <2>2, <2>5 DEF Phase, Whole
      <3>2. Output' = Output
        BY <1>2, <2>5 DEF Parts, Output
      <3>. QED
        BY <3>1, <3>2 DEF Contract!Next, Contract!Ends
    <2>. QED
      BY <2>1, <2>3, <2>4, <2>5 DEF Follows
  <1>. QED
    BY <1>1, <1>3, <1>4

\* A gateway that leaves has heard nothing final.
LEMMA LeaveKeeps ==
    ASSUME TypeOK, ReaderInv, Listening, Leave
    PROVE  [Contract!Next]_<<Phase, Output>>
  <1>1. Phase' = "broken"
    BY DEF Leave, Phase
  <1>2. Output' = Output
    BY DEF Leave, Output
  <1>3. Phase \notin {"refused", "answered", "over", "broken"}
    BY DEF Listening, ReaderInv, Phase, Whole
  <1>. QED
    BY <1>1, <1>2, <1>3 DEF Contract!Next, Contract!Breaks, Contract!Final

\* Nothing else is heard.
LEMMA OthersAreUnheard ==
    ASSUME TypeOK, ReaderInv, [Next]_vars, UNCHANGED <<read, reader>>
    PROVE  UNCHANGED <<Phase, Output>>
  <1>1. read \in Nat /\ read <= Len(sent) /\ Len(sent) \in Nat
    BY Lengths
  <1>2. \A k \in 1 .. read : sent'[k] = sent[k]
    BY <1>1, SentGrows
  <1>3. reader \in {"waiting", "broken"} \/ read > 0
    BY DEF TypeOK, ReaderInv
  <1>4. Phase' = Phase
    <2>1. CASE reader \in {"waiting", "broken"}
      BY <2>1 DEF Phase
    <2>2. CASE read > 0
      <3>1. sent'[read] = sent[read]
        BY <1>1, <1>2, <2>2
      <3>. QED
        BY <3>1 DEF Phase
    <2>. QED
      BY <1>3, <2>1, <2>2
  <1>5. Output' = Output
    BY <1>2 DEF Output
  <1>. QED
    BY <1>4, <1>5

\* Whichever service, provider and cut: a call implements the contract that the
\* gateway is written against.
THEOREM Refines == Spec => KeepsContract
  <1>. DEFINE Inv == TypeOK /\ OrderInv /\ PlaceInv /\ ReaderInv
  <1>1. Init => OrderInv /\ PlaceInv /\ ReaderInv
    BY DEF Init, OrderInv, PlaceInv, ReaderInv
  <1>2. TypeOK /\ OrderInv /\ PlaceInv /\ ReaderInv /\ [Next]_vars
        => (OrderInv /\ PlaceInv /\ ReaderInv)'
    BY OrderStep, PlaceStep, ReaderStep
  <1>3. Init => Contract!Init
    BY DEF Init, Contract!Init, Phase, Output
  <1>4. TypeOK /\ OrderInv /\ ReaderInv /\ [Next]_vars
        => [Contract!Next]_<<Phase, Output>>
    <2>. SUFFICES ASSUME TypeOK, OrderInv, ReaderInv, [Next]_vars
                  PROVE  [Contract!Next]_<<Phase, Output>>
      OBVIOUS
    <2>1. CASE Receive
      BY <2>1, ReceiveKeeps
    <2>2. CASE Listening /\ Leave
      BY <2>2, LeaveKeeps
    <2>3. CASE UNCHANGED <<read, reader>>
      BY <2>3, OthersAreUnheard
    <2>4. Serve \/ Cut => UNCHANGED <<read, reader>>
      BY DEF Serve, Refuse, Prepare, Open, Read, BodyEnds, ProviderFails, Abort, EmitUsage,
             EmitDone, Close, AnswerChat, RejectArguments, AnswerGenerate, Stop, Cut
    <2>5. HeaderTimeout \/ HangUp \/ ReadFails => Listening /\ Leave
      BY DEF HeaderTimeout, HangUp, ReadFails, Listening
    <2>. QED
      BY <2>1, <2>2, <2>3, <2>4, <2>5 DEF Next, Quiet, vars
  <1>5. Spec => []TypeOK
    BY TypeCorrect
  <1>. QED
    BY <1>1, <1>2, <1>3, <1>4, <1>5, PTL DEF Spec, KeepsContract, Contract!Spec

-----------------------------------------------------------------------------
(* What a finished stream has carried *)

\* A step that only writes, while the handler does not read, keeps the parts.
LEMMA PartsKept ==
    ASSUME TypeOK, PartsInv, [Next]_vars, pc' # "read",
           UNCHANGED <<ask, provider>>, Up' => Up,
           pc' \in {"count", "finish"} =>
               /\ pc \in {"read", "count", "finish"}
               /\ first = <<>>
    PROVE  PartsInv'
  <1>1. \A k \in 1 .. Len(sent) : k \in 1 .. Len(sent') /\ sent'[k] = sent[k]
    BY SentGrows
  <1>2. Len(sent) \in Nat /\ Len(sent') \in Nat /\ Len(sent) <= Len(sent')
    <2>1. Len(sent) \in Nat /\ Len(sent') \in Nat
      <3>1. TypeOK'
        BY TypeStep
      <3>. QED
        BY <3>1 DEF TypeOK
    <2>2. Len(sent) > 0 => Len(sent) \in 1 .. Len(sent')
      BY <1>1, <2>1
    <2>. QED
      BY <2>1, <2>2
  <1>3. CASE Up' /\ Stream' /\ pc' \in {"count", "finish"} /\ first' = <<>>
    <2>1. ASSUME NEW i \in 1 .. Len(produced')
          PROVE  i + 1 <= Len(sent') /\ sent'[i + 1].type = produced'[i]
      <3>1. Up /\ Stream /\ pc \in {"read", "count", "finish"} /\ first = <<>>
            /\ produced' = produced
        BY <1>3 DEF Stream, provider
      <3>2. i + 1 <= Len(sent) /\ sent[i + 1].type = produced[i]
        BY <3>1 DEF PartsInv
      <3>3. i \in Nat /\ i + 1 \in 1 .. Len(sent)
        BY <1>2, <3>2
      <3>. QED
        BY <1>1, <1>2, <3>1, <3>2, <3>3
    <2>. QED
      BY <2>1 DEF PartsInv
  <1>4. CASE ~(Up' /\ Stream' /\ pc' \in {"count", "finish"} /\ first' = <<>>)
    BY <1>4 DEF PartsInv
  <1>. QED
    BY <1>3, <1>4

\* One turn of the loop over the chunks puts a part after those before it.
LEMMA PartsRead ==
    ASSUME TypeOK, PartsInv, NEW c \in Chunks, Read(c)
    PROVE  PartsInv'
  <1>1. /\ pc = "read" /\ pc' = "read" /\ first' = <<>>
        /\ UNCHANGED <<ask, conn>> /\ Stream' = Stream
        /\ first = <<c>> => produced' = produced
        /\ first # <<c>> => /\ first = <<>>
                            /\ produced' = IF c.part = "none" THEN produced
                                           ELSE Append(produced, c.part)
    <2>1. <<c>> # <<>>
      OBVIOUS
    <2>2. pc = "read" /\ pc' = "read" /\ first' = <<>> /\ UNCHANGED <<ask, conn>>
      BY DEF Read
    <2>3. \/ first = <<c>> /\ produced' = produced
          \/ first = <<>> /\ produced' = IF c.part = "none" THEN produced
                                         ELSE Append(produced, c.part)
      BY DEF Read
    <2>4. Stream' = Stream
      BY <2>2 DEF Stream
    <2>. QED
      BY <2>1, <2>2, <2>3, <2>4
  <1>2. /\ Len(sent) \in Nat /\ Len(produced) \in Nat
        /\ (sent = <<>>) = (Len(sent) = 0)
        /\ produced \in Seq(Parts)
    BY Lengths DEF TypeOK
  <1>3. CASE ~(Up /\ Stream)
    BY <1>1, <1>3 DEF PartsInv, Up
  <1>4. CASE Up /\ Stream /\ first = <<c>>
    <2>1. /\ Len(sent) = 1
          /\ produced = IF c.part = "none" THEN <<>> ELSE <<c.part>>
      BY <1>1, <1>4 DEF PartsInv
    <2>2. CASE c.part = "none"
      <3>1. sent' = sent
        BY <2>2 DEF Read
      <3>. QED
        BY <1>1, <1>4, <2>1, <2>2, <3>1 DEF PartsInv
    <2>3. CASE c.part # "none"
      <3>1. c.part \in Types /\ Emit(c.part, 0)
        BY <1>4, <2>3, Names DEF Read, Chunks
      <3>2. Len(sent') = 2 /\ sent'[2].type = c.part
        BY <1>2, <1>4, <2>1, <3>1, EmitFacts, Names
      <3>3. produced' = <<c.part>> /\ Len(produced') = 1 /\ produced'[1] = c.part
        BY <1>1, <1>4, <2>1, <2>3
      <3>4. sent' # <<>>
        BY <3>2
      <3>5. \A i \in 1 .. Len(produced') : i = 1
        BY <3>3
      <3>. QED
        BY <1>1, <3>2, <3>3, <3>4, <3>5 DEF PartsInv
    <2>. QED
      BY <2>2, <2>3
  <1>5. CASE Up /\ Stream /\ first # <<c>>
    <2>1. /\ Len(produced) = IF sent = <<>> THEN 0 ELSE Len(sent) - 1
          /\ \A i \in 1 .. Len(produced) :
                i + 1 <= Len(sent) /\ sent[i + 1].type = produced[i]
      BY <1>1, <1>5 DEF PartsInv
    <2>2. CASE c.part = "none"
      <3>1. sent' = sent /\ produced' = produced
        BY <1>1, <1>5, <2>2 DEF Read
      <3>. QED
        BY <1>1, <2>1, <3>1 DEF PartsInv
    <2>3. CASE c.part # "none"
      <3>1. c.part \in Parts /\ c.part \in Types /\ Emit(c.part, 0)
        BY <1>5, <2>3, Names DEF Read, Chunks
      <3>2. produced' = Append(produced, c.part)
        BY <1>1, <1>5, <2>3
      <3>3. /\ Len(produced') = Len(produced) + 1
            /\ produced'[Len(produced) + 1] = c.part
            /\ \A i \in 1 .. Len(produced) : produced'[i] = produced[i]
        BY <1>2, <3>1, <3>2, Appended
      <3>4. /\ Len(sent') = IF sent = <<>> THEN 2 ELSE Len(sent) + 1
            /\ sent'[Len(sent')].type = c.part
            /\ sent' # <<>>
            /\ \A k \in 1 .. Len(sent) : sent'[k] = sent[k]
        BY <1>5, <3>1, EmitFacts, Names
      <3>5. Len(sent') = Len(produced') + 1
        BY <1>2, <2>1, <3>3, <3>4
      <3>6. ASSUME NEW i \in 1 .. Len(produced')
            PROVE  i + 1 <= Len(sent') /\ sent'[i + 1].type = produced'[i]
        <4>1. CASE i = Len(produced')
          BY <3>3, <3>4, <3>5, <4>1
        <4>2. CASE i # Len(produced')
          <5>1. i \in 1 .. Len(produced)
            BY <1>2, <3>3, <4>2
          <5>2. i + 1 <= Len(sent) /\ i + 1 \in 1 .. Len(sent)
            BY <1>2, <2>1, <5>1
          <5>. QED
            BY <1>2, <2>1, <3>3, <3>4, <3>5, <5>1, <5>2
        <4>. QED
          BY <4>1, <4>2
      <3>7. Len(produced') = Len(sent') - 1
        BY <1>2, <3>3, <3>5
      <3>. QED
        BY <1>1, <3>4, <3>6, <3>7 DEF PartsInv
    <2>. QED
      BY <2>2, <2>3
  <1>. QED
    BY <1>3, <1>4, <1>5

\* The parts that were yielded are the frames that were sent, at every step.
LEMMA PartsStep ==
    ASSUME TypeOK, PlaceInv, PartsInv, [Next]_vars
    PROVE  PartsInv'
  <1>1. CASE Prepare
    <2>1. /\ sent = <<>> /\ first = <<>> /\ produced = <<>> /\ UNCHANGED conn
      BY <1>1 DEF Prepare, PlaceInv
    <2>2. Up => Len(sent') = 1
      BY <1>1, <2>1, Names, ReplyFacts DEF Prepare
    <2>3. CASE pc' = "count"
      BY <1>1, <2>1, <2>3 DEF Prepare, PartsInv, provider
    <2>4. CASE pc' = "read"
      <3>1. PICK c \in Chunks :
              /\ first' = <<c>>
              /\ produced' = IF c.part = "none" THEN <<>> ELSE <<c.part>>
        BY <1>1, <2>4 DEF Prepare
      <3>2. first' # <<>> /\ \A d \in Chunks : first' = <<d>> => d = c
        BY <3>1
      <3>. QED
        BY <2>1, <2>2, <2>4, <3>1, <3>2 DEF PartsInv, Up
    <2>. QED
      BY <1>1, <2>3, <2>4 DEF Prepare
  <1>2. CASE Open
    <2>1. /\ sent = <<>> /\ first' = <<>> /\ produced' = <<>> /\ UNCHANGED conn
          /\ pc' = "read"
      BY <1>2 DEF Open, PlaceInv, provider
    <2>2. Up => sent' = <<>> \/ Len(sent') = 1
      BY <1>2, <2>1, Names, ReplyFacts DEF Open
    <2>. QED
      BY <2>1, <2>2 DEF PartsInv, Up
  <1>3. ASSUME NEW c \in Chunks, Read(c)
        PROVE  PartsInv'
    BY <1>3, PartsRead
  <1>4. CASE Refuse \/ AnswerChat \/ RejectArguments \/ AnswerGenerate \/ Abort \/ Stop \/ Close
    BY <1>4 DEF Refuse, AnswerChat, RejectArguments, AnswerGenerate, Abort, Stop, Close, PartsInv
  <1>5. CASE BodyEnds
    <2>1. /\ pc = "read" /\ pc' # "read" /\ first = <<>>
          /\ UNCHANGED <<ask, provider, conn>>
      BY <1>5 DEF BodyEnds, ReportFailure
    <2>. QED
      BY <2>1, PartsKept DEF Up
  <1>6. CASE ProviderFails
    BY <1>6 DEF ProviderFails, ReportFailure, PartsInv
  <1>7. CASE EmitUsage
    <2>1. /\ pc = "count" /\ pc' = "finish" /\ first = <<>>
          /\ UNCHANGED <<ask, provider, conn>>
      BY <1>7 DEF EmitUsage, PlaceInv
    <2>. QED
      BY <2>1, PartsKept DEF Up
  <1>8. CASE EmitDone
    BY <1>8 DEF EmitDone, PartsInv
  <1>9. CASE Receive \/ UNCHANGED vars
    BY <1>9 DEF Receive, vars, provider, PartsInv, Up, Stream
  <1>10. CASE Leave \/ Cut
    BY <1>10 DEF Leave, Cut, PartsInv, Up
  <1>. QED
    BY <1>1, <1>2, <1>3, <1>4, <1>5, <1>6, <1>7, <1>8, <1>9, <1>10
    DEF Next, Serve, HeaderTimeout, HangUp, ReadFails, Quiet

\* A step that writes no done frame, and yields no part once there is one, keeps
\* what the done frame says.
LEMMA DoneKept ==
    ASSUME TypeOK, DoneInv, NEW t \in Types \ {"done", "header"}, NEW n \in Tokens,
           UNCHANGED sent \/ Emit(t, n) \/ Reply(t, n) \/ Reply("header", 0),
           \/ ~Sent("done")
           \/ produced' = produced /\ pc' \in {"close", "closed"}
    PROVE  DoneInv'
  <1>0. Len(sent) \in Nat /\ Len(produced) \in Nat
    BY Lengths
  <1>1. /\ Len(sent') \in Nat /\ Len(sent) <= Len(sent')
        /\ \A k \in 1 .. Len(sent) : sent'[k] = sent[k]
    BY <1>0, Grown, Names
  <1>2. ASSUME NEW k \in 1 .. Len(sent'), sent'[k].type = "done"
        PROVE  k \in 1 .. Len(sent) /\ sent'[k] = sent[k]
    <2>1. CASE UNCHANGED sent
      BY <1>2, <2>1
    <2>2. CASE Emit(t, n) \/ Reply(t, n)
      BY <1>2, <2>2, Written
    <2>3. CASE Reply("header", 0)
      BY <1>2, <2>3, Written, Names
    <2>. QED
      BY <2>1, <2>2, <2>3
  <1>3. CASE ~Sent("done")
    BY <1>2, <1>3 DEF DoneInv, Sent
  <1>4. CASE produced' = produced /\ pc' \in {"close", "closed"}
    <2>1. ASSUME NEW k \in 1 .. Len(sent'), sent'[k].type = "done",
                 NEW i \in 1 .. Len(produced')
          PROVE  i + 1 < k /\ sent'[i + 1].type = produced'[i]
      <3>1. k \in 1 .. Len(sent) /\ sent[k].type = "done"
        BY <1>2, <2>1
      <3>2. i + 1 < k /\ sent[i + 1].type = produced[i]
        BY <1>4, <3>1 DEF DoneInv
      <3>3. i + 1 \in 1 .. Len(sent)
        BY <1>0, <1>4, <3>1, <3>2
      <3>. QED
        BY <1>1, <1>4, <3>2, <3>3
    <2>. QED
      BY <1>4, <2>1 DEF DoneInv
  <1>. QED
    BY <1>3, <1>4

\* A done frame comes after every part that was yielded, at every step.
LEMMA DoneStep ==
    ASSUME TypeOK, PlaceInv, PartsInv, DoneInv, [Next]_vars
    PROVE  DoneInv'
  <1>0. usage \in Tokens /\ Len(sent) \in Nat /\ Len(produced) \in Nat
        /\ (sent = <<>>) = (Len(sent) = 0)
    BY Lengths DEF TypeOK
  <1>a. pc \notin {"close", "closed"} => ~Sent("done")
    BY DEF DoneInv
  <1>b. {"refusal", "error", "usage", "eof", "answer"} \subseteq Types \ {"done", "header"}
    BY DEF Types
  <1>c. Parts \subseteq Types \ {"done", "header"}
    BY DEF Types, Parts
  <1>d. UNCHANGED <<sent, produced>> /\ (pc' = pc \/ pc' = "closed") => DoneInv'
    BY DEF DoneInv, Sent
  <1>1. CASE Refuse \/ Prepare \/ Open
    <2>1. pc = "accept"
      BY <1>1 DEF Refuse, Prepare, Open
    <2>. QED
      BY <1>1, <1>a, <1>b, <2>1, DoneKept, Names DEF Refuse, Prepare, Open
  <1>2. ASSUME NEW c \in Chunks, Read(c)
        PROVE  DoneInv'
    <2>1. pc = "read"
      BY <1>2 DEF Read
    <2>2. CASE UNCHANGED sent
      BY <1>a, <1>b, <2>1, <2>2, DoneKept, Names
    <2>3. CASE c.part # "none" /\ Emit(c.part, 0)
      BY <1>a, <1>c, <2>1, <2>3, DoneKept, Names DEF Chunks
    <2>. QED
      BY <1>2, <2>2, <2>3 DEF Read
  <1>3. CASE BodyEnds \/ ProviderFails
    <2>1. pc = "read"
      BY <1>3 DEF BodyEnds, ProviderFails
    <2>2. UNCHANGED sent \/ Emit("error", 0) \/ Reply("refusal", 0)
      BY <1>3 DEF BodyEnds, ProviderFails, ReportFailure
    <2>. QED
      BY <1>a, <1>b, <2>1, <2>2, DoneKept, Names
  <1>4. CASE EmitUsage
    <2>1. pc = "count" /\ (UNCHANGED sent \/ Emit("usage", usage))
      BY <1>4 DEF EmitUsage
    <2>. QED
      BY <1>0, <1>a, <1>b, <2>1, DoneKept
  <1>5. CASE EmitDone
    <2>1. /\ pc = "finish" /\ pc' = "close" /\ produced' = produced /\ Emit("done", 0)
          /\ Stream /\ first = <<>>
      BY <1>5 DEF EmitDone, PlaceInv, provider
    <2>2. ASSUME NEW k \in 1 .. Len(sent'), sent'[k].type = "done",
                 NEW i \in 1 .. Len(produced')
          PROVE  i + 1 < k /\ sent'[i + 1].type = produced'[i]
      <3>1. ~ \E j \in 1 .. Len(sent) : sent[j].type = "done"
        BY <1>a, <2>1 DEF Sent
      <3>2. Up /\ k > Len(sent)
        BY <2>1, <2>2, <3>1, Written, Names
      <3>3. i + 1 <= Len(sent) /\ sent[i + 1].type = produced[i]
        BY <2>1, <3>2 DEF PartsInv
      <3>4. i + 1 \in 1 .. Len(sent)
        BY <1>0, <2>1, <3>3
      <3>5. sent'[i + 1] = sent[i + 1]
        BY <2>1, <3>4, Grown, Names
      <3>. QED
        BY <1>0, <2>1, <3>2, <3>3, <3>4, <3>5
    <2>. QED
      BY <2>1, <2>2 DEF DoneInv
  <1>6. CASE Close \/ AnswerChat \/ RejectArguments
    <2>1. /\ pc' = "closed" /\ produced' = produced
          /\ Reply("eof", 0) \/ Reply("answer", usage) \/ Reply("refusal", 0)
      BY <1>6 DEF Close, AnswerChat, RejectArguments, provider
    <2>. QED
      BY <1>0, <1>b, <2>1, DoneKept, Names
  <1>7. CASE AnswerGenerate
    <2>1. PICK n \in Tokens : Reply("answer", n)
      BY <1>7 DEF AnswerGenerate, Reported, Estimates
    <2>2. pc' = "closed" /\ produced' = produced
      BY <1>7 DEF AnswerGenerate, provider
    <2>. QED
      BY <1>b, <2>1, <2>2, DoneKept
  <1>8. CASE Abort \/ Stop \/ Receive \/ Leave \/ Cut \/ UNCHANGED vars
    <2>1. UNCHANGED <<sent, produced>> /\ (pc' = pc \/ pc' = "closed")
      BY <1>8 DEF Abort, Stop, Receive, Leave, Cut, vars, provider
    <2>. QED
      BY <1>d, <2>1
  <1>. QED
    BY <1>1, <1>2, <1>3, <1>4, <1>5, <1>6, <1>7, <1>8
    DEF Next, Serve, HeaderTimeout, HangUp, ReadFails, Quiet

\* A stream that is heard to be done was heard whole.
THEOREM FinishedStreamsAreWhole == Spec => []DoneIsWhole
  <1>1. Init => PlaceInv /\ PartsInv /\ DoneInv
    BY DEF Init, PlaceInv, PartsInv, DoneInv, Sent
  <1>2. TypeOK /\ PlaceInv /\ PartsInv /\ DoneInv /\ [Next]_vars
        => (PlaceInv /\ PartsInv /\ DoneInv)'
    BY PlaceStep, PartsStep, DoneStep
  <1>3. TypeOK /\ DoneInv => DoneIsWhole
    <2>. SUFFICES ASSUME TypeOK, DoneInv, NEW k \in 1 .. read, sent[k].type = "done",
                         NEW i \in DOMAIN produced
                  PROVE  i + 1 < k /\ sent[i + 1].type = produced[i]
      BY DEF DoneIsWhole
    <2>1. k \in 1 .. Len(sent) /\ i \in 1 .. Len(produced)
      BY Lengths
    <2>. QED
      BY <2>1 DEF DoneInv
  <1>4. Spec => []TypeOK
    BY TypeCorrect
  <1>. QED
    BY <1>1, <1>2, <1>3, <1>4, PTL DEF Spec

-----------------------------------------------------------------------------
(* Which items a step may add *)

\* A write adds no item of another type than its own, but for the header.
LEMMA SentOnly ==
    ASSUME TypeOK, NEW t \in Types, NEW n \in Tokens,
           UNCHANGED sent \/ Emit(t, n) \/ Reply(t, n),
           NEW u, u # t, u # "header", Sent(u)'
    PROVE  Sent(u)
  BY Written DEF Sent

\* Where the items that the properties are about come from.
LEMMA Sources ==
    ASSUME TypeOK, [Next]_vars
    PROVE  /\ Sent("error")' => \/ Sent("error")
                                \/ /\ (BodyEnds /\ ToolMissing) \/ ProviderFails
                                   /\ Stream /\ sent # <<>>
           /\ Sent("done")' => Sent("done") \/ EmitDone
           /\ Sent("answer")' => Sent("answer") \/ AnswerChat \/ AnswerGenerate
  <1>0. usage \in Tokens
    BY DEF TypeOK
  <1>1. CASE UNCHANGED sent
    BY <1>1 DEF Sent
  <1>2. CASE Refuse \/ Prepare \/ Open \/ Close
    BY <1>2, SentOnly, Names DEF Refuse, Prepare, Open, Close
  <1>3. ASSUME NEW c \in Chunks, Read(c), ~UNCHANGED sent
        PROVE  /\ Sent("error")' => Sent("error")
               /\ Sent("done")' => Sent("done")
               /\ Sent("answer")' => Sent("answer")
    <2>1. c.part \in Parts /\ Emit(c.part, 0)
      BY <1>3 DEF Read, Chunks
    <2>2. c.part \notin {"error", "done", "answer"}
      BY <2>1 DEF Parts
    <2>. QED
      BY <2>1, <2>2, SentOnly, Names
  <1>4. CASE BodyEnds \/ ProviderFails
    <2>1. \/ UNCHANGED sent \/ Reply("refusal", 0)
          \/ /\ Emit("error", 0)
             /\ (BodyEnds /\ ToolMissing) \/ ProviderFails
             /\ Stream /\ sent # <<>>
      BY <1>4 DEF BodyEnds, ProviderFails, ReportFailure
    <2>. QED
      BY <1>4, <2>1, SentOnly, Names
  <1>5. CASE EmitUsage
    BY <1>0, <1>5, SentOnly, Names DEF EmitUsage
  <1>6. CASE EmitDone
    BY <1>6, SentOnly, Names DEF EmitDone
  <1>7. CASE AnswerChat \/ RejectArguments
    BY <1>0, <1>7, SentOnly, Names DEF AnswerChat, RejectArguments
  <1>8. CASE AnswerGenerate
    <2>1. PICK n \in Tokens : Reply("answer", n)
      BY <1>8 DEF AnswerGenerate, Reported, Estimates
    <2>. QED
      BY <1>8, <2>1, SentOnly, Names
  <1>9. Abort \/ Stop \/ Receive \/ Leave \/ Cut \/ UNCHANGED vars => UNCHANGED sent
    BY DEF Abort, Stop, Receive, Leave, Cut, vars
  <1>. QED
    BY <1>1, <1>2, <1>3, <1>4, <1>5, <1>6, <1>7, <1>8, <1>9
    DEF Next, Serve, HeaderTimeout, HangUp, ReadFails, Quiet

\* What was produced stays produced.
LEMMA ProducedGrows ==
    ASSUME TypeOK, PlaceInv, [Next]_vars
    PROVE  /\ ask' = ask
           /\ \/ UNCHANGED <<chunks, produced>>
              \/ /\ Prepare /\ pc = "accept" /\ chunks' = 1 /\ produced = <<>>
              \/ /\ pc = "read" /\ pc' = "read" /\ chunks' = chunks + 1
                 /\ \/ produced' = produced
                    \/ \E p \in Parts : produced' = Append(produced, p)
  <1>1. CASE Prepare
    BY <1>1 DEF Prepare, PlaceInv, provider
  <1>2. ASSUME NEW c \in Chunks, Read(c)
        PROVE  /\ ask' = ask
               /\ \/ UNCHANGED <<chunks, produced>>
                  \/ /\ pc = "read" /\ pc' = "read" /\ chunks' = chunks + 1
                     /\ \/ produced' = produced
                        \/ \E p \in Parts : produced' = Append(produced, p)
    <2>1. c.part = "none" \/ c.part \in Parts
      BY DEF Chunks
    <2>. QED
      BY <1>2, <2>1 DEF Read
  <1>3. CASE Refuse \/ Open \/ BodyEnds \/ ProviderFails \/ Abort \/ EmitUsage \/ EmitDone
             \/ Close \/ AnswerChat \/ RejectArguments \/ AnswerGenerate \/ Stop
    BY <1>3 DEF Refuse, Open, BodyEnds, ProviderFails, Abort, EmitUsage, EmitDone, Close,
               AnswerChat, RejectArguments, AnswerGenerate, Stop, provider
  <1>4. CASE Receive \/ Leave \/ Cut \/ UNCHANGED vars
    BY <1>4 DEF Receive, Leave, Cut, vars, provider
  <1>. QED
    BY <1>1, <1>2, <1>3, <1>4
    DEF Next, Serve, HeaderTimeout, HangUp, ReadFails, Quiet

-----------------------------------------------------------------------------
(* Failures and required tools *)

\* Before a stream may fail, something was yielded.
LEMMA StatusStep ==
    ASSUME TypeOK, PlaceInv, StatusInv, [Next]_vars
    PROVE  StatusInv'
  <1>0. /\ chunks \in Nat /\ produced \in Seq(Parts) /\ ask \in Asks
    BY BoundsAssumption DEF TypeOK
  <1>1. /\ ask' = ask
        /\ chunks > 0 => chunks' > 0
        /\ produced # <<>> => produced' # <<>>
        /\ produced' # <<>> => chunks' > 0
    <2>1. \A p \in Parts : Append(produced, p) # <<>>
      BY <1>0, Appended
    <2>. QED
      BY <1>0, <2>1, ProducedGrows DEF StatusInv
  <1>2. Stream' = Stream /\ Adapter' = Adapter
    BY <1>1 DEF Stream, Adapter
  <1>3. ASSUME Stream', pc' = "read", ask'.source = "litellm"
        PROVE  chunks' > 0
    <2>1. Stream /\ ask.source = "litellm"
      BY <1>1, <1>2, <1>3
    <2>2. Adapter
      BY <1>0, <2>1, AsksAssumption DEF SourcesOf, Adapter
    <2>3. ~Open
      BY <2>1, <2>2 DEF Open
    <2>4. CASE pc = "read"
      BY <1>1, <2>1, <2>4 DEF StatusInv
    <2>5. CASE pc # "read"
      <3>1. Prepare
        BY <1>3, <2>3, <2>5
        DEF Next, Serve, Refuse, Read, BodyEnds, ReportFailure, ProviderFails, Abort, EmitUsage,
            EmitDone, Close, AnswerChat, RejectArguments, AnswerGenerate,
            Stop, Receive, HeaderTimeout, HangUp,
            Cut, ReadFails, Leave, Quiet, vars
      <3>. QED
        BY <1>3, <3>1 DEF Prepare
    <2>. QED
      BY <2>4, <2>5
  <1>4. ASSUME ~Adapter', pc' = "read", sent' # <<>>
        PROVE  produced' # <<>>
    <2>1. ~Adapter
      BY <1>2, <1>4
    <2>2. CASE Open
      BY <1>4, <2>1, <2>2 DEF Open, PlaceInv
    <2>3. ASSUME NEW c \in Chunks, Read(c)
          PROVE  produced' # <<>>
      <3>1. CASE UNCHANGED sent
        BY <1>1, <1>4, <2>1, <2>3, <3>1 DEF Read, StatusInv
      <3>2. CASE c.part # "none"
        <4>1. first # <<c>>
          BY <2>1 DEF StatusInv
        <4>2. produced' = Append(produced, c.part)
          BY <2>3, <3>2, <4>1 DEF Read
        <4>3. c.part \in Parts
          BY <3>2 DEF Chunks
        <4>. QED
          BY <1>0, <4>2, <4>3, Appended
      <3>. QED
        BY <2>3, <3>1, <3>2 DEF Read
    <2>4. CASE pc = "read" /\ UNCHANGED sent
      BY <1>1, <1>4, <2>1, <2>4 DEF StatusInv
    <2>. QED
      BY <1>4, <2>1, <2>2, <2>3, <2>4
      DEF Next, Serve, Refuse, Prepare, BodyEnds, ReportFailure, ProviderFails, Abort,
          EmitUsage, EmitDone, Close, AnswerChat, RejectArguments, AnswerGenerate,
          Stop, Receive, HeaderTimeout,
          HangUp, Cut, ReadFails, Leave, Quiet, vars
  <1>5. first' # <<>> => Adapter'
    <2>1. UNCHANGED first \/ first' = <<>> \/ Prepare
      BY DEF Next, Serve, Refuse, Open, Read, BodyEnds, ProviderFails, Abort, EmitUsage,
             EmitDone, Close, AnswerChat, RejectArguments, AnswerGenerate,
             Stop, Receive, HeaderTimeout, HangUp,
             Cut, ReadFails, Leave, Quiet, vars, provider
    <2>. QED
      BY <1>2, <2>1 DEF StatusInv, Prepare
  <1>6. ASSUME Sent("error")'
        PROVE  chunks' > 0 /\ (~Adapter' => produced' # <<>>)
    <2>1. CASE Sent("error")
      BY <1>1, <1>2, <2>1 DEF StatusInv
    <2>2. CASE ((BodyEnds /\ ToolMissing) \/ ProviderFails) /\ Stream /\ sent # <<>>
      <3>1. pc = "read" /\ ask.source # "hang"
        BY <2>2 DEF BodyEnds, ProviderFails
      <3>2. CASE ~Adapter
        BY <1>1, <1>2, <2>2, <3>1, <3>2 DEF StatusInv
      <3>3. CASE Adapter
        <4>1. ask.source \in {"litellm", "script"}
          BY <1>0, <3>1, <3>3, AsksAssumption DEF SourcesOf, Adapter
        <4>2. ~ToolMissing
          BY <4>1 DEF ToolMissing
        <4>. QED
          BY <1>1, <1>2, <2>2, <3>1, <3>3, <4>1, <4>2 DEF ProviderFails, StatusInv
      <3>. QED
        BY <3>2, <3>3
    <2>. QED
      BY <1>6, <2>1, <2>2, Sources
  <1>. QED
    BY <1>1, <1>3, <1>4, <1>5, <1>6 DEF StatusInv

\* A failure that comes before anything else is a status.
THEOREM EarlyFailuresAreStatuses == Spec => []StatusBeforeStream
  <1>1. Init => PlaceInv /\ StatusInv
    BY DEF Init, PlaceInv, StatusInv, Sent
  <1>2. TypeOK /\ PlaceInv /\ StatusInv /\ [Next]_vars => (PlaceInv /\ StatusInv)'
    BY PlaceStep, StatusStep
  <1>3. TypeOK /\ StatusInv => StatusBeforeStream
    BY Lengths DEF StatusInv, Sent, StatusBeforeStream, Heard
  <1>4. Spec => []TypeOK
    BY TypeCorrect
  <1>. QED
    BY <1>1, <1>2, <1>3, <1>4, PTL DEF Spec

\* A run that is to call a tool gets past its last chunk only if it did.
LEMMA ToolStep ==
    ASSUME TypeOK, PlaceInv, ToolInv, [Next]_vars
    PROVE  ToolInv'
  <1>0. produced \in Seq(Parts) /\ DOMAIN produced = 1 .. Len(produced)
    BY Lengths DEF TypeOK
  <1>1. CallsTool => CallsTool'
    <2>1. ASSUME NEW p \in Parts, produced' = Append(produced, p), CallsTool
          PROVE  CallsTool'
      BY <1>0, <2>1, Appended DEF CallsTool
    <2>2. produced = <<>> => ~CallsTool
      BY DEF CallsTool
    <2>. QED
      BY <2>1, <2>2, ProducedGrows DEF CallsTool
  <1>. SUFFICES ASSUME ask.tool, ask.source \in {"gemini", "ollama"}, ask' = ask
                PROVE  /\ pc' \in {"count", "finish", "answer"} => CallsTool'
                       /\ Sent("done")' => CallsTool'
                       /\ ask'.kind = "buffered" /\ Sent("answer")' => CallsTool'
    BY ProducedGrows DEF ToolInv
  <1>2. ASSUME pc' \in {"count", "finish", "answer"}
        PROVE  CallsTool'
    <2>1. CASE pc \in {"count", "finish", "answer"}
      BY <1>1, <2>1 DEF ToolInv
    <2>2. CASE BodyEnds
      <3>1. ~ToolMissing
        BY <1>2, <2>2 DEF BodyEnds, ReportFailure
      <3>. QED
        BY <1>0, <1>1, <3>1 DEF ToolMissing, CallsTool
    <2>. QED
      BY <1>2, <2>1, <2>2
      DEF Next, Serve, Refuse, Prepare, Open, Read, ProviderFails, ReportFailure, Abort,
          EmitUsage, EmitDone, Close, AnswerChat, RejectArguments, AnswerGenerate,
          Stop, Receive, HeaderTimeout,
          HangUp, Cut, ReadFails, Leave, Quiet, vars
  <1>3. Sent("done")' => CallsTool'
    BY <1>1, Sources DEF ToolInv, EmitDone
  <1>4. ask'.kind = "buffered" /\ Sent("answer")' => CallsTool'
    BY <1>1, Sources DEF ToolInv, AnswerChat, AnswerGenerate
  <1>. QED
    BY <1>2, <1>3, <1>4

\* llmproxy reports no success for a run that was to call a tool and did not.
THEOREM RequiredToolsAreCalled == Spec => []RequiredToolIsCalled
  <1>1. Init => PlaceInv /\ ToolInv
    BY DEF Init, PlaceInv, ToolInv, Sent
  <1>2. TypeOK /\ PlaceInv /\ ToolInv /\ [Next]_vars => (PlaceInv /\ ToolInv)'
    BY PlaceStep, ToolStep
  <1>3. TypeOK /\ ToolInv => RequiredToolIsCalled
    BY Lengths DEF ToolInv, Sent, RequiredToolIsCalled, Heard, CallsTool
  <1>4. Spec => []TypeOK
    BY TypeCorrect
  <1>. QED
    BY <1>1, <1>2, <1>3, <1>4, PTL DEF Spec

-----------------------------------------------------------------------------
(* Counts *)

\* A write of an item that counts something, or need not, keeps the counts.
LEMMA CountKept ==
    ASSUME TypeOK, CountInv, ask' = ask, NEW t \in Types, NEW n \in Tokens,
           UNCHANGED sent \/ Emit(t, n) \/ Reply(t, n),
           \/ t \notin {"usage", "answer"}
           \/ t = "usage" /\ (n > 0 \/ ask.source = "ollama")
           \/ t = "answer" /\ (n > 0 \/ ~(ask.kind = "generate" /\ Adapter))
    PROVE  CountInv'
  <1>1. Adapter' = Adapter
    BY DEF Adapter
  <1>2. CASE UNCHANGED sent
    BY <1>1, <1>2 DEF CountInv
  <1>3. CASE Emit(t, n) \/ Reply(t, n)
    BY <1>1, <1>3, Written DEF CountInv
  <1>. QED
    BY <1>2, <1>3

\* No count of zero is sent where an estimate or silence is promised.
LEMMA CountStep ==
    ASSUME TypeOK, PlaceInv, CountInv, [Next]_vars
    PROVE  CountInv'
  <1>0. usage \in Tokens /\ Tokens \subseteq Nat /\ ask' = ask
    BY BoundsAssumption, ProducedGrows DEF TypeOK
  <1>1. CASE Refuse \/ Prepare \/ Open \/ Close \/ EmitDone
    BY <1>0, <1>1, CountKept, Names DEF Refuse, Prepare, Open, Close, EmitDone
  <1>2. ASSUME NEW c \in Chunks, Read(c), ~UNCHANGED sent
        PROVE  CountInv'
    <2>1. c.part \in Parts /\ Emit(c.part, 0)
      BY <1>2 DEF Read, Chunks
    <2>2. c.part \notin {"usage", "answer"}
      BY <2>1 DEF Parts
    <2>. QED
      BY <1>0, <2>1, <2>2, CountKept, Names
  <1>3. CASE BodyEnds \/ ProviderFails
    <2>1. UNCHANGED sent \/ Emit("error", 0) \/ Reply("refusal", 0)
      BY <1>3 DEF BodyEnds, ProviderFails, ReportFailure
    <2>. QED
      BY <1>0, <2>1, CountKept, Names
  <1>4. CASE EmitUsage
    <2>1. \/ UNCHANGED sent
          \/ Emit("usage", usage) /\ (usage > 0 \/ ask.source = "ollama")
      BY <1>4 DEF EmitUsage
    <2>. QED
      BY <1>0, <2>1, CountKept, Names
  <1>5. CASE AnswerChat \/ RejectArguments
    <2>1. ask.kind # "generate" /\ (Reply("answer", usage) \/ Reply("refusal", 0))
      BY <1>5 DEF AnswerChat, RejectArguments, PlaceInv
    <2>. QED
      BY <1>0, <2>1, CountKept, Names
  <1>6. CASE AnswerGenerate
    <2>1. PICK n \in Tokens : Reply("answer", n) /\ (n # 0 \/ ~Adapter)
      BY <1>6 DEF AnswerGenerate, Reported, Estimates
    <2>2. n > 0 \/ ~Adapter
      BY <1>0, <2>1
    <2>. QED
      BY <1>0, <2>1, <2>2, CountKept, Names
  <1>7. Abort \/ Stop \/ Receive \/ Leave \/ Cut \/ UNCHANGED vars => UNCHANGED sent
    BY DEF Abort, Stop, Receive, Leave, Cut, vars
  <1>8. UNCHANGED sent => CountInv'
    BY <1>0 DEF CountInv, Adapter
  <1>. QED
    BY <1>1, <1>2, <1>3, <1>4, <1>5, <1>6, <1>7, <1>8
    DEF Next, Serve, HeaderTimeout, HangUp, ReadFails, Quiet

\* No usage frame but ollama's, and no generate of the adapter, counts zero tokens.
THEOREM UsageCountsSomething == Spec => []UsageIsPositive
  <1>1. Init => PlaceInv /\ CountInv
    BY DEF Init, PlaceInv, CountInv
  <1>2. TypeOK /\ PlaceInv /\ CountInv /\ [Next]_vars => (PlaceInv /\ CountInv)'
    BY PlaceStep, CountStep
  <1>3. TypeOK /\ CountInv => UsageIsPositive
    BY Lengths DEF CountInv, UsageIsPositive
  <1>4. Spec => []TypeOK
    BY TypeCorrect
  <1>. QED
    BY <1>1, <1>2, <1>3, <1>4, PTL DEF Spec

=============================================================================
