# creditProxy, specified

creditProxy sells LLM calls for credits. A caller's request is metered by holding
credits *before* the provider is called and settling the hold *after* it. The
parts that must not go wrong are small and concurrent: Redis scripts that move
credits, an HTTP handler that makes six calls to four services and may be
interrupted between any two of them, and a ledger that is told about it on a
best-effort basis. This directory holds TLA+ modules of those parts, the TLC runs
that check them, and TLAPS proofs about them.

    tlc -workers 2 -config MCUsageSettle.cfg MCUsage     # one run
    tlapm UsageProofs.tla                                # the proofs

## 1. Inventory

| component | state it keeps | operations | talks to |
|---|---|---|---|
| **usage service** `cmd/usage` | Redis: `user:credits:<u>`, `reservation:<id>` (hash with a TTL), `platform:daily:<day>`, `platform:credits:<day>`, `user:purchases:<u>:<day>` | reserve, commit, release, purchase, balance (grants lazily), admin views | Redis, by Lua scripts and single commands |
| **gateway** `cmd/gateway` | none but two rate limiters and the requests in flight | `/v1/chat` (stream and buffered), `/v1/generate`, balance and purchase proxies, routes, providers, admin proxies | usage, upstream, ledger over HTTP; the client over HTTP or SSE |
| **ledger** `cmd/ledger` | Postgres `ledger_events`, unique `idempotency_key`, dated by the database | insert an event, list, three reports | Postgres |
| **LiteLLM adapter** `services/litellm_adapter` | none | generate, chat, providers, validate | LLM providers, 300 s per call |
| **llmproxy** `cmd/llmproxy` | none | the adapter's predecessor, kept as a rollback | LLM providers |
| **packages** `pkg/*` | Firebase client, created once | authentication, JSON and SSE over HTTP, token arithmetic, contracts, ids | - |
| deployment, tests, documents | - | - | - |

What is hard in each, and what makes it correct:

* **Usage.** A handler is two to five Redis calls. Every call is atomic, their
  sequence is not: other handlers, key expiry, midnight, a cancelled request, a
  lost reply and a crash may come in between. Correct means: credits are
  conserved per user and per day; the platform budget is charged before a user
  is, and a refusal keeps its charge only if the call that was to undo it failed
  (`adjustPlatformCredits` swallows that error); a hold is settled at most once, and
  nobody is told another end of it; caps are not passed by bursts; the free grant
  is given once and first.
* **Gateway.** It learns the cost of a request from frames that may stop at any
  point, and must decide between *commit the cost*, *commit the hold* and
  *release* when the client may be gone, the hold expired, or a reply lost.
  Correct means: who was sent output pays, who was not does not; a client that
  stayed is billed what it was told; a hang-up does not strand a hold; every
  handler ends, and a stream never ends unmarked.
* **Ledger.** It hears of all this on a best-effort basis and collapses rows with
  equal keys; two SQL statements report on its rows, one for the platform's days and a
  user's, one for a page of users. Correct means: neither rows nor reports claim more
  than was billed, and the reports agree with each other, and with the bills where
  nothing was lost.
* **Front door of the gateway.** Before anything is spent, a request passes a verifier
  whose Firebase client is made once by whoever comes first, and rate limiters whose
  buckets any request may evict. Correct means: one outcome of the initialisation for
  everybody, nobody is billed for another's request, a removed admin is out at once,
  eviction cannot be noticed, and what is handed on to be metered carries an estimate
  that covers it.
* **Adapter, llmproxy.** They translate provider streams into frames: deltas, at
  most one usage frame, then `done`; or `error`. Correct means that this grammar
  holds and that a failure before the first frame is an HTTP status.
* **Packages.** Rounding must be monotonic and the ceiling of a request an upper
  bound of its cost.

`PROJECT.json` lists every component with its status and every hazard with its
line in the source and the properties that cover it.

## 2. Modules

| module | what it is | how it is used |
|---|---|---|
| `Usage` | the usage service, one action per Redis call | checked by `MCUsage`, proved about in `UsageProofs` |
| `HoldLife` | abstract: the life of a hold, as callers see it | implemented by `UsageHolds`, relied on by `Gateway` |
| `UsageHolds` | the refinement mapping from `Usage` to `HoldLife` | property `HoldsKeepTheirPromise`, checked by `MCUsage` and proved in `UsageProofs` |
| `Gateway` | metered requests from arrival to answer, and the rows of the ledger | checked by `MCGateway`, proved about in `GatewayProofs` |
| `Exchange` | abstract: what the gateway may hear in one call to an upstream | implemented by `Upstream`; `Gateway`'s stream is written against it |
| `Upstream` | one call to the adapter or to llmproxy: handler, connection, reader | checked by `MCUpstream`, proved about in `UpstreamProofs` |
| `Requests` | the set of requests that the front door's parts share | extended by `Auth`, `RateLimiter` |
| `Auth` | `pkg/auth`: caller, Firebase client, revocation, billed user | part of `Admission`, proved about in `AuthProofs` |
| `RateLimiter` | the two maps of buckets, their lock and evictions | part of `Admission`, proved about in `RateLimiterProofs` |
| `TokenBucket` | abstract: one bucket per key that is never forgotten | implemented by `RateLimiter` |
| `Tokens` | `pkg/tokens`: estimate, ceiling, credits | used by `Admission`, proved about in `AdmissionProofs` |
| `Admission` | composition: a request from its arrival to what `Gateway` starts with | checked by `MCAdmission`, proved about in `AdmissionProofs` |
| `Ledger` | composition: `Gateway`, the purchase proxy, users, days, and the reports on the table | checked by `MCLedger`, proved about in `LedgerProofs` |
| `Sums` | lemmas about sums over finite sets | used by `UsageProofs` and `LedgerProofs` |
| `MC*` | values and symmetry for TLC | the `.cfg` files |
| `*Proofs` | theorems | TLAPS |

An operator introduced by `Mutant of X` is not part of the model: it is X as a
plausible bug would have written it, and stands before X so that a property can be
shown to notice the difference (`PROJECT.json`, "mutants").

### Usage

`pc[c]` is the next Redis call of handler `c`: `count` (daily cap script),
`charge` (budget script), `grant` (`SETNX`), `reserve` (reserve script), `undo` and
`revert` (`adjustPlatformCredits` after a refusal and after an error of the reserve
script), `day` (`HGET`), `settle` (commit or release script),
`mint` (`INCRBY`), `get`; and `ok`, `refused`, `failed` are its answers. One
action per call: `CountRequest`, `ChargePlatform`, `EnsureInitialCredits`,
`Reserve`, `UndoCharge`, `ReadDay`, `Commit`, `Release`, `CountPurchase`, `Mint`,
`GetBalance`.

* `Answer(c, next)` is what becomes of an executed command: the handler goes on;
  or its reply is lost, and then go-redis repeats the command (`pc` stays) or
  hands the handler an error. `MaxLost` bounds the lost replies of a call.
* `Fail(c)` is a command that Redis did not execute, a cancelled request (whose
  later calls, the compensation among them, fail as well) or a crash.
* `refused` is a 4xx and `failed` a 5xx or no answer. Which of them a reservation gets is up to the reserve
  script alone: after a refusal the handler answers 402, after an error 500, whatever became of the compensation
  in between (`OnError`, `AfterUndo`). `kept` remembers whose compensation was not executed.
* The user whom a settlement credits is the `user_id` parameter of the call, which nobody compares with the hash. `Settle`
  takes the reservation's user: an assumption on the caller, which `cmd/gateway` meets (both calls get the request's user id).
* `Expire` is the TTL of the hash. An open hold may go at any time, also before
  a slow handler settles it; a settled one is kept for 24 hours, here until
  the next day. Nothing is given back. No property relies on a key's going: `Expire` has no fairness.
* `debit`, `charge`, `kept`, `minted`, `debt`, `overrun` and `lost` are history: no guard
  reads them, except the bound on `lost`.
* A reservation id is used by one call (`ids.New`), so a hold is named by it.
  The 25 h expiry of a day's counters is left out, as a day's counter is read by
  handlers that started on that day.

### HoldLife and UsageHolds

`HoldLife` says what a caller may rely on: a hold is taken once, then billed,
returned or lost to its TTL, and its bill changes at no other time. `UsageHolds`
maps the hash to a stage and `debit` to the bill. The promise is for
reservations none of whose own replies is lost (`MaxLost = 0` in the run and in the theorem): go-redis
may send a reserve script twice, and then the user is debited twice. The runs
with lost replies check what does survive.

### Gateway

`pc[c]`: `reserve` -> `announce` -> `call` -> (`relay`) -> `settle` -> `record` ->
`answer`; an unmetered request (own key, mock, local model) starts at `call`.
`announce` and `record` are the two best-effort ledger events. `run[c]` holds the
locals of `handleChat` (`opened`, `billableStarted`, `usage`, `sawError`, and
`relayErr # nil` as `broken`); `client[c]` is what the client has been sent;
`upstream[c]` is the adapter's side of the stream; `stage` and `bill` belong to the
instance of `HoldLife`.

* A call has three outcomes: `Replied`, `ReplyLost` (executed, but the gateway
  timed out or the client hung up first) and `NotExecuted`. All use the context
  of the request, except settlement and terminal event of a metered chat:
  `Cancellable`. `MaxFaults` bounds the failures of a request that no hang-up explains.
* `Verdict`, `Cost` and `Reported` are the table of `settleChat`.
* A reported usage may be of no tokens, and `ToCredits(0)` is 0: `Actuals` has 0 in the runs, and `NoUsage` (-1) is the usage that was
  not reported (`sawUsage`). A stream with a count of 0 is committed at 0 credits, all of its hold
  coming back; a buffered chat with one is billed like a chat without a count; a generate's 0 is billed as it is.
* A successful generate with a key of its own reports and answers the credits it would have cost (`Record`, `AnswerWhole`), though
  nothing is billed. `RowIsTrue` says of such a row that its request paid nothing; `ReportIsLowerBound`
  that no report adds those credits up.
* `hangs` is the mock's script of that name, for a stream: it is answered 200 and nothing follows. A buffered chat with that script
  never gets a response header and is a `CallFails` after `ResponseHeaderTimeout`; a generate has no scripts. The mock
  can be metered too, if the adapter is configured so.
* `handleGenerate` is the same path with `Stream` false, except where it differs
  in the code: its settlement can be cancelled, it answers 409 when the commit failed,
  a failed unmetered run is not reported to the ledger.
* `HangUp`, `Crash` and `TTL` may come between any two steps.
* Refusals before the reservation (validation, authentication, rate limit, kill
  switch) are `Refuse` here and `Admission` in detail. Whether the usage service refuses a hold depends on
  balances, so it is nondeterministic here.
* A `tool_call_delta` counts as a `text_delta`, as in the code.

### Admission: Auth, RateLimiter, Tokens

`place[c]` is the next step of a handler: `receive` (method, body, version), `auth`,
`limit`, `dispatch`; then it is `refused`, `served` (routes that spend nothing) or `handed`
on to `Gateway` with `metered` and `estimate`. The order is the code's: sizes are looked at
after authentication, the limiter after both, alias and kill switch after the limiter.
The steps of `Auth` and `RateLimiter` are conjuncts of Admission's actions; each leaves the
other's variables alone, so `Admission` implements both of their specifications.

* `Auth`: `auth[c]` is how far the verifier is with a request. `EnterOnce` is
  `initOnce.Do`: the first request runs the function (`NewApp`, `RetryApp`, `NewClient`, each of which
  may fail), the others wait. `Verify` is one call to Firebase, which may also be out of reach,
  and that looks like an invalid token. `Revoke` happens in Firebase, at any time; `late` is history. A
  caller's OIDC token either passes or not, and Google's certificates may be out of reach.
  In `dev` nothing is checked, as in the code, so `IdentityIsProven` then speaks of the body only.
* `RateLimiter`: a level is counted in the time it takes to fill up to it, so that a call costs `Period`
  and a bucket holds `Minute`. `Ask` reads the clock *before* the lock, `Allow` is the critical section:
  entry, eviction of what others left idle, then the bucket, which reads the clock again. `stamp`
  is the earlier of the two readings. Bound: `MaxWait` limits the wait for the lock.
* `Tokens` has unbounded integers; byte counts and limits of the code are far below 2^63.
* A hang-up cancels the context of the verifier's calls, which then fail, and is one case of a denial.

### Ledger

`Ledger` extends `Gateway`: each of its steps may insert rows, and a new row gets a user, a UTC day and
the name of its event (`Entry`). `NewDay` is midnight of the database. `created_at` is `NOW()`, the start of the insert's
transaction, and the row can be seen from its end on: a handler that is at an insert at midnight (`Writing`, kept in `straddling`) may
leave a row of the day before (`Dates`), and so revise the report of a day that is over. The purchase proxy
is `Purchase(p)`: one call to the usage service (executed or not, its reply lost or not), then one event
with a fresh key. A report is an operator on `table`, one per SQL statement: `usageDaily` (whole platform or
one user) groups by day, `usageUsers` by user over the days of `PerDay`, with its HAVING clause.
Each has the event types that its statement lists (`Daily...`, `User...`), so that `ReportsAgree` compares them (`AgreeOn`, for one range). `Page` is
ORDER BY and LIMIT: the lines of the heaviest users, ties by user id, which are numbers here as only their order counts. The lines before the
limit add up to the days; a page is held to what a page can promise. Left out: the order of the lines on a page, token columns, the
unknown-usage column, `credits_reserved` as anything but a row that no report counts. An insert whose reply is lost
shows its row when the gateway gives up on it; in the code it may show a little later.

### Exchange and Upstream

`Exchange` is a grammar with two variables: a call is refused, or answered, or opens a
stream of deltas, at most one count, then `done` or `error`, then the end of the
body; and it may break off anywhere before its end. `Upstream` is one call to either
service with any of its providers (`ask`). Its mapping to `Exchange` is `Phase` and `Output`,
functions of what the gateway has read.

* `pc` is the place of the handler. `accept`: nothing was written. `read`: the loop over
  the provider's chunks (`stream_events`, `OllamaProvider.Chat`, `GeminiProvider.Chat`,
  `emitMockEvents`). `count`, `finish`, `close`: the usage frame, the done frame, the end of the
  body. `answer`: a buffered chat has collected its frames.
* `sent` is what was written to the connection while it was up, and `read` how much of it the
  gateway has seen: order is kept, delay is arbitrary, and a cut loses what was not read,
  at once or after some of it (`ReadFails` may come before `Receive`).
* `first` is the chunk that `_prepared_events` reads before the adapter answers 200; llmproxy
  opens with its first event instead (`Opened`). That is why both can turn an early failure
  into a status (`ReportFailure`), at different places.
* A chunk has one part or none and a count or none. `Tokens` has 0 for a missing count,
  and a block of zeros is taken for a missing one where the code does not tell them apart;
  where it does (`_usage`), both outcomes are allowed.
* The required tool call is checked by llmproxy's Gemini and Ollama only (`ToolMissing`). The
  adapter passes `tool_choice` on and believes the provider, so `RequiredToolIsCalled` says
  nothing of it.
* `Stop`: the context of a Go handler and a streaming response of the adapter (Starlette cancels it)
  are cancelled by a hang-up; the adapter's other handlers run to their end.
* Left out: finish reasons, the text of tool arguments (whether they parse is nondeterministic,
  `RejectArguments`), error codes and their statuses, provider and model names. OpenAI
  and Anthropic exist behind the adapter, and in llmproxy for generate only, where they differ
  from Gemini in nothing that is modelled.

## 3. Runs

| run | states | what it asks |
|---|---|---|
| `usage_settle` | 235 494 | two reservations of one user, two settlements of either, two days, a balance for one hold and a budget for two; failed compensations, and what the settlements are told |
| `usage_loss` | 345 684 | two reservations, a settlement and a refused top-up, each call may lose one reply; both holds fit into balance and budget, a charge or hold repeated does not; safety and liveness |
| `usage_topup` | 500 925 | two users, one reservation, two top-ups with a cap of one, one balance read, lost replies |
| `usage_overdraft` | violation | a commit above the balance |
| `admission` | 200 857 | three requests of two users, 35 scenarios: both race through the verifier and the limiters while a third one, an admin's or one with something odd about it, gets in the way |
| `gateway_one` | 14 667 | one request of each kind, metered or not, usages of 0, 1 and 3 credits or none, streams that hang, two faults, hang-up, crash and expiry anywhere; safety and liveness |
| `gateway_usage`, `gateway_release` | violation | two statements of the repository, see Findings |
| `ledger` | 262 902 | a metered chat and a second request of any billing mode that shares its user or its key, a purchase, midnight, also during an insert; hang-ups, crashes and expiry anywhere; reports of all ranges and pages of one and two lines |
| `ledger_once` | violation | whether each request appears once in the reports |
| `upstream` | 106 292 | one call of every kind to both services with every provider, with and without a required tool; safety, the contract, liveness of both sides |
| `upstream_count` | violation | whether Ollama's streams always count something |

Why the bounds are enough. The scripts compare one hold with one user's balance
and one day's counters, so a race needs two holds of one user, two settlements
of one hold, or one hold on each of two days; the runs have all of them. Estimates
are 2, actual costs 1 and 3: below and above. Initial credits of 3 cover one
hold and not two; limits are met exactly and passed by one. Gateway requests meet only in
the ledger (by key or user) and so one is enough for everything but `ledger`, which has two and no other
faults than those of hang-ups, crashes and lost events.
A purchase has only the table in common with requests; `MCLedger` lets its steps come between
requests, not between the steps of one (the proofs have no such restriction). `ReportsAgree` is evaluated when no
handler is running: a crash at any point makes every table of a running one visible then.
Two days and spans of one and two days tell a day from a range; `DailyLimit` 2 is met and missed.
Two users and pages of one or two lines make the limit cut and not cut; usages of 0 and 1 and estimates of 2 make ties and differences.
In `admission` two requests race for the client and one bucket and a third one evicts or is
revoked: with `Minute = 2`, `Idle = 3` and `MaxWait = 1` (the least idle time that the assumption allows)
a bucket can be emptied, refilled, evicted and asked again within `Horizon = 4`. A burst of two chats
is passed by one request. Sizes and limits are met and missed by one.
A second fault lets a settlement fail after its reservation was fine and a
ledger event fail after both. Streams need no bound in `Gateway`: a delta leads back to the same state.
Calls to an upstream share nothing, so one is enough; three chunks allow one that is read ahead,
one that follows it and one more, hence any order of text, tool call and count with a neighbour on both
sides, and the proofs have no bound. One positive count is enough, as counts are only kept, replaced or
compared with 0; 5 and 0 also tell replacing from adding up.

`CHECK_DEADLOCK` stays on: `Quiet` is the only state in which nothing happens, and it
requires that every call was answered.

Fairness. `Usage`: net/http gives each request a goroutine and each command a
timeout, so a handler that has started takes its next step (weak fairness per
call). No request is obliged to arrive, no call to fail, no key to expire, no
midnight to come. `Gateway`: a handler takes its next call, and a stream yields its next
frame or ends, because `max_output_tokens` bounds its length and the adapter gives the provider 300 s. A stream that hangs yields nothing and has no
such step; what ends it is its client's leaving, for then the read of the body fails (`StreamBreaks` is fair once the client
is gone, and only then). So `HandlersEnd` and `HoldSettles` except `Waits`, a hanging stream whose client stays, and for it they are false. The TTL is *not* fair
there, so `HoldSettles` shows that the handler, not the TTL, ends the hold of a chat. Weak
fairness of `Relay` does not force the stream to end by itself; `HandlersEnd`
holds because a delta that repeats changes no state, so only frames that lead on count as steps.
`Admission`: a request that has come takes its next step, for net/http runs its goroutine and
the lock is held for one scan of a map. The verifier's calls have only the request's context: that Firebase and Google's certificates answer
or refuse at last is an assumption, not something the code sees to. `RequestsEnd` needs no
fairness of the clock or of revocation. `Upstream`: the handler goes on, since litellm is called with `timeout=300`, llmproxy's clients have 30 s
or 120 s and answers are bounded by `max_output_tokens`; the script that hangs has no such step, and
gets none. The gateway reads what has arrived, `ResponseHeaderTimeout` fires, and a read from a cut
connection fails. Neither a hang-up nor a cut is fair. `BothSidesEnd` exempts the adapter's
`hang` script, for which it is false: it is answered 200 before it runs, and its buffered form is never
cancelled.

## 4. What is proved

`UsageProofs` is about `Usage` for any sets of users and calls, any amounts, limits,
number of days and number of lost replies. It assumes the four ASSUMEs of the
module: the call sets are disjoint, amounts are positive and limits are naturals (the
handlers answer 400 otherwise), the bounds are naturals, and the reservations and purchases are finitely
many (they are, at any moment; the model names them beforehand, and a sum over them must be one).

* `TypeCorrect`: the type invariant, one lemma per handler.
* `BooksCorrect`: `Books` is the inductive invariant. `HoldAgrees` and
  `BudgetCoversDebit` are not inductive: when the reserve script runs, that debit
  and charge agree afterwards depends on the charge made three calls earlier.
  `BooksOf(r)` says for each place of the handler what has been charged, debited and written, e.g.
  in `grant`, `reserve`, `undo` and `revert` the charge is made and the user untouched, and a `refused` reservation keeps its charge
  exactly if it is in `kept`: the compensation ran, or it did not and the 402 was answered all the same. It is restricted to
  reservations that lost no reply; those that did can only break their own books, which
  is why it can be stated per reservation. From it follow `BudgetCovers`, `HoldsAgree` and `RefusalsAreUndone`, which the runs therefore do not
  check again.
* `GrantFirst`: a balance is never used before the grant is in it.
* `Bounded`: debts and budget overruns are bounded by what commits took beyond
  their holds. Here the invariant needs no books: the scripts check before they take.
* `OutcomesAgree`: `OneOutcome` with the fact that whoever was told "ok" settled a hold whose reservation is
  answered, so that it cannot be made again; a settled hold keeps its end until its key goes.
* `BillsAreFinal`: an action property. It needs `Books`' first part: a
  reservation that has been answered is at no Redis call.
* `UsersConserved`: `UserConservation` is not inductive, since the grant is in the equation from the moment
  the key exists. `Accounts` adds that who has no key has nothing, and that a hold is only there for a user who
  has one (`EnsureInitialCredits` comes before the script). Each step then is one of four
  (`AccountsAlone`, `Grants`, `TopsUp`, `Adjusts`), and a reservation that adjusts is one element of the sum. It
  holds with any number of lost replies: a repeated command is in the balance *and* in `debit`.
* `PlatformConserved`: `Budgets` adds that a reservation that has started has a day, which it keeps, and that
  its hash carries that day. So a settlement, which reads the day from the hash, corrects the counter that
  was charged, on whatever day it runs.
* `CapsHold`: in `Caps` those that are *past* the counter (`Passed`) are counted, and not only those that were
  answered: between the counter's script and the answer other calls may come, so the number of answers alone
  is bounded by nothing. Two calls of a day are distinct elements; a repeated count makes the counter larger.
* `PromiseKept`: `Usage` implements `HoldLife` where no reply is lost. Each step leaves every hold alone or is a step of
  one (`HoldSteps`); that an open hold's bill is its amount, so that a release returns all of it and an expiry keeps
  it, comes from `Books`. With lost replies the implication is false (a reserve script may run
  twice), and the theorem says so with its hypothesis.

`GatewayProofs` is about `Gateway` for any requests, asks, keys, costs and faults. It
assumes that an estimate is at least one credit (`Ceiling` of a prompt is positive, and `ToCredits` of a positive count is at least 1), that
a reported cost is a natural, zero included, that only streams hang, and that `MaxFaults` is a natural.

* `TypeCorrect`: the type invariant, one lemma per action.
* `RequestsOK`: the inductive invariant, per request. It has four parts: `HoldInv`
  (the hold follows the handler, and what it becomes follows the verdict), `RunInv`
  (what the handler knows agrees with what the client was sent), `SettledInv` (what
  the gateway believes of its settlement is so, unless a call failed) and `MarkInv`
  (how the end of a stream shows). The properties need them together:
  `OutputIsPaid` (no release after output, and a bill of 0 only for a reported usage of 0) is about stage, bill and output, but a release depends on `billableStarted`,
  so output must imply `billableStarted` (`RunInv`) and a return must imply that it was
  false (`HoldInv`). One lemma per action shows that the parts survive a step of the request;
  `FrameLemma` shows that the steps of other requests do not touch them.
* `OutputsArePaid`, `HeldFirst`, `HangUpsSettle`, `EndsAreMarked`, `ToldAreBilled` follow without
  another induction.
* `LedgerAgrees`: a second induction over the rows. A row depends on the run and the settlement
  of its request, and those are final once the terminal row is written (`LaterLemma`).
  `LedgerIsTrue` follows: committed rows have the amount of the bill, and a row without a hold is of a request that was billed nothing. `RowOK` says of a row what later readers need: its key, its slot, that a committed
  row shows the cost of a settlement that was answered, and that `commit_failed` follows one that was not.
* `QuietKept`: the converse. `LedgerIsTrue` would hold of an empty ledger; `QuietInv` says that a request with no failed call,
  whose client stayed and whose key nobody else has sent, has its terminal row once it reached
  its answer, and that its settlement is refused only if the hold expired. It needs `RequestsOK` for
  the second half (a hold that is neither open nor gone was settled by this handler) and `LedgerAgrees` for
  the first (the insert is swallowed only if another request's row has the key).

`UpstreamProofs` is about `Upstream` for any set of calls, any counts and any number of chunks. It
assumes the module's two ASSUMEs: sources fit their servers, and counts are naturals with 0 for none.

* `TypeCorrect`: the type invariant.
* `Refines`: `Spec => KeepsContract`, the refinement of `Exchange`. The invariant is `OrderInv`
  (each item may follow the one before it), which needs `PlaceInv` (what was written last, at
  every place of the handler; the order alone does not know that `close` comes after `done` or `error`),
  and `ReaderInv` (the reader's state fits the last item read). A `Receive` then is a step of
  `Exchange` for each pair of neighbours that `Follows` allows; a reader that leaves is `Breaks`; all
  else stutters, because `sent` only grows (`SentGrows`).
* `FinishedStreamsAreWhole`: `PartsInv` relates the parts to the frames while they are read, with the
  chunk read ahead as an exception, and `DoneInv` freezes that relation when the stream is done. Both speak of
  a connection that is up: after a cut the parts go on and the frames do not.
* `EarlyFailuresAreStatuses`, `RequiredToolsAreCalled`, `UsageCountsSomething` have one invariant each
  (`StatusInv`, `ToolInv`, `CountInv`) and share `Sources` (which step an item comes from) and
  `ProducedGrows`.

`AdmissionProofs` begins with the arithmetic of `Tokens`, for any integers: `CreditsCover` and `CreditsMonotone` are the two claims
of the comment on `ToCredits`, `HoldCovers` puts them together with `Ceiling` (a commit within the
ceiling refunds), `EstimateWithinCeiling` compares the heuristic estimate with the bound.

`AuthProofs` and `RateLimiterProofs` are about their modules alone, `AdmissionProofs` about the composition.
They assume that the admins are users and a missing user is none, that a period is between one tick
and a minute, and `Minute + MaxWait <= Idle`.

* `AuthSafe`: the inductive invariant says what the state of the `sync.Once` lets each request be: while it
  runs there is exactly one that runs it, and none is past it; once it is done, the error
  or the client is what everybody has met. A late request has a revoked token.
* `LimiterKeepsBuckets`: the refinement of `TokenBucket`, with the level of an absent entry taken to be full. An
  eviction is a stutter, for: an entry was last paid from at most `MaxWait` after its
  stamp (`EntriesInv`), whoever evicts it read a clock more than `Idle` after that stamp, and
  `Minute + MaxWait <= Idle`, so that the bucket has been full for a while. Without the assumption an
  eviction could refill a bucket; the code has nine minutes between the two sides.
* `LimiterSafe`: `SpentInv` says that what a bucket holds, with what it paid for since any
  earlier grant, is no more than a minute's worth and the time since. `GrantsSpaced` follows.
* `AdmissionSafe`: every step of Admission is a step of `AuthNext` or leaves Auth alone, and likewise
  for the limiter, so both invariants carry over; `PlaceInv` ties the place of a handler to what its parts
  decided. `IdentityProven`, `ClientShared`, `KillSwitchExact`, `HandedOnCovered`, `BucketsKept` and `RateOwn` follow.
  `RateOwn` counts: distinct grants are distinct requests, which needs finitely many.

`LedgerProofs` is about `Ledger` for any finite sets of requests, users (ordered as numbers) and purchases, any number of days and
any largest page.

* `GatewayIsKept`: `BookSpec => Spec`. A step of `Ledger` is one of `Gateway` or leaves it alone, so
  everything in `GatewayProofs` holds of it: `RowsAreTrue` is one line.
* `BookKept`: the inductive invariant says where an entry of the table comes from: a row of `ledger` with its key and
  slot, or a purchase that was minted and is done. `BookTypeCorrect` (no two entries share a key) and
  `PurchasesHappened` follow.
* `ReportsAreOne`: the reports agree at any moment, and not only when TLC asks. Every column is the sum of a weight over rows
  (`CountIsSum`, `CreditsAreSum`); the daily report groups that sum by day and the users' by user
  (`SumGroups`), and a user whom the HAVING clause leaves out has no row to add. `ListsAgree` is the one place where the lists of
  types of the two statements are compared. `PageLemma` is about LIMIT: a page is a part of the lines (`PartTotal`: its sum is no
  larger), the lines before a given one are fewer than those before a later one, and if all lines fit none has too many before it. It
  needs that the table is finite (`TableIsFinite`) and that its entries have users, and nothing of how they came there. `PeakLemma` is about the
  maximum: some day passes the limit if and only if the largest does.
* `ReportsAreBounded`: a row that the credits of a report add up is the only committed row of a request (`LedgerIsLowerBound`), with the
  amount of its bill, so that the rows map one to one into the user's requests; a row of an own-key generate carries credits and is not added.
* `QuietIsExact`: the report of a user whose requests nothing disturbed is exact. `TableInv` ties the table to the ledger,
  entry by row in both directions; `QuietInv` gives each such request its terminal row, and `OneEnd`,
  with the uniqueness of keys, gives it no more than one. The rows that count are then in bijection
  with the holds, row for bill.

`Sums` has what those proofs need of `SumFunctionOnSet`: that the fold does not depend on the order
in which it takes the elements (`FoldIsSum`), splitting, comparing sums term by term (`SumBelow`), changing one element, grouping (`SumGroups`), and that a sum of
ones is a cardinality (`SumCounts`). The induction theorems of the library have an operator as parameter, which the
provers cannot instantiate, so `FiniteInduction` collects the sets for which a fact holds in a *set* `Good` and shows that
it has every subset, from the well-foundedness of inclusion.

Some invariants are stated and proved and not in a run, because the proofs settle them for every instance: what follows from `Books`
(above), `GrantBeforeUse`, `HeldBeforeCall`, `GrantsAreSpaced` (the spacing that `BucketsAreKept` implies), `RateIsOwn` and
`KillSwitchIsExact`.

Only model-checked: the liveness properties, `HandlersAnswer`, `HoldSettles`, `HandlersEnd`, `RequestsEnd`
and `BothSidesEnd`: they rest on fairness, hence on ENABLED, which is out of the provers' reach. The five
statements of section 5 that TLC refutes have no theorem either, of course. Every other property of a
run is proved for all values of the constants.

What the two techniques leave between them: `Gateway` relies on `HoldLife`, hence on the promise of
`PromiseKept`, hence on reserve scripts that are not repeated. `QuietReportIsExact` leaves out what the code leaves out: an expired
hold stays paid while its request is reported as `commit_failed` or released, so its bill is excepted.

## 5. Findings

1. `usage_overdraft`. `commitScript` charges an underestimate unconditionally: the
   balance goes negative and the commit answers 200. docs/API.md:101 promises 402.
2. `gateway_usage`. A stream that breaks after its usage frame is billed the full
   hold; docs/openapi/gateway.yaml:211 and the table at chat.go:340 say the reported cost.
3. `gateway_release`. `handleGenerate` releases on the request's context, so a hang-up
   cancels the release too and the hold is left to a TTL that gives nothing back;
   generate.feature:3 says that credits are never lost.
4. `upstream_count`. llmproxy's Ollama sends a usage frame without having seen a count, so that
   delivered output is committed at 0 credits; docs/openapi/llmproxy.yaml:186 promises an estimate, and
   the adapter avoids the frame on purpose (provider.py:276).
5. `ledger_once`. A generate with the user's own key whose upstream call fails emits no event at all, so it
   is in no report, whereas a failed chat with such a key is; cmd/ledger/admin_usage.go:18 and
   docs/API.md:167 say that each request is counted once.

Some more were met and have no run. A 402 keeps the day's budget charge if the compensation failed, and nothing
retries it (`Books` says exactly when). An own-key generate is told, and its row carries, credits that nobody bills. A commit above its hold also takes
`platform:credits:<day>` above what .env.example calls a hard cap (`BudgetWithinLimit` states the
bound that does hold). A generate repeated with the same `Idempotency-Key` is executed and charged again while
its commit row is swallowed; the key is not even per user, so two users who send the same key share a row
(`LedgerIsLowerBound` states what does hold, `QuietReportIsExact` excepts shared keys). A buffered chat without a
usage block is told 0 credits and billed the full hold, though the comment at chat.go:275 speaks of the two-way
decision of /v1/generate; its row shows the bill, which `QuietReportIsExact` relies on. llmproxy's Gemini
request keeps only the last of several system messages (gemini_chat.go:203 says they are hoisted).

## 6. Not modelled, and why

* The usage service's admin views and the ledger's listing: they read without changing anything, and promise no snapshot.
* How feature names are folded, which query parameters are forwarded, the provider list: functions of one request.
* Configuration errors: they stop a process before it serves.
* Translation of messages, tools and schemas to the providers' formats: pure and without a state to get wrong.
* Parsing of SSE and JSON, random ids (taken to be distinct), logging, headers, terraform and CI.
* Several gateways: each has its own limiters and its own Firebase client; `Usage` has any number of callers anyway.

## 7. Plan

Written: all modules above, and a theorem for every property of a run that the provers can reach. What is left,
in this order:

1. Composition: `Gateway`'s stream as an instance of `Exchange`, so that the frames it consumes are
   the ones `Upstream` is proved to send (today both are written from the code, and agree by review).
2. `Admission` in front of `Gateway`: today `HandedOnIsCovered` states what `Gateway` assumes of a metered request.
