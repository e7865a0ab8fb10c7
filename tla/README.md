# A verified model of the ACMP reference SDK

The SDK (`src/src/acmp`) implements a protocol by which agents buy work from each
other: a **buyer** invokes capabilities of a **provider**, and an **escrow agent**
holds the money in between. This directory models the SDK in TLA+: the escrow agent,
the provider, the connection between buyer and provider, the DAG orchestrator, and a
purchase that all three parties take part in. TLC checks the models on small instances,
and TLAPS proves their main guarantees for instances of any size.
Line numbers refer to the repository.

## 1. The system

| Component | State it keeps | Operations | Talks to |
|---|---|---|---|
| Escrow agent (`escrow.py`, `EscrowAgent`, `CreditLedger`) | escrows by id, the ledger's balances and paid transitions, outcome caches per `op_ref` | `escrowLock`, `Bind`, `Release`, `Reclaim`, `Claim`, `Dispute`, `Status`; lazily: auto-release, expiry | any number of connections, one event loop |
| Provider, invoke side (`provider.py`, `TaskContext`) | result cache, running handlers, held input chunks, one context per task | `acmp/invoke`, `acmp/cancel`, `acmp/inputChunk`; emits stream chunks and heartbeats | buyer (messages), escrow agent (`covers`), host application (handlers) |
| Provider, offers (`provider.py` 481-575) | offers by id | `acmp/offerRequest`, `acmp/accept` | buyer |
| Buyer (`buyer.py`) | pending futures by request id, listeners and next input `seq` by task id | `invoke`, `request`, `send_input_chunk`, `cancel`, `close`; reader loop | provider or escrow agent |
| Negotiator (`negotiation.py`) | none | offer request, accept | provider, through a Buyer |
| Escrow client (`escrow.py` 760-919) | none | one method per escrow request, `covers` | escrow agent, through a Buyer |
| DAG orchestrator (`dag.py`) | completed, pending, scheduled and running tasks of one run | `validate_dag`, `resolve_input`, `run` | provider, through a Buyer |
| Transports (`transport.py`, `ws_transport.py`) | two FIFO queues and a closed flag; a socket | send, receive, close | both ends |
| Messages, errors | none | (de)serialisation | all |

What is hard in it:

* **Time without timers.** The escrow agent has no timer. Elapsed challenge windows
  and expired locks take effect inside the next handler that touches the escrow, and
  two of them may be due at once.
* **Two parties, one escrow.** Buyer and payee send on different connections. Any
  order of release, reclaim, claim and dispute can arrive, and each may be a retry.
* **Two records of one fact.** Money is in the escrow's own counters and in the
  ledger, guarded by a set of payout keys; a task is in the result cache, in the
  table of running handlers and in the table of held chunks.
* **Awaits.** The provider runs one asyncio task per message. Between the lookup in
  the cache and the registration of the handler it may wait for the escrow agent.
  Between the end of a handler and the continuation of its dispatch anything may run.
* **Reordering and retries.** Input chunks may overtake each other and the invoke.
  Requests to the escrow agent are repeated, and handled when their sender has moved on.
* **Endings.** A call may time out in the turn in which it is answered; a callback may
  raise inside the reader loop; either end may close, or the connection break, while
  handlers, keep-alive loops and calls still run; `run` may be cancelled while it cleans
  up after a failure.
* **Three parties, one price.** The price of a capability may change between the offer,
  the accept, the invoke and the result; `covers` is true when it is asked, and the buyer
  may reclaim right after.

What makes each component correct:

* Escrow agent: no money is created or lost; the ledger pays what the records say,
  once; a pending claim is paid in full unless contested; a dispute freezes; nothing
  is drained from a payee before it was paid something; everything ends.
* Provider: one execution and one outcome per task id; cancels and chunks reach the
  handler they are meant for; no chunk is lost; every invoke is answered.
* Offers: one accept per offer, within its validity, at its price. Buyer: every request
  resolves; streams arrive complete, in order and before the answer.
* Orchestrator: each task once, after its dependencies; a failure or timeout stops the rest.
* Connection: closing or losing it ends the calls and lets the other end stop.
* Purchase: work that was covered can be claimed until the escrow settles, ends or is
  disputed; a buyer that finishes has paid for what
  was done and has the rest back.

`PROJECT.json` lists the hazards by line, with the properties that cover each.

## 2. Modules

| Module | What it is |
|---|---|
| `EscrowAgent.tla` | the escrow agent, one action per handler |
| `EscrowPromises.tla` | its type invariant, safety, action and liveness properties, and the inductive invariant `Inv` |
| `EscrowCustody.tla` | abstract specification: accounts and vaults, three actions |
| `EscrowRefinement.tla` | the mapping of escrows to vaults |
| `EscrowAgentProofs.tla` | the proof of `Inv` and what follows from it |
| `EscrowCustodyProofs.tla` | the proofs of the refinement and of the action properties |
| `EscrowLedgerProofs.tla` | the proofs about sums: ledger against records, records against answers |
| `MCEscrow.tla` + four `.cfg` | instances for TLC |
| `Provider.tla` | the invoke side of the provider, its buyers and its handlers |
| `ProviderPromises.tla` | its properties and its fairness |
| `ProviderProofs.tla` | the proofs of idempotency and of the input streams |
| `MCProvider.tla` + three `.cfg` | instances for TLC |
| `Session.tla` | one connection: reader loop, calls, streams, heartbeats, the ways it ends |
| `SessionPromises.tla` | its properties and its fairness |
| `SessionProofs.tla` | the proofs about streams and answers |
| `MCSession.tla` + three `.cfg` | instances for TLC |
| `Dag.tla` | `validate_dag` and `DagOrchestrator.run` |
| `DagPromises.tla` | its properties, a reference definition of a well-formed DAG, its fairness |
| `DagProofs.tla` | the proofs of validation, scheduling and fail-fast |
| `MCDag.tla`, `MCDag.cfg` | instances for TLC |
| `Purchase.tla` | negotiation, escrow and invoke together; it instantiates `EscrowAgent` |
| `PurchasePromises.tla` | its properties |
| `PurchaseProofs.tla` | the proofs about its terms, its cover and its settlement |
| `MCPurchase.tla`, `MCPurchase.cfg` | instances for TLC |
| `SetInduction.tla` | lemmas for all proofs: smallest counterexamples, sums over finite sets |

Definitions marked `Fault:` are not part of the modelled program. Each one is a
plausible bug of the definition that follows it. `PROJECT.json` ("mutants") names,
for every property of every passing run, the fault that TLC finds with it.

### The escrow agent

| Code | Model |
|---|---|
| `EscrowAgent._escrows`, the `Escrow` record | `escrows[e]`, `None` before the lock |
| `CreditLedger._balances`, `_paid` | `balances`, `paid` (keys are tuples instead of strings) |
| `_lock_ops`, `Escrow.op_results` | `lock_ops`, `op_results[e]` |
| `_now_ms()` | `now`, moved by `Tick` |
| `_run_cached` | `Fresh`, `Replay`, `Answer` (and `FreshLock`, `ReplayLock`) |
| `_effective_state`, `_auto_release`, `_auto_reclaim_expiry` | `EffectiveState`, `AutoRelease`, `AutoReclaimExpiry` |
| a handler's guards, in the order of the code | `BindCode`, `ReleaseCode`, `ReclaimCode`, `ClaimCode`, `DisputeCode` |
| its assignments and payout | `Bound`, `Released`, `Reclaimed`, `Claimed`, `Disputed` |
| the handler | `Lock`, `Bind`, `Release`, `Reclaim`, `ClaimOp`, `Dispute`, `Status` |

`EscrowAgent.serve` handles the messages of all connections on one event loop, and no
handler awaits before it has answered. A handler is therefore one atomic action. It
works on a *book* (one escrow, the ledger, and what was credited out of the escrow),
first brought up to date by `EffectiveState`. A refused request keeps what
`EffectiveState` did and caches its error, as in the code. A retry with a known
`op_ref` changes nothing; since it replays whoever sends it, with whatever parameters
and method, one `Replay` action per escrow and `op_ref` stands for all of them.
`Status` also stands for the host's `EscrowAgent.escrow()` and for a request that
fails on a missing parameter: both only resolve what is due.

`credited` is a history variable: what the ledger paid to each party out of each
escrow. No action reads it. The properties use it to tell what was paid from what
the record says was paid.

Abstractions: CU amounts are naturals (`0` stands for every amount that is not
positive), so the rounding of floats is out of the model; one reading of the clock
serves a whole handler; proof, reason and evidence texts are dropped; escrow ids are
never drawn twice; parties are authenticated by their connection, as the code takes
them; a null `payee_id` in a bind or release is not sent.

### The provider

| Code | Model |
|---|---|
| messages on the way and dispatch tasks not started | `inbox` |
| how far `_handle_invoke` is, per request | `pc`: `sent`, `covers` (awaiting the agent), `running` (awaiting the handler), `answered` |
| the asyncio task of the handler | `handler`: `created`, `working`, `cancelling`, `returned`, `raised`, `cancelled` |
| `TaskContext` (input side) | `ctx[r]` |
| `_result_cache`, `_running`, `_pending_input` | the variables of these names |
| `Buyer._input_seq` | `input_seq` |

`serve_forever` starts one asyncio task per message in the order of arrival, and a
dispatch runs without interruption to its first await that suspends. `Dispatch` is
that part, for all three methods; `CoversAnswered` and `Resume` are what follows the
two awaits; `HandlerStarts`, `HandlerTakesChunk`, `HandlerEnds` and `HandlerStops`
are the host's handlers, which may do anything their interface allows. A cancel before
the first step of the handler's task keeps its code from running at all; one after it
ended has no effect; in between the handler may still return or raise. `Begin` does
the feature check, the adoption of held chunks and the registration in one step,
because the code has no await there.

The buyers send up to `MaxRequests` invokes, `MaxCancels` cancels per task and the
numbered chunks of an input once. Which escrow, input mode and failure a task has is
chosen in the initial state and is the same for its retries. With
`OverlapRetries = FALSE` a task id is sent again only after its answer came.

Abstractions: payloads, prices and proofs are dropped; output chunks, heartbeats and the
closing of the channel are the subject of `Session`, offers of `Purchase`.

### The connection

| Code | Model |
|---|---|
| the two queues of `InMemoryTransport.pair`, the sentinel `None` | `to_provider`, `to_buyer`, a message of kind `closed` |
| `_QueueEndpoint.close` and `_closed`, of the buyer's and of the provider's end | `closed`; `host_closed`, `CloseProviderEnd` |
| a WebSocket that breaks, or that the provider's side closes | `link`, `Drop` |
| `Buyer._reader_task` | `reader`: `reading`, `stopped` by `close`, `ended` by the sentinel, `crashed` by a callback |
| `_pending`, the futures, `_listeners` | `pending`, `future`, `listeners` |
| the coroutine of `Buyer.invoke` with its `request` | `call`; `Invoke`, `CallResumes`, `CallTimesOut` |
| `_read_loop`, `close`, `send_input_chunk` | `ReaderReads`, `Close`, `SendInput` |
| `serve_forever` and its `in_flight` set | `serving`, `dispatch`; `ProviderReads`, `ServeReturns` |
| the handler's task, `TaskContext.emit`, `_keepalive_loop` | `handler`, `out`, `keepalive`; `HandlerEnds`, `Emit`, `Heartbeat` |
| the verdict on the output, the end of `_handle_invoke` | `Verdict`, `Answer` |

`Session` takes the parts that `Provider` leaves out and drops what `Provider` has:
each task is invoked once, the queues are first in first out, and an input stream is
reduced to its final chunk, which is all a handler that reads its input waits for.
`wait_for` may report a timeout although the future was resolved in the same turn, so
`CallTimesOut` asks nothing of the future. The request that was answered then finds
its cancel without effect. `Endings` says how a connection may end besides the buyer's
`close`: `CloseProviderEnd` puts the sentinel into the buyer's queue and keeps the provider
from sending, while its `serve_forever` goes on reading; `Drop` takes both directions
down. A handler that catches its `CancelledError` may still emit, so `Emit` is enabled
while it is cancelling. Which tasks the buyer invokes is part of the profile that is chosen
in the initial state. Sending does not suspend on the queue transport, so a send
belongs to the step around it. If a send fails because the connection is gone, the step
does what the code does with that exception.

### The orchestrator

| Code | Model |
|---|---|
| `validate_dag` with its depth-first search `visit` | `Validated`, `HasCycle`; `Visited` for one call of `visit`, `Meet` for one turn of its loop |
| the locals of `run`: `pending_deps`, `scheduled`, `in_flight`, `completed` | the variables of these names |
| where `run` is suspended | `status`: `running` in `asyncio.wait`, `stopping` in `asyncio.gather`, `unwinding` when that gather was cancelled |
| the asyncio task of each `run_one` | `handle` |
| the loop of `run` | `Start`, `Collect`, and `Loop` for its head; `Released` for the loop over the dependents, `Release` for one edge |
| the `finally` clause | `Stop`, `CancelAbandoned`; `InterruptedCleanup` and `Unwind` when it is cut short |
| `resolve_input` and `Buyer.invoke` | `ResolutionFails`, `RunOne`, `Answered`, `TimesOut`, `HandleStops` |

What a task returns matters only as far as a later input can be resolved from it:
`ResolutionFails` may happen to any task that refers to another one. The provider is
reduced to reading, working, answering and obeying a cancel. The caller of `run` may
cancel it while it waits and again while it cleans up; the second cancellation makes
`gather` raise, and the cancels below it are not sent (status `cut_short`).

`run_one` leaves `Task.timeout_ms` at its default of 30 s (`messages.py:74`), so every
invoke of a DAG has a deadline. The model has no clock: `TimesOut` may happen whenever an
invoke waits. `Buyer.invoke` then sends `acmp/cancel` itself and raises `TIMEOUT`, which
fails the handle while the provider may still be working (`buyer.py:127-134, 156-165`). A
task that timed out but was not collected when `run` was cancelled thus gets a second
cancel, from `run`; the variable `cancelled` counts both.

The loops over tasks, edges and successors are folds along the sequences of the DAG, in
the order of the code, of a step written as a function of what is known and of the
element. (`Released` takes the edges of all results collected at once in the order of
the DAG; the order of a set of handles only changes that of `ready`, which nothing depends
on.) `visit` is a recursive function whose one call, `Visited`, is an operator of its
own: both so that the proofs can speak of a single step. A DAG with an edge from or to an
unknown task does not come to the search, since the code looks at the edges first.

### The purchase

| Code | Model |
|---|---|
| the program of `examples/05_escrow_e2e.py` | `buyer.at`; one action to send and one to go on, per call |
| `Negotiator.request_offer`, `_handle_offer_request`, `_build_offer` | `RequestOffer` (one step: the buyer waits, and a lost answer only ends the program) |
| `Negotiator.accept`, `_handle_accept`, `Provider._offers` | `SendAccept`, `HandleAccept`, `AcceptAnswered`, `offer` |
| `Provider.register` again, a `Provider` per connection | `Reprice`, `Reconnect` |
| `EscrowClient`, requests on their way | `sent`; the answer is what the agent caches for the `op_ref` |
| `Provider._execute`: the price check, `covers`, the handler and its `cost_cu` | `CheckPrice`, `CheckCovers`, `Work` |
| the escrow agent | `Agent!Lock`, `Agent!Bind`, ... of `EscrowAgent` with one escrow |

A request that was sent stays in `sent`: it may be handled late, twice or never, also
after its sender has gone on or given up. The parties retry with the `op_ref` of the
first try, as `EscrowClient` allows. An answer may arrive at any time after the
agent cached it, or never. `SendRelease` and `SendClaim` are not exclusive: a provider
may claim what the buyer is about to release.

## 3. Runs

Between them, the passing runs fire every action of every specification.

| Run | Specification and bounds | States | Shows |
|---|---|---|---|
| `escrow_one` | one escrow; buyer with 3 CU, provider, stranger; 3 `op_ref`s, 2 tasks, amounts 0..3, lock ends at 2, windows 1 and 2, clock 0..4 | 24,686 | the invariants and action properties of one escrow, and that it implements `EscrowCustody` |
| `escrow_two` | two escrows, three lock `op_ref`s, one `op_ref` each; both parties have 2 CU and may buy from each other | 59,300 | `Inv` (the proof's invariant), the lock cache |
| `escrow_live` | as `escrow_one` with two parties, reuse of task ids allowed | 35,398 | liveness |
| `escrow_reuse` | as `escrow_one`, reuse of task ids allowed | violation | finding 1 |
| `provider_invoke` | one task, 3 requests, 1 cancel, 3 input chunks, reordering | 28,353 | safety and liveness of the invoke side |
| `provider_overlap` | as above with overlapping retries | violation | finding 2 |
| `provider_cancel` | one request | violation | finding 3 |
| `session` | a single task, timed, with a stream in both directions; or two tasks on one connection, a timed dialogue beside one with an unsupported proof method; 2 output chunks, 1 heartbeat, callbacks that raise, `close` at any time, a connection that breaks or that the provider closes | 271,917 | delivery of streams and answers, progress of calls and of `serve_forever` |
| `session_close` | a task that reads its input beside a plain one | violation | finding 4 |
| `session_crash` | a streaming task beside a plain one, callbacks that raise | violation | finding 5 |
| `dag` | every graph over three tasks, with the references along its edges, with none and with one more; each edge listed once and twice; a task named twice, an unknown task, no task; a diamond over four tasks, and one with a cycle behind it; any invoke may time out; `run` cancelled once or twice | 222,602 | validation, scheduling, fail-fast, progress |
| `purchase` | one escrow of 3 CU, prices 1 and 4, two tasks, an offer that is valid for 1, a lock for 2, a window of 1, clock 0..3, an accept handled at most twice | 749,310 | what the three parties promise each other |

Why the bounds suffice. *Escrow*: three `op_ref`s on one escrow allow bind, claim and
dispute, two claims in a row with a reclaim between them, a partial release and a claim of
the rest. Three CU allow a claim that leaves a remainder. The clock passes the end of the
lock before, at and after the end of a window that began before it, so auto-release and
expiry can fall into one call, and a window of 1 and of 2 distinguishes the agent's default
from a value of the request. What happens between two escrows goes only through the ledger
and the lock cache, for which the second run has both parties on both sides. *Provider*:
three requests are a first try and two retries, and three chunks allow a gap to be filled
by the last arrival while others wait; different task ids share nothing but the order of
the inbox, since every table is keyed by the task id. *Session*: two tasks share the two
queues, the reader loop and the drain of `serve_forever`, and nothing else; the rest of
what may happen to a task, such as a timeout between the final chunk of its stream and its
answer, needs no second task. Two chunks are a stream with a gap to make and a final chunk
to lose; one heartbeat is enough to follow an answer it must not follow. *Dag*: three tasks
have every kind of cycle, a task with two dependencies and one with two dependents; the
diamond adds a task that two paths lead to. *Purchase*: of the two prices one fits into the
budget and one does not. Both tasks can be paid, with 1 CU left to reclaim; where a release
and a claim for one task cross and both are paid, the second task gets what is left, or
nothing. A claim may also cross a reclaim, a dispute and the end of the lock, which all
fall within the clock. The offer ends before the lock and the clock passes both. Two
accepts are a first and a repeated one.

`SYMMETRY` permutes only op_refs, task ids and escrow ids, which no action and no
property orders, and is not used with liveness.

### Properties of the escrow agent

* `EscrowsConsistent`: the eleven fields that eight functions assign agree: a pledge
  is covered by what remains, closed means nothing remains, settled means paid.
* `PaidInFull`, `LedgerMatchesEscrows`, `AnswersAccountForMoney`: the ledger's
  payments, its balances and the answers sent out each account for the same money.
* `ClaimNotUndercut`: a pending claim ends by a dispute or with at least the claimed
  amount paid, whichever handler or lapse of time ends it.
* `ChallengeWindowHonoured`: inside the window only the buyer's own release or dispute
  changes the escrow; afterwards nobody can contest.
* `ClaimSuspendsExpiryBriefly`: claims hold a lock open for less than one window.
* `DisputeFreezes`, `NotDrainedBeforeSettlement`, `OneTouchSettles`,
  `OneEscrowPerLock`: see the comments in `EscrowPromises.tla`.
* `ClaimAnswered`, `EscrowEmptied`: liveness.
* `ImplementsCustody`: refinement.

`PaidInFull`, `LedgerMatchesEscrows`, `ClaimNotUndercut` and `ImplementsCustody` need
`ReuseTaskIds = FALSE` (finding 1): the payees never claim again for a task that was
auto-released on the same escrow. The agent does not enforce that.

### Properties of the provider

* `OneExecutionPerTask`, `AnswersAgree`: idempotency (without overlapping retries).
* `NoChunkLost`: each chunk sent is on its way, held or in the context; none is held
  beside a running handler; what the handler gets is a prefix.
* `InvokeAnswered`, `CancelEndsInvoke`: liveness.

### Properties of the connection

* `StreamIsComplete`: `on_chunk` gets 0, 1, 2, ... and nothing after the final chunk; a
  call that returns `output_streamed` had that chunk delivered.
* `AnswerIsLast`: nothing about a task is sent after its answer, by its handler or by its
  keep-alive loop.
* `CallsEnd`, `TimeoutStopsWork`, `ServiceEnds`: liveness. `CallsEnd` excepts a reader
  loop that `close` stopped or a callback crashed, and a call begun when the loop had
  already ended: the code leaves such a call without a timeout pending for ever, which
  `PROJECT.json` lists as a hazard.
* `CloseLetsServeReturn`, `CloseClosesTransport`: findings 4 and 5.

### Properties of the orchestrator

* `RejectsExactlyMalformed`: the depth-first search agrees with a definition of
  acyclicity by sets, for every graph of the run.
* `DependenciesFirst`, `RunsEachTaskOnce`: scheduling, whatever batches the answers come in.
* `NothingInvokedAfterFailure`, `AbandonedAreCancelled`: fail-fast. When `run` has raised,
  the cancels sent are exactly one for each task it did not collect and one for each that
  timed out, unless the cleanup was cut short.
* `RunEnds`, `NoWorkLeftBehind`: liveness, the second unless the cleanup was cut short.
  That a task that timed out does not go on at the provider rests on the cancel that
  `invoke` sends: a collected one gets none from `run`.

### Properties of the purchase

* `TermsHold`: one positive answer to all accepts, at the price of the offer, and no task
  costs more.
* `WorkIsPayable`: all that a task in work or done costs remains in the escrow, and a
  claim of it handled now would be accepted unless another is pending, until one of three
  things happens. The lock runs out. Or the escrow settles something: nothing in the code
  reserves the cost of a task, `covers` of a second task sees the whole remainder, and a
  release or reclaim may then take what another task was promised. Or the buyer disputes a
  claim: no claim is accepted any more, not even for a task that `covers` passed after the
  dispute, since it looks only at what remains (`escrow.py:919`, `583-589`).
* `PurchaseSettles`: a buyer whose program ran to its end paid at least what the tasks
  cost, and no CU is left in the escrow. The bound is from below: where a release and a
  claim for one task cross and enough remains, both are paid.

### Fairness

*Escrow*: weak fairness of `Tick` (time passes) and of `Status` (somebody keeps asking
about the escrow). The second is an assumption on the parties, and a necessary one,
because the agent runs no timer. Nothing else is assumed of them: they need not
release, claim or reclaim.

*Provider*: weak fairness of `Dispatch`, `Resume`, `HandlerStarts` and
`HandlerTakesChunk`, since the asyncio loop runs whatever is ready; of
`CoversAnswered`, since the escrow agent answers; of `HandlerStops`, since a cancelled
handler gets `CancelledError` at its await; of `HandlerEnds` only for a handler that
has all of its input. Nothing is assumed of buyers: `InvokeAnswered` speaks of
requests whose input was sent. A handler that ignores its cancellation, or never ends,
is outside these assumptions.

*Session*: weak fairness of the reader loop, of the provider's reads and its return, of
calls that were resolved and of dispatches whose handler is done, because both event
loops run what is ready; of the end of a handler that was cancelled. A timeout, a
`close`, a heartbeat or the end of a handler are never assumed; `CallsEnd` and
`ServiceEnds` name the handlers' ends as their premise.

*Dag*: weak fairness of `run`, of each coroutine and of the delivery of messages, and of
a provider that obeys a cancel. Neither the end of a handler nor the expiry of a deadline
is assumed: `RunEnds` has as the premise of its first part that every invoke ends some
day, by one or the other; after a failure or a timeout `run` ends without it.

*Purchase* has no liveness properties: none of the three parties owes the others a step.

## 4. Findings

1. **A payout is swallowed** (`escrow_reuse`, `escrow.py:381`). The ledger's key for an
   auto-release contains the claim's `task_id`. If a payee claims twice with one
   `task_id` on one escrow and both windows elapse, the second amount is added to
   `released_cu`, but `payout` finds the key and pays nobody.
2. **A retry may run twice** (`provider_overlap`, `provider.py:296`). The cache knows
   only answered requests. A retry that is dispatched while the first request is in
   service (a buyer's timeout sends a cancel and its caller invokes again at once)
   starts the handler again. The README and the test of idempotency promise that the
   same task is not executed twice.
3. **A cancel is lost during `covers`** (`provider_cancel`, `provider.py:458`). A task
   that waits for the escrow agent is not yet in `_running`; its cancel is dropped as
   that of an "unknown or already finished" task and the handler starts afterwards.
4. **Closing waits for ever** (`session_close`, `provider.py:248`). `serve_forever` waits
   for every dispatch in flight when the channel was closed, and cancels none. A handler
   that waits for an input chunk, which the closed buyer can no longer send, keeps it
   waiting. The docstring of `Buyer.close` tells callers to await it (`buyer.py:54`).
5. **Closing does not close** (`session_crash`, `buyer.py:63`). After a callback raised,
   the reader task holds that exception and `close` raises it, before it reaches
   `_transport.close()`.

## 5. Proofs

Eight modules hold proofs, one of them only lemmas (`SetInduction`). Each theorem is for
all constants that satisfy the named assumptions of the module it is about: any number of
parties, escrows, tasks, requests, chunks and op_refs, any amounts, times and DAGs. Every
invariant and every action property that a passing run checks is stated by one of them.

| Module | Theorem | Statement |
|---|---|---|
| `EscrowAgentProofs` | `Invariance` | `Spec => []Inv` |
| | `TypeCorrect` | `Spec => []TypeOK` |
| | `RecordsStayConsistent` | `Spec => []EscrowsConsistent` |
| | `ClaimsSuspendExpiryBriefly` | `Spec => []ClaimSuspendsExpiryBriefly` |
| | `PaysInFull` | `~ReuseTaskIds` and `Spec` imply `[]PaidInFull` |
| | `DisputesFreeze` | `Spec => DisputeFreezes` |
| | `ClaimsAreNotUndercut` | `~ReuseTaskIds` and `Spec` imply `ClaimNotUndercut` |
| `EscrowCustodyProofs` | `StepsRefineCustody` | `Spec` implies that each step with `PaidInFull` before and after is a step of `Custody` or a stutter |
| | `RefinesCustody` | `~ReuseTaskIds` and `Spec` imply `ImplementsCustody` |
| | `NeverDrainedBeforeSettlement` | `Spec => NotDrainedBeforeSettlement` |
| | `OneTouchIsEnough` | `Spec => OneTouchSettles` |
| | `WindowsAreHonoured` | `Spec => ChallengeWindowHonoured` |
| | `LocksOpenOneEscrow` | `Spec => []OneEscrowPerLock` |
| `EscrowLedgerProofs` | `LedgerBalances` | `~ReuseTaskIds` and `Spec` imply `[]LedgerMatchesEscrows` |
| | `AnswersAccount` | `Spec => []AnswersAccountForMoney` |
| `ProviderProofs` | `TypeCorrect` | `Spec => []TypeOK` |
| | `AllAnswersAgree` | `~OverlapRetries` and `Spec` imply `[]AnswersAgree` |
| | `TasksRunOnce` | `~OverlapRetries` and `Spec` imply `[]OneExecutionPerTask` |
| | `ChunksReachHandlers` | `~OverlapRetries` and `Spec` imply `[]NoChunkLost` |
| `SessionProofs` | `TypeCorrect` | `Spec => []TypeOK` |
| | `StreamsAreComplete` | `Spec => []StreamIsComplete` |
| | `AnswersAreLast` | `Spec => []AnswerIsLast` |
| `DagProofs` | `TypeCorrect` | `Spec => []TypeOK` |
| | `ValidatesExactly` | `Spec => []RejectsExactlyMalformed` |
| | `DependenciesComeFirst` | `Spec => []DependenciesFirst` |
| | `TasksRunOnce` | `Spec => []RunsEachTaskOnce` |
| | `AbandonedTasksAreCancelled` | `Spec => []AbandonedAreCancelled` |
| | `FailureStopsInvokes` | `Spec => NothingInvokedAfterFailure` |
| `PurchaseProofs` | `TypeCorrect` | `Spec => []TypeOK` |
| | `TermsAlwaysHold` | `Spec => []TermsHold` |
| | `CoveredWorkIsPayable` | `Spec => []WorkIsPayable` |
| | `SettlesWhatWasDone` | `Spec => []PurchaseSettles` |

The hypotheses `~ReuseTaskIds` and `~OverlapRetries` are what findings 1 and 2 are about;
without them TLC refutes the same properties. The code guarantees neither, so what those
theorems say holds of callers that keep to them. `StepsRefineCustody` needs no such
hypothesis: it says which step breaks the refinement when a payee does reuse a task id, the
one whose payout the ledger skips.

*Assumptions on constants.* Amounts, times and bounds are naturals, `None` is none of the
values it stands beside (for the refinement: no vault, `VaultAssumption`), buyer and
provider of a purchase are two parties, and the task ids of `Dag` are a finite set
(`TaskIdsAssumption`), as a list of tasks in memory is. Nothing else is assumed finite:
where a sum needs it, the invariant says that only finitely many escrows are open or
requests answered.

*Induction.* The library's induction theorems take an operator as a parameter, which the
provers cannot instantiate. `SetInduction` has what replaces them: of the numbers, or of
the subsets of a finite set, that fail there is a smallest, and a proof shows that the
smallest does not fail.

### The escrow agent

*The inductive invariant.* None of the properties is inductive alone. That a release
is paid (`PaidInFull`) needs its key to be unpaid, which follows from the `op_ref` not
being in the cache, so `Inv` says that every release and reclaim key belongs to a cached
`op_ref`. That an auto-release is paid needs the key of the *pending* claim to be
unpaid (`BookPaid`), which is where `~ReuseTaskIds` enters. That expiry pays needs its
key to be unpaid while the escrow is not expired. That a new escrow starts clean needs
no key and no credit to belong to an escrow that is not open. `ClaimSuspendsExpiryBriefly`
needs nothing but the fact that an open escrow is not past its end once
`_effective_state` has run, which `IsEffective` carries to the claim. `RefsMatch` says
that the lock cache and the escrows correspond one to one; `OneEscrowPerLock` is its
counting form.

*The argument.* `BookInv` is the invariant of one book. Lemmas on `Payout`, `Settled`,
`AutoRelease` and `AutoReclaimExpiry` give `EffectiveStateInv`; one lemma per handler
(`BoundHandled`, ..., `DisputedHandled`) shows that what is behind its guards preserves
`BookInv`; `RequestStep` joins the two; `CommitInv` shows that writing one book back
leaves all other escrows in order. `NextInv` has one case per disjunct of `Next`.
`DisputesFreeze` and `ClaimsAreNotUndercut` follow from `OneStepOrNone`: a step leaves an
open escrow alone, or is one handler's work on its book.

*Refinement and custody.* What every operator of the agent does to a book is summed up by
two relations that are transitive and therefore survive the lazy transitions before a
handler: `Gains` (each balance grows by exactly what is credited, so no handler pays
without a record) and `Follows` (the record keeps its buyer, its pledge and its payee once
it has one, the counters never shrink, and the buyer gets back what it may). With them a
step of the agent is `Deposit` of one vault, `Disburse` or `Freeze` of one vault, or leaves
all vaults and accounts alone (`VaultOf` hides what else changed), which is the refinement,
one step at a time (`StepsRefineCustody`). That the accounts get what the counters say is
`PaidInFull`, and `PaysInFull` proves that under `~ReuseTaskIds`; `RefinesCustody` joins the
two. The disbursed amount is what the counters grew by, and goes to the
accounts of the vault's own parties. The action properties are about the one escrow that a
step touches (`OnlyItsOwn`, `TouchedOrNot`) and then about the guards of its handler.

*Sums.* `SumFunctionOnSet` adds values up in an order chosen by `CHOOSE`, through a fold
that is a recursive function. `SetInduction` first shows that the recursion has a solution
(`Solvable`), then that what it gives does not depend on the order (`SumTakesOut`), and
ends with the two facts that the rest uses: the sum over one element more (`SumAdds`), and
the sum after one value changed (`SumChanges`). The ledger proof then moves a balance and
the share of one escrow in it together, for each handler and for a lock. `AnswersAccount`
needs that a request answered ok moved exactly the amount in its answer (`RequestTells`),
that an elapsed window only adds to what was released, and that expiry is the only thing
that adds to `reclaimed_cu` without an answer (`TimeTells`).

### The provider

That a handler runs once is the end of a chain: an answered request left its outcome in
the cache (`CacheOK`), the cache is empty for a task in service, and at most one request
of a task waits at any time (`OneWaits`); so the request whose handler starts finds
no other one that has run. `~OverlapRetries` is what keeps `OneWaits` when a request is
sent. A dispatch needs to know that the invoke it reads is the only one of its request,
which is `InboxOK`; as the messages may arrive in any order, `RemoveAtProperties` says
what removing one does to a sequence.

The chunks of an input are in one of three places: the inbox, `_pending_input`, and the
context of the running handler. `Kept` says that the three hold all that was sent, and
which of the two tables is empty when. Each step moves a chunk to the next place:
`_handle_input_chunk` from the inbox to the table or the context, the adoption in `Begin`
from the table to the context. `Feed` releases the buffer up to the first gap;
`ReleasedIsGapless` shows that this gap exists, as the least number that is not buffered,
and that nothing beside what was released leaves the buffer.

### The connection

The invariant of `SessionProofs` follows the chunks of one task through the queue. What a
listener has not received yet is in `to_buyer` in the order it was sent, without a gap
(`InOrder`, `Gapless`), and the answer is behind all of it (`AnswerEnds`); what it has
received is a prefix of what was sent (`GotPrefix`). `Drop` may cut the queue at its end:
`Gapless` was chosen so that any prefix of the queue has it. An answer can say `streamed`
only of a stream whose final chunk was sent, so whoever reads it has read that chunk. That
nothing follows an answer needs that a dispatch which is done has no running handler and
no keep-alive loop (`WorkLives`), and that each task is invoked and dispatched once
(`InvokedOnce`). The lemmas on `Cut` and `Tail` say what appending, cutting and reading do
to those parts of the invariant, and `BuyerActs` and `ProviderActs` that a step about one
task leaves the others as they were. TLC checks the same invariant on the instance of
`session` (271,917 states).

### The orchestrator

*Folds.* `FoldLeft` is a recursive function over sets of positions. `Unfoldable` shows
that it has a solution and `FoldSteps` that there is then a course: a value before the
first and after each element, each made of the one before. What a loop of the code keeps
is proved of one turn and carried to the end by `CountingUp`.

*The search.* `visit` calls itself for tasks that are not visited yet, so each call has
fewer tasks ahead of it than its caller (`LeftShrinks`); by this measure `SearchExists`
shows that the recursion has a solution, and `VisitsFind` what the solution computes.
Before and after every call the tasks that are finished (visited, and off the stack) have
only finished successors and contain no trap, a trap being a set of tasks each of which
has a successor in it; the stack is a path. A successor found on the stack thus makes the
stack a trap; and if the search ends without one, everything is finished, and there is no
trap. A trap of tasks is a cycle in the terms of `Acyclic`, whose sets have no *source*:
a smallest trap has none, since without it it would still be a trap (`TrapIsCycle`).

*The schedule.* `WalkInv` says what the books of `run` are: `pending_deps` is the
dependencies less those completed, `scheduled` is exactly the tasks whose dependencies are
all completed, and no task is launched twice or before it is scheduled. `ReleasedIs` shows
that the loop over the edges turns the books for the old `completed` into those for the new
one, with no task in `ready` twice although it may lose several dependencies in one turn
and an edge may be listed twice. When `run` returns, `completed` equals `scheduled`; a task
left over would be among tasks that each depend on another of them, which `validate_dag`
has excluded. TLC checks `WalkInv` on the instance of `dag` (222,602 states).

*Stopping.* `StopInv` rests on `WalkInv` for one thing, that a task newly released was
never launched and so has no cancel on record (`ReleasedAreNew`). It says that what goes on
is in `in_flight`, that once `run` stops nothing waits or is about to begin, and that the
cancels counted are always one for each task that timed out, to which the last step of
`run` adds one for each task still in `in_flight` (`CancelsCounted`).

### The purchase

`Keeps` is the heart of `CoveredWorkIsPayable`: one request to the agent, whichever it is,
leaves an escrow bound to the provider with all it holds, or settles, or lets it run out.
It is proved of each handler as `EscrowAgent` has it and is transitive, so that the lazy
transitions and the handler join. A reclaim is the critical case: it is refused for an
escrow that is bound and not settled. With `EscrowOK` of the record, that carries what
`CheckCovers` saw through all later steps (`WorkIsCovered`, the inductive form of
`WorkIsPayable`), and through `_effective_state` to the record that a claim would find; an
escrow without a pending claim is then open, since closed ones are empty and claimed and
disputed ones have a claim, so that none of the guards of `_handle_claim` refuses.
`TermsHold` needs that the first positive accept marks the offer, that a forgotten offer
stays forgotten, and that the buyer's price is that of an answer.

`SettlesWhatWasDone` puts three parties' records together. In the ledger's: no payment is
ever skipped, because releases and reclaims have an op_ref of their own and a task is
claimed under one op_ref (`Keys`), so what was paid is what the escrow's counters say. In
the agent's: the releases answered ok are part of `released_cu` (`Told`, a sum), and a
reclaim answered ok closed the escrow, which no later request opens. In the buyer's: a
release has the amount of its task, and the reclaim that ends the program was sent when
every task done had its release answered (`EndOK`). TLC checks this invariant, `MoneyInv`,
on the instance of `purchase` (749,310 states).

### What is only model-checked

Liveness: `ClaimAnswered` and `EscrowEmptied`, `InvokeAnswered` and `CancelEndsInvoke`,
`CallsEnd`, `TimeoutStopsWork` and `ServiceEnds`, `RunEnds` and `NoWorkLeftBehind`. The
provers do not reason about `ENABLED`, in which fairness is defined. The five findings are
counterexamples, for which a run is the evidence.

## 6. Plan

The escrow agent came first because it holds the money, the provider second because it has
the awaits, then the connection, the orchestrator and the purchase. What is left, in this
order:

1. Proofs of what the liveness arguments rest on besides fairness: that an overdue escrow
   has a `Status` step that settles it is proved (`OneTouchIsEnough`); that `run` always has
   a handle to wait for, and that a request in service is always in one of the states that
   some step leaves, is not.
2. A provider that serves several buyers, each with a result cache of its own, against one
   escrow.
3. Two overlapping invokes of one task id on one buyer, which share a listener and an
   input counter.

## 7. Not modelled

* Accepts without an escrow, which the provider handles like the others; the refusal of a
  proof method in an offer, which changes nothing; retries with a fresh `op_ref`, which
  are new requests (`escrow_one` has them).
* Overlapping invokes of one task id on one buyer; callbacks and handlers that call back
  into the buyer or provider.
* Two concurrent `emit`s of one handler; input chunks held for tasks that are over.
* The rounding of floats; a wall clock that steps back.
* The acceptance of WebSocket connections and the reading of the party id from the path
  (I/O without state); the encoding of messages and errors.
* The scripts under `examples/` other than the purchase, which only demonstrate calls.
