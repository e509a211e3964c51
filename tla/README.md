# Arbitron in TLA+

This directory holds the TLA+ development of ARBITRON v4, the multi-exchange
arbitrage system of this repository: what is modelled, what TLC checks on small
instances, and what the TLA+ proof system (TLAPS) proves for all of them.
Paths are relative to the repository; `engine.go` without a directory is
`internal/execution/engine.go`, `risk.go` is `internal/risk/engine.go`.

## 1. Inventory

### 1.1 The system's parts

| part | source | state it keeps | operations |
|---|---|---|---|
| risk engine | `internal/risk/engine.go` | atomic `killSwitch`; under `mu`: `dailyPnL`, `peakPnL`, `totalFills`, `reversals`, `killReason` | `ValidateOpportunity`, `RecordCleanExecution`, `RecordReversal`, `TripKillSwitch`, `ResetKillSwitch`, `Snapshot` |
| execution engine | `internal/execution/engine.go` | `oppCh` (256), `inFlight` under `inFlightMu`, `dailyPnL` under `mu`; per goroutine the `ExecutionEvent` | `Start`, `Submit`, `executeTwoLeg`, `reverseHedge`, `submitIOC`, `emitEvent` |
| detector | `internal/execution/detector.go` | quotes per symbol and venue, `lastOpp` per symbol, `oppCounter` | `Start`, `onTick`, `scanSymbol`, `calcQuantity` |
| REST adapters | `internal/exchange/adapters/{binance,kraken,alpaca}.go` | none between orders | `SubmitIOC`, `pollUntilTerminal`, `HealthCheck` |
| FIX adapter | `internal/exchange/adapters/fix.go` | `seqNum`, `pending`, `connected` and `lastHeartbeat`, under `seqMu`, `pendingMu` and `stateMu`; the connection under `connMu` | `Connect`, `SubmitIOC`, `readLoop`, `handleExecutionReport`, `heartbeatLoop`, `HealthCheck` |
| registry, synthetic venue | `internal/exchange/adapter.go`, `adapters/synthetic.go` | the map of adapters, fixed at startup | `SubmitIOC`, `HealthCheckAll` |
| feed manager | `internal/exchange/feed_manager.go`, `websocket.go` | circuit state and counters per venue | `Start`, `runFeed`, `readLoop`, `GetHealth` |
| stream pipeline | `internal/redis/pipeline.go` | subscriber channels under `mu`; the two Redis streams; the consumer's cursors | `PublishExecution`, `PublishTick`, `Subscribe*`, `Unsubscribe*`, `RunConsumer`, `flushStreams` |
| copier | `internal/persistence/copier.go` | none (writes the database) | `Insert` |
| gateway | `internal/telemetry/gateway.go` | none | `/events`, `/ws`, `/opportunities`, `/risk`, `/kill`, `/reset`, `/health`, shutdown of the server |
| wiring | `cmd/arbitron/main.go`, `config/config.go` | the root context, `sigCh`, the database pool | startup, health gate, signal, grace, deferred `Close` |

### 1.2 How they interact

The feed manager's goroutines publish ticks through the pipeline's fan-out; the
detector receives them on one channel, keeps the freshest quote per venue and,
when a spread is wide enough and its per-symbol cooldown has passed, calls
`Engine.Submit`, a non-blocking send on `oppCh`.  `Engine.Start` receives and
starts one goroutine of `executeTwoLeg` per opportunity.  That goroutine takes
its symbol's in-flight mark, calls the risk engine *in its own goroutine*, sends
leg 1 through `submitIOC` (a second goroutine that calls the adapter, and a
select between its answer, a timer and the context), then leg 2, then if
necessary the reverse order; it books the result first in the engine, then in
the risk engine, publishes one event and deletes the mark.  The gateway's
handlers call `TripKillSwitch` and `ResetKillSwitch` from goroutines of their
own at any time.  `PublishExecution` fans the event out to the subscribers and
appends it to a Redis stream that `RunConsumer` drains into the database.
The registry finds an order's adapter by the name of its venue; both the health
gate of `main` and `/health` ask all adapters through it, one after the other
under one deadline.  `main` cancels the context on a signal, sleeps three seconds
and returns through the deferred `Close` of the pool, which waits for the
connection of an insert under way.

### 1.3 What is hard

* *Interleaving*: executors of different symbols and operators' handlers share
  the risk engine; `ValidateOpportunity` is three separate reads, `TripKillSwitch`
  and `ResetKillSwitch` two separate writes, and between a check and the order it
  admits any other goroutine may run.
* *Late and partial answers*: `submitIOC` abandons an order it cannot cancel;
  partial fills shrink leg 2 and the reversal; adapters report partial fills in
  three different ways.
* *Two books, two mutexes*, booked one after the other.
* *Shutdown*: the context that stops the loop is also the one every wait for a
  venue selects on.
* *Bounded channels* everywhere, all with non-blocking sends: work is lost
  silently when a channel is full.
* *Streams*: at-least-once reading, trimming by length, cursors that restart at
  the beginning of the stream.
* *FIX*: sequence numbers taken under one mutex and written under another; the
  first execution report of an order is final; a write has no deadline and holds
  the mutex all other writers need.
* *Calls that outlive their callers*: the goroutine of `submitIOC` answers after
  the engine has given up, a response shows an order as it was, and a probe or a
  transaction may never be answered.

### 1.4 What makes each part correct

* risk engine: the loss and drawdown limits are overshot by a bounded amount; a breach trips
  the switch; the first reason is kept and agrees with the switch; the peak
  falls behind the highest daily figure only by what reversals gained.
* execution engine: one execution per symbol; never more hedged than leg 1
  filled; open by no more than what venues executed unseen, or ended in the kill
  switch; one event per execution; the symbol always released; a tripped switch lets
  nobody new through.
* detector: an opportunity if and only if some pair of venues with fresh quotes is
  worth one, and then the widest; the size within its bounds.
* adapters: every answer is one the execution engine is prepared for, whatever the
  venue goes on to do; every call ends with its context.
* FIX session: a result never claims more than the venue executed; every order
  returns and leaves the map; sequence numbers are neither skipped nor repeated;
  a session that is lost is reported for good.
* feed manager: the circuit state follows the connection; a lost feed is connected
  again; every feed stops when told to.
* pipeline and copier: nothing is sent on a closed channel, neither to a client nor to
  the detector; no client holds up a publisher; the cursor never passes an event that was not inserted; a row is
  inserted twice only on a retry or after a restart.
* wiring: a signal ends the process, whatever venues and databases leave
  unanswered.

## 2. Plan

The order of work, most important first.

| step | modules | state |
|---|---|---|
| 1 | `RiskEngine`, `RiskCallers` | modelled, checked, proved |
| 2 | `ExecutionEngine`, `ExecutionProperties`, `ArbLifecycle` | modelled, checked, proved |
| 3 | `RiskEngineProofs`, `RiskCallersProofs` | done |
| 4 | `EventStream`: `PublishExecution`, fan-out, consumer, copier | modelled, checked |
| 5 | `FixSession`: connect, submit, reports, heartbeats | modelled, checked |
| 6 | `FeedManager`, `Detector`, and `MarketData` that composes them with the tick fan-out | modelled, checked |
| 7 | `ExecutionProofs`: mutual exclusion per symbol, refinement of `ArbLifecycle`, what the orders of an execution add up to; `LimitProofs`: types, what a tripped switch means | done |
| 8 | `AdapterContract`, `RestAdapters`, `Host`: an order down to its venue, and the process around it | modelled, checked |
| 9 | `FixSession`: sockets that fill up, `HealthCheck` | modelled, checked |
| 10 | the drawdown limit in `RiskCallers` | modelled, checked, proved |
| 11 | `FixSessionProofs`, `EventStreamProofs`, `MarketDataProofs` | done |
| 12 | `HostProofs`: the adapters meet the contract, the types of the process around them; the same contract in `FixSessionProofs` | done |
| 13 | `LimitProofs`: the two books agree; the engine implements `RiskCallers` with one executor per symbol | done |

`ExecutionEngine` extends `RiskEngine`, so the composition of the two is exact:
the steps of a validation, a trip and a booking are those of the risk engine,
taken by the executing goroutine.  `MarketData` extends `FeedManager` and
`Detector` in the same way, and `Host` extends `RestAdapters`.  `AdapterContract`
joins two groups: `ExecutionEngine` takes from it every answer an adapter may give,
and every adapter is shown to answer within it: `AnswersMeetContract` is checked and
proved of `RestAdapters`, and `FixSessionProofs!ContractMet` proves it of `FixSession`.
`RiskCallers` is also an abstraction of `ExecutionEngine`: `RefinesCallers` says that
seen from the risk engine there is one caller per symbol.  What joins the others
is narrow: the detector
ends in `Engine.Submit`, whose environment in `ExecutionEngine` is any opportunity
at any time, and the engine ends in `PublishExecution`, whose environment in
`EventStream` is any event at any time.  Each group is therefore checked against
every behaviour of its neighbour, not only the ones the neighbour has.

## 3. The modules

### RiskEngine

One variable per field of `risk.Engine`, and for each goroutine `p` that calls
it: `rpc[p]`, the point it has reached, `seenPnL[p]`, the local copy of the daily
figure, `tripReason[p]`, the argument of its trip.  One action per atomic access:

| code | actions |
|---|---|
| `ValidateOpportunity` (risk.go 111-150) | `CallValidate`, `LoadKillSwitch`, `ReadDaily`, `ReadPeak` |
| `TripKillSwitch` (177-184) | `CallTrip`, `TripCAS`, `WriteReason` |
| `ResetKillSwitch` (186-197) | `CallReset`, `ClearReason` |
| `RecordCleanExecution`, `RecordReversal` (154-169) | the actions of those names |

`rpc[p] = "accepted"` lasts from a validation that returned no error until the
executor books or abandons, which is what "committed" means in the loss bound.

`LoadKillSwitch` formats its error with `killReason`, read outside the mutex.  Go
strings are two words; a reader can see the length of one value with the nil
pointer of the other.  `TornReasonRead` models that outcome of the race: the
process faults (`panicked`) and nothing moves any more.

Money is integer; the drawdown test `(peak - daily) / peak > MaxDrawdown` is
multiplied out.

### RiskCallers

Closes `RiskEngine` with executors that respect the order of calls and book any
amount of two given sets, and operators.  `Snapshot` (risk.go 212-241) is the
operator of that name, the drawdown as a fraction; `DrawdownOvershootBounded` is
about the figure it shows.  It is the place to check and prove what
does not depend on how an execution goes.

### ExecutionEngine

`pc[o]` is where opportunity `o`, and then its goroutine, is:
`detected` -> `queued` or `dropped` (`Submit`) -> `spawned` (`Dispatch`) ->
`skipped`, or `validate` -> `leg1` -> `leg2` -> `reverse` -> `bookEngine` ->
`bookRisk` (or `trip`) -> `emit` -> `release` -> `done`.  `order[o][leg]` is the
order as the venue knows it (`executed` is what was really traded),
`result[o][leg]` what `submitIOC` returned.

| code | actions |
|---|---|
| `Submit`, `Start` (engine.go 159-178) | `Submit`, `Dispatch`, `StopLoop` |
| in-flight guard and deferred delete (204-218) | `SkipInFlight`, `Acquire`, `Release` |
| validation (227-233) | `RiskStep` of the goroutine, `RiskRejected` |
| leg 1 (241-252) | `SubmitLeg1`, `Leg1Missed` |
| budget and leg 2 (254-311) | `Leg1Filled`, `Leg2Returns` |
| `reverseHedge` (318-375) | `Reversed`, `ReverseFailed`, `TripReturned` |
| the two books (294-298, 358-362) | `BookEngine`, `BookRisk` |
| `emitEvent` (313, 434-438) | `Emit` |
| `submitIOC` (379-432) | `Sent` starts it, `Results` is what its select may return |
| adapters, by `AdapterContract` | `VenueAnswers` |
| `/kill`, `/reset` | `OperatorCall` |
| signal and exit (main.go 147-161) | `Shutdown`, `Exit` |

Between the return of one `submitIOC` and the call of the next the goroutine
touches nothing shared, so that is one step.  Whether the latency budget of both
legs is exhausted after leg 1 is left open, as are all timers.

Quantities are whole lots.  No lot is finer than the eight decimals Alpaca's request
is written with (`alpaca.go` 104), and any is far above the tolerance of 1e-12 with
which `executeTwoLeg` compares (287), so neither the writing nor the comparison
changes an outcome, and both are exact in the model.

`Answers` of `AdapterContract` has three kinds, each of which adapters produce.  *exact*: quantity and
flag as executed (Kraken's sum of events, `kraken.go` 171-185).  *early*: less
than is executed in the end: Alpaca's poll takes `partially_filled` as terminal
(`alpaca.go` 176), FIX the first execution report (`fix.go` 304-318), and any
error reports nothing.  *unflagged*: a quantity with `Filled` false, from an order
that filled in part and ended `canceled` or `expired` (`alpaca.go` 148,
`binance.go` 154, `fix.go` 306).

### ArbLifecycle

The abstract specification: an opportunity is turned away, or opens while no other
on its symbol is open, has exactly one outcome announced while open, and closes
only after it.  `ExecutionProperties` instantiates it (`Lifecycle`) with the status
computed from `pc` and the published outcomes.

`ExecutionProperties` instantiates `RiskCallers` as well (`Callers`), with an executor
for each symbol: what the risk engine sees of the opportunity that holds the mark.
`RefinesCallers` says that the engine implements it.

### EventStream

`pub[e]` follows one call of `PublishExecution`, `client[c]` one request to
`/opportunities`, `consumer` the goroutine of `RunConsumer`.  The stream and the
database survive `ProcessEnds`, which may come between any two steps;
`ProcessStarts` begins again with what `RunConsumer` initialises.

| code | actions |
|---|---|
| fan-out under `execMu.RLock` (pipeline.go 129-147) | `StartFanOut`, `SendNext`, `EndFanOut` |
| `XAdd` with its 10 ms and its approximate trimming (157-169) | `XAdd` |
| `SubscribeExecutions`, `UnsubscribeExecutions` (174-192) | the actions of those names, guarded by `WriteLock` |
| `/opportunities` (gateway.go 168-209) | `Show`, `Disconnect` |
| `RunConsumer`, `flushStreams` (264-353) | `Tick`, `StartRead`, `ReadBatch`, `ReadFails`, `StopConsumer` |
| `Insert` and what is done with its result (333-348) | `InsertSucceeds`, `InsertFails` |

`ReadFails` may end any read, but nothing makes it: `XRead` has `Block: 0`, for which
go-redis sets no deadline, and a client without `ContextTimeoutEnabled`
(`internal/redis/client.go` 26-33) does not watch the context of a call under way.
`InsertSucceeds` inserts every row of its batch; a row that does not parse is skipped
by the copier, but all rows were marshalled by `PublishExecution` and do parse.

Entries are named by their position in the stream; the consumer reads both
streams of its map of cursors in any order, one of which nothing writes to.

### FixSession

`pc[o]` is where `SubmitIOC` of order `o` is, `reader` and `heart` where the two
loops are.  A message takes its number in one step (`BuildMessage`, under `seqMu`)
and reaches `wire` in another (`WriteMessage`, under `connMu`).  `unread` of the
messages on the wire still fill the sockets, which hold `SendBuf`; with no room
left a write waits, and all other writers with it.

| code | actions |
|---|---|
| `Connect` (fix.go 93-134) | `Connect` |
| `SubmitIOC` (181-248) | `CheckConnected`, `Register`, `BuildOrder`, `WriteOrder`, `TakeReport`, `GiveUp`, `Deregister` |
| `readLoop` (250-285), `handleExecutionReport` (287-318) | `ReadReport`, `DeliverReport`, `ReadTestRequest`, `Reply`, `ReadHeartbeat`, `ReadLogout`, `ReadFails` |
| `heartbeatLoop` (320-335) | `Beat`, `BuildHeartbeat`, `WriteHeartbeat` |
| `HealthCheck` (371-384) | the operator `Healthy`; `HeartbeatAges` is the passing of two intervals |
| the counterparty and TCP (not in the repository) | `VenueReads`, `VenueAccepts`, `VenueFills`, `VenueEnds`, `VenueBeats`, `VenueLogsOut`, `Break` |

### RestAdapters, Host

`RestAdapters` follows an order through both goroutines of `submitIOC`: `caller[o]`
is the engine's, `adapter[o]` the one it starts, which routes the order through the
registry to an adapter and hands its answer over in `resultCh[o]`.  `venue[o]` is
the order at the venue, as a status and a list of events; the venue may move on
while a response is under way.

| code | actions |
|---|---|
| `submitIOC` (engine.go 379-432) | `Call`, `Returns`, `TimerFires`, and of its goroutine `Hands` |
| `AdapterRegistry.SubmitIOC`, requests that cannot be built | `Refused`, `Posts` |
| errors of transport, status or decoding | `Fails`, and `Aborted` by the context |
| the response of Binance or Kraken, the order id of Alpaca | `Responds`, through `FillByStatus` and `KrakenFill` |
| `pollUntilTerminal` (alpaca.go 173-212) | `PollEnds`, `Fails`, `Aborted` |
| `SyntheticAdapter.SubmitIOC` | `SyntheticFills` |
| the venues (not in the repository) | `VenueReceives`, `VenueExecutes`, `VenueCancels` |

`Host` is the process around them: `main` is where `main` is, `check` the call of
`HealthCheckAll` under way, `gateway` the server, `copying` whether the stream
consumer holds a connection of the pool.

| code | actions |
|---|---|
| startup and health gate (main.go 38-118) | `Connects`, `PassesGate` |
| `HealthCheckAll` (adapter.go 123-132) | `StartCheck`, `HealthCheck`, `DeadlinePasses` |
| signal, cancel, grace, deferred `Close` (main.go 42, 147-161) | `Signal`, `Cancels`, `GraceEnds`, `ClosesPool` |
| `Insert` as far as `main` waits for it | `StartsCopy`, `EndsCopy`, `AbortsCopy` |
| `/health` and the server (gateway.go) | `HealthRequest`, `HealthAnswered`, `ServerEnds` |

### FeedManager, Detector, MarketData

`feed[v]` is where `runFeed` and `readLoop` of venue `v` are, `conn[v]` whether it
holds a connection.  `quotes[v][s]` has the age of a quote in steps of time; one
that is too old is forgotten, since no scan reads it again.  `sending` holds the feeds
inside `PublishTick`: between its look at the subscribers and its send a feed has
`tickMu` for reading, and what takes it for writing, `SubscribeTicks` and the
`UnsubscribeTicks` that closes the channel, waits (`TickWriteLock`).

| code | actions |
|---|---|
| `runFeed` (feed_manager.go 121-169) | `FeedStops`, `StartAttempt`, `BackoffOver`, `BackoffCancelled`, `DialFails`, `DialSucceeds`, `Dropped` |
| `readLoop` (174-215) | `ReadDrops`, `ReadCancelled`, `ReadMessage` |
| `PublishTick` (pipeline.go 198-216) | `PublishTick` up to its send, `SendTick` (as `HandOver` of a feed) |
| `Detector.Start` (detector.go 56-74) | `Subscribe`, `Stop` |
| `onTick`, `scanSymbol`, `calcQuantity` (76-257) | `OnTick`, through `Scan` and `Notional` |

The spread in basis points and the confidence are quotients; they are compared
after multiplying out, so the arithmetic is exact.  Sizes are fractions over
`Unit`.  `Scan` is a set, because the code ranges over a map and of two equal
prices either may be seen first.

## 4. What TLC checks

| run | shows | bounds |
|---|---|---|
| `Risk` | overshoot of the loss limit and of the drawdown limit within one worst loss per executor, the peak misses only what reversals gained, a breach trips the switch | 2 executors, 1 operator with resets, 3 fills of -2 or 1, 2 reversals of -1 or 1 |
| `ExecFaults` | nothing hedged beyond leg 1, what is left open is what venues executed unseen or ends in a kill switch, unhedged means tripped, the switch agrees with its reason, whatever is queued resolves, the symbol is always released | 1 opportunity of 2 lots, all kinds of answers, 1 operator, shutdown at any point |
| `ExecThree` | one execution per symbol, the overshoot of the loss and drawdown limits bounded by symbols, the books agree and the counters count, a tripped switch admits nobody, refinement of `ArbLifecycle` | 3 opportunities of 1 lot on 2 symbols, channel of capacity 1 |
| `EventStream` | no send on a closed channel, the cursor passes only what was inserted, a row is copied twice only after a failure or a restart, what stays in the stream is copied unless a read of the telemetry stream never returns, no client holds up a publisher | 2 events, 1 client with a channel of 1, stream trimmed to 1, batches of 2, 1 failure in a row, 1 restart |
| `FixSession` | sequence numbers without gap or repetition, a result never claims more than the venue did, every order returns and leaves the map, the reader is never wedged, a lost session is reported for good | 1 order of 2 lots, 1 heartbeat, 1 test request or heartbeat of the venue, sockets of 1 message, logout and break at any point |
| `MarketData` | the circuit follows the connection, no tick is sent on a closed channel, the scan finds the best pair with a size within limits, feeds reconnect, cancelling stops everything | 2 feeds and any quotes of a third venue, 1 symbol, 4 books of which one is invalid, tick channel of 1, quotes fresh until time passes, sizes of 60 to 120 limited to 75 and 100 |
| `Venues` | every answer of an adapter is one the engine is modelled over, `submitIOC` and its goroutine end, a signal ends the process | 1 order of 2 lots, one venue of each kind and an unknown name, one `/health` at a time |
| `ExecReversedFlat` (violation) | a late fill of leg 2 leaves a position behind REVERSED | 1 opportunity of 2 lots |
| `ExecMissed` (violation) | a partly filled first leg is published as MISSED | 1 opportunity of 2 lots |
| `StreamTrim` (violation) | an entry whose insert failed is trimmed before the retry | 3 events, no client, stream trimmed to 2, batches of 2 |
| `StreamStuck` (violation) | the consumer waits for ever on the telemetry stream and an appended execution is never copied | 1 event, no client, no restart |
| `FixStalled` (violation) | an order waits in its write for a venue that stops reading, whatever its context | 1 order of 1 lot, sockets of 1 message, which the Logon fills |

Why the bounds are enough.  Two lots are the least quantity with a partial fill;
every quantity is compared only with sums and differences of others, so more lots
add no new order of values.  Two opportunities on one symbol and one on another
are the least with both a conflict and independent progress; the channel of
capacity one is full as soon as one waits.  Loss amounts are chosen so that the
overshoot reaches its bound exactly (limit 2, worst loss 2: -2 - 2 * 2).  With a
gain of 1 as the other amount, a peak and a drawdown from it come about.

In `EventStream` two events are the least of which one can be trimmed, or read,
while the other is not; batches of two let an insert cover one or both.  A second
start is the least with a re-read from the beginning.  In `FixSession` an order, a
heartbeat and a reply are three writers that compete for sequence numbers; a
second order adds only another of the same kind, since orders share nothing but
the numbers and the map keyed by their own id; sockets of one message are full
after any write.  In `MarketData` `SomeBooks` has a
pair of prices wide enough but of a size under the lower limit, and therefore zero,
one whose size is within the limits and one that meets the upper limit, and a quote
without a bid; time is counted in the least steps that tell a fresh quote
from an old one; the third venue makes a best pair that is not unique.  In
`Venues` orders share nothing, so one order stands for all; two lots can fill in
part before the venue cancels the rest, and one of each kind of venue is enough for
a probe that uses up the deadline of the next.

Deadlock is not checked where the system may stop: when all opportunities are
done, when the process has exited, faulted or may not be started again, when the
session is gone, when every feed has stopped, when the process has ended.

### Divergences from comments, not each with a run

The five violation runs are the disagreements between code and comments that
matter most.  Others found while modelling, for the reader of the code:
`TripKillSwitch` "is an atomic operation" (risk.go 173) that writes the switch and
then, under the mutex, the reason, and so does `ResetKillSwitch`.  A reset whose two
writes fall between those of a trip leaves the switch safe with a reason; a whole
trip between the two writes of a reset leaves it tripped without one.
`TripKillSwitch` is said to permit no new executions (risk.go 174), but the switch
is read once per opportunity, and a goroutine already past `ValidateOpportunity`
still sends its first leg; `TrippedAdmitsNobody` says what does hold.
`HealthCheckAll` gives all venues one deadline, so behind one that does not answer
`/health` reports as failed venues that are well, although gateway.go 246 speaks of
"real per-adapter health"; what it reports depends on the order of a map.
`pollUntilTerminal` stops at `partially_filled` (alpaca.go 176), although its
comment (169-171) names as final only that status followed by `expired`; the FIX
adapter takes as the answer even a report that only acknowledges the order.
`lastHeartbeat` is set by TestRequests and Heartbeats alone (fix.go 271-278), so a
busy session whose venue sends reports instead of heartbeats looks stale to
`HealthCheck` (380).  `Connect` does not wait for the answer to its Logon.  A
signal during startup is not read before everything runs, and the ping of the
database pool has no deadline (main.go 38); a gateway that cannot listen is only
logged (main.go 132).  `cmd/pipelinetest` uses `fmt` without importing it.
`dailyPnL` and `peakPnL` are read in two critical sections, so a gain booked in
between shows a drawdown that never was and can trip the switch (risk.go 118-139);
a reversal may book a gain (engine.go 466-480), although the comment at risk.go 167
says slippage is negative, after which the daily figure exceeds the peak, by no more
than `PeakMissesOnlyReversals` says; after a partial leg 2 the
result of the hedged part is booked nowhere (engine.go 362); the context is
cancelled before "Waiting for in-flight operations to complete" is logged
(main.go 154-158), which ends every wait at once.  The header of risk.go (4-8)
says every parameter is enforced there; `MaxLatencyMS`, `MaxOrdersPerSec` and
`KillSwitchArmed` are not read.  A feed's state is OPEN as soon as the connection is
up (feed_manager.go 157), although the comment at 117 says "successful connect +
first message", and HALF_OPEN after any number of failures although 119 says fewer
than five; a feed cancelled in its backoff leaves HALF_OPEN behind (141-142).  `executionRow`'s JSON
tags (copier.go 125) are not the names `ExecutionEvent` is marshalled with.  FIX
numbers are taken and written under different mutexes, so two messages may reach
the wire in the opposite order of their numbers (fix.go 141, 171);
`SequenceAccounted` says what does hold: none is skipped or used twice.

## 5. Fairness

Safety needs none.  For liveness, `Fairness` of `ExecutionEngine` is weak fairness
of the loop's receive and, for each opportunity's goroutine, of its next step:
the Go scheduler runs a runnable goroutine eventually, and a goroutine inside
`submitIOC` is always runnable in the end because its timer fires.  Venues owe no
answer, operators no call, the detector no opportunity.  `RiskCallers` assumes the
same of a goroutine inside an operation.

* `EventStream`: publishers and the consumer are scheduled (weak fairness of each
  step).  Redis and the database fail only for a time: strong fairness of
  `ReadBatch` and of `InsertSucceeds`, since each failed try leads to another and
  the action is enabled again and again.  Clients owe nothing: `PublishReturns`
  holds for a client that never reads.  `ReadFails` has no fairness, so a read that
  finds nothing may wait for ever, which is what `CopiedUnlessReadBlocks` makes an
  exception of and `StreamStuck` exhibits.
* `FixSession`: the order's goroutine, the read loop and the heartbeat loop are
  scheduled.  `GiveUp` is a step of the order's goroutine: its context has a
  deadline, given by `submitIOC`.  `VenueKeepsReading` is an assumption about the
  counterparty, named so that it can be taken away: `FixStalled` shows what
  happens without it.  The venue owes nothing else, neither reports nor heartbeats,
  and the connection need not break.
* `MarketData`: a feed is scheduled in every state but waiting for a message, and
  in that one too after the context is cancelled, because the read deadline of
  half a second ends it; strong fairness, as a feed that is handed message after
  message is back at the head of its loop after each, where it looks at the context.
  A send never waits, so `HandOver` is weakly fair.  Strong fairness of `DialSucceeds` says that a venue is
  not out of reach for ever; without it nothing could be promised.  The detector
  owes its subscription and its end.
* `Host`: timers and deadlines pass; `main`, the callers and their goroutines are
  scheduled where the code owes the step.  A COPY whose context is cancelled is
  aborted, as pgx watches its context.  The steps that depend on others have no
  fairness: `Connects`, the answers of venues to orders and probes, a COPY that the
  database need not finish, requests to the gateway.

## 6. What is proved

Theorems hold for every number of executors, operators and symbols, every limit
and every set of amounts that satisfies the assumptions named in the modules.

* `RiskCallersProofs!TypeCorrect`: the type invariant.
* `RiskCallersProofs!OvershootBounded`: the daily loss exceeds its limit by no
  more than one worst loss per executor.  The bound is not inductive; the
  invariant is `OvershootBudget`, in which what is left of the overshoot counts
  only the executors *not* committed.  A check that admits an executor finds the
  figure within the limit, so all places are free (`RiskOnlyBudget`); a booking
  spends at most the worst loss and gives its place back (`BookingBudget`).
* `DrawdownBounded`: so does the drawdown its limit.  The inductive form,
  `DrawdownBudget`, counts the executors not `Admitted`: who was let pass, or holds
  a daily figure that the present peak would let pass.  Whoever is admitted by a
  stale figure was counted when it read it, with the figure within the limit and
  all places free; and a peak that rises meanwhile is the current figure itself, so
  that no drawdown is left, and lets nobody pass that it did not before.
* `ReasonFollowsSwitch` and `FirstReasonKept`: without resets the switch and the
  reason agree, and the reason is never overwritten.  The invariant `TripInv` says
  that at most one goroutine is between its compare-and-swap and its write.
* `PeakMisses`: whatever reversals cost or gain, the daily figure is above the peak by
  no more than a bound on their gain for each of them.

The theorems on the execution engine rest on these invariants, each proved
inductive; `BaseInv` is their conjunction.

| invariant | says | carries |
|---|---|---|
| `GuardInv` | an opportunity in `oppCh` is there once and is `queued`; whoever is between taking and deleting the mark has its symbol in `inFlight`, and has it alone | `ExecutionProofs!OneInFlight` |
| `AnnounceInv` | the outcome is decided before it is published, and published before the mark goes | `ExecutionProofs!ImplementsLifecycle` |
| `FlowInv` | at each point of `executeTwoLeg`, what was asked of each order against what the earlier ones reported | `ExecutionProofs!NeverOverhedged`, `EndsFlatUpToUnseen` |
| `SeenInv` | nothing is reported that the venue did not execute, and nothing before it answered | `EndsFlatUpToUnseen` |
| `RpcInv` | where the goroutine is in the risk engine: accepted from validation to booking, idle once it has nothing to book | `LimitProofs!ImplementsCallers`, `TrippedAdmits` |
| `RiskTypeOK` | types of the risk engine | `LimitProofs!EngineTypes`, with `HostInv` |

* `OneInFlight` is not inductive without `GuardInv`: the second goroutine of a
  symbol is kept out because the first one's mark is in the set, and the mark is
  only deleted by its owner because no other goroutine has it.
* `ImplementsLifecycle`: every step moves one opportunity along the control flow
  (`Moves`, `Decides`) or none.  Each edge is a step of `ArbLifecycle` or a
  stutter; opening needs the mutual exclusion of the state *after* the step.
* `EndsFlatUpToUnseen` takes a fact from each branch: a missed leg sends nothing more,
  a clean execution reported leg 2 in full, a reversal what leg 2 left.  What the
  engine counted therefore adds up, and what is open is the difference of what it did
  not see; `SeenInv` says that none of these is negative.  That something may be open
  behind REVERSED at all is what `ExecReversedFlat` shows.
* `BooksMatch` needs the sum of what the executions between their two bookings
  still owe the risk engine.  A sum over a set is recursive, and no prover here can
  use the library's induction; `IsTotal` says it without: a set adds up to the
  figure it has in *every* relation that gives nothing 0 and grows with each
  execution.  Adding one and removing one are lemmas (`TotalAdd`, `TotalRemove`),
  and `BooksInv`, that the engine's book is ahead by that total, is inductive.
  `CountInv` is the counters': what was booked stays decided as it was
  (`BookedMoves`).
* `ImplementsCallers`: the execution engine implements `RiskCallers` with one executor
  per *symbol*.  `PerSymbol` shows at each symbol the opportunity that holds its
  mark, and an idle caller when none does; what makes this a function of the state
  is the mutual exclusion of `GuardInv`, and what makes a mark taken or deleted
  invisible is that whoever takes or deletes it is idle in the risk engine (`RpcInv`).
  `Cleared` was found missing by the proof: a figure read under check and the reason
  of a trip are dropped when the operation ends, so an idle goroutine shows nothing.
  Taking the mark and the first step of `ValidateOpportunity` are one step of the
  symbol's executor (`AcquireSeen`); a booking offers an amount `RiskCallers` allows,
  and there is room for it, as an opportunity books at most once (`RoomToBook`).
* So what is proved of the callers holds of the symbols.  `OvershootPerSymbol` is
  `OvershootBounded` and `DrawdownBounded` carried over: both limits are overshot
  by no more than one worst loss per symbol, however many opportunities there are.
  It assumes `WorstLossAssumption`: no execution of at most the requested quantity
  loses more than `WorstLoss`.  `ReasonsRecorded` is `ReasonFollowsSwitch` and
  `FirstReasonKept`, for an engine whose operators do not reset.
* `UnhedgedTrips`: who decides `KILL_SWITCH` goes on to trip, and leaves the trip
  only past the compare-and-swap.  `TrippedAdmits`: under a tripped switch the
  only way into trading, `LoadKillSwitch`, is shut.

The other groups, each with invariants of its own:

* `FixSessionProofs!SequenceNumbersAccounted`: inductive together with the types and
  `HeldInv`, which says that a writer holds a number exactly between building and
  writing its message: a number is then either held by one writer or on the wire.
* `FixSessionProofs!ResultsMatchVenue`: by `HonestInv`, that every report on its way
  (in `inbound`, in the reader's hands, in a channel, in a result) is true of the
  order at the venue; the venue only moves on in ways that keep it true (`Later`).
* `FixSessionProofs!ContractMet`: from the same invariant, every result is an answer
  of `AdapterContract` for whatever the venue may still execute (`FinalTotals`).
* `HostProofs!ContractMet`: the same of the adapters without a session, where an
  adapter may answer in each way the contract knows (`AllKinds`).  `OrderInv` relates
  the events of the order at its venue to the answer: what an answer read from a
  status through with the order says, the order keeps.  It also needs that a
  call not yet made has no goroutine (`caller[o] = "idle" => adapter[o] = "none"`),
  without which a second call could post the order again.  The quantity is a sum over events,
  a recursive function; that it exists, is unique and grows with each event
  (`SumExists`, `SumsAgree`, `ExecutedAppend`) is proved with `Induction`, which states
  induction for a *set* of naturals and follows from counting: with a gap, adding one
  maps the finite set below the gap into itself without its zero.
* `HostProofs!HostTypes`: calls, venues and the process keep their types; no call is
  told of, and no venue executes, more than was asked for.
* `EventStreamProofs!ClosedChannelsAreLeft`: by `SubsInv`: the registered clients
  are those that have not run their deferred `UnsubscribeExecutions`, each once,
  and no fan-out under way has a closed channel left to send to, since the write
  lock of closing excludes the read lock of sending.
* `EventStreamProofs!NothingIsSkipped`: by `BatchInv`: up to the last entry of a batch
  under way everything is inserted, trimmed or in the batch.
* `EventStreamProofs!CopiedOnceWithoutFailure`: by `OnceInv`: in the first life of the
  process, what is inserted beyond the cursor was inserted by a try that failed.
* `MarketDataProofs!CircuitIsTheConnections`: by `CircuitInv`, with the two places at
  which the circuit may be open without a connection, and the two at which it may be
  half open.
* `MarketDataProofs!TicksFindTheChannelOpen`: by `SendingInv`: who is about to send is
  reading from its venue and has a detector to send to, since the detector cannot
  take the write lock meanwhile.
* `MarketDataProofs!ScanIsBest`: what is worth an opportunity stays so at a lower ask
  and a higher bid (`WorthwhileMonotone`), so the best ask and the best bid decide
  for all pairs; and one venue cannot hold both if no book is crossed
  (`NotWorthCrossing`).  The two premises are that the exchanges are finitely many
  and that no book has its bid above its ask.  The type invariant carries that a
  fresh quote is what some message said (`QuotesGood`).
* `TypeCorrect` of each of the three modules.

The two `ContractMet` theorems close the argument about orders: the theorems on the
execution engine hold for every answer in `AdapterContract`, and no adapter of the
repository answers anything else.

Assumptions on constants, all evaluated by TLC in every run: besides numbers and
finiteness, that operators are neither opportunities nor symbols
(`ExecutionAssumption`; goroutines of handlers and of executions are different), and
that the registry holds finitely many adapters (`RestAssumption`).

Only model-checked: liveness and fairness, which are outside the prover.  Every
invariant and every action property of the passing runs is stated by a theorem.
`RefinesCallers` is the other way about: TLC confirmed it once, on the instance of
`ExecThree` (801475 states, five minutes), which is too long for a run, so it is
only proved.

## 7. What is not modelled

* Wire formats, signatures, prices on the book, logging and HTTP are abstracted.
* `/events` and `/ws` of the gateway, `PublishTelemetry` and the subscribers of
  telemetry frames: nothing calls `PublishTelemetry`, so they never receive a frame.
* `FeedHealth`'s counters, read only by `GetHealth`, the jitter of the backoff and
  the WebSocket handshake.
* The columns and the parsing of the copier's rows; a transaction commits or not.
* The nonce of Kraken, the time in milliseconds: two orders of one millisecond carry
  the same one.
* `config` is read once; its values are the CONSTANTS.  `cmd/pipelinetest` and
  `cmd/smoketest` drive the components above in a straight line, and the tests are
  read as a reference.

What is left is input, output and formatting, or code that no part of the system
calls.
