# A verification project for arb_bot

TLA+ models of the funding-arbitrage bot (`src/`, Go), TLC configurations that
check them on small instances, and TLAPS proofs of what matters most for every
value of the constants.

The bot connects to up to four exchanges, derives a synthetic funding rate from
every order book it receives, looks for a pair of exchanges whose rates differ
enough to pay for a long and a short position, opens a paper position, and
closes it when its funding instant comes. History goes to Redis.

## 1. Inventory of the system

| Part (source) | State | Operations | Talks to |
|---|---|---|---|
| Public connectors (`exchange/public_ws.go`), a goroutine each | the connection, the snapshot just parsed | dial, subscribe, read, answer pings, parse, send, leave, reconnect | the channel `updates` (capacity 1024, blocking send) |
| Market data store (`marketdata/orderbook.go`) | newest snapshot per (symbol, exchange) | `Apply`, `Snapshot`, `IsFresh` | written by the runtime's loop, read by the scanner and the API |
| Funding store (`funding/store.go`) | newest funding snapshot per (symbol, exchange) | `ApplySyntheticFromOrderBook`, `Snapshot` | the same |
| Estimator (`strategy/`) | none | `EstimateFunding` | called by the scanner for every ordered pair of exchanges |
| Risk engine (`risk/engine.go`) | none; reads the wall clock and the context | `Check` | called by the scanner |
| Execution engine (`execution/engine.go`) | none | `Execute`: paper, or two concurrent `PlaceOrder` calls | connectors |
| Position book, opportunity log (`state/`) | open positions by id; bounded history; bounded records | `Add`, `Update`, `Close`, `HasOpen`, `Summary` | scanner, API |
| Scanner (`app/scanner.go`), one goroutine | none of its own between two updates | `OnOrderBookUpdate`: detect, check, execute, refresh | all of the above, storage |
| Storage (`storage/redis.go`), one goroutine | channel `events` (4096, dropping send), two capped lists in Redis | `Enqueue`, `Run`, `writeEvent` | Redis |
| Runtime (`app/runtime.go`) | context, wait group | start, `runScanner`, shutdown | everything |
| Admin API (`api/server.go`) | none | read-only views | stores |
| Configuration (`app/config.go`) | none | `LoadConfig` | `main` |

Where it is hard:

* **Three clocks.** A snapshot carries the bot's time of parsing. The scanner's
  `now` is the stamp *of the update being handled*, which may have waited; the
  risk engine and the execution read the wall clock. Freshness, the next funding
  window, the hold time and the closing time come from stamps; the margin to the
  funding instant and the opening time come from the clock.
* **Order.** One connector's stamps do not go back, but those of several do
  when one of them waited for room in the channel.
* **Look up, then act.** A pair is looked up before the risk check and the
  execution; the position is stored afterwards under an id built from a stamp.
* **Partial data.** A message replaces the whole book. A Bybit delta may leave
  one side empty, and then positions on it are neither marked nor closed.
* **Bounds.** `updates` blocks the connectors when full; `events` drops; history
  and records are cut; Redis lists are trimmed.
* **Failure.** Orders that fail, hang or are placed although their answer says
  otherwise; Redis writes that are lost, repeated or applied in part; connections
  that break at any call or fall silent; a crash, a shutdown in the middle of
  anything, and an admin server that cannot listen.
* **Waiting.** The scanner waits for orders, the connectors wait for the scanner
  on the full channel, and `Run` waits for all of them.
* **State in place of structure.** The configuration loader forgets the
  indentation of the lines it reads and keeps three variables instead.

What makes each part correct, beyond its types:

* stores, scanner: a position is opened on fresh books; at most one position per
  pair and never two that undo each other; carry is credited only across a
  funding instant and once per instant; what is due and can be closed is closed;
  open positions are marked to the stored books;
* estimator, risk: the quantity sized can be filled, is priced at the best fill,
  and no leg exceeds the trade limit; one direction only;
* connectors, runtime: handlers return, no connector starves or gives up, a
  cancellation stops everything;
* storage: the saved history is in order, complete, and credits no funding
  instant twice, over restarts too;
* execution: the reported outcome never claims an order that does not exist, an
  order that may exist is reported as such, nothing of one execution reaches the
  next; no position is open whose orders failed;
* configuration: a file means what it means as YAML, and a bad number stops the
  start.

`PROJECT.json` lists the hazards one by one at their lines, with the properties
that cover them and those that nothing covers yet.

## 2. Modules

| Module | Models | Uses |
|---|---|---|
| `MarketData` | parsing, the two stores, synthetic funding: operators only | |
| `FundingEstimator` | `EstimateFunding` and the risk engine's checks: operators only | `MarketData` |
| `Storage` | the event queue, the writer, Redis | |
| `Scanner` | connectors reduced to their read loop, channel, scanner, position book, execution, composed with `Storage`; `Spec`, `FairSpec` | both |
| `FundingLedger` | abstract specification: positions are opened on free pairs before their funding instant and settled at or after it | |
| `ScannerProperties` | every property of the pipeline; the refinement of `FundingLedger` | `Scanner` |
| `ScannerProofs` | theorems and proofs about `Scanner` | `ScannerProperties` |
| `MarkingProofs` | the same: what the refresh of the open positions leaves behind | `ScannerProofs` |
| `Restart` | `Scanner` with crashes: memory is lost, Redis stays; the refinement of `HistoryLog` | `MCScanner` |
| `HistoryLog` | abstract specification: a best-effort log of the positions, in order, which forgets its oldest entries for newer ones only | |
| `RestartProofs` | theorems and proofs about the history in Redis | `Restart`, `ScannerProofs` |
| `LogProofs` | the proof that queue, writer and Redis implement `HistoryLog` | `RestartProofs` |
| `Context` | the context shared by all goroutines | |
| `Connectors` | `PublicWSConnector.Start` and `run` in full, books only counted | `Context` |
| `OrderPair` | abstract specification: what an execution may report of its two orders | |
| `Execution` | `Engine.Execute` in live mode; the refinement of `OrderPair` | `Context` |
| `Runtime` | `Runtime.Run`: every goroutine and its end, composed of the two; `Spec`, `FairSpec` and the properties | `Connectors`, `Execution` |
| `RuntimeProofs` | theorems and proofs about `Runtime` | `Runtime` |
| `ConfigLoader` | `LoadConfig`, one line at a time | |
| `ConfigProofs` | theorems and proofs about `ConfigLoader` and its reference meaning | `MCConfig` |
| `EstimatorProofs` | theorems and proofs about sizing and pricing | `MCEstimator` |
| `MCScanner`, `MCEstimator`, `MCConfig` | values of constants for TLC; the reference definitions for the estimator and for the loader | |

The system is modelled at two levels of detail. `Scanner` has the contents of the
books and everything the scanner does with them, and connectors that only read
and send. `Runtime` has all the steps of the connectors, of a live execution and
of the shutdown, and a scanner that only takes updates and executes. Both have
the channel `updates`, and the reductions are of control that ends by itself.

How state and steps correspond to the code:

* `books`, `funding` are sets with at most one snapshot per (symbol, exchange),
  the code's nested maps. `open` is the map `PositionBook.open`, a set of
  positions with distinct ids; `history` and `records` are the bounded slices.
* `Parse`, `Send`, `Abort`, `Leave` are the read loop of one connector. Both
  branches of its last `select` may be taken once the context is cancelled.
* `Receive` is one turn of `runScanner`. `Detect`/`DetectNothing`, `Approve`/
  `Reject` and `Execute` are the parts of `OnOrderBookUpdate`; then
  `refreshPositions` visits copies of the symbol's open positions one at a time,
  `Skip`, `Hold` or `Close` for each, and `Return` ends the handler. It is split
  where a different clock or the context is read. The stores need no finer
  steps: only the scanner's goroutine writes them.
* The `storage.Enqueue` calls of a step wait in `outbox` and are made one by one
  (`EnqueueNext`) before the scanner goes on, so that the writer may take an
  event in between.
* Maps are iterated in any order: of several best opportunities any may win, and
  positions are refreshed in any order. If the best pair is held already, the
  code does not try the second best; nor does the model.

* `phase[x]` of `Connectors` is the call that connector is in. `Failed` is the
  error return of `run` together with the test in `Start`; `Resume` is the end of
  the two seconds' pause. A dial or a request whose context is cancelled fails,
  and then `Start` ends; one under way may still succeed. Control frames and
  messages that are no book end `Read` without a send.
* `orders[leg]` of `Execution` is where the goroutine of that leg is. `TakeOrder`
  belongs to the exchange: it may come before the answer, without an answer that
  says so, or after the connector gave up. `Answer` puts the response into the
  channel; `Collect` is one turn of the loop, `ReturnResult` what follows it.
* `Running` of `Runtime` is what the wait group counts. `Trade` submits an order
  in place of any other handling of an update; in "paper" mode it never happens.
* `section`, `exchange`, `listKey` and `cfg` of `ConfigLoader` are the variables
  of `LoadConfig`. One action per kind of line: `Item`, three kinds of headers,
  and three kinds of lines with a value.
* `Crash` of `Restart` is a death of the process together with its new start:
  `NewRuntime` builds everything empty and reads nothing back.

Abstractions. Prices are integers in half ticks (all even, so that a midpoint is
exact), quantities are lots, percentages are multiples of 1/`PctUnit`; amounts
made of a percentage stay multiplied by `PctUnit`. The code's float rounding is
not modelled, in particular a comparison that holds only up to the last bit.
Volume-weighted prices are kept as the cost of the leg. `MaxTradeUSD` is rounded
down to whole lots, and a configuration whose limit is below one lot is not
represented; nor is the code's zero for "no limit", except in the risk check.
Ids are tuples instead of strings; the separators dropped by the code do not
confuse any two configured symbols.

Findings on the way that have no run: `/pnl` adds up the newest 100 closed
positions, so that its realized total forgets the older ones; the expected profit
leaves out the spread that closing both legs pays, so that an approved trade may
lose money on unchanged books; an answer without an error counts as an order
whatever its status says; a header that the configuration loader does not know
leaves the section as it was, so that `mode: live` under a foreign header after
`trading:` switches the mode; after the first signal further ones are captured as
well (`signal.NotifyContext`), so that a shutdown that hangs can only be killed; `missing_funding_window` cannot happen
(`SyntheticSnapshot` always sets the window); "analysis" mode opens paper
positions like "paper"; `trading.enabled`, the daily limits and `max_slippage_pct`
are read from the configuration and never consulted; fees enter the decision but
never a position's realized result. With the shipped configuration the rate
difference of at most 0.018 % per interval (the jitter is the same on every
exchange and cancels out) is far below the entry costs, so that no position is
ever opened: the instances below use lower thresholds, lower fees relative to the
rate and a larger rate, as the tests of the repository do.

## 3. Runs

All of `MCScanner`'s instances have one symbol and two exchanges, "okx" with a
negative and "bybit" with a positive rate, so that long okx, short bybit is the
profitable pair. One symbol suffices for the safety properties: books, positions
and refreshes of different symbols touch no common entry except the bounded lists. `ChannelCap` = 1 makes a full channel the normal case, and a
connector that waits for room then holds a snapshot older than those of others.

| Run | Checks | Bounds, and why they suffice |
|---|---|---|
| `timing` | `TypeOK`, `OnePositionPerPair`, `FundingEarned`, `EachFundingOnce`, `LedgerKept` | clock 0..4, interval 3: detection at every offset before, on and after a funding instant, the next position opened for the next instant; hold time 3; risk margin 2; a pause of 1 between check and execution |
| `prices` | `NoOppositePositions`, `NeverDeteriorates`, `MarkedToMarket`, `NothingDueIsLeft` | bybit's prices cross okx's, okx loses its bids; clock 0..1, one funding instant: a position is opened, marked to other prices, due, held back by a missing side and closed |
| `storage` | `SavedInOrder`, `CreditedOnceInRedis`, `LogKept` | `Restart`; queue and list so short that drops, cuts, lost trims and repeated pushes all occur; any number of crashes while the list has at most `MaxSaved` = 2 entries (before and after the close is saved), clock 0..1: a position is opened, forgotten or closed, and its pair opened again |
| `liveness` | `ScannerNeverStuck`, `HandlerReturns`, `NoConnectorStarves`, `ScannerStops` | `FairSpec`; steady books, cancellation at any moment, clock 0..1: a position is opened, held and closed, and two connectors compete for a channel of one. Lost sides of books are left to `prices`: they add no wait, since a position is skipped, held or closed in one step |
| `runtime` | `RuntimeTypeOK`, `NoOrderLeftBehind`, `ReportIsTrue`, `KeepsConnecting`, `RunReturns` | `FairSpec` of `Runtime`; "kucoin", which resolves its endpoint first, waits for a channel of one while the scanner waits for live orders; no bound on the number of failures, executions or updates. One connector suffices here: the executions do not know of the others, several connectors before a full channel are in `full_channel`, and the three safety properties are proved for every set of them |
| `full_channel` | `KeepsConnecting`, `RunReturns` | `FairSpec` of `Runtime`; "okx" and "kucoin" (with and without an endpoint to resolve) fail at any call and compete for a channel of one: a third waiter would only be behind the second. On paper: what a live execution adds to the wait is in `runtime` |
| `config` | `LoadedAsWritten`, `FailsOnBadNumber` | every document of up to six lines made of seven headers, seven lines with a value and two items: two sections with two exchanges, a list followed by a section, fees given in part |
| `estimator` | `DepthSuffices`, `BestFill`, `LegsWithinLimit`, `OneDirection` | every pair of sides of up to three levels, deletions included, depth limit 2: the reference enumerates all fills |
| `stale_entry` | `FreshWhenExecuted` violated | design document 6.3 and 6.4 ask for fresh data before a trade |
| `live_orders` | `OpenMeansPlaced` violated | design document 6.5: reconcile is mandatory |
| `lost_history` | `NothingLost` violated | README: data is not lost after a restart |
| `shutdown` | `RunReturns` violated | one exchange may fall silent; design document 6.1: every external call has a deadline |

`LedgerKept`, `ReportIsTrue` and `LogKept` are refinements. `FundingLedger` sees
the clock and, of every open position, its pair, its opening and its target;
`OrderPair` sees the outcome ("pending" while `Execute` runs), the orders that
exist, and the legs the returned result holds; `HistoryLog` sees the records
handed over (the queue, with the calls still to be made behind it) and the list
in Redis. What `SavedInOrder` says of one position `LogKept` says of the whole
list: its entries stand in the order in which they were handed over, none is made
up, and the oldest fall out only where `HistoryLimit` entries remain.

`config` compares the loader with a definition that never looks at the order of
sections or at what was read before: it finds each line's place by indentation.
It is right for documents of the shape of `configs/local.yaml` (`WellPlaced`),
keys written once, and not for any YAML: comments after a value, lists in
brackets, sections within sections and a value that is the empty string are
beyond the loader. An exchange whose key is the empty string is excluded as well:
to the loader `exchange == ""` means that none is open, and it drops the values
below such a header (the first attempt at the proof below stopped there). No value is validated; in particular nothing checks that
`max_hold_time_minutes` covers `funding_interval_minutes`, on which section 5
depends.

`MaxClock`, `MaxPause` and `MaxSaved` are bounds of the model. `MaxPause` is the longest time
between the risk check and the execution, microseconds in practice; the timing
run gives it a whole tick. The clock is taken to be monotone: the code compares
UTC times that have lost their monotonic reading, and a clock set back while the
bot runs is outside the model.

The bounds are kept small enough for every run to end within half a minute on
two cores, so that the whole set can be run after each change.

Deadlock is checked where the system runs for ever. Runs that allow a
cancellation switch the check off because everything really stops;
`estimator` and `config` because the enumeration of inputs ends.

Every property of a passing run has a mutant in `PROJECT.json`: a changed
definition under which TLC finds it violated. The mutated forms stand before the
definitions they replace, marked "a broken variant".

What the runs show beyond their verdicts: out-of-order stamps do *not* break
`EachFundingOnce` (the risk check against the wall clock prevents it); the exit
for a deteriorated carry is dead code; and so are the rejections for insufficient
depth, as far as integer lots go: where a float sum is rounded, a quantity equal
to the whole depth may miss it by the last bit.

A tick of the clock stands for many readings that differ in the code. So equal
stamps here do not mean one reading there, and properties that hold, hold in spite
of it. Whether ids are unique is not asked: they hold nanoseconds in the code, and
a repetition among ticks would say nothing of the program.

Assumed of Redis (in `Storage`): a write the client gave up on takes effect
before every later write, or never. A server that applies the bytes of an
abandoned connection after those of the next could invert a position's history.

`CreditedOnceInRedis` holds although a restart forgets the open position: the
forgotten one is never closed, and the one opened in its place is the only one of
its pair to be credited for that instant. What a restart does leave behind is a
position that the saved history shows as open for ever.

## 4. Fairness

`Fairness` assumes that runnable goroutines run: the scanner, the storage
writer, and a connector that holds a parsed snapshot. The last one needs strong
fairness: the channel has room again and again but not continuously, and Go
serves blocked senders in turn. Nothing is assumed of the exchanges, of the
clock, or of a cancellation: `Parse` and `Leave` need a message, which may never
come.

For the scanner the condition is written `<>[]ScannerReady => []<><<Scan>>_vars`
instead of `WF_vars(Scan)`: it is the same formula with `ENABLED` spelled out,
because TLC evaluates `ENABLED` of the whole scanner slowly. `ScannerReady` says
that the goroutine is in a handler, or in its `select` with a case to take; the
invariant `ScannerNeverStuck` of the same run checks that this is exactly
`ENABLED <<Scan>>_vars`.

In `Runtime` weak fairness is assumed of everything that ends by itself: the HTTP
request and the dial (10 seconds each), the subscription (a few small writes into
a new connection), the pause, the order timer, a connector's answer to an order
whose context is done, the scanner, the writer (each Redis call has a timeout),
the admin server's end, and `Run`. A read ends if its exchange goes on sending or
the connection breaks, so weak fairness is assumed of it except for the exchanges
in `Silent`; `shutdown` puts one there and `RunReturns` fails. Senders are served
in turn (strong fairness). Nothing is assumed of signals, of the admin server's
failure, or of the outcome of any call: a connector may fail for ever. That
`PlaceOrder` honours its context (`HonoursContext`) is what `Execute` relies on;
the connectors of the repository answer at once.

## 5. Proofs

The proof modules are checked by TLAPS: `ScannerProofs`, `MarkingProofs`,
`RestartProofs`, `LogProofs` and `RuntimeProofs` for every set of exchanges and symbols, all
books they may publish, every limit and every capacity; `ConfigProofs` for
documents of any length over any keys, values and number texts; `EstimatorProofs`
for books of any length over any prices, quantities, fees and limits. The only
assumptions are those named in the modules (`MarketAssumption`,
`EstimatorAssumption`, `ScannerAssumption`, `StorageAssumption`,
`ConnectorsAssumption`, `RuntimeAssumption`, `BooksAssumption`; none for the
loader).

| Theorem | Statement |
|---|---|
| `TypeCorrect` | `Spec => []TypeOK` |
| `OnePerPair` | `Spec => []OnePositionPerPair` |
| `NoOpposites` | `Spec => []NoOppositePositions` |
| `DeteriorationIsDead` | `Spec => []NeverDeteriorates` |
| `CarryIsEarned` | `Spec => []FundingEarned`, under the two conditions below |
| `CarryIsEarnedOnce` | `Spec => []EachFundingOnce`, under the same |
| `ImplementsLedger` | `Spec => LedgerKept`, the refinement of `FundingLedger`, under the same |
| `PositionsAreMarked` | `Spec => []MarkedToMarket` |
| `DuePositionsAreClosed` | `Spec => []NothingDueIsLeft` |
| `HistoryIsInOrder` | `RestartSpec => []SavedInOrder`, under the same two conditions |
| `HistoryCreditsOnce` | `RestartSpec => []CreditedOnceInRedis`, under the same |
| `ImplementsLog` | `RestartSpec => LogKept`, the refinement of `HistoryLog`, with no condition |
| `RuntimeTypes` | `Spec => []RuntimeTypeOK`, of `Runtime` |
| `OrdersAreCollected` | `Spec => []NoOrderLeftBehind` |
| `ReportsAreTrue` | `Spec => ReportIsTrue`, the refinement of `OrderPair` |
| `LoadsAsWritten` | `Spec => []LoadedAsWritten`, of `MCConfig` |
| `OnlyBadNumbersFail` | `Spec => []FailsOnBadNumber` |
| `SizedWithinDepth` | `Spec => []DepthSuffices`, of `MCEstimator` |
| `PricedAtBest` | `Spec => []BestFill` |
| `LegsAreWithinLimit` | `Spec => []LegsWithinLimit`, if one lot is affordable at every price |
| `NotBothDirections` | `Spec => []OneDirection`, if costs are not negative or carry is demanded |

*Positions* (`BookInv`). `OnePositionPerPair` is not inductive: at `Execute`
nothing in the state says that the pair is still free. The invariant adds that
the candidate between `Detect` and `Execute` has no open position on its pair
and its synthetic rate, that every open position carries its pair in its id (so
that replacing by id and removing by id touch one pair), that what is still to
be refreshed is open, and that every stored rate is the synthetic one. A rate
depends on exchange and symbol only; since the rate of an open position was
positive when it was opened, it still is: the deteriorated exit is dead, and the
opposite position would need the negated rate to be positive.

*Funding* (`FundingInv`). No stamp is later than the clock; so whatever closed
at or after its target did so in the past. `Approve` puts the target at least
`MinTimeToFunding` after the clock and `Execute` comes at most `MaxPause` later:
a new target is later than now, hence than every target closed before. Targets
are at most an interval ahead of the opening, so a position that is due by its
hold time is due by its target too. This needs `HoldCoversFunding`
(`MaxHoldTime >= FundingInterval`; the defaults are 9 and 8 hours, and the code
checks neither) and `MarginCoversPause` (`MaxPause < MinTimeToFunding`; the
margin is 15 minutes). The run `timing` satisfies both with equality or one tick
to spare. With a shorter hold time the code credits a full carry to a position
that never saw its funding instant.

*Ledger.* Under `FundingInv` every step of `Scanner` is one of `FundingLedger` or
leaves it alone: `Execute` opens, since `CandidateOK` says that the pair is free
and `TargetOK` that its instant is to come; `Close` settles; `Hold` replaces a
position by one of the same contract. That a pair is held once makes a set of
contracts an image of the book that loses no position.

*Executions* (`ExecInv`). `NoOrderLeftBehind` says nothing while `Execute` runs.
The invariant counts: answers collected, answers in the channel and orders with
their goroutines are two in all (`AllCounted`), so that two collected answers
mean an empty channel and no goroutine left. `NothingForgotten` follows each
answer: a failure is in the status or still in the channel, a success in the
result or still in the channel. Together they give what `OrderPair` asks of
`ReturnResult`, and of an order that appears after it: its leg failed, so the
status is needs_reconcile and the result does not hold it.

*Marking* (`MarkInv`). Between two updates every position is marked, but while
one is handled those of its symbol are not: their books have just changed. The
invariant says of every open position, at every moment, that it is marked to the
stored books or belongs to the symbol of the update and is still to be refreshed
(`MarkedOrPending`), and the same of the due ones (`DueIsPending`). It rests on
the stores having one snapshot per key (`OnePerKey`), so that an update changes
the books of its own symbol only, and on the candidate being of that symbol
(`BestOfUpdate`), so that a new position is visited by the refresh that follows.

*History* (`SavedInv`). Records exist in three places on their way: the calls
still to be made, the channel and the list in Redis. `InOrder` says that none of
them, nor any two of them, hold an opening behind the closing of the same
position; a lost, repeated or half-done write, a full queue and a trim all leave
copies of one value in front of a beginning of the old list (`OnTop`). New
records cannot break the order because of the clock: a record that says closed
was opened strictly before its target and its target has come
(`ClosedInThePast`), and a record that says open is written with the present
time of opening. A crash empties everything but the list, so every fact about an
open position must be derivable again from the list and the clock. That no instant is
credited twice needs `OpenIsLater`: an open position's target is later than every
credited target of its pair, whether its process still knows of it or not,
because a new target is later than now (`FundingInv`) and a credited one is not.

*Log* (`LogInv`). Nothing about times or positions is needed: that the list is a
log is a matter of the queue and the writer alone. Every outcome of a write is
some copies of the value on a beginning of the old list (`Layered`), and either
the whole old list is there or the limit is reached: pushing keeps both
(`PushedIsLayered`), a trim establishes the second (`TrimmedIsLayered`), and the
outcomes of repeated attempts are made of the two. A call that moves from the
outbox into the queue changes nothing in the concatenation of both, one that is
dropped is missing from its middle (`SameElements`, `OneLess`). The one thing to
know of the scanner is `CallsMade`: a step that makes calls finds those of
earlier steps made, else it would take records back that were handed over.
`Approve` and `Execute` do not wait for calls, so this rests on `Detect`, which
does, and holds at "check" and "execute" only by induction.

*Loader* (`ConfigInv`). A document that follows the rules is a tree of at most
three levels (`Nested`). Call a line open while all lines after it are further
in. The three variables are exactly what the next line needs to know of the open
lines: `section` is the key of the open line at the margin, `exchange` that of
the open header below it if the section has exchanges, `listKey` tells whether
the open header is the list of symbols (`SectionIsOpen`, `ExchangeIsOpen`,
`ListIsOpen`). So a line is read as what its indentation makes it (`NextLine`),
it is one of six kinds (`Kinds`), and each kind changes one part of the
configuration as the meaning of the longer document asks: keys written once make
a value the only one at its path, an exchange that is listed has no values yet,
and an item is new in the list exactly if no earlier one has its value. The
meaning is stated with sets and functions instead of folds over the lines, so
that no induction is needed but that of the behaviour.

*Estimator* (`BooksInv`). The state only says that asks ascend and bids descend;
the work is in the two loops over the levels. A loop is a recursive function, and
three general lemmas make it usable: `SetInduction` (a set of numbers with 0 and
all successors holds every number, because a least missing one would have a
predecessor), `Recursion` (a function defined by steps exists) and, from them,
the values of the running sum, of the running fill and of the parser
(`TotalFacts`, `FillFacts`, `ParseFacts`). `ParseFacts` says that a parsed side is
drawn from the raw one in its order (`DrawnFrom`), so it is sorted too.
`SizedWithinDepth` holds in integer lots, as everything here: the running fill
equals the running sum until it reaches the quantity wanted, and the quantity is at
most the sum. `PricedAtBest` is an
exchange argument: after every level the greedy fill is ahead of any other by a
lead, and its extra cost so far is at most the lead at the price of that level
(`Exchange`); at the end both have filled the same, the lead is 0 and so is the
bound. A seller is the same with prices negated. `LegsAreWithinLimit` needs
`LotsAffordable`, every price at most `MaxTradeUSD`: a limit below the price of
one lot is skipped by `minPositive` here, while in the code, which sizes in
fractions of a coin, that quotient is positive. Then the quantity at the dearer of
the two best prices is within the limit, and bids only get cheaper from the
best. `NotBothDirections` needs `CarryMustPay`: a demanded carry, or fees and a
basis risk that are not negative (the defaults have both); then a worthwhile
trade has a positive carry, whose sign is that of the difference of two rates
that no book changes.

TLC checked `BookInv`, `FundingInv`, `MarkInv`, `SavedInv`, `LogInv`, `ConfigInv`
and `BooksInv` as invariants of the runs' instances before they were proved.

Only model-checked: liveness (`HandlerReturns`, `NoConnectorStarves`,
`ScannerStops`, `KeepsConnecting`, `RunReturns`) and `ScannerNeverStuck`, since
fairness and `ENABLED` are beyond the prover. Every other invariant and action
property of a passing run is a theorem.

## 6. Not modelled

The text of messages, and what an exchange means by a delta (nothing in the
repository says); the API's handlers, each a read of one store under one lock;
the contents of the opportunity list and the hash of latest books in Redis; the
syntax of configuration lines below key and value; logging and the log level;
order lookup and balances, which always fail and are never called; the stub
connector, which nothing constructs; the image, the scripts and the tests.
`PROJECT.json` gives the reasons part by part.

## 7. Plan

1. *Storage*: the opportunity list beside the position list, if a document comes
   to promise that they agree.
2. *Liveness*: `full_channel` with live orders, when a run of a quarter of a
   million states under fairness is affordable.
