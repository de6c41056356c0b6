------------------------------ MODULE Scanner ------------------------------
(***************************************************************************)
(* The pipeline of the bot: connectors parse order books and send them     *)
(* through one bounded channel to the scanner, a single goroutine that     *)
(* opens and closes paper positions; the storage writer runs beside it.    *)
(*                                                                         *)
(* Handling one update is split where time may pass or another goroutine   *)
(* may act in a way that matters: the choice of the best opportunity, the  *)
(* risk check (which reads the clock and the context), the execution       *)
(* (which reads the clock again), and the refresh of each open position.   *)
(*                                                                         *)
(* Bound of the model, not of the code: MaxClock.                          *)
(***************************************************************************)
EXTENDS FundingEstimator, Storage

CONSTANTS
  MaxHoldTime,    \* cfg.Strategy.MaxHoldTime
  PositionLimit,  \* limit of NewPositionBook (100)
  LogLimit,       \* limit of NewOpportunityLog (100)
  ChannelCap,     \* capacity of the channel `updates` (1024)
  Mode,           \* cfg.Mode: only "live" places orders
  MayCancel,      \* whether the run's context may be cancelled
  MaxPause,       \* longest time between the risk check and the execution
  MaxClock,       \* the clock stops here
  None            \* no update, no opportunity

ASSUME ScannerAssumption ==
  /\ MaxHoldTime \in Nat
  /\ {PositionLimit, LogLimit, ChannelCap} \subseteq Nat \ {0}
  /\ Mode \in {"analysis", "paper", "live"}
  /\ MayCancel \in BOOLEAN
  /\ MaxPause \in Nat
  /\ MaxClock \in Nat

VARIABLES
  clock,      \* wall clock, in UTC
  cancelled,  \* ctx.Done() of Runtime.Run is closed
  reading,    \* connectors that have not left their read loop
  parsed,     \* snapshots parsed and not sent yet, one per connector at most
  updates,    \* the channel `updates`
  books,      \* marketdata.Store
  funding,    \* funding.Store
  open,       \* PositionBook.open: positions with distinct ids
  history,    \* PositionBook.history: closed positions, newest first
  records,    \* OpportunityLog.records, newest first
  pc,         \* where the scanner's goroutine is
  update,     \* the update being handled
  best,       \* the opportunity being considered
  checkedAt,  \* Decision.CheckedAt of the approved opportunity
  todo        \* refreshPositions: copies of open positions still to visit

envVars     == <<clock, cancelled>>
feedVars    == <<reading, parsed>>
marketVars  == <<books, funding>>
ledgerVars  == <<open, history, records>>
handlerVars == <<pc, update, best, checkedAt, todo>>
vars        == <<envVars, feedVars, updates, marketVars, ledgerVars, handlerVars, storageVars>>

Init ==
  /\ clock = 0 /\ cancelled = FALSE
  /\ reading = Exchanges /\ parsed = {} /\ updates = <<>>
  /\ books = {} /\ funding = {}
  /\ open = {} /\ history = <<>> /\ records = <<>>
  /\ pc = "idle" /\ update = None /\ best = None /\ checkedAt = 0 /\ todo = {}
  /\ StorageInit

-----------------------------------------------------------------------------
(* Time and shutdown.                                                      *)

Tick ==
  /\ clock < MaxClock
  /\ pc = "execute" => clock < checkedAt + MaxPause
  /\ clock' = clock + 1
  /\ UNCHANGED <<cancelled, feedVars, updates, marketVars, ledgerVars, handlerVars, storageVars>>

\* A signal, or the admin server failing to listen.
Cancel ==
  /\ MayCancel /\ ~cancelled
  /\ cancelled' = TRUE
  /\ UNCHANGED <<clock, feedVars, updates, marketVars, ledgerVars, handlerVars, storageVars>>

-----------------------------------------------------------------------------
(* Connectors: the read loop of PublicWSConnector.run.                     *)

InFlight(x) == {snapshot \in parsed : snapshot.exchange = x}

\* ReadMessage returns a book.  A connector that was waiting for a message when
\* the context was cancelled still parses that message.
Parse(x) ==
  /\ x \in reading
  /\ InFlight(x) = {}
  /\ \E s \in Symbols, q \in Quotes[x] :
       parsed' = parsed \cup {ParseSnapshot(x, s, q, clock)}
  /\ UNCHANGED <<envVars, reading, updates, marketVars, ledgerVars, handlerVars, storageVars>>

\* updates <- snapshot, when there is room; the loop then checks the context.
Send(x) ==
  /\ Len(updates) < ChannelCap
  /\ \E snapshot \in InFlight(x) :
       /\ updates' = Append(updates, snapshot)
       /\ parsed' = parsed \ {snapshot}
  /\ reading' = IF cancelled THEN reading \ {x} ELSE reading
  /\ UNCHANGED <<envVars, marketVars, ledgerVars, handlerVars, storageVars>>

\* A send that does not watch the context (a broken variant).
AbortNever(x) == FALSE /\ UNCHANGED vars

\* The other branch of the same select.
Abort(x) ==
  /\ cancelled
  /\ InFlight(x) # {}
  /\ parsed' = parsed \ InFlight(x)
  /\ reading' = reading \ {x}
  /\ UNCHANGED <<envVars, updates, marketVars, ledgerVars, handlerVars, storageVars>>

\* A message that is not a book, or a read error, ends the wait in ReadMessage
\* and the connector sees the context.  Before that, both only start a new wait.
Leave(x) ==
  /\ cancelled
  /\ x \in reading
  /\ InFlight(x) = {}
  /\ reading' = reading \ {x}
  /\ UNCHANGED <<envVars, parsed, updates, marketVars, ledgerVars, handlerVars, storageVars>>

-----------------------------------------------------------------------------
(* The position book and the opportunity log (internal/state).             *)

\* An id that forgets the time of detection (a broken variant).
PairID(o) == <<o.symbol, o.long, o.short>>

OpportunityID(o) == <<o.symbol, o.long, o.short, o.detectedAt>>

\* Never replacing (a broken variant).
PutIfAbsent(positions, p) ==
  IF \E q \in positions : q.id = p.id THEN positions ELSE positions \cup {p}

Put(positions, p) == {q \in positions : q.id # p.id} \cup {p}

\* Asking for this very opportunity instead of its pair (a broken variant).
HasOpenID(o) == \E p \in open : p.id = OpportunityID(o)

HasOpen(o) ==
  \E p \in open : p.symbol = o.symbol /\ p.long = o.long /\ p.short = o.short

OpenBySymbol(positions, s) == {p \in positions : p.symbol = s}

\* Prepend and cut.
Remember(seq, entry, limit) ==
  LET longer == <<entry>> \o seq
  IN  SubSeq(longer, 1, Min({Len(longer), limit}))

-----------------------------------------------------------------------------
(* runScanner and OnOrderBookUpdate.                                       *)

\* One turn of the scanner's loop.  select may take an update although the
\* context is cancelled.
Receive ==
  /\ pc = "idle"
  /\ updates # <<>>
  /\ update'  = Head(updates)
  /\ updates' = Tail(updates)
  /\ books'   = ApplySnapshot(books, Head(updates))
  /\ funding' = ApplySnapshot(funding, SyntheticSnapshot(Head(updates)))
  /\ pc' = "detect"
  /\ Emit(<<[type |-> "orderbook", value |-> Head(updates)]>>)
  /\ UNCHANGED <<envVars, feedVars, ledgerVars, best, checkedAt, todo, events, redis, writer>>

Book(s, x) == Lookup(books, s, x)

FundingOf(s, x) == Lookup(funding, s, x)

Quoted(s, now) ==
  {x \in Exchanges : /\ Known(books, s, x) /\ IsFresh(Book(s, x), now)
                     /\ Known(funding, s, x)}

\* Every ordered pair of quoted exchanges, with the quantity to trade on it.
Trades(s, now) ==
  {[long |-> e[1], short |-> e[2], qty |-> TargetQty(Book(s, e[1]), Book(s, e[2]))] :
     e \in {e \in Quoted(s, now) \X Quoted(s, now) :
              e[1] # e[2] /\ Usable(Book(s, e[1]), Book(s, e[2]))}}

Estimate(s, t, now) ==
  Opportunity(Book(s, t.long), Book(s, t.short),
              FundingOf(s, t.long), FundingOf(s, t.short), t.qty, now)

\* `now` is the stamp of the update, not the clock.
Candidates ==
  {o \in {Estimate(update.symbol, t, update.at) : t \in Trades(update.symbol, update.at)} :
     Worthwhile(Book(o.symbol, o.long), Book(o.symbol, o.short), o)}

\* bestOpportunity ranges over maps: of two that promise the same net profit,
\* either may come first and stay.
BestOpportunities == {o \in Candidates : \A other \in Candidates : other.net <= o.net}

BeginRefresh(positions) ==
  /\ pc' = "refresh"
  /\ todo' = OpenBySymbol(positions, update.symbol)

Detect ==
  /\ pc = "detect"
  /\ outbox = <<>>
  /\ \E o \in BestOpportunities : ~HasOpen(o) /\ best' = o
  /\ pc' = "check"
  /\ UNCHANGED <<envVars, feedVars, updates, marketVars, ledgerVars, update, checkedAt, todo, storageVars>>

\* Nothing worthwhile, or the best pair is already held: the second best is
\* not considered.
DetectNothing ==
  /\ pc = "detect"
  /\ outbox = <<>>
  /\ BestOpportunities = {} \/ \E o \in BestOpportunities : HasOpen(o)
  /\ BeginRefresh(open)
  /\ UNCHANGED <<envVars, feedVars, updates, marketVars, ledgerVars, update, best, checkedAt, storageVars>>

Approve ==
  /\ pc = "check"
  /\ ~cancelled /\ RiskApproves(best, clock)
  /\ checkedAt' = clock
  /\ pc' = "execute"
  /\ UNCHANGED <<envVars, feedVars, updates, marketVars, ledgerVars, update, best, todo, storageVars>>

Reject ==
  /\ pc = "check"
  /\ cancelled \/ ~RiskApproves(best, clock)
  /\ best' = None
  /\ BeginRefresh(open)
  /\ UNCHANGED <<envVars, feedVars, updates, marketVars, ledgerVars, update, checkedAt, storageVars>>

\* Every connector of this build is a public one: PlaceOrder always fails.
AcceptsOrders(x) == FALSE

\* Execute returns no error when orders fail: it only marks the result.
ExecutionStatus(o) ==
  IF Mode # "live" THEN "paper_open"
  ELSE IF \A x \in {o.long, o.short} : AcceptsOrders(x) THEN "live_open"
  ELSE "needs_reconcile"

NewPosition(o, startedAt) ==
  [id |-> OpportunityID(o), symbol |-> o.symbol, long |-> o.long, short |-> o.short,
   qty |-> o.qty, longCost |-> o.longCost, shortCost |-> o.shortCost,
   openedAt |-> startedAt, target |-> o.target, carry |-> o.carry, unrealized |-> 0]

Saved(p, status) ==
  [id |-> p.id, openedAt |-> p.openedAt, target |-> p.target, status |-> status]

PositionEvent(p, status) == [type |-> "position", value |-> Saved(p, status)]

Execute ==
  /\ pc = "execute"
  /\ LET p == NewPosition(best, clock)
     IN  /\ open' = Put(open, p)
         /\ records' = Remember(records, [id |-> p.id, status |-> ExecutionStatus(best)], LogLimit)
         /\ Emit(<<[type |-> "opportunity", value |-> p.id], PositionEvent(p, "open")>>)
         /\ BeginRefresh(Put(open, p))
  /\ best' = None
  /\ checkedAt' = 0
  /\ UNCHANGED <<envVars, feedVars, updates, marketVars, history, update, events, redis, writer>>

-----------------------------------------------------------------------------
(* refreshPositions, one open position of the symbol at a time.  Neither   *)
(* the age of the books nor the wall clock matters here.                   *)

ExitQuoted(p) ==
  /\ Known(books, p.symbol, p.long)   /\ Book(p.symbol, p.long).bids # <<>>
  /\ Known(books, p.symbol, p.short)  /\ Book(p.symbol, p.short).asks # <<>>
  /\ Known(funding, p.symbol, p.long) /\ Known(funding, p.symbol, p.short)

Unrealized(p) ==
  (Book(p.symbol, p.long).bids[1].price * p.qty - p.longCost)
    + (p.shortCost - Book(p.symbol, p.short).asks[1].price * p.qty)

Deteriorated(p) == FundingOf(p.symbol, p.short).predicted - FundingOf(p.symbol, p.long).predicted <= 0

HeldTooLong(p) == update.at - p.openedAt >= MaxHoldTime

\* Either condition alone would keep the position (a broken variant).
StaysUntilBoth(p) == update.at < p.target \/ ~HeldTooLong(p)

\* Closing a moment before the funding instant (a broken variant).
StaysUntilNear(p) == update.at + 1 < p.target /\ ~HeldTooLong(p)

StaysOpen(p) == update.at < p.target /\ ~HeldTooLong(p)

CloseReason(p) ==
  IF Deteriorated(p) THEN "carry_deteriorated"
  ELSE IF HeldTooLong(p) THEN "max_hold_time"
  ELSE "funding_captured"

\* The whole expected carry is credited, whatever made the position due.
Accrued(p) == IF Deteriorated(p) THEN 0 ELSE p.carry

Closed(p) ==
  [position |-> [p EXCEPT !.unrealized = Unrealized(p)],
   closedAt |-> update.at,
   reason   |-> CloseReason(p),
   accrued  |-> Accrued(p),
   realized |-> Unrealized(p) * PctUnit + Accrued(p)]

Skip(p) ==
  /\ pc = "refresh" /\ outbox = <<>>
  /\ p \in todo
  /\ ~ExitQuoted(p)
  /\ todo' = todo \ {p}
  /\ UNCHANGED <<envVars, feedVars, updates, marketVars, ledgerVars, pc, update, best, checkedAt, storageVars>>

Hold(p) ==
  /\ pc = "refresh" /\ outbox = <<>>
  /\ p \in todo
  /\ ExitQuoted(p)
  /\ ~Deteriorated(p) /\ StaysOpen(p)
  /\ open' = Put(open, [p EXCEPT !.unrealized = Unrealized(p)])
  /\ todo' = todo \ {p}
  /\ UNCHANGED <<envVars, feedVars, updates, marketVars, history, records, pc, update, best, checkedAt, storageVars>>

Close(p) ==
  /\ pc = "refresh" /\ outbox = <<>>
  /\ p \in todo
  /\ ExitQuoted(p)
  /\ Deteriorated(p) \/ ~StaysOpen(p)
  /\ open' = {q \in open : q.id # p.id}
  /\ history' = Remember(history, Closed(p), PositionLimit)
  /\ Emit(<<PositionEvent(p, "closed")>>)
  /\ todo' = todo \ {p}
  /\ UNCHANGED <<envVars, feedVars, updates, marketVars, records, pc, update, best, checkedAt, events, redis, writer>>

\* The update is handled again while a pair is worthwhile (a broken variant).
ReturnWhenNothingLeft ==
  /\ pc = "refresh" /\ outbox = <<>>
  /\ todo = {}
  /\ pc' = IF Candidates = {} THEN "idle" ELSE "detect"
  /\ update' = IF Candidates = {} THEN None ELSE update
  /\ UNCHANGED <<envVars, feedVars, updates, marketVars, ledgerVars, best, checkedAt, todo, storageVars>>

\* OnOrderBookUpdate returns.
Return ==
  /\ pc = "refresh" /\ outbox = <<>>
  /\ todo = {}
  /\ pc' = "idle"
  /\ update' = None
  /\ UNCHANGED <<envVars, feedVars, updates, marketVars, ledgerVars, best, checkedAt, todo, storageVars>>

\* A default case ends the loop when nothing waits (a broken variant).
StopWhenEmpty ==
  /\ pc = "idle"
  /\ cancelled \/ updates = <<>>
  /\ pc' = "stopped"
  /\ UNCHANGED <<envVars, feedVars, updates, marketVars, ledgerVars, update, best, checkedAt, todo, storageVars>>

\* runScanner takes ctx.Done; what is left in the channel is never handled.
Stop ==
  /\ pc = "idle"
  /\ cancelled
  /\ pc' = "stopped"
  /\ UNCHANGED <<envVars, feedVars, updates, marketVars, ledgerVars, update, best, checkedAt, todo, storageVars>>

-----------------------------------------------------------------------------
Connect(x) == Parse(x) \/ Send(x) \/ Abort(x) \/ Leave(x)

EnqueueNext ==
  /\ Enqueue
  /\ UNCHANGED <<envVars, feedVars, updates, marketVars, ledgerVars, handlerVars>>

Scan ==
  \/ Receive \/ Detect \/ DetectNothing \/ Approve \/ Reject \/ Execute
  \/ \E p \in todo : Skip(p) \/ Hold(p) \/ Close(p)
  \/ Return \/ Stop
  \/ EnqueueNext

Write ==
  /\ WriteEvent \/ (cancelled /\ CloseWriter)
  /\ UNCHANGED <<envVars, feedVars, updates, marketVars, ledgerVars, handlerVars>>

Next == Tick \/ Cancel \/ (\E x \in Exchanges : Connect(x)) \/ Scan \/ Write

Spec == Init /\ [][Next]_vars

\* The scanner's goroutine is not blocked: in a handler it never is, and between
\* two handlers its select has a case to take.
ScannerReady ==
  \/ pc \in {"detect", "check", "execute", "refresh"}
  \/ pc = "idle" /\ (updates # <<>> \/ cancelled)

\* Runnable goroutines run: the scanner, the storage writer, and a connector with
\* a parsed snapshot, which competes with the others for room in the channel but
\* is served in turn (SF).  Nothing is assumed of the exchanges, of the clock or
\* of Cancel: a connector may stay for ever in ReadMessage, which has no deadline.
\* The first conjunct is WF_vars(Scan) with ENABLED <<Scan>>_vars spelled out.
Fairness ==
  /\ <>[]ScannerReady => []<><<Scan>>_vars
  /\ WF_vars(Write)
  /\ \A x \in Exchanges : SF_vars(Send(x) \/ Abort(x))

FairSpec == Spec /\ Fairness
=============================================================================
