------------------------- MODULE ScannerProperties -------------------------
(***************************************************************************)
(* What the pipeline of Scanner promises.                                  *)
(***************************************************************************)
EXTENDS Scanner

\* The control part of the state has its types.  Amounts of money are left out:
\* they are whatever the estimator computes.
IsFunding(f) ==
  /\ f.exchange \in Exchanges /\ f.symbol \in Symbols
  /\ f.predicted \in Int /\ f.next \in Nat

IsOpportunity(o) ==
  /\ o.symbol \in Symbols /\ o.long \in Exchanges /\ o.short \in Exchanges
  /\ o.detectedAt \in Nat /\ o.target \in Nat /\ o.rate \in Int

IsPosition(p) ==
  /\ {"id", "symbol", "long", "short", "openedAt", "target"} \subseteq DOMAIN p
  /\ p.id \in Symbols \X Exchanges \X Exchanges \X Nat
  /\ p.symbol \in Symbols /\ p.long \in Exchanges /\ p.short \in Exchanges
  /\ p.openedAt \in Nat /\ p.target \in Nat

FeedTypeOK ==
  /\ clock \in Nat /\ cancelled \in BOOLEAN /\ reading \subseteq Exchanges
  /\ parsed \subseteq OrderBookSnapshot
  /\ updates \in Seq(OrderBookSnapshot)
  /\ books \subseteq OrderBookSnapshot
  /\ \A f \in funding : IsFunding(f)

LedgerTypeOK ==
  /\ \A p \in open : IsPosition(p)
  /\ history \in Seq(Range(history))
  /\ \A i \in DOMAIN history : IsPosition(history[i].position) /\ history[i].closedAt \in Nat

HandlerTypeOK ==
  /\ pc \in {"idle", "detect", "check", "execute", "refresh", "stopped"}
  /\ pc \in {"detect", "check", "execute", "refresh"} => update \in OrderBookSnapshot
  /\ pc \in {"check", "execute"} => IsOpportunity(best)
  /\ checkedAt \in Nat
  /\ \A p \in todo : IsPosition(p)

TypeOK == FeedTypeOK /\ LedgerTypeOK /\ HandlerTypeOK

-----------------------------------------------------------------------------
SamePair(p, q) == p.symbol = q.symbol /\ p.long = q.long /\ p.short = q.short

\* At most one open position per (symbol, long, short), although HasOpen is
\* asked before the risk check and the position is added after the execution.
OnePositionPerPair == \A p, q \in open : SamePair(p, q) => p = q

\* Two open positions never undo each other: the same two exchanges, the legs
\* exchanged.  HasOpen does not ask about the opposite pair.
NoOppositePositions ==
  \A p, q \in open : ~(p.symbol = q.symbol /\ p.long = q.short /\ p.short = q.long)

\* The expected carry is credited only to a position that was open before its
\* funding instant and closed at or after it, whether it was closed because the
\* instant came or because it was held too long.
FundingEarned ==
  \A i \in DOMAIN history :
    LET h == history[i] IN
    h.accrued # 0 => h.position.openedAt < h.position.target /\ h.position.target <= h.closedAt

\* No funding instant is credited twice to the same pair: each position of a pair
\* has a later instant than every position of that pair closed before it.
EachFundingOnce ==
  /\ \A i, j \in DOMAIN history :
       i < j /\ SamePair(history[i].position, history[j].position)
         => history[j].position.target < history[i].position.target
  /\ \A p \in open : \A i \in DOMAIN history :
       SamePair(p, history[i].position) => history[i].position.target < p.target

\* The exit for a deteriorated carry is dead code: a pair's synthetic rate never
\* changes sign while a position on it is open.
NeverDeteriorates ==
  \A i \in DOMAIN history : history[i].reason # "carry_deteriorated"

\* Between two updates /positions and /pnl show every open position marked to the
\* books in the store, if both exit sides are quoted.
MarkedToMarket ==
  pc = "idle" =>
    \A p \in open : ExitQuoted(p) => p.unrealized = Unrealized(p)

\* Its funding instant has come, or it has been held for MaxHoldTime.
Due(p) == update.at >= p.target \/ update.at - p.openedAt >= MaxHoldTime

\* When the refresh of a symbol is over no open position of it is still due,
\* unless one of its exit sides has no quote.
NothingDueIsLeft ==
  pc = "refresh" /\ todo = {} =>
    \A p \in OpenBySymbol(open, update.symbol) : ExitQuoted(p) => ~Due(p)

-----------------------------------------------------------------------------
(* The abstract specification.                                             *)

Contract(p) ==
  [pair |-> <<p.symbol, p.long, p.short>>, openedAt |-> p.openedAt, target |-> p.target]

Ledger == INSTANCE FundingLedger WITH now <- clock, held <- {Contract(p) : p \in open}

\* The scanner implements the ledger: every position is opened on a free pair before
\* its funding instant, and closed, with its carry, at or after it.
LedgerKept == Ledger!Spec

-----------------------------------------------------------------------------
(* Progress; the liveness properties are under FairSpec.                   *)

\* The scanner has a next step exactly when its goroutine is runnable: no case of
\* the handler is forgotten, and none waits for something.
ScannerNeverStuck == ScannerReady <=> ENABLED <<Scan>>_vars

\* The handler of every update returns.
HandlerReturns == pc = "detect" ~> pc = "idle"

\* A parsed snapshot is sent or, after a cancellation, given up: no connector is
\* starved by the others while the channel is full.
NoConnectorStarves ==
  \A x \in Exchanges : InFlight(x) # {} ~> InFlight(x) = {}

\* The scanner stops once the context is cancelled, whatever is in the channel.
ScannerStops == cancelled ~> pc = "stopped"

-----------------------------------------------------------------------------
(* The history in Redis.                                                   *)

\* Whatever was dropped, repeated or failed, the saved history of a position never
\* says that it opened after it closed.  (A position is known here by its id and its
\* time of opening: several updates may carry one stamp of the coarse clock.)
SavedInOrder ==
  \A i, j \in DOMAIN redis :
    LET newer == redis[i]
        older == redis[j]
    IN  i < j /\ newer.id = older.id /\ newer.openedAt = older.openedAt
          => ~(newer.status = "open" /\ older.status = "closed")

-----------------------------------------------------------------------------
(* What the documents say of the program and its code does not do.         *)

\* Before a trade the age of the market data is checked (design document, 6.4):
\* the books of both legs are fresh when the position is opened.  The code
\* measures their age from the update's stamp, and the update may have waited.
FreshWhenExecuted ==
  [][Execute => \A x \in {best.long, best.short} : IsFresh(Book(best.symbol, x), clock)]_vars

\* A live position is not opened on the orders' responses alone (design document,
\* 6.5): no position is open whose orders both failed.
OpenMeansPlaced ==
  \A p \in open : \A i \in DOMAIN records :
    records[i].id = p.id => records[i].status # "needs_reconcile"

\* Restarting the containers loses no history (README, "Server Deploy"): what was
\* closed in memory is closed in Redis once the bot has stopped.
NothingLost ==
  pc = "stopped" /\ writer = "down" =>
    \A i \in DOMAIN history : \E j \in DOMAIN redis :
      redis[j] = Saved(history[i].position, "closed")

=============================================================================
