-------------------------- MODULE FundingEstimator --------------------------
(***************************************************************************)
(* The two filters an opportunity passes before it is executed: the        *)
(* estimator (internal/strategy/funding.go) and the risk engine            *)
(* (internal/risk/engine.go).                                              *)
(*                                                                         *)
(* The code keeps volume-weighted entry prices; this module keeps the cost *)
(* of the whole leg, quantity * price, so that no division is needed.      *)
(* Amounts derived from a percentage (carry, fees, buffer, net profit) are *)
(* kept multiplied by PctUnit, for the same reason.                        *)
(***************************************************************************)
EXTENDS MarketData

CONSTANTS
  Fees,                 \* cfg.Fees: exchange -> taker fee, in percentage units
  MaxTradeUSD,          \* cfg.Risk.MaxTradeUSD
  MinProfitUSD,         \* cfg.Risk.MinProfitUSD, times PctUnit
  MinProfitPct,         \* cfg.Risk.MinProfitPct
  MaxDepthLevels,       \* cfg.Strategy.MaxDepthLevels
  BasisRiskPct,         \* cfg.Strategy.BasisRiskPct
  MinExpectedCarryUSD,  \* cfg.Strategy.MinExpectedCarryUSD, times PctUnit
  MinExpectedCarryPct,  \* cfg.Strategy.MinExpectedCarryPct
  MinTimeToFunding      \* cfg.Strategy.MinTimeToFunding

ASSUME EstimatorAssumption ==
  /\ \A x \in DOMAIN Fees : Fees[x] \in Int
  /\ {MaxTradeUSD, MinProfitUSD, MinProfitPct, MaxDepthLevels, BasisRiskPct,
      MinExpectedCarryUSD, MinExpectedCarryPct, MinTimeToFunding} \subseteq Int

-----------------------------------------------------------------------------
(* Sizing and pricing one leg against the book.                            *)

MaxDepth == IF MaxDepthLevels <= 0 THEN 5 ELSE MaxDepthLevels

TopLevels(levels) == SubSeq(levels, 1, Min({Len(levels), MaxDepth}))

Total(values) ==
  LET total[n \in 0..Len(values)] == IF n = 0 THEN 0 ELSE total[n - 1] + values[n]
  IN  total[Len(values)]

\* The quantity of the whole book (a broken variant).
SumAllQuantity(levels) == Total([i \in DOMAIN levels |-> levels[i].quantity])

SumQuantity(levels) ==
  Total([i \in DOMAIN TopLevels(levels) |->
           IF levels[i].quantity > 0 THEN levels[i].quantity ELSE 0])

\* Zero and negative bounds are skipped, not taken as the minimum.
MinPositive(values) ==
  LET positive == {v \in values : v > 0}
  IN  IF positive = {} THEN 0 ELSE Min(positive)

\* vwapForQuantity: take from the best level downwards until qty is filled.
\* Without the cap at what is still wanted (a broken variant).
TakeWholeLevel(acc, l, qty) ==
  IF acc.filled >= qty THEN acc
  ELSE [cost |-> acc.cost + l.quantity * l.price, filled |-> acc.filled + l.quantity]

TakeLevel(acc, l, qty) ==
  IF l.price <= 0 \/ l.quantity <= 0
  THEN acc
  ELSE LET taken == Min({l.quantity, qty - acc.filled})
       IN  [cost |-> acc.cost + taken * l.price, filled |-> acc.filled + taken]

FillFor(levels, qty) ==
  LET fill[n \in 0..Len(TopLevels(levels))] ==
        IF n = 0 THEN [cost |-> 0, filled |-> 0] ELSE TakeLevel(fill[n - 1], levels[n], qty)
  IN  fill[Len(TopLevels(levels))]

\* The mean price is known only if the levels fill the whole quantity.
Filled(levels, qty) == qty > 0 /\ FillFor(levels, qty).filled >= qty

LegCost(levels, qty) == FillFor(levels, qty).cost

MaxQtyByNotional(longBook, shortBook) ==
  MaxTradeUSD \div Max({longBook.asks[1].price, shortBook.bids[1].price})

TargetQty(longBook, shortBook) ==
  MinPositive({SumQuantity(longBook.asks), SumQuantity(shortBook.bids),
               MaxQtyByNotional(longBook, shortBook)})

-----------------------------------------------------------------------------
(* EstimateFunding.                                                        *)

TakerFeePct(x) == IF x \in DOMAIN Fees THEN Fees[x] ELSE PctUnit \div 1000

\* The carry if the long leg forgot to pay its own funding (a broken variant).
CarryIgnoringLongLeg(qty, longFunding, shortFunding) ==
  qty * longFunding.mark * shortFunding.predicted

ExpectedCarry(qty, longFunding, shortFunding) ==
  qty * longFunding.mark * (shortFunding.predicted - longFunding.predicted)

NetProfit(carry, entryCost, buffer) == carry - 2 * entryCost - buffer

Usable(longBook, shortBook) ==
  /\ longBook.asks # <<>> /\ shortBook.bids # <<>>
  /\ longBook.asks[1].price > 0 /\ longBook.asks[1].quantity > 0
  /\ shortBook.bids[1].price > 0 /\ shortBook.bids[1].quantity > 0

MinTime(a, b) == IF a < b THEN a ELSE b

\* `qty` is the TargetQty of the two books.
Opportunity(longBook, shortBook, longFunding, shortFunding, qty, now) ==
  LET longCost  == LegCost(longBook.asks, qty)
      shortCost == LegCost(shortBook.bids, qty)
      notional  == Max({longCost, shortCost})
      carry     == ExpectedCarry(qty, longFunding, shortFunding)
      entryCost == longCost * TakerFeePct(longBook.exchange)
                     + shortCost * TakerFeePct(shortBook.exchange)
  IN  [symbol     |-> longBook.symbol,
       long       |-> longBook.exchange,
       short      |-> shortBook.exchange,
       detectedAt |-> now,
       target     |-> MinTime(longFunding.next, shortFunding.next),
       rate       |-> shortFunding.predicted - longFunding.predicted,
       qty        |-> qty,
       longCost   |-> longCost,
       shortCost  |-> shortCost,
       notional   |-> notional,
       carry      |-> carry,
       net        |-> NetProfit(carry, entryCost, notional * BasisRiskPct)]

\* Every rejection of EstimateFunding.  A funding snapshot always has a window
\* (SyntheticSnapshot), so "missing_funding_window" cannot happen.
Worthwhile(longBook, shortBook, opportunity) ==
  /\ opportunity.qty > 0
  /\ Filled(longBook.asks, opportunity.qty)
  /\ Filled(shortBook.bids, opportunity.qty)
  /\ opportunity.carry >= MinExpectedCarryUSD
  /\ opportunity.net > 0
  /\ opportunity.net >= MinExpectedCarryPct * opportunity.notional

-----------------------------------------------------------------------------
(* The risk engine; `wall` is the time at which Check runs.                *)

\* Measured from the detection instead of the clock (a broken variant).
WindowOpenAtDetection(opportunity, wall) ==
  MinTimeToFunding > 0 => opportunity.target - opportunity.detectedAt >= MinTimeToFunding

FundingWindowOpen(opportunity, wall) ==
  MinTimeToFunding > 0 => opportunity.target - wall >= MinTimeToFunding

\* The estimator's sizing taken as the limit (a broken variant).
PositiveNotional(opportunity) == opportunity.longCost > 0

WithinTradeLimit(opportunity) ==
  /\ opportunity.longCost > 0
  /\ MaxTradeUSD > 0 => opportunity.longCost <= MaxTradeUSD

RiskApproves(opportunity, wall) ==
  /\ WithinTradeLimit(opportunity)
  /\ opportunity.net >= MinProfitUSD
  /\ opportunity.net >= MinProfitPct * opportunity.notional
  /\ opportunity.long # opportunity.short
  /\ opportunity.qty > 0
  /\ FundingWindowOpen(opportunity, wall)
  /\ opportunity.rate > 0
=============================================================================
