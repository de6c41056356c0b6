---------------------------- MODULE MCEstimator ----------------------------
(***************************************************************************)
(* FundingEstimator against reference definitions, over every pair of      *)
(* books that can be written down one level at a time: the asks of the     *)
(* long side and the bids of the short side, best price first, deletions   *)
(* (quantity 0) included.                                                  *)
(***************************************************************************)
EXTENDS FundingEstimator

CONSTANTS
  Prices,        \* prices of the levels
  Quantities,    \* quantities of the levels
  MaxLevels,     \* levels of a side
  Spread         \* distance to the other side of the same book

ASSUME BooksAssumption ==
  /\ Prices \subseteq Nat /\ Quantities \subseteq Nat
  /\ MaxLevels \in Nat /\ Spread \in Nat
  /\ Symbols # {}

VARIABLES asks, bids

vars == <<asks, bids>>

Init == asks = <<>> /\ bids = <<>>

AddAsk(l) ==
  /\ Len(asks) < MaxLevels
  /\ asks # <<>> => Last(asks).price <= l.price
  /\ asks' = Append(asks, l)
  /\ UNCHANGED bids

AddBid(l) ==
  /\ Len(bids) < MaxLevels
  /\ bids # <<>> => Last(bids).price >= l.price
  /\ bids' = Append(bids, l)
  /\ UNCHANGED asks

Levels == [price : Prices, quantity : Quantities]

Next == \E l \in Levels : AddAsk(l) \/ AddBid(l)

Spec == Init /\ [][Next]_vars

-----------------------------------------------------------------------------
One(price) == <<[price |-> price, quantity |-> 1]>>

Symbol == CHOOSE s \in Symbols : TRUE

\* Long on htx and short on bybit: both synthetic rates are positive.
LongQuote  == [asks |-> asks, bids |-> IF asks = <<>> THEN <<>> ELSE One(asks[1].price - Spread)]
ShortQuote == [bids |-> bids, asks |-> IF bids = <<>> THEN <<>> ELSE One(bids[1].price + Spread)]

LongBook  == ParseSnapshot("htx", Symbol, LongQuote, 0)
ShortBook == ParseSnapshot("bybit", Symbol, ShortQuote, 0)

Detected(long, short) ==
  Opportunity(long, short, SyntheticSnapshot(long), SyntheticSnapshot(short),
              TargetQty(long, short), 0)

Accepted(long, short) == Usable(long, short) /\ Worthwhile(long, short, Detected(long, short))

Approved(long, short) == Accepted(long, short) /\ RiskApproves(Detected(long, short), 0)

\* All ways to take qty lots from the levels within reach, and their costs.
Fills(levels, qty) ==
  {f \in [DOMAIN TopLevels(levels) -> 0..qty] :
     /\ \A i \in DOMAIN f : f[i] <= levels[i].quantity
     /\ Total(f) = qty}

CostOf(levels, f) == Total([i \in DOMAIN f |-> f[i] * levels[i].price])

Costs(levels, qty) == {CostOf(levels, f) : f \in Fills(levels, qty)}

\* The quantity sized from two usable books can be filled on both of them: the
\* rejections "insufficient_long_depth" and "insufficient_short_depth" are dead.
DepthSuffices ==
  Usable(LongBook, ShortBook) =>
    LET qty == TargetQty(LongBook, ShortBook)
    IN  /\ qty > 0
        /\ Filled(LongBook.asks, qty) /\ Filled(ShortBook.bids, qty)

\* vwapForQuantity prices a leg at the best of all fills: the cheapest for the
\* buyer, the dearest for the seller.
BestFill ==
  Usable(LongBook, ShortBook) =>
    LET qty == TargetQty(LongBook, ShortBook)
    IN  /\ LegCost(LongBook.asks, qty) = Min(Costs(LongBook.asks, qty))
        /\ LegCost(ShortBook.bids, qty) = Max(Costs(ShortBook.bids, qty))

\* No leg of an approved trade costs more than MaxTradeUSD, although the quantity
\* is sized at the best prices only and the risk engine looks at the long leg only.
LegsWithinLimit ==
  Approved(LongBook, ShortBook) =>
    LET o == Detected(LongBook, ShortBook)
    IN  o.longCost <= MaxTradeUSD /\ o.shortCost <= MaxTradeUSD

\* The same two books are never worthwhile in both directions.
OneDirection == ~(Accepted(LongBook, ShortBook) /\ Accepted(ShortBook, LongBook))

NoQuotes == [x \in Exchanges |-> {}]

NoJitter == [s \in Symbols |-> 4]

LowFees == [x \in Exchanges |-> 5]
=============================================================================
