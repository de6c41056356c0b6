----------------------------- MODULE MarketData -----------------------------
(***************************************************************************)
(* Market data as the bot sees it: the order-book snapshots the connectors *)
(* parse, the store that keeps the newest one per (symbol, exchange), and  *)
(* the funding snapshot the bot derives from each of them.                 *)
(*                                                                         *)
(* Units.  Time is in abstract ticks of the wall clock.  Prices are in     *)
(* half ticks (every price is even, so a midpoint is exact), quantities in *)
(* lots, percentages in units of which PctUnit make 100%.                  *)
(***************************************************************************)
EXTENDS Integers, Sequences, SequencesExt, FiniteSetsExt

CONSTANTS
  Exchanges,         \* enabled connectors, a subset of ExchangeNames
  Symbols,           \* cfg.Trading.Symbols
  Quotes,            \* Quotes[x]: the raw books [bids, asks] exchange x may publish
  PctUnit,           \* number of percentage units in 100%
  DefaultRatePct,    \* cfg.Strategy.DefaultFundingRatePct, in hundreds of percentage units
  SymbolBucket,      \* SymbolBucket[s] = fnv32a(s) % 9
  FundingInterval,   \* cfg.Strategy.FundingInterval
  MaxOrderBookAge    \* cfg.Risk.MaxOrderBookAge

ExchangeNames == {"bybit", "okx", "htx", "kucoin"}

\* A raw level may be a deletion (quantity 0), as in an incremental message.
Level == [price : Nat, quantity : Nat]

ASSUME MarketAssumption ==
  /\ Exchanges \subseteq ExchangeNames
  /\ \A x \in Exchanges : Quotes[x] \subseteq [bids : Seq(Level), asks : Seq(Level)]
  /\ \A x \in Exchanges : \A q \in Quotes[x] :
       /\ \A i \in DOMAIN q.bids : q.bids[i].price % 2 = 0
       /\ \A i \in DOMAIN q.asks : q.asks[i].price % 2 = 0
  /\ PctUnit \in Nat \ {0}
  /\ DefaultRatePct \in Int
  /\ SymbolBucket \in [Symbols -> 0..8]
  /\ FundingInterval \in Nat \ {0}
  /\ MaxOrderBookAge \in Nat

-----------------------------------------------------------------------------
(* Parsing (internal/exchange/public_ws.go).                               *)

LevelLimit == 20

\* parseStringLevels / parseFloatLevels drop rows that are not positive, and
\* trimLevels keeps the first LevelLimit of the rest.
ParseLevels(raw) ==
  LET kept[n \in 0..Len(raw)] ==
        IF n = 0 THEN <<>>
        ELSE IF raw[n].price > 0 /\ raw[n].quantity > 0 THEN Append(kept[n - 1], raw[n])
        ELSE kept[n - 1]
      levels == kept[Len(raw)]
  IN  SubSeq(levels, 1, Min({Len(levels), LevelLimit}))

\* A parsed message: stamped with the bot's clock, never the exchange's.
ParseSnapshot(x, s, q, now) ==
  [exchange |-> x, symbol |-> s,
   bids |-> ParseLevels(q.bids), asks |-> ParseLevels(q.asks), at |-> now]

BidSides == {ParseLevels(q.bids) : q \in UNION {Quotes[x] : x \in Exchanges}}
AskSides == {ParseLevels(q.asks) : q \in UNION {Quotes[x] : x \in Exchanges}}

OrderBookSnapshot ==
  [exchange : Exchanges, symbol : Symbols, bids : BidSides, asks : AskSides, at : Nat]

-----------------------------------------------------------------------------
(* The two stores (internal/marketdata, internal/funding) are sets that    *)
(* hold at most one snapshot per (symbol, exchange).                       *)

ApplySnapshot(store, snapshot) ==
  {old \in store : <<old.symbol, old.exchange>> # <<snapshot.symbol, snapshot.exchange>>}
    \cup {snapshot}

Known(store, s, x) == \E e \in store : e.symbol = s /\ e.exchange = x

Lookup(store, s, x) == CHOOSE e \in store : e.symbol = s /\ e.exchange = x

\* Both times are stamps of parsed books: `now` is the stamp of the update
\* being handled, not the time at which it is handled.
IsFresh(book, now) == now - book.at <= MaxOrderBookAge

-----------------------------------------------------------------------------
(* Synthetic funding (internal/funding/store.go).                          *)

Midpoint(book) ==
  IF book.bids = <<>> \/ book.asks = <<>>
  THEN 0
  ELSE (book.bids[1].price + book.asks[1].price) \div 2

FirstPrice(book) ==
  IF book.asks # <<>> THEN book.asks[1].price
  ELSE IF book.bids # <<>> THEN book.bids[1].price
  ELSE 0

MarkPrice(book) == IF Midpoint(book) = 0 THEN FirstPrice(book) ELSE Midpoint(book)

\* The first multiple of the interval strictly after `now`; Truncate's two
\* cases (on the boundary, or past it) come to the same.
NextFundingWindow(now) == now - (now % FundingInterval) + FundingInterval

\* The table of scales, in hundredths.
RateScale == [x \in ExchangeNames |->
                CASE x = "bybit"  -> 120
                  [] x = "okx"    -> -60
                  [] x = "htx"    -> 80
                  [] x = "kucoin" -> -40]

\* defaultRate * scale + jitter, the jitter being (hash % 9 - 4) steps of 5%.
\* It depends on the exchange and the symbol only: never on the book or the time.
SyntheticRate(x, s) == DefaultRatePct * (RateScale[x] + 5 * (SymbolBucket[s] - 4))

\* A rate that follows the book (a broken variant: the code's does not).
PriceFollowingSnapshot(book) ==
  [exchange  |-> book.exchange,
   symbol    |-> book.symbol,
   mark      |-> MarkPrice(book),
   predicted |-> 100 * DefaultRatePct * (MarkPrice(book) - 99),
   next      |-> NextFundingWindow(book.at)]

SyntheticSnapshot(book) ==
  [exchange  |-> book.exchange,
   symbol    |-> book.symbol,
   mark      |-> MarkPrice(book),
   predicted |-> SyntheticRate(book.exchange, book.symbol),
   next      |-> NextFundingWindow(book.at)]
=============================================================================
