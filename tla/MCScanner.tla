----------------------------- MODULE MCScanner -----------------------------
(***************************************************************************)
(* Values for the constants of Scanner that a .cfg cannot write.           *)
(* A book is [bid, ask] with one level on each side unless said otherwise. *)
(***************************************************************************)
EXTENDS ScannerProperties

One(price, quantity) == <<[price |-> price, quantity |-> quantity]>>

TwoSided(bid, ask) == [bids |-> One(bid, 2), asks |-> One(ask, 2)]

AskOnly(ask) == [bids |-> <<>>, asks |-> One(ask, 2)]

\* The long side on okx (negative rate), the short side on bybit (positive rate).
SteadyQuotes == [x \in Exchanges |-> {TwoSided(98, 100)}]

\* Prices move on bybit, and okx loses its bids.
MovingQuotes ==
  [x \in Exchanges |->
     IF x = "okx" THEN {TwoSided(98, 100), AskOnly(102)}
     ELSE {TwoSided(96, 98), TwoSided(100, 102)}]

NoJitter == [s \in Symbols |-> 4]

FlatFees == [x \in Exchanges |-> 10]
=============================================================================
