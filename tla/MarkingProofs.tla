--------------------------- MODULE MarkingProofs ---------------------------
(***************************************************************************)
(* What the refresh of a symbol leaves behind, for every value of the      *)
(* constants: every open position is marked to the books in the store, and *)
(* none that is due stays open unless one of its exit sides has no quote.  *)
(***************************************************************************)
EXTENDS ScannerProofs

-----------------------------------------------------------------------------
(* The stores.                                                             *)

OnePerKey(store) ==
  \A e, f \in store : e.symbol = f.symbol /\ e.exchange = f.exchange => e = f

\* The snapshot found is the only one there is.
LEMMA LookupUnique ==
  ASSUME NEW store, OnePerKey(store), NEW e \in store
  PROVE  Lookup(store, e.symbol, e.exchange) = e
<1>1. Known(store, e.symbol, e.exchange)
  BY DEF Known
<1> QED
  BY <1>1, LookupFacts DEF OnePerKey

\* A new snapshot takes the place of its predecessor, and nothing changes for the
\* other symbols.
LEMMA ApplyFacts ==
  ASSUME NEW store, OnePerKey(store), NEW b
  PROVE  LET new == ApplySnapshot(store, b)
         IN  /\ OnePerKey(new)
             /\ \A s, x : s # b.symbol =>
                  /\ Known(new, s, x) = Known(store, s, x)
                  /\ Known(store, s, x) => Lookup(new, s, x) = Lookup(store, s, x)
<1> DEFINE new == ApplySnapshot(store, b)
<1>1. new \subseteq store \cup {b} /\ b \in new
  BY DEF ApplySnapshot
<1>2. \A e \in new : e.symbol = b.symbol /\ e.exchange = b.exchange => e = b
  BY DEF ApplySnapshot
<1>3. OnePerKey(new)
  BY <1>1, <1>2 DEF OnePerKey
<1>4. \A e \in store : e.symbol # b.symbol => e \in new
  BY DEF ApplySnapshot
<1> HIDE DEF new
<1>5. ASSUME NEW s, NEW x, s # b.symbol
      PROVE  /\ Known(new, s, x) = Known(store, s, x)
             /\ Known(store, s, x) => Lookup(new, s, x) = Lookup(store, s, x)
  <2>1. Known(new, s, x) <=> Known(store, s, x)
    BY <1>1, <1>4, <1>5 DEF Known
  <2>2. ASSUME Known(store, s, x) PROVE Lookup(new, s, x) = Lookup(store, s, x)
    <3>1. PICK e \in store : e.symbol = s /\ e.exchange = x
      BY <2>2 DEF Known
    <3>2. e \in new
      BY <1>4, <1>5, <3>1
    <3> QED
      BY <1>3, <3>1, <3>2, LookupUnique
  <2> QED
    BY <2>1, <2>2 DEF Known
<1> QED
  BY <1>3, <1>5 DEF new

-----------------------------------------------------------------------------
(* The invariant.  While an update is handled, the positions of its symbol *)
(* may not be marked yet: all of them until the refresh begins, then those *)
(* that it has still to visit.                                             *)

HasAmounts(p) == {"qty", "longCost", "shortCost", "unrealized"} \subseteq DOMAIN p

Marked(p) == ExitQuoted(p) => p.unrealized = Unrealized(p)

MarkedOrPending ==
  \A p \in open :
    \/ Marked(p)
    \/ pc \in {"detect", "check", "execute"} /\ p.symbol = update.symbol
    \/ pc = "refresh" /\ p \in todo

BestOfUpdate == pc \in {"check", "execute"} => best.symbol = update.symbol

DueIsPending ==
  pc = "refresh" =>
    \A p \in open : p.symbol = update.symbol /\ ExitQuoted(p) /\ Due(p) => p \in todo

MarkInv ==
  /\ BookInv /\ OnePerKey(books) /\ OnePerKey(funding)
  /\ \A p \in open : HasAmounts(p)
  /\ BestOfUpdate /\ MarkedOrPending /\ DueIsPending

\* Only the stores matter to what a position is worth, whether it can be exited,
\* and so whether it is marked.
LEMMA SameQuotes ==
  ASSUME UNCHANGED marketVars
  PROVE  \A p : ExitQuoted(p)' = ExitQuoted(p) /\ Marked(p)' = Marked(p)
BY DEF marketVars, Marked, ExitQuoted, Unrealized, Book, FundingOf

\* The refresh of a position marks it, and changes nothing else of it.
LEMMA HeldIsMarked ==
  ASSUME NEW p, IsPosition(p), HasAmounts(p)
  PROVE  LET m == [p EXCEPT !.unrealized = Unrealized(p)]
         IN  HasAmounts(m) /\ Marked(m) /\ Due(m) = Due(p) /\ m.symbol = p.symbol /\ m.id = p.id
<1> DEFINE m == [p EXCEPT !.unrealized = Unrealized(p)]
<1>1. DOMAIN m = DOMAIN p /\ m.unrealized = Unrealized(p)
  BY DEF HasAmounts
<1>2. m.qty = p.qty /\ m.longCost = p.longCost /\ m.shortCost = p.shortCost
  BY DEF HasAmounts
<1>3. /\ m.symbol = p.symbol /\ m.long = p.long /\ m.short = p.short /\ m.id = p.id
      /\ m.openedAt = p.openedAt /\ m.target = p.target
  BY MarkedFacts
<1> HIDE DEF m
<1>4. Unrealized(m) = Unrealized(p)
  BY <1>2, <1>3 DEF Unrealized
<1>5. HasAmounts(m)
  BY <1>1 DEF HasAmounts
<1> QED
  BY <1>1, <1>3, <1>4, <1>5 DEF Marked, Due, m

LEMMA MarkInit == Init => MarkInv
BY BookInit DEF Init, MarkInv, OnePerKey, BestOfUpdate, MarkedOrPending, DueIsPending

LEMMA MarkStep == MarkInv /\ [Next]_vars => MarkInv'
<1> SUFFICES ASSUME MarkInv, [Next]_vars PROVE MarkInv'
  OBVIOUS
<1>0. BookInv /\ BookInv' /\ TypeOK
  BY BookStep DEF MarkInv, BookInv
<1> USE DEF MarkInv
<1>1. CASE Receive
  <2> DEFINE b == Head(updates)
             f == SyntheticSnapshot(b)
  <2>1. /\ books' = ApplySnapshot(books, b) /\ funding' = ApplySnapshot(funding, f)
        /\ UNCHANGED open /\ pc = "idle" /\ pc' = "detect" /\ update' = b
    BY <1>1 DEF Receive, ledgerVars
  <2>2. f.symbol = b.symbol
    BY DEF SyntheticSnapshot
  <2> HIDE DEF b, f
  <2>3. OnePerKey(books') /\ OnePerKey(funding')
    BY <2>1, ApplyFacts
  <2>4. ASSUME NEW p \in open, p.symbol # b.symbol PROVE Marked(p)'
    <3>1. /\ \A x : Known(books', p.symbol, x) = Known(books, p.symbol, x)
          /\ \A x : Known(funding', p.symbol, x) = Known(funding, p.symbol, x)
      BY <2>1, <2>2, <2>4, ApplyFacts
    <3>2. \A x : Known(books, p.symbol, x) => Lookup(books', p.symbol, x) = Lookup(books, p.symbol, x)
      BY <2>1, <2>4, ApplyFacts
    <3>3. Marked(p)
      BY <2>1 DEF MarkedOrPending
    <3>4. ExitQuoted(p)' => ExitQuoted(p) /\ Unrealized(p)' = Unrealized(p)
      BY <3>1, <3>2 DEF ExitQuoted, Unrealized, Book
    <3> QED
      BY <3>3, <3>4 DEF Marked
  <2>5. MarkedOrPending'
    BY <2>1, <2>4 DEF MarkedOrPending
  <2> QED
    BY <1>0, <2>1, <2>3, <2>5 DEF BestOfUpdate, DueIsPending
<1>2. CASE Detect
  <2>1. /\ UNCHANGED <<books, funding, open, update>>
        /\ pc = "detect" /\ pc' = "check"
    BY <1>2 DEF Detect, marketVars, ledgerVars
  <2>2. best'.symbol = update.symbol
    BY <1>0, <1>2, CandidateFacts DEF Detect, BestOpportunities
  <2>3. MarkedOrPending'
    BY <2>1, SameQuotes DEF MarkedOrPending, marketVars
  <2> QED
    BY <1>0, <2>1, <2>2, <2>3 DEF BestOfUpdate, DueIsPending
<1>3. CASE Approve
  <2>1. /\ UNCHANGED <<books, funding, open, update, best>>
        /\ pc = "check" /\ pc' = "execute"
    BY <1>3 DEF Approve, marketVars, ledgerVars
  <2>2. MarkedOrPending'
    BY <2>1, SameQuotes DEF MarkedOrPending, marketVars
  <2> QED
    BY <1>0, <2>1, <2>2 DEF BestOfUpdate, DueIsPending
<1>4. CASE DetectNothing \/ Reject
  <2>1. /\ UNCHANGED <<books, funding, open, update>>
        /\ pc \in {"detect", "check"} /\ pc' = "refresh"
        /\ todo' = OpenBySymbol(open, update.symbol)
    BY <1>4 DEF DetectNothing, Reject, BeginRefresh, marketVars, ledgerVars
  <2>2. \A p \in open : p.symbol = update.symbol => p \in todo'
    BY <2>1 DEF OpenBySymbol
  <2>3. MarkedOrPending'
    BY <2>1, <2>2, SameQuotes DEF MarkedOrPending, marketVars
  <2> QED
    BY <1>0, <2>1, <2>2, <2>3 DEF BestOfUpdate, DueIsPending
<1>5. CASE Execute
  <2> DEFINE n == NewPosition(best, clock)
  <2>1. /\ UNCHANGED <<books, funding, update>>
        /\ pc = "execute" /\ pc' = "refresh"
        /\ open' = Put(open, n) /\ todo' = OpenBySymbol(Put(open, n), update.symbol)
    BY <1>5 DEF Execute, BeginRefresh, marketVars
  <2>2. HasAmounts(n) /\ n.symbol = update.symbol
    BY <2>1 DEF NewPosition, HasAmounts, BestOfUpdate
  <2> HIDE DEF n
  <2>3. open' \subseteq open \cup {n}
    BY <2>1 DEF Put
  <2>4. \A p \in open' : p.symbol = update.symbol => p \in todo'
    BY <2>1 DEF OpenBySymbol
  <2>5. \A p \in open' : HasAmounts(p)
    BY <2>2, <2>3
  <2>6. MarkedOrPending'
    BY <2>1, <2>2, <2>3, <2>4, SameQuotes DEF MarkedOrPending, marketVars
  <2> QED
    BY <1>0, <2>1, <2>4, <2>5, <2>6 DEF BestOfUpdate, DueIsPending, HasAmounts
<1>6. ASSUME NEW p \in todo, Skip(p) PROVE MarkInv'
  <2>1. /\ UNCHANGED <<books, funding, open, update, pc>>
        /\ pc = "refresh" /\ todo' = todo \ {p} /\ ~ExitQuoted(p)
    BY <1>6 DEF Skip, marketVars, ledgerVars
  <2>2. Marked(p)
    BY <2>1 DEF Marked
  <2>3. MarkedOrPending'
    BY <2>1, <2>2, SameQuotes DEF MarkedOrPending, marketVars
  <2>4. DueIsPending'
    BY <2>1, SameQuotes DEF DueIsPending, Due, marketVars
  <2> QED
    BY <1>0, <2>1, <2>3, <2>4 DEF BestOfUpdate
<1>7. ASSUME NEW p \in todo, Hold(p) PROVE MarkInv'
  <2> DEFINE m == [p EXCEPT !.unrealized = Unrealized(p)]
  <2>1. /\ UNCHANGED <<books, funding, update, pc>>
        /\ pc = "refresh" /\ todo' = todo \ {p} /\ p \in open
        /\ open' = Put(open, m) /\ ~Due(p)
    BY <1>0, <1>7 DEF Hold, marketVars, BookInv, StaysOpen, HeldTooLong, Due, TypeOK,
                      HandlerTypeOK, OrderBookSnapshot, IsPosition
  <2>2. IsPosition(p) /\ HasAmounts(p)
    BY <1>0, <2>1 DEF TypeOK, LedgerTypeOK
  <2>3. HasAmounts(m) /\ Marked(m) /\ ~Due(m) /\ m.id = p.id
    BY <2>1, <2>2, HeldIsMarked
  <2> HIDE DEF m
  <2>4. open' \subseteq (open \ {p}) \cup {m}
    BY <2>1, <2>3 DEF Put
  <2>5. \A q \in open' : HasAmounts(q)
    BY <2>3, <2>4
  <2>6. MarkedOrPending'
    BY <2>1, <2>3, <2>4, SameQuotes DEF MarkedOrPending, marketVars
  <2>7. DueIsPending'
    BY <2>1, <2>3, <2>4, SameQuotes DEF DueIsPending, Due, marketVars
  <2> QED
    BY <1>0, <2>1, <2>5, <2>6, <2>7 DEF BestOfUpdate, HasAmounts
<1>8. ASSUME NEW p \in todo, Close(p) PROVE MarkInv'
  <2>1. /\ UNCHANGED <<books, funding, update, pc>>
        /\ pc = "refresh" /\ todo' = todo \ {p}
        /\ open' \subseteq open \ {p}
    BY <1>8 DEF Close, marketVars
  <2>2. MarkedOrPending'
    BY <2>1, SameQuotes DEF MarkedOrPending, marketVars
  <2>3. DueIsPending'
    BY <2>1, SameQuotes DEF DueIsPending, Due, marketVars
  <2> QED
    BY <1>0, <2>1, <2>2, <2>3 DEF BestOfUpdate, HasAmounts
<1>9. CASE Return \/ Stop
  <2>1. /\ UNCHANGED <<books, funding, open>>
        /\ pc = "idle" \/ (pc = "refresh" /\ todo = {})
        /\ pc' \in {"idle", "stopped"}
    BY <1>9 DEF Return, Stop, marketVars, ledgerVars
  <2>2. MarkedOrPending'
    BY <2>1, SameQuotes DEF MarkedOrPending, marketVars
  <2> QED
    BY <1>0, <2>1, <2>2 DEF BestOfUpdate, DueIsPending
<1>10. CASE UNCHANGED <<marketVars, open, history, handlerVars>>
  <2>1. MarkedOrPending'
    BY <1>10, SameQuotes DEF MarkedOrPending, handlerVars
  <2>2. DueIsPending'
    BY <1>10, SameQuotes DEF DueIsPending, Due, handlerVars
  <2> QED
    BY <1>0, <1>10, <2>1, <2>2 DEF BestOfUpdate, handlerVars, marketVars
<1> QED
  BY <1>1, <1>2, <1>3, <1>4, <1>5, <1>6, <1>7, <1>8, <1>9, <1>10, QuietSteps

LEMMA MarkInvariant == Spec => []MarkInv
BY MarkInit, MarkStep, PTL DEF Spec

\* Between two updates /positions and /pnl show every position that could be exited
\* at what the books in the store give for it.
THEOREM PositionsAreMarked == Spec => []MarkedToMarket
<1>1. MarkInv => MarkedToMarket
  BY DEF MarkInv, MarkedOrPending, Marked, MarkedToMarket
<1> QED
  BY <1>1, MarkInvariant, PTL

\* The refresh of a symbol leaves no due position of it behind that could be exited.
THEOREM DuePositionsAreClosed == Spec => []NothingDueIsLeft
<1>1. MarkInv => NothingDueIsLeft
  BY DEF MarkInv, DueIsPending, NothingDueIsLeft, OpenBySymbol
<1> QED
  BY <1>1, MarkInvariant, PTL
=============================================================================
