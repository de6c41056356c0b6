--------------------------- MODULE ScannerProofs ---------------------------
(***************************************************************************)
(* Safety of the scanner for every value of the constants.                 *)
(***************************************************************************)
EXTENDS ScannerProperties, SequenceTheorems, TLAPS

-----------------------------------------------------------------------------
(* Lemmas about the operators the model is built from.                     *)

\* The next funding window is after `now`, and at most one interval away.
LEMMA WindowBounds ==
  ASSUME NEW now \in Nat
  PROVE  /\ NextFundingWindow(now) \in Nat
         /\ now < NextFundingWindow(now)
         /\ NextFundingWindow(now) <= now + FundingInterval
<1>1. FundingInterval \in Nat \ {0}
  BY MarketAssumption DEF MarketAssumption
<1>2. now % FundingInterval \in 0..(FundingInterval - 1) /\ now % FundingInterval <= now
  BY <1>1
<1> QED
  BY <1>1, <1>2 DEF NextFundingWindow

\* Rates are integers.
LEMMA RateType ==
  ASSUME NEW x \in Exchanges, NEW s \in Symbols
  PROVE  SyntheticRate(x, s) \in Int
<1>1. x \in ExchangeNames /\ DefaultRatePct \in Int /\ SymbolBucket[s] \in Int
  BY MarketAssumption DEF MarketAssumption
<1>2. RateScale[x] \in Int
  BY <1>1 DEF RateScale, ExchangeNames
<1> QED
  BY <1>1, <1>2 DEF SyntheticRate

LEMMA MinOfTwo ==
  ASSUME NEW a \in Int, NEW b \in Int
  PROVE  Min({a, b}) \in {a, b} /\ Min({a, b}) <= a /\ Min({a, b}) <= b
<1>1. \E x \in {a, b} : \A y \in {a, b} : x <= y
  OBVIOUS
<1> QED
  BY <1>1 DEF Min

\* What Remember returns: the new entry first, then a prefix of the old ones.
LEMMA RememberFacts ==
  ASSUME NEW seq, seq \in Seq(Range(seq)), NEW entry, NEW limit \in Nat \ {0}
  PROVE  LET r == Remember(seq, entry, limit)
         IN  /\ r \in Seq(Range(r))
             /\ Len(r) \in 1..(Len(seq) + 1)
             /\ r[1] = entry
             /\ \A i \in DOMAIN r : i # 1 => i - 1 \in DOMAIN seq /\ r[i] = seq[i - 1]
<1> DEFINE S == Range(seq) \cup {entry}
           longer == <<entry>> \o seq
           n == Min({Len(longer), limit})
           r == SubSeq(longer, 1, n)
<1>1. seq \in Seq(S) /\ <<entry>> \in Seq(S)
  OBVIOUS
<1>2. longer \in Seq(S) /\ Len(longer) = Len(seq) + 1 /\ Len(seq) \in Nat
  BY <1>1
<1>3. n \in 1..Len(longer)
  <2>1. Len(longer) \in Int /\ limit \in Int
    BY <1>2
  <2>2. n \in {Len(longer), limit} /\ n <= Len(longer)
    BY <2>1, MinOfTwo
  <2> QED
    BY <1>2, <2>2
<1>4. \A i \in 1..n : longer[i] = (IF i = 1 THEN entry ELSE seq[i - 1]) /\ longer[i] \in S
  BY <1>1, <1>2, <1>3
<1> HIDE DEF S, longer, n
<1>5. r \in Seq(S) /\ Len(r) = n /\ \A i \in 1..n : r[i] = longer[i]
  <2>1. n \in Int
    BY <1>2, <1>3
  <2>2. \A i \in 1..n : longer[i] \in S
    BY <1>4
  <2> QED
    BY <2>1, <2>2, <1>2, <1>3, SubSeqProperties
<1>6. r \in Seq(Range(r)) /\ DOMAIN r = 1..n /\ DOMAIN seq = 1..Len(seq)
  BY <1>1, <1>5, SeqOfRange, LenProperties
<1>7. r = Remember(seq, entry, limit)
  BY DEF Remember, r, n, longer
<1> HIDE DEF r
<1> QED
  BY <1>2, <1>3, <1>4, <1>5, <1>6, <1>7

-----------------------------------------------------------------------------
(* Lemmas about the steps.                                                 *)

\* A parsed snapshot, and the funding snapshot made from it.
LEMMA ParsedType ==
  ASSUME NEW x \in Exchanges, NEW s \in Symbols, NEW q \in Quotes[x], NEW now \in Nat
  PROVE  ParseSnapshot(x, s, q, now) \in OrderBookSnapshot
<1>1. q \in UNION {Quotes[y] : y \in Exchanges}
  OBVIOUS
<1>2. ParseLevels(q.bids) \in BidSides /\ ParseLevels(q.asks) \in AskSides
  BY <1>1 DEF BidSides, AskSides
<1> QED
  BY <1>2 DEF ParseSnapshot, OrderBookSnapshot

LEMMA SyntheticFacts ==
  ASSUME NEW b \in OrderBookSnapshot
  PROVE  LET f == SyntheticSnapshot(b)
         IN  /\ IsFunding(f)
             /\ f.predicted = SyntheticRate(f.exchange, f.symbol)
             /\ f.next <= b.at + FundingInterval
<1>1. b.exchange \in Exchanges /\ b.symbol \in Symbols /\ b.at \in Nat
  BY DEF OrderBookSnapshot
<1>2. SyntheticRate(b.exchange, b.symbol) \in Int
  BY <1>1, RateType
<1>3. NextFundingWindow(b.at) \in Nat /\ NextFundingWindow(b.at) <= b.at + FundingInterval
  BY <1>1, WindowBounds
<1> QED
  BY <1>1, <1>2, <1>3 DEF SyntheticSnapshot, IsFunding

\* A snapshot that is known is found.
LEMMA LookupFacts ==
  ASSUME NEW store, NEW s, NEW x, Known(store, s, x)
  PROVE  /\ Lookup(store, s, x) \in store
         /\ Lookup(store, s, x).symbol = s
         /\ Lookup(store, s, x).exchange = x
BY DEF Known, Lookup

\* What the estimator says of the pair it judged.
LEMMA CandidateFacts ==
  ASSUME TypeOK, pc = "detect", NEW o \in Candidates
  PROVE  /\ IsOpportunity(o)
         /\ o.symbol = update.symbol
         /\ \E f, g \in funding :
              /\ f.symbol = o.symbol /\ f.exchange = o.long
              /\ g.symbol = o.symbol /\ g.exchange = o.short
              /\ o.rate = g.predicted - f.predicted
              /\ o.target <= f.next
<1> DEFINE s == update.symbol
           now == update.at
<1>1. s \in Symbols /\ now \in Nat
  BY DEF TypeOK, HandlerTypeOK, OrderBookSnapshot
<1>2. PICK t \in Trades(s, now) : o = Estimate(s, t, now)
  BY DEF Candidates
<1>3. t.long \in Quoted(s, now) /\ t.short \in Quoted(s, now)
  BY <1>2 DEF Trades
<1> DEFINE lb == Book(s, t.long)
           sb == Book(s, t.short)
           lf == FundingOf(s, t.long)
           sf == FundingOf(s, t.short)
<1>4. /\ t.long \in Exchanges /\ t.short \in Exchanges
      /\ Known(books, s, t.long) /\ Known(books, s, t.short)
      /\ Known(funding, s, t.long) /\ Known(funding, s, t.short)
  BY <1>3 DEF Quoted
<1>5. /\ lb.symbol = s /\ lb.exchange = t.long
      /\ sb.symbol = s /\ sb.exchange = t.short
      /\ lf \in funding /\ lf.symbol = s /\ lf.exchange = t.long
      /\ sf \in funding /\ sf.symbol = s /\ sf.exchange = t.short
  BY <1>4, LookupFacts DEF Book, FundingOf
<1>6. IsFunding(lf) /\ IsFunding(sf)
  BY <1>5 DEF TypeOK, FeedTypeOK
<1> HIDE DEF lb, sb, lf, sf, s, now
<1>7. o = Opportunity(lb, sb, lf, sf, t.qty, now)
  BY <1>2 DEF Estimate, lb, sb, lf, sf
<1>8. /\ o.symbol = lb.symbol /\ o.long = lb.exchange /\ o.short = sb.exchange
      /\ o.detectedAt = now /\ o.target = MinTime(lf.next, sf.next)
      /\ o.rate = sf.predicted - lf.predicted
  BY <1>7 DEF Opportunity
<1>9. MinTime(lf.next, sf.next) \in Nat /\ MinTime(lf.next, sf.next) <= lf.next
  BY <1>6 DEF MinTime, IsFunding
<1>10. IsOpportunity(o)
  BY <1>1, <1>4, <1>5, <1>6, <1>8, <1>9 DEF IsOpportunity, IsFunding
<1>11. o.symbol = update.symbol
  BY <1>5, <1>8 DEF s
<1> QED
  BY <1>5, <1>8, <1>9, <1>10, <1>11

\* Marking a position changes nothing but its unrealized result.
LEMMA MarkedFacts ==
  ASSUME NEW p, IsPosition(p), NEW u
  PROVE  LET q == [p EXCEPT !.unrealized = u]
         IN  /\ IsPosition(q)
             /\ q.id = p.id /\ q.symbol = p.symbol /\ q.long = p.long /\ q.short = p.short
             /\ q.openedAt = p.openedAt /\ q.target = p.target
BY DEF IsPosition

-----------------------------------------------------------------------------
(* Types.                                                                  *)

LEMMA TypeInit == Init => TypeOK
<1> SUFFICES ASSUME Init PROVE TypeOK
  OBVIOUS
<1>1. <<>> \in Seq(OrderBookSnapshot) /\ <<>> \in Seq(Range(<<>>)) /\ DOMAIN <<>> = {}
  BY EmptySeq
<1>2. FeedTypeOK
  BY <1>1 DEF Init, FeedTypeOK
<1>3. LedgerTypeOK
  BY <1>1 DEF Init, LedgerTypeOK
<1>4. HandlerTypeOK
  BY DEF Init, HandlerTypeOK
<1> QED
  BY <1>2, <1>3, <1>4 DEF TypeOK

LEMMA FeedTypeStep == TypeOK /\ [Next]_vars => FeedTypeOK'
<1> SUFFICES ASSUME TypeOK, [Next]_vars PROVE FeedTypeOK'
  OBVIOUS
<1> USE DEF TypeOK, FeedTypeOK, envVars, feedVars, marketVars
<1>1. CASE Tick
  BY <1>1 DEF Tick
<1>2. CASE Cancel
  BY <1>2 DEF Cancel
<1>3. ASSUME NEW x \in Exchanges, Parse(x) PROVE FeedTypeOK'
  <2>1. PICK s \in Symbols, q \in Quotes[x] :
          parsed' = parsed \cup {ParseSnapshot(x, s, q, clock)}
    BY <1>3 DEF Parse
  <2>2. ParseSnapshot(x, s, q, clock) \in OrderBookSnapshot
    BY ParsedType
  <2> QED
    BY <1>3, <2>1, <2>2 DEF Parse
<1>4. ASSUME NEW x \in Exchanges, Send(x) PROVE FeedTypeOK'
  BY <1>4 DEF Send, InFlight
<1>5. ASSUME NEW x \in Exchanges, Abort(x) \/ Leave(x) PROVE FeedTypeOK'
  BY <1>5 DEF Abort, Leave
<1>6. CASE Receive
  <2>1. Head(updates) \in OrderBookSnapshot /\ Tail(updates) \in Seq(OrderBookSnapshot)
    BY <1>6 DEF Receive
  <2>2. IsFunding(SyntheticSnapshot(Head(updates)))
    BY <2>1, SyntheticFacts
  <2>3. books' \subseteq OrderBookSnapshot
    BY <1>6, <2>1 DEF Receive, ApplySnapshot
  <2>4. \A f \in funding' : IsFunding(f)
    BY <1>6, <2>2 DEF Receive, ApplySnapshot
  <2>5. \A f \in funding' : IsFunding(f)'
    BY <2>4 DEF IsFunding
  <2> QED
    BY <1>6, <2>1, <2>3, <2>5 DEF Receive
<1>7. CASE Scan /\ ~Receive
  <2>1. UNCHANGED <<envVars, feedVars, updates, marketVars>>
    BY <1>7 DEF Scan, Detect, DetectNothing, Approve, Reject, Execute, Skip, Hold, Close,
                Return, Stop, EnqueueNext
  <2> QED
    BY <2>1
<1>8. CASE Write
  BY <1>8 DEF Write
<1>9. CASE UNCHANGED vars
  BY <1>9 DEF vars
<1> QED
  BY <1>1, <1>2, <1>3, <1>4, <1>5, <1>6, <1>7, <1>8, <1>9 DEF Next, Connect

LEMMA LedgerTypeStep == TypeOK /\ [Next]_vars => LedgerTypeOK'
<1> SUFFICES ASSUME TypeOK, [Next]_vars PROVE LedgerTypeOK'
  OBVIOUS
<1> USE DEF TypeOK, LedgerTypeOK
<1>1. CASE Execute
  <2>1. IsOpportunity(best) /\ clock \in Nat
    BY <1>1 DEF Execute, HandlerTypeOK, FeedTypeOK
  <2>2. IsPosition(NewPosition(best, clock))
    BY <2>1 DEF NewPosition, OpportunityID, IsPosition, IsOpportunity
  <2>3. open' = Put(open, NewPosition(best, clock)) /\ history' = history
    BY <1>1 DEF Execute
  <2> QED
    BY <2>2, <2>3 DEF Put
<1>2. ASSUME NEW p \in todo, Hold(p) PROVE LedgerTypeOK'
  <2>1. IsPosition(p)
    BY DEF HandlerTypeOK
  <2>2. IsPosition([p EXCEPT !.unrealized = Unrealized(p)])
    BY <2>1, MarkedFacts
  <2>3. open' = Put(open, [p EXCEPT !.unrealized = Unrealized(p)]) /\ history' = history
    BY <1>2 DEF Hold
  <2> QED
    BY <2>2, <2>3 DEF Put
<1>3. ASSUME NEW p \in todo, Close(p) PROVE LedgerTypeOK'
  <2>1. open' \subseteq open /\ history' = Remember(history, Closed(p), PositionLimit)
    BY <1>3 DEF Close
  <2>2. IsPosition(Closed(p).position) /\ Closed(p).closedAt \in Nat
    <3>1. IsPosition(p) /\ update \in OrderBookSnapshot
      BY <1>3 DEF Close, HandlerTypeOK
    <3>2. IsPosition([p EXCEPT !.unrealized = Unrealized(p)])
      BY <3>1, MarkedFacts
    <3>3. update.at \in Nat
      BY <3>1 DEF OrderBookSnapshot
    <3> QED
      BY <3>2, <3>3 DEF Closed
  <2>3. PositionLimit \in Nat \ {0}
    BY ScannerAssumption DEF ScannerAssumption
  <2>4. /\ history' \in Seq(Range(history'))
        /\ history'[1] = Closed(p)
        /\ \A i \in DOMAIN history' : i # 1 => i - 1 \in DOMAIN history /\ history'[i] = history[i - 1]
    BY <2>1, <2>3, RememberFacts
  <2>5. \A i \in DOMAIN history' :
           IsPosition(history'[i].position) /\ history'[i].closedAt \in Nat
    BY <2>2, <2>4
  <2> QED
    BY <2>1, <2>4, <2>5
<1>4. CASE UNCHANGED <<open, history>>
  BY <1>4
<1> QED
  <2>1. ASSUME ~Execute, \A p \in todo : ~Hold(p) /\ ~Close(p)
        PROVE  UNCHANGED <<open, history>>
    BY <2>1 DEF Next, Tick, Cancel, Connect, Parse, Send, Abort, Leave, Scan, Receive, Detect,
                DetectNothing, Approve, Reject, Skip, Return, Stop, EnqueueNext, Write,
                vars, ledgerVars
  <2> QED
    BY <1>1, <1>2, <1>3, <1>4, <2>1

LEMMA HandlerTypeStep == TypeOK /\ [Next]_vars => HandlerTypeOK'
<1> SUFFICES ASSUME TypeOK, [Next]_vars PROVE HandlerTypeOK'
  OBVIOUS
<1> USE DEF TypeOK, HandlerTypeOK, handlerVars
<1>1. CASE Receive
  <2>1. Head(updates) \in OrderBookSnapshot
    BY <1>1 DEF Receive, FeedTypeOK
  <2> QED
    BY <1>1, <2>1 DEF Receive
<1>2. CASE Detect
  <2>1. PICK o \in BestOpportunities : best' = o
    BY <1>2 DEF Detect
  <2>2. o \in Candidates
    BY DEF BestOpportunities
  <2>3. IsOpportunity(best')
    BY <1>2, <2>1, <2>2, CandidateFacts DEF Detect
  <2> QED
    BY <1>2, <2>3 DEF Detect
<1>3. CASE DetectNothing \/ Reject
  BY <1>3 DEF DetectNothing, Reject, BeginRefresh, OpenBySymbol, LedgerTypeOK
<1>4. CASE Approve
  BY <1>4 DEF Approve, FeedTypeOK
<1>5. CASE Execute
  <2>1. \A p \in open' : IsPosition(p)
    BY LedgerTypeStep DEF LedgerTypeOK
  <2>2. todo' \subseteq open'
    BY <1>5 DEF Execute, BeginRefresh, OpenBySymbol
  <2> QED
    BY <1>5, <2>1, <2>2 DEF Execute, BeginRefresh
<1>6. ASSUME NEW p \in todo, Skip(p) \/ Hold(p) \/ Close(p) PROVE HandlerTypeOK'
  BY <1>6 DEF Skip, Hold, Close
<1>7. CASE Return \/ Stop
  BY <1>7 DEF Return, Stop
<1>8. CASE UNCHANGED handlerVars
  BY <1>8
<1> QED
  BY <1>1, <1>2, <1>3, <1>4, <1>5, <1>6, <1>7, <1>8
  DEF Next, Tick, Cancel, Connect, Parse, Send, Abort, Leave, Scan, EnqueueNext, Write, vars

\* The control part of the state is well typed.
THEOREM TypeCorrect == Spec => []TypeOK
<1>1. Init => TypeOK
  BY TypeInit
<1>2. TypeOK /\ [Next]_vars => TypeOK'
  BY FeedTypeStep, LedgerTypeStep, HandlerTypeStep DEF TypeOK
<1> QED
  BY <1>1, <1>2, PTL DEF Spec

-----------------------------------------------------------------------------
(* The position book.                                                      *)
(*                                                                         *)
(* A rate is a function of the exchange and the symbol, so the pairs worth *)
(* opening are the same at all times; and between HasOpen and the addition *)
(* of the position nobody else adds one.                                   *)

NetRate(e) == SyntheticRate(e.short, e.symbol) - SyntheticRate(e.long, e.symbol)

RatesAreSynthetic == \A f \in funding : f.predicted = SyntheticRate(f.exchange, f.symbol)

CandidateOK ==
  /\ pc \in {"check", "execute"} => best.rate = NetRate(best) /\ ~HasOpen(best)
  /\ pc = "execute" => best.rate > 0

OpenOK ==
  \A p \in open : p.id[1] = p.symbol /\ p.id[2] = p.long /\ p.id[3] = p.short /\ NetRate(p) > 0

BookInv ==
  /\ TypeOK /\ RatesAreSynthetic /\ CandidateOK /\ OpenOK
  /\ todo \subseteq open
  /\ OnePositionPerPair /\ NeverDeteriorates

\* A position of the book is found by its id.
LEMMA IdsAreUnique ==
  ASSUME BookInv, NEW p \in open, NEW q \in open, p.id = q.id
  PROVE  p = q
BY DEF BookInv, OpenOK, OnePositionPerPair, SamePair

\* The exit for a deteriorated carry is never taken.
LEMMA RateStays ==
  ASSUME BookInv, NEW p \in open, ExitQuoted(p)
  PROVE  ~Deteriorated(p)
<1>1. /\ FundingOf(p.symbol, p.long) \in funding
      /\ FundingOf(p.symbol, p.long).symbol = p.symbol
      /\ FundingOf(p.symbol, p.long).exchange = p.long
      /\ FundingOf(p.symbol, p.short) \in funding
      /\ FundingOf(p.symbol, p.short).symbol = p.symbol
      /\ FundingOf(p.symbol, p.short).exchange = p.short
  BY LookupFacts DEF ExitQuoted, FundingOf
<1>2. FundingOf(p.symbol, p.short).predicted - FundingOf(p.symbol, p.long).predicted = NetRate(p)
  BY <1>1 DEF BookInv, RatesAreSynthetic, NetRate
<1>3. NetRate(p) > 0 /\ NetRate(p) \in Int
  <2>1. IsPosition(p)
    BY DEF BookInv, TypeOK, LedgerTypeOK
  <2> QED
    BY <2>1, RateType DEF BookInv, OpenOK, NetRate, IsPosition
<1> QED
  BY <1>2, <1>3 DEF Deteriorated

\* The steps that leave the position book and the candidate alone.
LEMMA QuietSteps ==
  ASSUME [Next]_vars,
         ~Receive, ~Detect, ~DetectNothing, ~Approve, ~Reject, ~Execute,
         \A p \in todo : ~Skip(p) /\ ~Hold(p) /\ ~Close(p),
         ~Return, ~Stop
  PROVE  UNCHANGED <<marketVars, open, history, handlerVars>>
BY DEF Next, Tick, Cancel, Connect, Parse, Send, Abort, Leave, Scan, EnqueueNext, Write,
       vars, ledgerVars

LEMMA BookInit == Init => BookInv
<1> SUFFICES ASSUME Init PROVE BookInv
  OBVIOUS
<1>1. TypeOK
  BY TypeInit
<1>2. DOMAIN history = {}
  BY DEF Init
<1> QED
  BY <1>1, <1>2 DEF Init, BookInv, RatesAreSynthetic, CandidateOK, OpenOK,
                    OnePositionPerPair, NeverDeteriorates

LEMMA BookStep == BookInv /\ [Next]_vars => BookInv'
<1> SUFFICES ASSUME BookInv, [Next]_vars PROVE BookInv'
  OBVIOUS
<1>0. TypeOK /\ TypeOK'
  BY FeedTypeStep, LedgerTypeStep, HandlerTypeStep DEF TypeOK, BookInv
<1> USE DEF BookInv
<1>1. CASE Receive
  <2>1. Head(updates) \in OrderBookSnapshot
    BY <1>0, <1>1 DEF Receive, TypeOK, FeedTypeOK
  <2>2. RatesAreSynthetic'
    BY <1>1, <2>1, SyntheticFacts DEF Receive, ApplySnapshot, RatesAreSynthetic
  <2>3. UNCHANGED <<open, history, todo>> /\ pc' = "detect"
    BY <1>1 DEF Receive, ledgerVars
  <2> QED
    BY <1>0, <2>2, <2>3 DEF CandidateOK, OpenOK, OnePositionPerPair, SamePair, NeverDeteriorates, NetRate
<1>2. CASE Detect
  <2>1. PICK o \in BestOpportunities : ~HasOpen(o) /\ best' = o
    BY <1>2 DEF Detect
  <2>2. pc = "detect" /\ o \in Candidates
    BY <1>2 DEF Detect, BestOpportunities
  <2>3. o.rate = NetRate(o)
    BY <1>0, <2>2, CandidateFacts DEF RatesAreSynthetic, NetRate
  <2>4. UNCHANGED <<open, history, todo, funding>> /\ pc' = "check"
    BY <1>2 DEF Detect, ledgerVars, marketVars
  <2>5. CandidateOK'
    BY <2>1, <2>3, <2>4 DEF CandidateOK, HasOpen, NetRate
  <2> QED
    BY <1>0, <2>4, <2>5 DEF RatesAreSynthetic, OpenOK, OnePositionPerPair, SamePair, NeverDeteriorates, NetRate
<1>3. CASE DetectNothing \/ Reject
  <2>1. /\ UNCHANGED <<open, history, funding>>
        /\ pc' = "refresh" /\ todo' \subseteq open
    BY <1>3 DEF DetectNothing, Reject, BeginRefresh, OpenBySymbol, ledgerVars, marketVars
  <2> QED
    BY <1>0, <2>1 DEF CandidateOK, RatesAreSynthetic, OpenOK, OnePositionPerPair, SamePair, NeverDeteriorates, NetRate
<1>4. CASE Approve
  <2>1. UNCHANGED <<open, history, funding, best, todo>> /\ pc = "check" /\ pc' = "execute"
    BY <1>4 DEF Approve, ledgerVars, marketVars
  <2>2. best.rate > 0
    BY <1>4 DEF Approve, RiskApproves
  <2>3. CandidateOK'
    BY <2>1, <2>2 DEF CandidateOK, HasOpen, NetRate
  <2> QED
    BY <1>0, <2>1, <2>3 DEF RatesAreSynthetic, OpenOK, OnePositionPerPair, SamePair, NeverDeteriorates, NetRate
<1>5. CASE Execute
  <2> DEFINE n == NewPosition(best, clock)
  <2>1. /\ open' = Put(open, n) /\ pc = "execute" /\ pc' = "refresh"
        /\ todo' \subseteq open'
        /\ UNCHANGED <<history, funding>>
    BY <1>5 DEF Execute, BeginRefresh, OpenBySymbol, marketVars
  <2>2. /\ n.id = <<n.symbol, n.long, n.short, best.detectedAt>>
        /\ n.symbol = best.symbol /\ n.long = best.long /\ n.short = best.short
    BY DEF NewPosition, OpportunityID
  <2>3. NetRate(n) > 0
    BY <2>1, <2>2 DEF CandidateOK, NetRate
  <2>4. \A p \in open : ~SamePair(p, n) /\ ~SamePair(n, p)
    BY <2>1, <2>2 DEF CandidateOK, HasOpen, SamePair
  <2> HIDE DEF n
  <2>5. open' \subseteq open \cup {n}
    BY <2>1 DEF Put
  <2>6. OpenOK'
    BY <2>2, <2>3, <2>5 DEF OpenOK, NetRate
  <2>7. OnePositionPerPair'
    BY <2>4, <2>5 DEF OnePositionPerPair, SamePair
  <2> QED
    BY <1>0, <2>1, <2>6, <2>7 DEF CandidateOK, RatesAreSynthetic, NeverDeteriorates
<1>6. ASSUME NEW p \in todo, Skip(p) PROVE BookInv'
  <2>1. UNCHANGED <<open, history, funding, pc, best>> /\ todo' \subseteq todo
    BY <1>6 DEF Skip, ledgerVars, marketVars
  <2> QED
    BY <1>0, <2>1 DEF CandidateOK, RatesAreSynthetic, OpenOK, OnePositionPerPair, SamePair,
                      NeverDeteriorates, NetRate, HasOpen
<1>7. ASSUME NEW p \in todo, Hold(p) PROVE BookInv'
  <2> DEFINE m == [p EXCEPT !.unrealized = Unrealized(p)]
  <2>1. /\ pc = "refresh" /\ p \in open
        /\ open' = Put(open, m) /\ todo' = todo \ {p}
        /\ UNCHANGED <<history, funding, pc>>
    BY <1>7 DEF Hold, marketVars
  <2>2. m.id = p.id /\ m.symbol = p.symbol /\ m.long = p.long /\ m.short = p.short
    BY <1>0, MarkedFacts DEF TypeOK, HandlerTypeOK
  <2> HIDE DEF m
  <2>3. open' = {q \in open : q.id # p.id} \cup {m}
    BY <2>1, <2>2 DEF Put
  <2>4. todo' \subseteq open'
    BY <2>1, <2>3, IdsAreUnique
  <2>5. OpenOK'
    BY <2>1, <2>2, <2>3 DEF OpenOK, NetRate
  <2>6. OnePositionPerPair'
    <3>1. \A q \in open : q.id # p.id => ~SamePair(q, m) /\ ~SamePair(m, q)
      BY <2>1, <2>2 DEF OnePositionPerPair, SamePair
    <3> QED
      BY <2>3, <3>1 DEF OnePositionPerPair, SamePair
  <2> QED
    BY <1>0, <2>1, <2>4, <2>5, <2>6 DEF CandidateOK, RatesAreSynthetic, NeverDeteriorates
<1>8. ASSUME NEW p \in todo, Close(p) PROVE BookInv'
  <2>1. /\ pc = "refresh" /\ p \in open /\ ExitQuoted(p)
        /\ open' = {q \in open : q.id # p.id} /\ todo' = todo \ {p}
        /\ history' = Remember(history, Closed(p), PositionLimit)
        /\ UNCHANGED <<funding, pc>>
    BY <1>8 DEF Close, marketVars
  <2>2. todo' \subseteq open'
    BY <2>1, IdsAreUnique
  <2>3. Closed(p).reason # "carry_deteriorated"
    BY <2>1, RateStays DEF Closed, CloseReason
  <2>4. /\ history'[1] = Closed(p)
        /\ \A i \in DOMAIN history' : i # 1 => i - 1 \in DOMAIN history /\ history'[i] = history[i - 1]
    <3>1. history \in Seq(Range(history)) /\ PositionLimit \in Nat \ {0}
      BY <1>0, ScannerAssumption DEF TypeOK, LedgerTypeOK, ScannerAssumption
    <3> QED
      BY <2>1, <3>1, RememberFacts
  <2>5. NeverDeteriorates'
    BY <2>3, <2>4 DEF NeverDeteriorates
  <2> QED
    BY <1>0, <2>1, <2>2, <2>5 DEF CandidateOK, RatesAreSynthetic, OpenOK, OnePositionPerPair, SamePair, NetRate
<1>9. CASE Return \/ Stop
  <2>1. /\ UNCHANGED <<open, history, funding, todo>>
        /\ pc' \in {"idle", "stopped"}
    BY <1>9 DEF Return, Stop, ledgerVars, marketVars
  <2> QED
    BY <1>0, <2>1 DEF CandidateOK, RatesAreSynthetic, OpenOK, OnePositionPerPair, SamePair, NeverDeteriorates, NetRate
<1>10. CASE UNCHANGED <<marketVars, open, history, handlerVars>>
  BY <1>0, <1>10 DEF marketVars, handlerVars, CandidateOK, RatesAreSynthetic, OpenOK, OnePositionPerPair,
                     SamePair, NeverDeteriorates, NetRate, HasOpen
<1> QED
  BY <1>1, <1>2, <1>3, <1>4, <1>5, <1>6, <1>7, <1>8, <1>9, <1>10, QuietSteps

LEMMA BookInvariant == Spec => []BookInv
<1> QED
  BY BookInit, BookStep, PTL DEF Spec

\* At most one open position per (symbol, long, short).
THEOREM OnePerPair == Spec => []OnePositionPerPair
<1>1. BookInv => OnePositionPerPair
  BY DEF BookInv
<1> QED
  BY <1>1, BookInvariant, PTL

\* No two open positions undo each other.
THEOREM NoOpposites == Spec => []NoOppositePositions
<1>1. BookInv => NoOppositePositions
  <2> SUFFICES ASSUME BookInv, NEW p \in open, NEW q \in open,
                      p.symbol = q.symbol, p.long = q.short, p.short = q.long
               PROVE  FALSE
    BY DEF NoOppositePositions
  <2>1. IsPosition(p) /\ IsPosition(q)
    BY DEF BookInv, TypeOK, LedgerTypeOK
  <2>2. NetRate(p) > 0 /\ NetRate(q) > 0
    BY DEF BookInv, OpenOK
  <2>3. SyntheticRate(p.short, p.symbol) \in Int /\ SyntheticRate(p.long, p.symbol) \in Int
    BY <2>1, RateType DEF IsPosition
  <2> QED
    BY <2>2, <2>3 DEF NetRate
<1> QED
  BY <1>1, BookInvariant, PTL

\* No position is ever closed because its carry deteriorated.
THEOREM DeteriorationIsDead == Spec => []NeverDeteriorates
<1>1. BookInv => NeverDeteriorates
  BY DEF BookInv
<1> QED
  BY <1>1, BookInvariant, PTL

-----------------------------------------------------------------------------
(* Funding instants.                                                       *)
(*                                                                         *)
(* No stamp is later than the clock, so whatever closed was due by now;    *)
(* the risk check makes the next target of a pair later than now, by more  *)
(* than the pause that may follow.                                         *)

\* The configuration these results need: a position is held for a whole interval
\* at least, and the margin before a window outlasts the pause between the risk
\* check and the execution.  The code does not check either; the defaults have
\* 9 hours for 8, and 15 minutes for the pause.
HoldCoversFunding == MaxHoldTime >= FundingInterval

MarginCoversPause == MaxPause < MinTimeToFunding

StampsArePast ==
  /\ \A b \in parsed : b.at <= clock
  /\ \A i \in DOMAIN updates : updates[i].at <= clock
  /\ \A f \in funding : f.next <= clock + FundingInterval
  /\ pc \in {"detect", "check", "execute", "refresh"} => update.at <= clock

TargetOK ==
  /\ pc \in {"check", "execute"} => best.target <= clock + FundingInterval
  /\ pc = "execute" => /\ checkedAt + MinTimeToFunding <= best.target
                       /\ clock <= checkedAt + MaxPause

OpenTimesOK ==
  \A p \in open : p.openedAt < p.target /\ p.target <= p.openedAt + FundingInterval

HistoryTimesOK ==
  \A i \in DOMAIN history :
    LET h == history[i] IN
    /\ h.position.openedAt < h.position.target
    /\ h.position.target <= h.closedAt
    /\ h.closedAt <= clock

FundingInv ==
  /\ BookInv /\ StampsArePast /\ TargetOK /\ OpenTimesOK /\ HistoryTimesOK
  /\ EachFundingOnce

LEMMA ConstantTypes ==
  /\ FundingInterval \in Nat \ {0} /\ MaxHoldTime \in Nat
  /\ MaxPause \in Nat /\ MinTimeToFunding \in Int
  /\ PositionLimit \in Nat \ {0}
BY MarketAssumption, EstimatorAssumption, ScannerAssumption
DEF MarketAssumption, EstimatorAssumption, ScannerAssumption

LEMMA FundingInit == Init => FundingInv
<1> SUFFICES ASSUME Init PROVE FundingInv
  OBVIOUS
<1>1. BookInv
  BY BookInit
<1>2. DOMAIN history = {} /\ DOMAIN updates = {}
  BY DEF Init
<1> QED
  BY <1>1, <1>2 DEF Init, FundingInv, StampsArePast, TargetOK, OpenTimesOK, HistoryTimesOK,
                    EachFundingOnce

LEMMA StampsStep == FundingInv /\ [Next]_vars => StampsArePast'
<1> SUFFICES ASSUME FundingInv, [Next]_vars PROVE StampsArePast'
  OBVIOUS
<1>0. TypeOK /\ StampsArePast
  BY DEF FundingInv, BookInv
<1>a. /\ clock \in Nat /\ updates \in Seq(OrderBookSnapshot)
      /\ \A b \in parsed : b.at \in Nat
      /\ \A i \in DOMAIN updates : updates[i].at \in Nat
      /\ \A f \in funding : f.next \in Nat
      /\ pc \in {"detect", "check", "execute", "refresh"} => update.at \in Nat
  <2>1. \A b \in OrderBookSnapshot : b.at \in Nat
    BY DEF OrderBookSnapshot
  <2>2. updates \in Seq(OrderBookSnapshot)
    BY <1>0 DEF TypeOK, FeedTypeOK
  <2>3. \A i \in DOMAIN updates : updates[i] \in OrderBookSnapshot
    BY <2>2, ElementOfSeq, LenProperties
  <2> QED
    BY <1>0, <2>1, <2>2, <2>3 DEF TypeOK, FeedTypeOK, HandlerTypeOK, IsFunding
<1>b. FundingInterval \in Nat
  BY ConstantTypes
<1> USE DEF envVars, feedVars, marketVars, handlerVars
<1>1. CASE Tick
  BY <1>0, <1>1, <1>a, <1>b DEF Tick, StampsArePast
<1>2. CASE Cancel
  BY <1>0, <1>2 DEF Cancel, StampsArePast
<1>3. ASSUME NEW x \in Exchanges, Parse(x) PROVE StampsArePast'
  <2>1. PICK s \in Symbols, q \in Quotes[x] :
          parsed' = parsed \cup {ParseSnapshot(x, s, q, clock)}
    BY <1>3 DEF Parse
  <2>2. ParseSnapshot(x, s, q, clock).at <= clock
    BY <1>a DEF ParseSnapshot
  <2>3. \A b \in parsed' : b.at <= clock
    BY <2>1, <2>2, <1>0 DEF StampsArePast
  <2> QED
    BY <1>0, <1>3, <2>3 DEF Parse, StampsArePast
<1>4. ASSUME NEW x \in Exchanges, Send(x) PROVE StampsArePast'
  <2>1. PICK b \in parsed : updates' = Append(updates, b) /\ parsed' = parsed \ {b}
    BY <1>4 DEF Send, InFlight
  <2>2. b \in OrderBookSnapshot /\ b.at <= clock
    BY <1>0 DEF TypeOK, FeedTypeOK, StampsArePast
  <2>3. \A i \in DOMAIN updates' : updates'[i].at <= clock
    BY <2>1, <2>2, <1>0, <1>a DEF StampsArePast
  <2> QED
    BY <1>0, <1>4, <2>1, <2>3 DEF Send, StampsArePast
<1>5. ASSUME NEW x \in Exchanges, Abort(x) \/ Leave(x) PROVE StampsArePast'
  BY <1>0, <1>5 DEF Abort, Leave, StampsArePast
<1>6. CASE Receive
  <2>1. /\ updates # <<>> /\ update' = Head(updates) /\ updates' = Tail(updates)
        /\ funding' = ApplySnapshot(funding, SyntheticSnapshot(Head(updates)))
        /\ UNCHANGED <<clock, parsed>>
    BY <1>6 DEF Receive
  <2>2. Head(updates) \in OrderBookSnapshot /\ Head(updates).at <= clock
    BY <2>1, <1>0, <1>a DEF StampsArePast
  <2>3. SyntheticSnapshot(Head(updates)).next <= clock + FundingInterval
    <3>1. /\ SyntheticSnapshot(Head(updates)).next \in Nat
          /\ SyntheticSnapshot(Head(updates)).next <= Head(updates).at + FundingInterval
      BY <2>2, SyntheticFacts DEF IsFunding
    <3> QED
      BY <2>2, <3>1, <1>a, <1>b DEF OrderBookSnapshot
  <2>4. \A f \in funding' : f.next <= clock + FundingInterval
    BY <2>1, <2>3, <1>0 DEF ApplySnapshot, StampsArePast
  <2>5. \A i \in DOMAIN updates' : updates'[i].at <= clock
    BY <2>1, <1>0, <1>a DEF StampsArePast
  <2> QED
    BY <1>0, <2>1, <2>2, <2>4, <2>5 DEF StampsArePast
<1>7. CASE Scan /\ ~Receive
  <2>1. /\ UNCHANGED <<clock, parsed, updates, funding>>
        /\ pc' \in {"detect", "check", "execute", "refresh"} =>
             pc \in {"detect", "check", "execute", "refresh"} /\ update' = update
    BY <1>7 DEF Scan, Detect, DetectNothing, Approve, Reject, Execute, Skip, Hold, Close,
                Return, Stop, EnqueueNext, BeginRefresh
  <2> QED
    BY <1>0, <2>1 DEF StampsArePast
<1>8. CASE Write
  BY <1>0, <1>8 DEF Write, StampsArePast
<1>9. CASE UNCHANGED vars
  BY <1>0, <1>9 DEF vars, StampsArePast
<1> QED
  BY <1>1, <1>2, <1>3, <1>4, <1>5, <1>6, <1>7, <1>8, <1>9 DEF Next, Connect

LEMMA TargetStep ==
  ASSUME MarginCoversPause, FundingInv, [Next]_vars
  PROVE  TargetOK'
<1>0. TypeOK /\ TypeOK' /\ TargetOK /\ StampsArePast
  BY FeedTypeStep, LedgerTypeStep, HandlerTypeStep DEF TypeOK, FundingInv, BookInv
<1>a. clock \in Nat /\ checkedAt \in Nat /\ (pc \in {"check", "execute"} => best.target \in Nat)
  BY <1>0 DEF TypeOK, FeedTypeOK, HandlerTypeOK, IsOpportunity
<1>b. /\ FundingInterval \in Nat /\ MaxPause \in Nat /\ MinTimeToFunding \in Int
      /\ MaxPause < MinTimeToFunding
  BY ConstantTypes DEF MarginCoversPause
<1>1. CASE Tick
  BY <1>0, <1>1, <1>a, <1>b DEF Tick, TargetOK, handlerVars
<1>2. CASE Detect
  <2>1. PICK o \in BestOpportunities : best' = o
    BY <1>2 DEF Detect
  <2>2. pc = "detect" /\ pc' = "check" /\ clock' = clock /\ o \in Candidates
    BY <1>2 DEF Detect, BestOpportunities, envVars
  <2>3. PICK f \in funding : o.target <= f.next
    BY <1>0, <2>2, CandidateFacts
  <2>4. f.next <= clock + FundingInterval /\ f.next \in Nat
    BY <1>0 DEF StampsArePast, TypeOK, FeedTypeOK, IsFunding
  <2>5. o.target \in Nat
    BY <1>0, <2>2, CandidateFacts DEF IsOpportunity
  <2>6. o.target <= clock + FundingInterval
    BY <2>3, <2>4, <2>5, <1>a, <1>b
  <2> QED
    BY <2>1, <2>2, <2>6 DEF TargetOK
<1>3. CASE Approve
  <2>1. /\ pc = "check" /\ pc' = "execute" /\ best' = best
        /\ clock' = clock /\ checkedAt' = clock /\ FundingWindowOpen(best, clock)
    BY <1>3 DEF Approve, RiskApproves, envVars
  <2>2. best.target - clock >= MinTimeToFunding
    BY <2>1, <1>b DEF FundingWindowOpen
  <2> QED
    BY <2>1, <2>2, <1>0, <1>a, <1>b DEF TargetOK
<1>4. CASE UNCHANGED <<clock, pc, best, checkedAt>>
  BY <1>0, <1>4 DEF TargetOK
<1>5. CASE pc' \notin {"check", "execute"}
  BY <1>5 DEF TargetOK
<1> QED
  <2>1. ASSUME ~Tick, ~Detect, ~Approve, pc' \in {"check", "execute"}
        PROVE  UNCHANGED <<clock, pc, best, checkedAt>>
    BY <2>1 DEF Next, Cancel, Connect, Parse, Send, Abort, Leave, Scan, Receive, DetectNothing,
                Reject, Execute, Skip, Hold, Close, Return, Stop, EnqueueNext, Write,
                BeginRefresh, vars, envVars, handlerVars
  <2> QED
    BY <1>1, <1>2, <1>3, <1>4, <1>5, <2>1

\* What a position is when it is opened: its funding instant is still to come, at
\* most an interval away, and later than every instant its pair was credited.
LEMMA OpenedInTime ==
  ASSUME MarginCoversPause, FundingInv, Execute
  PROVE  /\ clock < best.target
         /\ best.target <= clock + FundingInterval
         /\ \A i \in DOMAIN history : history[i].position.target < best.target
<1>1. /\ pc = "execute" /\ clock \in Nat /\ checkedAt \in Nat /\ best.target \in Nat
      /\ TargetOK /\ HistoryTimesOK
      /\ \A i \in DOMAIN history :
           history[i].position.target \in Nat /\ history[i].closedAt \in Nat
  BY DEF Execute, FundingInv, BookInv, TypeOK, FeedTypeOK, HandlerTypeOK, LedgerTypeOK,
         IsOpportunity, IsPosition
<1>2. /\ FundingInterval \in Nat /\ MaxPause \in Nat /\ MinTimeToFunding \in Int
      /\ MaxPause < MinTimeToFunding
  BY ConstantTypes DEF MarginCoversPause
<1>3. clock < best.target /\ best.target <= clock + FundingInterval
  BY <1>1, <1>2 DEF TargetOK
<1>4. \A i \in DOMAIN history : history[i].position.target <= clock
  BY <1>1 DEF HistoryTimesOK
<1> QED
  BY <1>1, <1>3, <1>4

\* A position is closed only at or after its funding instant: MaxHoldTime cannot
\* come first.
LEMMA ClosedInTime ==
  ASSUME HoldCoversFunding, FundingInv, NEW p \in todo, Close(p)
  PROVE  p.target <= update.at /\ update.at <= clock
<1>1. /\ p \in open /\ ExitQuoted(p) /\ (Deteriorated(p) \/ ~StaysOpen(p))
      /\ pc = "refresh"
  BY DEF Close, FundingInv, BookInv
<1>2. ~StaysOpen(p)
  BY <1>1, RateStays DEF FundingInv
<1>3. p.openedAt \in Nat /\ p.target \in Nat /\ p.target <= p.openedAt + FundingInterval
  BY <1>1 DEF FundingInv, BookInv, TypeOK, LedgerTypeOK, IsPosition, OpenTimesOK
<1>4. update.at \in Nat /\ update.at <= clock
  BY <1>1 DEF FundingInv, BookInv, TypeOK, HandlerTypeOK, OrderBookSnapshot, StampsArePast
<1>5. FundingInterval \in Nat /\ MaxHoldTime \in Nat /\ MaxHoldTime >= FundingInterval
  BY ConstantTypes DEF HoldCoversFunding
<1> QED
  BY <1>2, <1>3, <1>4, <1>5 DEF StaysOpen, HeldTooLong

LEMMA LedgerStep ==
  ASSUME HoldCoversFunding, MarginCoversPause, FundingInv, [Next]_vars
  PROVE  OpenTimesOK' /\ HistoryTimesOK' /\ EachFundingOnce'
<1>0. TypeOK /\ BookInv /\ OpenTimesOK /\ HistoryTimesOK /\ EachFundingOnce
  BY DEF FundingInv, BookInv
<1>a. /\ clock \in Nat /\ clock' \in Nat /\ clock <= clock'
      /\ \A i \in DOMAIN history : history[i].closedAt \in Nat
  <2>1. clock' = clock \/ clock' = clock + 1
    BY DEF FundingInv, Next, Tick, Cancel, Connect, Parse, Send, Abort, Leave, Scan, Receive,
           Detect, DetectNothing, Approve, Reject, Execute, Skip, Hold, Close, Return, Stop,
           EnqueueNext, Write, vars, envVars
  <2>2. clock \in Nat /\ \A i \in DOMAIN history : history[i].closedAt \in Nat
    BY <1>0 DEF TypeOK, FeedTypeOK, LedgerTypeOK
  <2> QED
    BY <2>1, <2>2
<1>1. CASE Execute
  <2> DEFINE n == NewPosition(best, clock)
  <2>1. open' = Put(open, n) /\ history' = history /\ clock' = clock
    BY <1>1 DEF Execute, envVars
  <2>2. n.target = best.target /\ n.openedAt = clock
    BY DEF NewPosition
  <2>3. /\ n.openedAt < n.target /\ n.target <= n.openedAt + FundingInterval
        /\ \A i \in DOMAIN history : history[i].position.target < n.target
    BY <1>1, <2>2, OpenedInTime
  <2> HIDE DEF n
  <2>4. open' \subseteq open \cup {n}
    BY <2>1 DEF Put
  <2>5. OpenTimesOK'
    BY <1>0, <2>3, <2>4 DEF OpenTimesOK
  <2>6. HistoryTimesOK'
    BY <1>0, <2>1 DEF HistoryTimesOK
  <2>7. EachFundingOnce'
    BY <1>0, <2>1, <2>3, <2>4 DEF EachFundingOnce, SamePair
  <2> QED
    BY <2>5, <2>6, <2>7
<1>2. ASSUME NEW p \in todo, Hold(p)
      PROVE  OpenTimesOK' /\ HistoryTimesOK' /\ EachFundingOnce'
  <2> DEFINE m == [p EXCEPT !.unrealized = Unrealized(p)]
  <2>1. open' = Put(open, m) /\ history' = history /\ clock' = clock /\ p \in open
    BY <1>0, <1>2 DEF Hold, envVars, BookInv
  <2>2. /\ m.symbol = p.symbol /\ m.long = p.long /\ m.short = p.short
        /\ m.openedAt = p.openedAt /\ m.target = p.target
    BY <1>0, <2>1, MarkedFacts DEF TypeOK, LedgerTypeOK
  <2> HIDE DEF m
  <2>3. open' \subseteq open \cup {m}
    BY <2>1 DEF Put
  <2>4. OpenTimesOK'
    BY <1>0, <2>1, <2>2, <2>3 DEF OpenTimesOK
  <2>5. HistoryTimesOK'
    BY <1>0, <2>1 DEF HistoryTimesOK
  <2>6. EachFundingOnce'
    <3>1. \A i \in DOMAIN history :
             SamePair(m, history[i].position) => history[i].position.target < m.target
      BY <1>0, <2>1, <2>2 DEF EachFundingOnce, SamePair
    <3> QED
      BY <1>0, <2>1, <2>3, <3>1 DEF EachFundingOnce, SamePair
  <2> QED
    BY <2>4, <2>5, <2>6
<1>3. ASSUME NEW p \in todo, Close(p)
      PROVE  OpenTimesOK' /\ HistoryTimesOK' /\ EachFundingOnce'
  <2> DEFINE h == Closed(p)
             m == [p EXCEPT !.unrealized = Unrealized(p)]
  <2>1. /\ open' = {q \in open : q.id # p.id} /\ clock' = clock /\ p \in open
        /\ history' = Remember(history, h, PositionLimit)
    BY <1>0, <1>3 DEF Close, envVars, BookInv
  <2>2. h.position = m /\ h.closedAt = update.at
    BY DEF Closed
  <2>3. /\ m.symbol = p.symbol /\ m.long = p.long /\ m.short = p.short
        /\ m.openedAt = p.openedAt /\ m.target = p.target
    BY <1>0, <2>1, MarkedFacts DEF TypeOK, LedgerTypeOK
  <2>4. p.target <= update.at /\ update.at <= clock
    BY <1>3, ClosedInTime
  <2> HIDE DEF h, m
  <2>5. /\ history' \in Seq(Range(history')) /\ history'[1] = h
        /\ \A i \in DOMAIN history' : i # 1 => i - 1 \in DOMAIN history /\ history'[i] = history[i - 1]
    <3>1. history \in Seq(Range(history)) /\ PositionLimit \in Nat \ {0}
      BY <1>0, ConstantTypes DEF TypeOK, LedgerTypeOK
    <3> QED
      BY <2>1, <3>1, RememberFacts
  <2>6. DOMAIN history' \subseteq Nat
    BY <2>5, LenProperties
  <2>7. OpenTimesOK'
    BY <1>0, <2>1 DEF OpenTimesOK
  <2>8. HistoryTimesOK'
    <3>1. p.openedAt < p.target
      BY <1>0, <2>1 DEF OpenTimesOK
    <3>2. \A i \in DOMAIN history' : i = 1 => history'[i] = h
      BY <2>5
    <3>3. \A i \in DOMAIN history' : i # 1 => i - 1 \in DOMAIN history /\ history'[i] = history[i - 1]
      BY <2>5
    <3> QED
      BY <1>0, <2>1, <2>2, <2>3, <2>4, <3>1, <3>2, <3>3 DEF HistoryTimesOK
  <2>9. EachFundingOnce'
    <3>1. ASSUME NEW i \in DOMAIN history', NEW j \in DOMAIN history', i < j,
                 SamePair(history'[i].position, history'[j].position)
          PROVE  history'[j].position.target < history'[i].position.target
      <4>1. j # 1 /\ j - 1 \in DOMAIN history /\ history'[j] = history[j - 1]
        <5>1. i \in 1..Len(history') /\ j \in 1..Len(history') /\ Len(history') \in Nat
          BY <2>5, LenProperties
        <5> QED
          BY <3>1, <5>1, <2>5
      <4>2. CASE i = 1
        BY <1>0, <2>1, <2>2, <2>3, <2>5, <3>1, <4>1, <4>2 DEF EachFundingOnce, SamePair
      <4>3. CASE i # 1
        <5>1. i - 1 \in DOMAIN history /\ history'[i] = history[i - 1]
          BY <2>5, <4>3
        <5>2. i - 1 < j - 1
          BY <2>6, <3>1
        <5> QED
          BY <1>0, <3>1, <4>1, <5>1, <5>2 DEF EachFundingOnce
      <4> QED
        BY <4>2, <4>3
    <3>2. ASSUME NEW q \in open', NEW i \in DOMAIN history', SamePair(q, history'[i].position)
          PROVE  history'[i].position.target < q.target
      <4>1. q \in open /\ q.id # p.id
        BY <2>1
      <4>2. CASE i = 1
        <5>1. SamePair(q, p)
          BY <2>2, <2>3, <2>5, <3>2, <4>2 DEF SamePair
        <5> QED
          BY <1>0, <2>1, <4>1, <5>1 DEF BookInv, OnePositionPerPair
      <4>3. CASE i # 1
        BY <1>0, <2>5, <3>2, <4>1, <4>3 DEF EachFundingOnce
      <4> QED
        BY <4>2, <4>3
    <3> QED
      BY <3>1, <3>2 DEF EachFundingOnce
  <2> QED
    BY <2>7, <2>8, <2>9
<1>4. CASE UNCHANGED <<open, history>>
  <2>1. HistoryTimesOK'
    BY <1>0, <1>4, <1>a DEF HistoryTimesOK
  <2> QED
    BY <1>0, <1>4, <2>1 DEF OpenTimesOK, EachFundingOnce, SamePair
<1> QED
  <2>1. ASSUME ~Execute, \A p \in todo : ~Hold(p) /\ ~Close(p)
        PROVE  UNCHANGED <<open, history>>
    BY <2>1 DEF Next, Tick, Cancel, Connect, Parse, Send, Abort, Leave, Scan, Receive, Detect,
                DetectNothing, Approve, Reject, Skip, Return, Stop, EnqueueNext, Write,
                vars, ledgerVars
  <2> QED
    BY <1>1, <1>2, <1>3, <1>4, <2>1

LEMMA FundingInvariant ==
  ASSUME HoldCoversFunding, MarginCoversPause
  PROVE  Spec => []FundingInv
<1>1. Init => FundingInv
  BY FundingInit
<1>2. FundingInv /\ [Next]_vars => FundingInv'
  <2> SUFFICES ASSUME FundingInv, [Next]_vars PROVE FundingInv'
    OBVIOUS
  <2>1. BookInv'
    BY BookStep DEF FundingInv
  <2> QED
    BY <2>1, StampsStep, TargetStep, LedgerStep DEF FundingInv
<1> QED
  BY <1>1, <1>2, PTL DEF Spec

\* The carry is credited only to positions that were open at their funding instant.
THEOREM CarryIsEarned ==
  ASSUME HoldCoversFunding, MarginCoversPause
  PROVE  Spec => []FundingEarned
<1>1. FundingInv => FundingEarned
  BY DEF FundingInv, HistoryTimesOK, FundingEarned
<1> QED
  BY <1>1, FundingInvariant, PTL

\* No funding instant is credited twice to a pair.
THEOREM CarryIsEarnedOnce ==
  ASSUME HoldCoversFunding, MarginCoversPause
  PROVE  Spec => []EachFundingOnce
<1>1. FundingInv => EachFundingOnce
  BY DEF FundingInv
<1> QED
  BY <1>1, FundingInvariant, PTL

-----------------------------------------------------------------------------
(* The scanner implements FundingLedger.                                   *)

\* A position is known by its contract, for its pair is its alone.
LEMMA ContractsAreUnique ==
  ASSUME BookInv, NEW p \in open, NEW q \in open, Contract(p).pair = Contract(q).pair
  PROVE  p = q
<1>1. p.symbol = q.symbol /\ p.long = q.long /\ p.short = q.short
  BY DEF Contract
<1> QED
  BY <1>1 DEF BookInv, OnePositionPerPair, SamePair

\* The id of a candidate is free, since its pair is.
LEMMA ExecuteOpens ==
  ASSUME MarginCoversPause, FundingInv, Execute
  PROVE  Ledger!Next
<1> DEFINE n == NewPosition(best, clock)
           held == {Contract(p) : p \in open}
<1>1. /\ BookInv /\ pc = "execute" /\ ~HasOpen(best)
      /\ open' = Put(open, n) /\ clock' = clock
  BY DEF Execute, FundingInv, BookInv, CandidateOK, envVars
<1>2. /\ n.id = <<n.symbol, n.long, n.short, best.detectedAt>>
      /\ n.symbol = best.symbol /\ n.long = best.long /\ n.short = best.short
      /\ n.openedAt = clock /\ n.target = best.target
  BY DEF NewPosition, OpportunityID
<1>3. clock < n.target
  BY <1>2, OpenedInTime
<1> HIDE DEF n
<1>4. ASSUME NEW q \in open PROVE Contract(q).pair # Contract(n).pair /\ q.id # n.id
  <2>1. ~(q.symbol = n.symbol /\ q.long = n.long /\ q.short = n.short)
    BY <1>1, <1>2 DEF HasOpen
  <2>2. q.id[1] = q.symbol /\ q.id[2] = q.long /\ q.id[3] = q.short
    BY <1>1 DEF BookInv, OpenOK
  <2>3. n.id[1] = n.symbol /\ n.id[2] = n.long /\ n.id[3] = n.short
    BY <1>2
  <2> QED
    BY <2>1, <2>2, <2>3 DEF Contract
<1>5. open' = open \cup {n}
  BY <1>1, <1>4 DEF Put
<1>6. held' = held \cup {Contract(n)} /\ Contract(n) \in held'
  BY <1>5
<1>7. Contract(n).openedAt = clock /\ clock < Contract(n).target
  BY <1>2, <1>3 DEF Contract
<1>8. \A other \in held : other.pair # Contract(n).pair
  BY <1>4
<1>9. Ledger!Open(Contract(n))
  BY <1>1, <1>6, <1>7, <1>8 DEF Ledger!Open
<1> QED
  BY <1>6, <1>9 DEF Ledger!Next

LEMMA HoldKeepsContracts ==
  ASSUME FundingInv, NEW p \in todo, Hold(p)
  PROVE  UNCHANGED Ledger!vars
<1> DEFINE m == [p EXCEPT !.unrealized = Unrealized(p)]
<1>1. BookInv /\ p \in open /\ open' = Put(open, m) /\ clock' = clock
  BY DEF Hold, envVars, FundingInv, BookInv
<1>2. /\ m.id = p.id /\ m.symbol = p.symbol /\ m.long = p.long /\ m.short = p.short
      /\ m.openedAt = p.openedAt /\ m.target = p.target
  BY <1>1, MarkedFacts DEF BookInv, TypeOK, LedgerTypeOK
<1> HIDE DEF m
<1>3. Contract(m) = Contract(p)
  BY <1>2 DEF Contract
<1>4. open' = (open \ {p}) \cup {m}
  <2>1. {q \in open : q.id # m.id} = open \ {p}
    BY <1>1, <1>2, IdsAreUnique
  <2> QED
    BY <1>1, <2>1 DEF Put
<1>5. {Contract(q) : q \in open'} = {Contract(q) : q \in open}
  BY <1>1, <1>3, <1>4
<1> QED
  BY <1>1, <1>5 DEF Ledger!vars

LEMMA CloseSettles ==
  ASSUME HoldCoversFunding, FundingInv, NEW p \in todo, Close(p)
  PROVE  Ledger!Next
<1> DEFINE held == {Contract(q) : q \in open}
<1>1. BookInv /\ p \in open /\ open' = {q \in open : q.id # p.id} /\ clock' = clock
  BY DEF Close, envVars, FundingInv, BookInv
<1>2. p.target <= clock
  <2>1. p.target <= update.at /\ update.at <= clock
    BY ClosedInTime
  <2>2. p.target \in Nat /\ clock \in Nat /\ update.at \in Nat
    BY <1>1 DEF Close, BookInv, TypeOK, LedgerTypeOK, IsPosition, FeedTypeOK, HandlerTypeOK,
                OrderBookSnapshot
  <2> QED
    BY <2>1, <2>2
<1>3. open' = open \ {p}
  BY <1>1, IdsAreUnique
<1>4. \A q \in open : q # p => Contract(q) # Contract(p)
  BY <1>1, ContractsAreUnique
<1>5. held' = held \ {Contract(p)} /\ Contract(p) \in held
  BY <1>1, <1>3, <1>4
<1>6. Contract(p).target <= clock
  BY <1>2 DEF Contract
<1>7. Ledger!Settle(Contract(p))
  BY <1>1, <1>5, <1>6 DEF Ledger!Settle
<1> QED
  BY <1>5, <1>7 DEF Ledger!Next

LEMMA StepKeepsLedger ==
  ASSUME HoldCoversFunding, MarginCoversPause, FundingInv, [Next]_vars
  PROVE  [Ledger!Next]_(Ledger!vars)
<1>1. CASE Execute
  BY <1>1, ExecuteOpens
<1>2. ASSUME NEW p \in todo, Hold(p) PROVE UNCHANGED Ledger!vars
  BY <1>2, HoldKeepsContracts
<1>3. ASSUME NEW p \in todo, Close(p) PROVE Ledger!Next
  BY <1>3, CloseSettles
<1>4. CASE Tick
  <2>1. clock' = clock + 1 /\ open' = open
    BY <1>4 DEF Tick, ledgerVars
  <2> QED
    BY <2>1 DEF Ledger!Next, Ledger!Advance
<1>5. CASE UNCHANGED <<clock, open>>
  BY <1>5 DEF Ledger!vars
<1> QED
  <2>1. ASSUME ~Execute, ~Tick, \A p \in todo : ~Hold(p) /\ ~Close(p)
        PROVE  UNCHANGED <<clock, open>>
    BY <2>1 DEF Next, Cancel, Connect, Parse, Send, Abort, Leave, Scan, Receive, Detect,
                DetectNothing, Approve, Reject, Skip, Return, Stop, EnqueueNext, Write,
                vars, ledgerVars, envVars
  <2> QED
    BY <1>1, <1>2, <1>3, <1>4, <1>5, <2>1

\* Under the same assumptions the scanner implements the ledger: whatever the order of
\* the updates, positions are opened on free pairs before their funding instant and
\* closed at or after it.
THEOREM ImplementsLedger ==
  ASSUME HoldCoversFunding, MarginCoversPause
  PROVE  Spec => LedgerKept
<1>1. Init => Ledger!Init
  BY DEF Init, Ledger!Init
<1>2. FundingInv /\ [Next]_vars => [Ledger!Next]_(Ledger!vars)
  BY StepKeepsLedger
<1> QED
  BY <1>1, <1>2, FundingInvariant, PTL DEF Spec, LedgerKept, Ledger!Spec
=============================================================================
