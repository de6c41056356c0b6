---------------------------- MODULE ConfigProofs ----------------------------
(***************************************************************************)
(* The loader gives every document of the expected shape the meaning it    *)
(* has as YAML: for documents of any length, over any keys and values.     *)
(***************************************************************************)
EXTENDS MCConfig, SequenceTheorems, WellFoundedInduction, TLAPS

-----------------------------------------------------------------------------
(* The invariant.  A document is a tree of at most three levels; a line is *)
(* open while what follows it is below it.  The loader's three variables   *)
(* say of the open lines all that the next line needs.                     *)

Nested(d, i) ==
  LET p == Parent(d, i)
  IN  IF d[i].indent = 0 THEN p = 0
      ELSE p \in 1..(i - 1) /\ d[p].kind = "header" /\ d[p].indent = d[i].indent - 1

Siblings(d, i, j) == d[i].indent = d[j].indent /\ Parent(d, i) = Parent(d, j)

Document(d) ==
  /\ d \in Seq(Lines)
  /\ \A i \in DOMAIN d : Nested(d, i) /\ WellPlaced(d, i)
  /\ \A i, j \in DOMAIN d :
       i < j /\ Siblings(d, i, j) /\ d[j].kind # "item"
         => d[i].kind # "item" /\ d[i].key # d[j].key

Open(d, i) == \A j \in (i + 1)..Len(d) : d[j].indent > d[i].indent

SectionIsOpen ==
  \A i \in DOMAIN doc : Open(doc, i) /\ doc[i].indent = 0 => section = doc[i].key

ExchangeIsOpen ==
  \A i \in DOMAIN doc :
    Open(doc, i) /\ doc[i].indent = 1 /\ doc[i].kind = "header" /\ section \in {"exchanges", "fees"}
      => exchange = doc[i].key

ListIsOpen ==
  \A i \in DOMAIN doc :
    Open(doc, i) /\ doc[i].kind = "header" /\ Path(doc, i) = <<"trading", "symbols">>
      => listKey = <<"trading", "symbols">>

\* The list of symbols holds whatever an item says, and is one that can be extended.
SymbolsListed ==
  HasHeader(doc, <<"trading", "symbols">>) =>
    /\ cfg.symbols \in Seq(Items)
    /\ \A i \in SymbolItems(doc) : \E k \in DOMAIN cfg.symbols : cfg.symbols[k] = doc[i].value

Meant ==
  /\ DOMAIN cfg = {"settings", "symbols", "exchanges", "fees"}
  /\ Means(doc, cfg)
  /\ SymbolsListed

ConfigInv ==
  /\ Document(doc)
  /\ SectionIsOpen /\ ExchangeIsOpen /\ ListIsOpen
  /\ FailsOnBadNumber
  /\ ~failed => Meant

-----------------------------------------------------------------------------
(* Lemmas about the tree.                                                  *)

LEMMA MaxOfSome ==
  ASSUME NEW n \in Nat, NEW S \in SUBSET (1..n), S # {}
  PROVE  Max(S) \in S /\ \A y \in S : y <= Max(S)
<1> DEFINE T == {x \in Nat : n - x \in S}
<1>1. T \subseteq Nat /\ T # {}
  <2>1. PICK y \in S : TRUE
    OBVIOUS
  <2>2. n - y \in Nat /\ n - (n - y) = y
    OBVIOUS
  <2> QED
    BY <2>1, <2>2
<1>2. PICK x \in T : \A y \in T : ~(<<y, x>> \in OpToRel(<, Nat))
  BY <1>1, NatLessThanWellFounded, WFMin
<1>3. \A y \in T : x <= y
  <2> SUFFICES ASSUME NEW y \in T, ~(x <= y)
               PROVE  FALSE
    OBVIOUS
  <2>1. x \in Nat /\ y \in Nat /\ y < x
    BY <1>1
  <2>2. <<y, x>> \in OpToRel(<, Nat)
    BY <2>1 DEF OpToRel
  <2> QED
    BY <1>2, <2>2
<1>4. \A y \in S : y <= n - x
  <2> TAKE y \in S
  <2>1. n - y \in T
    OBVIOUS
  <2> QED
    BY <1>1, <1>3, <2>1
<1>5. \E m \in S : \A y \in S : m >= y
  BY <1>4
<1> QED
  BY <1>5 DEF Max

LEMMA LineTypes ==
  ASSUME NEW l \in Lines
  PROVE  /\ l.indent \in 0..2 /\ l.kind \in {"header", "pair", "item"}
         /\ l.kind = "item" => l.key = NoText /\ l.value \in Items /\ l.indent # 0
<1>1. CASE l \in [indent : 0..2, kind : {"header"}, key : Headers, value : {NoText}]
  BY <1>1
<1>2. CASE l \in {[indent |-> n, kind |-> "pair", key |-> p[1], value |-> p[2]] : n \in 0..2, p \in Pairs}
  BY <1>2
<1>3. CASE l \in [indent : 1..2, kind : {"item"}, key : {NoText}, value : Items]
  BY <1>3
<1> QED
  BY <1>1, <1>2, <1>3 DEF Lines

LEMMA DocTypes ==
  ASSUME NEW d \in Seq(Lines)
  PROVE  /\ Len(d) \in Nat /\ DOMAIN d = 1..Len(d)
         /\ \A i \in DOMAIN d :
              /\ i \in Nat /\ d[i] \in Lines /\ d[i].indent \in 0..2
              /\ d[i].kind \in {"header", "pair", "item"}
              /\ d[i].kind = "item" => d[i].key = NoText /\ d[i].value \in Items /\ d[i].indent # 0
<1>1. Len(d) \in Nat /\ DOMAIN d = 1..Len(d)
  BY LenProperties
<1>2. \A i \in 1..Len(d) : d[i] \in Lines
  BY ElementOfSeq
<1>3. \A i \in 1..Len(d) :
        /\ d[i].indent \in 0..2 /\ d[i].kind \in {"header", "pair", "item"}
        /\ d[i].kind = "item" => d[i].key = NoText /\ d[i].value \in Items /\ d[i].indent # 0
  BY <1>2, LineTypes, Zenon
<1> QED
  BY <1>1, <1>2, <1>3

\* The parent is the nearest line before that is further out.
LEMMA ParentFacts ==
  ASSUME NEW d \in Seq(Lines), NEW i \in DOMAIN d
  PROVE  /\ Parent(d, i) \in 0..(i - 1)
         /\ Parent(d, i) # 0 => d[Parent(d, i)].indent < d[i].indent
         /\ \A j \in (Parent(d, i) + 1)..(i - 1) : d[j].indent >= d[i].indent
<1> DEFINE A == Above(d, i)
<1>1. i \in Nat \ {0} /\ DOMAIN d = 1..Len(d) /\ Len(d) \in Nat
  BY DocTypes
<1>2. \A j \in 1..i : d[j].indent \in Int
  BY <1>1, DocTypes
<1>3. A \subseteq 1..(i - 1) /\ i - 1 \in Nat
  BY <1>1 DEF Above
<1>4. CASE A = {}
  BY <1>1, <1>2, <1>4 DEF Parent, Above
<1>5. CASE A # {}
  <2>1. Max(A) \in A /\ \A y \in A : y <= Max(A)
    BY <1>3, <1>5, MaxOfSome
  <2>2. Parent(d, i) = Max(A)
    BY <1>5 DEF Parent
  <2>3. \A j \in 1..(i - 1) : j \notin A => d[j].indent >= d[i].indent
    BY <1>1, <1>2 DEF Above
  <2> HIDE DEF A
  <2>4. Parent(d, i) \in 1..(i - 1)
    BY <1>3, <2>1, <2>2
  <2>5. \A j \in (Parent(d, i) + 1)..(i - 1) : j \notin A
    BY <1>1, <1>3, <2>1, <2>2, <2>4
  <2>6. d[Parent(d, i)].indent < d[i].indent
    BY <2>1, <2>2 DEF A, Above
  <2>7. \A j \in (Parent(d, i) + 1)..(i - 1) : j \in 1..(i - 1)
    BY <1>1, <2>4
  <2> QED
    BY <1>1, <2>3, <2>4, <2>5, <2>6, <2>7
<1> QED
  BY <1>4, <1>5

\* Nothing else is.
LEMMA ParentIs ==
  ASSUME NEW d \in Seq(Lines), NEW i \in DOMAIN d, NEW p \in 0..(i - 1),
         p # 0 => d[p].indent < d[i].indent,
         \A j \in (p + 1)..(i - 1) : d[j].indent >= d[i].indent
  PROVE  Parent(d, i) = p
<1>1. i \in Nat \ {0} /\ DOMAIN d = 1..Len(d) /\ Len(d) \in Nat
  BY DocTypes
<1>2. \A j \in 1..i : d[j].indent \in Int
  BY <1>1, DocTypes
<1> DEFINE q == Parent(d, i)
<1>3. /\ q \in 0..(i - 1)
      /\ q # 0 => d[q].indent < d[i].indent
      /\ \A j \in (q + 1)..(i - 1) : d[j].indent >= d[i].indent
  BY ParentFacts
<1> HIDE DEF q
<1>4. ~(q < p)
  BY <1>1, <1>2, <1>3
<1>5. ~(p < q)
  BY <1>1, <1>2, <1>3
<1> QED
  BY <1>1, <1>3, <1>4, <1>5 DEF q

-----------------------------------------------------------------------------
(* Lemmas about a document and the lines it is read by.                    *)

LEMMA AppendTypes ==
  ASSUME NEW d \in Seq(Lines), NEW l \in Lines
  PROVE  LET new == Append(d, l)
         IN  /\ new \in Seq(Lines) /\ Len(new) = Len(d) + 1
             /\ DOMAIN new = DOMAIN d \cup {Len(new)} /\ Len(new) \notin DOMAIN d
             /\ DOMAIN d = 1..Len(d) /\ Len(d) \in Nat
             /\ new[Len(new)] = l /\ \A i \in DOMAIN d : new[i] = d[i]
<1>1. /\ Append(d, l) \in Seq(Lines) /\ Len(Append(d, l)) = Len(d) + 1
      /\ \A i \in 1..Len(d) : Append(d, l)[i] = d[i]
      /\ Append(d, l)[Len(d) + 1] = l
  BY AppendProperties
<1>2. DOMAIN Append(d, l) = 1..Len(Append(d, l)) /\ DOMAIN d = 1..Len(d) /\ Len(d) \in Nat
  BY <1>1, LenProperties
<1> QED
  BY <1>1, <1>2

\* Where a line stands does not depend on what follows it.
LEMMA OldLines ==
  ASSUME NEW d \in Seq(Lines), NEW l \in Lines, NEW i \in DOMAIN d
  PROVE  LET new == Append(d, l)
         IN  /\ new[i] = d[i] /\ Parent(new, i) = Parent(d, i) /\ Path(new, i) = Path(d, i)
             /\ Nested(d, i) => Nested(new, i)
             /\ WellPlaced(d, i) => WellPlaced(new, i)
<1> DEFINE new == Append(d, l)
<1>1. /\ new \in Seq(Lines) /\ DOMAIN d \subseteq DOMAIN new
      /\ \A j \in DOMAIN d : new[j] = d[j]
  BY AppendTypes
<1> HIDE DEF new
<1>2. \A j \in DOMAIN d : Parent(new, j) = Parent(d, j)
  <2> TAKE j \in DOMAIN d
  <2>1. /\ Parent(d, j) \in 0..(j - 1)
        /\ Parent(d, j) # 0 => d[Parent(d, j)].indent < d[j].indent
        /\ \A k \in (Parent(d, j) + 1)..(j - 1) : d[k].indent >= d[j].indent
    BY ParentFacts
  <2>2. \A k \in 1..j : k \in DOMAIN d /\ new[k] = d[k]
    BY <1>1, DocTypes
  <2>3. j \in Nat \ {0} /\ \A k \in (Parent(d, j) + 1)..(j - 1) : k \in 1..j
    BY <2>1, DocTypes
  <2>4. j \in DOMAIN new
    BY <1>1
  <2>5. Parent(d, j) # 0 => new[Parent(d, j)].indent < new[j].indent
    BY <2>1, <2>2, <2>3
  <2>6. \A k \in (Parent(d, j) + 1)..(j - 1) : new[k].indent >= new[j].indent
    BY <2>1, <2>2, <2>3
  <2> QED
    BY <1>1, <2>1, <2>4, <2>5, <2>6, ParentIs
<1>3. \A j \in DOMAIN d : Parent(d, j) # 0 => Parent(d, j) \in DOMAIN d
  BY DocTypes, ParentFacts
<1>4. Path(new, i) = Path(d, i)
  BY <1>1, <1>2, <1>3 DEF Path
<1>5. Nested(d, i) => Nested(new, i)
  <2>1. Nested(d, i) /\ d[i].indent # 0 => Parent(d, i) \in DOMAIN d
    BY <1>3, DocTypes DEF Nested
  <2> QED
    BY <1>1, <1>2, <2>1 DEF Nested
<1>6. WellPlaced(d, i) => WellPlaced(new, i)
  BY <1>1, <1>4 DEF WellPlaced
<1> QED
  BY <1>1, <1>2, <1>4, <1>5, <1>6 DEF new

LEMMA Tuple1 ==
  ASSUME NEW P
  PROVE  \A a : P = <<a>> => Len(P) = 1 /\ P[1] = a
OBVIOUS

LEMMA Tuple2 ==
  ASSUME NEW P
  PROVE  \A a, b : P = <<a, b>> => Len(P) = 2 /\ P[1] = a /\ P[2] = b
OBVIOUS

LEMMA Tuple3 ==
  ASSUME NEW P
  PROVE  \A a, b, c : P = <<a, b, c>> => Len(P) = 3 /\ P[1] = a /\ P[2] = b /\ P[3] = c
OBVIOUS

\* The keys on the way to a line.
LEMMA Levels ==
  ASSUME NEW d \in Seq(Lines), \A i \in DOMAIN d : Nested(d, i)
  PROVE  /\ \A i \in DOMAIN d : d[i].indent = 0 => Parent(d, i) = 0 /\ Path(d, i) = <<d[i].key>>
         /\ \A i \in DOMAIN d : d[i].indent = 1 =>
              LET p == Parent(d, i)
              IN  /\ p \in DOMAIN d /\ p < i /\ d[p].indent = 0 /\ d[p].kind = "header"
                  /\ Path(d, i) = <<d[p].key, d[i].key>>
         /\ \A i \in DOMAIN d : d[i].indent = 2 =>
              LET p == Parent(d, i)
                  g == Parent(d, p)
              IN  /\ p \in DOMAIN d /\ p < i /\ d[p].indent = 1 /\ d[p].kind = "header"
                  /\ g \in DOMAIN d /\ g < p /\ d[g].indent = 0 /\ d[g].kind = "header"
                  /\ Path(d, i) = <<d[g].key, d[p].key, d[i].key>>
<1>1. \A j \in DOMAIN d :
        /\ d[j].indent = 0 => Parent(d, j) = 0
        /\ d[j].indent # 0 => /\ Parent(d, j) \in DOMAIN d /\ Parent(d, j) < j /\ Parent(d, j) # 0
                             /\ d[Parent(d, j)].kind = "header"
                             /\ d[Parent(d, j)].indent = d[j].indent - 1
  <2> TAKE j \in DOMAIN d
  <2>1. Nested(d, j) /\ DOMAIN d = 1..Len(d) /\ Len(d) \in Nat
    BY DocTypes
  <2> QED
    BY <2>1 DEF Nested
<1>2. ASSUME NEW i \in DOMAIN d, d[i].indent = 0
      PROVE  Parent(d, i) = 0 /\ Path(d, i) = <<d[i].key>>
  BY <1>1, <1>2 DEF Path
<1>3. ASSUME NEW i \in DOMAIN d, NEW p, p = Parent(d, i), d[i].indent = 1
      PROVE  /\ p \in DOMAIN d /\ p < i /\ d[p].indent = 0 /\ d[p].kind = "header"
             /\ Path(d, i) = <<d[p].key, d[i].key>>
  <2>1. p \in DOMAIN d /\ p < i /\ p # 0 /\ d[p].indent = 0 /\ d[p].kind = "header" /\ Parent(d, p) = 0
    BY <1>1, <1>3
  <2> QED
    BY <1>3, <2>1 DEF Path
<1>4. ASSUME NEW i \in DOMAIN d, NEW p, p = Parent(d, i), NEW g, g = Parent(d, p), d[i].indent = 2
      PROVE  /\ p \in DOMAIN d /\ p < i /\ d[p].indent = 1 /\ d[p].kind = "header"
             /\ g \in DOMAIN d /\ g < p /\ d[g].indent = 0 /\ d[g].kind = "header"
             /\ Path(d, i) = <<d[g].key, d[p].key, d[i].key>>
  <2>1. p \in DOMAIN d /\ p < i /\ p # 0 /\ d[p].indent = 1 /\ d[p].kind = "header"
    BY <1>1, <1>4
  <2>2. g \in DOMAIN d /\ g < p /\ g # 0 /\ d[g].indent = 0 /\ d[g].kind = "header"
    BY <1>1, <1>4, <2>1
  <2> QED
    BY <1>4, <2>1, <2>2 DEF Path
<1> QED
  BY <1>2, <1>3, <1>4

LEMMA LevelKeys ==
  ASSUME NEW d \in Seq(Lines), \A i \in DOMAIN d : Nested(d, i), NEW i \in DOMAIN d
  PROVE  /\ d[i].indent \in {0, 1, 2} /\ Len(Path(d, i)) = d[i].indent + 1
         /\ d[i].indent = 0 => Path(d, i)[1] = d[i].key
         /\ d[i].indent = 1 => Path(d, i)[1] = d[Parent(d, i)].key /\ Path(d, i)[2] = d[i].key
         /\ d[i].indent = 2 => /\ Path(d, i)[1] = d[Parent(d, Parent(d, i))].key
                              /\ Path(d, i)[2] = d[Parent(d, i)].key /\ Path(d, i)[3] = d[i].key
<1>1. ASSUME d[i].indent = 0
      PROVE  Len(Path(d, i)) = 1 /\ Path(d, i)[1] = d[i].key
  <2>1. Path(d, i) = <<d[i].key>>
    BY <1>1, Levels
  <2> QED
    BY <2>1, Tuple1, Zenon
<1>2. ASSUME d[i].indent = 1
      PROVE  Len(Path(d, i)) = 2 /\ Path(d, i)[1] = d[Parent(d, i)].key /\ Path(d, i)[2] = d[i].key
  <2>1. Path(d, i) = <<d[Parent(d, i)].key, d[i].key>>
    BY <1>2, Levels
  <2> QED
    BY <2>1, Tuple2, Zenon
<1>3. ASSUME d[i].indent = 2
      PROVE  /\ Len(Path(d, i)) = 3 /\ Path(d, i)[1] = d[Parent(d, Parent(d, i))].key
             /\ Path(d, i)[2] = d[Parent(d, i)].key /\ Path(d, i)[3] = d[i].key
  <2>1. Path(d, i) = <<d[Parent(d, Parent(d, i))].key, d[Parent(d, i)].key, d[i].key>>
    BY <1>3, Levels
  <2> DEFINE a == d[Parent(d, Parent(d, i))].key
             b == d[Parent(d, i)].key
             c == d[i].key
  <2>2. Path(d, i) = <<a, b, c>>
    BY <2>1
  <2> HIDE DEF a, b, c
  <2>3. Len(Path(d, i)) = 3 /\ Path(d, i)[1] = a /\ Path(d, i)[2] = b /\ Path(d, i)[3] = c
    BY <2>2, Tuple3, Zenon
  <2> QED
    BY <2>3 DEF a, b, c
<1>4. d[i].indent \in {0, 1, 2}
  BY DocTypes
<1> HIDE DEF Path, Parent
<1>5. Len(Path(d, i)) = d[i].indent + 1
  <2>1. CASE d[i].indent = 0
    BY <1>1, <2>1
  <2>2. CASE d[i].indent = 1
    BY <1>2, <2>2
  <2>3. CASE d[i].indent = 2
    BY <1>3, <2>3
  <2> QED
    BY <1>4, <2>1, <2>2, <2>3
<1> QED
  BY <1>1, <1>2, <1>3, <1>4, <1>5

LEMMA SamePath ==
  ASSUME NEW d, Document(d), NEW i \in DOMAIN d, NEW j \in DOMAIN d,
         Path(d, i) = Path(d, j), d[i].kind # "item", d[j].kind # "item"
  PROVE  i = j
<1> DEFINE Line(k) == k \in DOMAIN d /\ d[k].kind # "item"
           p == Parent(d, i)
           q == Parent(d, j)
<1>1. /\ d \in Seq(Lines) /\ (\A k \in DOMAIN d : Nested(d, k))
      /\ \A k, m : Line(k) /\ Line(m) /\ d[k].indent = d[m].indent /\ d[k].key = d[m].key
                     /\ Parent(d, k) = Parent(d, m) => k = m
  <2>1. \A k \in DOMAIN d : k \in Nat
    BY DocTypes DEF Document
  <2> QED
    BY <2>1 DEF Document, Siblings
<1>2. d[i].indent \in 0..2 /\ d[i].indent = d[j].indent
  <2>1. Len(Path(d, i)) = d[i].indent + 1 /\ Len(Path(d, j)) = d[j].indent + 1
    BY <1>1, LevelKeys
  <2>2. d[i].indent \in 0..2 /\ d[j].indent \in 0..2
    BY <1>1, DocTypes
  <2> QED
    BY <2>1, <2>2
<1>3. \A k, m : Line(k) /\ Line(m) /\ d[k].indent = 0 /\ d[m].indent = 0 /\ d[k].key = d[m].key => k = m
  BY <1>1, Levels
<1>4. CASE d[i].indent = 0
  <2>1. d[i].key = d[j].key
    BY <1>1, <1>2, <1>4, LevelKeys
  <2> QED
    BY <1>2, <1>3, <1>4, <2>1
<1>5. CASE d[i].indent = 1
  <2>1. p \in DOMAIN d /\ d[p].indent = 0 /\ d[p].kind = "header"
    BY <1>1, <1>5, Levels
  <2> d[j].indent = 1
    BY <1>2, <1>5
  <2>2. q \in DOMAIN d /\ d[q].indent = 0 /\ d[q].kind = "header"
    BY <1>1, Levels
  <2>3. Path(d, i)[1] = d[p].key /\ Path(d, i)[2] = d[i].key
    BY <1>1, <1>5, LevelKeys
  <2>4. Path(d, j)[1] = d[q].key /\ Path(d, j)[2] = d[j].key
    BY <1>1, LevelKeys
  <2>5. d[p].key = d[q].key /\ d[i].key = d[j].key
    BY <2>3, <2>4
  <2>6. p = q
    BY <1>3, <2>1, <2>2, <2>5
  <2> QED
    BY <1>1, <1>2, <2>5, <2>6
<1>6. CASE d[i].indent = 2
  <2> DEFINE g == Parent(d, p)
             h == Parent(d, q)
  <2> d[j].indent = 2
    BY <1>2, <1>6
  <2>1. /\ p \in DOMAIN d /\ d[p].indent = 1 /\ d[p].kind = "header"
        /\ g \in DOMAIN d /\ d[g].indent = 0 /\ d[g].kind = "header"
    BY <1>1, <1>6, Levels
  <2>2. /\ q \in DOMAIN d /\ d[q].indent = 1 /\ d[q].kind = "header"
        /\ h \in DOMAIN d /\ d[h].indent = 0 /\ d[h].kind = "header"
    BY <1>1, Levels
  <2>3. d[g].key = d[h].key /\ d[p].key = d[q].key /\ d[i].key = d[j].key
    <3>1. Path(d, i)[1] = d[g].key /\ Path(d, i)[2] = d[p].key /\ Path(d, i)[3] = d[i].key
      BY <1>1, <1>6, LevelKeys
    <3>2. Path(d, j)[1] = d[h].key /\ Path(d, j)[2] = d[q].key /\ Path(d, j)[3] = d[j].key
      BY <1>1, LevelKeys
    <3> QED
      BY <3>1, <3>2
  <2>4. g = h
    BY <1>3, <2>1, <2>2, <2>3
  <2>5. p = q
    BY <1>1, <2>1, <2>2, <2>3, <2>4
  <2> QED
    BY <1>1, <1>2, <2>3, <2>5
<1> QED
  BY <1>2, <1>4, <1>5, <1>6

-----------------------------------------------------------------------------
(* What may come next, and that the three variables tell it.               *)

LEMMA NewNested ==
  ASSUME NEW d \in Seq(Lines), \A i \in DOMAIN d : Nested(d, i), NEW l \in Lines, Follows(d, l)
  PROVE  Nested(Append(d, l), Len(d) + 1)
<1> DEFINE new == Append(d, l)
           m == Len(d)
           n == m + 1
           k == l.indent
<1>1. /\ new \in Seq(Lines) /\ DOMAIN new = 1..n /\ m \in Nat /\ DOMAIN d = 1..m /\ n = m + 1
      /\ new[n] = l /\ \A i \in 1..m : new[i] = d[i] /\ Parent(new, i) = Parent(d, i) /\ Nested(new, i)
  BY AppendTypes, OldLines
<1>2. k \in 0..2 /\ \A i \in 1..m : new[i].indent \in 0..2
  BY <1>1, LineTypes, DocTypes
<1>3. d = <<>> => k = 0
  BY DEF Follows
<1>4. d # <<>> => m \in 1..m /\ k <= d[m].indent + (IF d[m].kind = "header" THEN 1 ELSE 0)
  <2>1. d # <<>> => m # 0
    BY EmptySeq, <1>1
  <2> QED
    BY <1>1, <2>1 DEF Follows, Last
<1> SUFFICES Nested(new, n)
  OBVIOUS
<1> HIDE DEF new, k, m, n
<1>5. ASSUME NEW p \in 1..m, new[p].kind = "header", new[p].indent = k - 1, new[n].indent = k,
             \A j \in (p + 1)..m : new[j].indent >= k
      PROVE  Nested(new, n)
  <2>1. Parent(new, n) = p
    <3>1. n \in DOMAIN new /\ p \in 0..(n - 1) /\ n - 1 = m
      BY <1>1
    <3>2. /\ new[p].indent < new[n].indent
          /\ \A j \in (p + 1)..(n - 1) : new[j].indent >= new[n].indent
      BY <1>2, <1>5, <3>1
    <3> QED
      BY <1>1, <3>1, <3>2, ParentIs
  <2> QED
    BY <1>1, <1>2, <1>5, <2>1 DEF Nested
<1>6. CASE k = 0
  <2>1. n \in DOMAIN new /\ new[n].indent = 0
    BY <1>1, <1>6 DEF k
  <2>2. Parent(new, n) = 0
    <3>1. /\ Parent(new, n) \in 0..m
          /\ Parent(new, n) # 0 => new[Parent(new, n)].indent < 0
      BY <1>1, <2>1, ParentFacts
    <3> QED
      BY <1>1, <1>2, <3>1
  <2> QED
    BY <2>1, <2>2 DEF Nested
<1>7. CASE k # 0
  <2> DEFINE last == new[m].indent
             p == Parent(new, m)
             g == Parent(new, p)
  <2>1. m \in 1..m /\ new[m] = d[m] /\ new[n].indent = k /\ k >= 1 /\ m >= 1
        /\ k <= last + (IF new[m].kind = "header" THEN 1 ELSE 0)
    BY <1>1, <1>2, <1>3, <1>4, <1>7 DEF k
  <2>2. CASE last = k - 1
    <3>1. new[m].kind = "header" /\ \A j \in (m + 1)..m : new[j].indent >= k
      BY <1>1, <1>2, <2>1, <2>2
    <3> QED
      BY <1>5, <2>1, <2>2, <3>1
  <2>3. \A i \in 1..m : new[i].indent # 0 =>
          /\ Parent(new, i) \in 1..(i - 1) /\ Parent(new, i) \in 1..m
          /\ new[Parent(new, i)].kind = "header" /\ new[Parent(new, i)].indent = new[i].indent - 1
          /\ \A j \in (Parent(new, i) + 1)..(i - 1) : new[j].indent >= new[i].indent
    BY <1>1, ParentFacts DEF Nested
  <2>4. CASE last = k
    <3>1. /\ p \in 1..m /\ new[p].kind = "header" /\ new[p].indent = k - 1
          /\ \A j \in (p + 1)..(m - 1) : new[j].indent >= k
      BY <1>2, <2>1, <2>3, <2>4
    <3>2. \A j \in (p + 1)..m : new[j].indent >= k
      BY <1>1, <1>2, <2>1, <2>4, <3>1
    <3> HIDE DEF p
    <3> QED
      BY <1>5, <2>1, <3>1, <3>2
  <2>5. CASE last = k + 1
    <3>1. /\ p \in 1..m /\ p < m /\ new[p].indent = k
          /\ \A j \in (p + 1)..(m - 1) : new[j].indent >= k + 1
      BY <1>1, <1>2, <2>1, <2>3, <2>5
    <3>2. /\ g \in 1..m /\ g < p /\ new[g].kind = "header" /\ new[g].indent = k - 1
          /\ \A j \in (g + 1)..(p - 1) : new[j].indent >= k
      BY <1>1, <1>2, <2>1, <2>3, <3>1
    <3> HIDE DEF p, g
    <3>3. \A j \in (g + 1)..m : new[j].indent >= k
      BY <1>1, <1>2, <2>1, <2>5, <3>1, <3>2
    <3> QED
      BY <1>5, <2>1, <3>2, <3>3
  <2> QED
    BY <1>1, <1>2, <2>1, <2>2, <2>4, <2>5
<1> QED
  BY <1>6, <1>7

LEMMA StillDocument ==
  ASSUME NEW d, Document(d), NEW l \in Lines, Follows(d, l), WellPlaced(Append(d, l), Len(d) + 1)
  PROVE  Document(Append(d, l))
<1> DEFINE new == Append(d, l)
           n == Len(d) + 1
<1>1. d \in Seq(Lines) /\ \A i \in DOMAIN d : Nested(d, i) /\ WellPlaced(d, i)
  BY DEF Document
<1>2. /\ new \in Seq(Lines) /\ DOMAIN new = DOMAIN d \cup {n} /\ DOMAIN d = 1..Len(d)
      /\ Len(d) \in Nat /\ Len(new) = n
      /\ new[n] = l /\ \A i \in DOMAIN d : new[i] = d[i] /\ Parent(new, i) = Parent(d, i)
  BY <1>1, AppendTypes, OldLines
<1>3. \A i \in DOMAIN new : Nested(new, i) /\ WellPlaced(new, i)
  BY <1>1, <1>2, NewNested, OldLines
<1>4. ASSUME NEW i \in DOMAIN new, NEW j \in DOMAIN new,
             i < j, Siblings(new, i, j), new[j].kind # "item"
      PROVE  new[i].kind # "item" /\ new[i].key # new[j].key
  <2>1. i \in DOMAIN d
    BY <1>2, <1>4
  <2>2. CASE j \in DOMAIN d
    BY <1>2, <1>4, <2>1, <2>2 DEF Document, Siblings
  <2>3. CASE j = n
    <3>1. i \in {k \in 1..Len(d) : d[k].indent = l.indent /\ Parent(d, k) = Parent(new, n)}
      BY <1>2, <1>4, <2>1, <2>3 DEF Siblings
    <3>2. /\ (d[i].kind = "item") = (l.kind = "item")
          /\ l.kind # "item" => d[i].key # l.key
      BY <1>2, <3>1 DEF Follows
    <3> QED
      BY <1>2, <1>4, <2>1, <2>3, <3>2
  <2> QED
    BY <1>2, <2>2, <2>3
<1> HIDE DEF new
<1> QED
  BY <1>2, <1>3, <1>4 DEF Document, new

\* The lines a new one stands under are open.
LEMMA OpenAbove ==
  ASSUME NEW d \in Seq(Lines), NEW l \in Lines, Document(Append(d, l)),
         NEW n, n = Len(d) + 1, NEW p, p = Parent(Append(d, l), n), NEW g, g = Parent(Append(d, l), p)
  PROVE  /\ l.indent = 1 => /\ p \in DOMAIN d /\ Open(d, p) /\ d[p].indent = 0 /\ d[p].kind = "header"
                           /\ Path(Append(d, l), n) = <<d[p].key, l.key>>
         /\ l.indent = 2 => /\ p \in DOMAIN d /\ Open(d, p) /\ d[p].indent = 1 /\ d[p].kind = "header"
                           /\ g \in DOMAIN d /\ Open(d, g) /\ d[g].indent = 0 /\ d[g].kind = "header"
                           /\ Path(d, p) = <<d[g].key, d[p].key>>
                           /\ Path(Append(d, l), n) = <<d[g].key, d[p].key, l.key>>
<1> DEFINE new == Append(d, l)
<1>1. /\ new \in Seq(Lines) /\ (\A i \in DOMAIN new : Nested(new, i))
      /\ DOMAIN new = 1..n /\ DOMAIN d = 1..(n - 1) /\ n \in Nat \ {0} /\ Len(d) = n - 1
      /\ new[n] = l /\ \A i \in DOMAIN d : new[i] = d[i] /\ Path(new, i) = Path(d, i)
  BY AppendTypes, OldLines DEF Document
<1>2. n \in DOMAIN new /\ \A i \in 1..n : new[i].indent \in 0..2
  <2>1. \A i \in DOMAIN new : new[i].indent \in 0..2
    BY <1>1, DocTypes
  <2> QED
    BY <1>1, <2>1
<1>3. p = Parent(new, n) /\ g = Parent(new, p)
  OBVIOUS
<1> SUFFICES /\ l.indent = 1 => /\ p \in DOMAIN d /\ Open(d, p) /\ d[p].indent = 0 /\ d[p].kind = "header"
                               /\ Path(new, n) = <<d[p].key, l.key>>
             /\ l.indent = 2 => /\ p \in DOMAIN d /\ Open(d, p) /\ d[p].indent = 1 /\ d[p].kind = "header"
                               /\ g \in DOMAIN d /\ Open(d, g) /\ d[g].indent = 0 /\ d[g].kind = "header"
                               /\ Path(d, p) = <<d[g].key, d[p].key>>
                               /\ Path(new, n) = <<d[g].key, d[p].key, l.key>>
  OBVIOUS
<1> HIDE DEF new
<1>4. CASE l.indent = 1
  <2>1. /\ p \in DOMAIN new /\ p < n /\ new[p].indent = 0 /\ new[p].kind = "header"
        /\ Path(new, n) = <<new[p].key, l.key>>
    BY <1>1, <1>2, <1>3, <1>4, Levels
  <2>2. p \in DOMAIN d /\ new[p] = d[p]
    BY <1>1, <2>1
  <2>3. \A j \in (p + 1)..(n - 1) : new[j].indent >= 1
    BY <1>1, <1>2, <1>3, <1>4, ParentFacts
  <2>4. Open(d, p)
    BY <1>1, <2>1, <2>2, <2>3, DocTypes DEF Open
  <2> QED
    BY <1>4, <2>1, <2>2, <2>4
<1>5. CASE l.indent = 2
  <2>1. /\ p \in DOMAIN new /\ p < n /\ new[p].indent = 1 /\ new[p].kind = "header"
        /\ g \in DOMAIN new /\ g < p /\ new[g].indent = 0 /\ new[g].kind = "header"
        /\ Path(new, n) = <<new[g].key, new[p].key, l.key>>
    BY <1>1, <1>2, <1>3, <1>5, Levels
  <2>2. p \in DOMAIN d /\ new[p] = d[p] /\ g \in DOMAIN d /\ new[g] = d[g]
    BY <1>1, <2>1
  <2>3. Path(d, p) = <<d[g].key, d[p].key>>
    <3>1. Path(new, p) = <<new[Parent(new, p)].key, new[p].key>>
      BY <1>1, <2>1, Levels
    <3> QED
      BY <1>1, <1>3, <2>2, <3>1
  <2>4. \A j \in (p + 1)..(n - 1) : new[j].indent >= 2
    BY <1>1, <1>2, <1>3, <1>5, ParentFacts
  <2>5. \A j \in (g + 1)..(p - 1) : new[j].indent >= 1
    BY <1>1, <1>3, <2>1, ParentFacts
  <2>6. Open(d, p)
    <3>1. \A j \in (p + 1)..(n - 1) : j \in DOMAIN d /\ new[j] = d[j] /\ new[j].indent > new[p].indent
      <4> TAKE j \in (p + 1)..(n - 1)
      <4>1. j \in 1..(n - 1) /\ j \in 1..n
        BY <1>1, <2>1
      <4>2. new[j].indent >= 2 /\ new[j].indent \in 0..2
        BY <1>2, <2>4, <4>1
      <4>3. new[j] = d[j] /\ j \in DOMAIN d
        BY <1>1, <4>1
      <4>4. new[j].indent > new[p].indent
        BY <2>1, <4>2
      <4> QED
        BY <4>3, <4>4
    <3> QED
      BY <1>1, <2>2, <3>1 DEF Open
  <2>7. Open(d, g)
    <3>1. \A j \in (g + 1)..(n - 1) : new[j].indent >= 1
      <4> SUFFICES ASSUME NEW j \in (g + 1)..(n - 1)
                   PROVE  new[j].indent >= 1
        OBVIOUS
      <4>1. p \in Int /\ g \in Int /\ n \in Int
        BY <1>1, <2>1
      <4>2. CASE j \in (g + 1)..(p - 1)
        BY <2>5, <4>2
      <4>3. CASE j = p
        BY <2>1, <4>3
      <4>4. CASE j \in (p + 1)..(n - 1)
        <5>1. new[j].indent >= 2
          BY <2>4, <4>4
        <5>2. j \in 1..n
          BY <1>1, <2>1, <4>1, <4>4
        <5>3. new[j].indent \in 0..2
          BY <1>2, <5>2
        <5> QED
          BY <5>1, <5>3
      <4> QED
        BY <4>1, <4>2, <4>3, <4>4
    <3>2. \A j \in (g + 1)..(n - 1) : j \in DOMAIN d /\ new[j] = d[j] /\ new[j].indent > new[g].indent
      <4> TAKE j \in (g + 1)..(n - 1)
      <4>1. j \in 1..(n - 1) /\ j \in 1..n
        BY <1>1, <2>1
      <4>2. new[j].indent >= 1 /\ new[j].indent \in 0..2
        BY <1>2, <3>1, <4>1
      <4>3. new[j] = d[j] /\ j \in DOMAIN d
        BY <1>1, <4>1
      <4>4. new[j].indent > new[g].indent
        BY <2>1, <4>2
      <4> QED
        BY <4>3, <4>4
    <3> QED
      BY <1>1, <2>2, <3>2 DEF Open
  <2> QED
    BY <1>5, <2>1, <2>2, <2>3, <2>6, <2>7
<1> QED
  BY <1>4, <1>5

LEMMA SymbolsPath ==
  /\ LET P == <<"trading", "symbols">> IN Len(P) = 2 /\ P[1] = "trading" /\ P[2] = "symbols"
  /\ \A k : LET P == <<"trading", "symbols", k>>
           IN  Len(P) = 3 /\ P[1] = "trading" /\ P[2] = "symbols" /\ P[3] = k
OBVIOUS

LEMMA Placed ==
  ASSUME NEW d, NEW i, WellPlaced(d, i)
  PROVE  /\ d[i].kind = "header" =>
              \/ Len(Path(d, i)) = 1 /\ Path(d, i)[1] \in Sections
              \/ Path(d, i) = <<"trading", "symbols">>
              \/ /\ Len(Path(d, i)) = 2 /\ Path(d, i)[1] \in {"exchanges", "fees"}
                 /\ Path(d, i)[2] \notin Sections \cup {"symbols", NoText}
         /\ d[i].kind = "pair" =>
              IF Path(d, i)[1] \in {"exchanges", "fees"} THEN Len(Path(d, i)) = 3 ELSE Len(Path(d, i)) = 2
         /\ d[i].kind = "item" => Path(d, i) = <<"trading", "symbols", d[i].key>>
BY DEF WellPlaced

\* What the next line is, told by the loader's variables instead of its indentation.
LEMMA NextLine ==
  ASSUME Document(doc), SectionIsOpen, ExchangeIsOpen, ListIsOpen, NEW l \in Lines,
         NEW new, new = Append(doc, l), NEW n, n = Len(doc) + 1,
         Follows(doc, l), WellPlaced(new, n)
  PROVE  \/ /\ l.kind = "header" /\ l.indent = 0 /\ l.key \in Sections
            /\ Path(new, n) = <<l.key>>
         \/ /\ l.kind = "header" /\ l.indent = 1 /\ section = "trading" /\ l.key = "symbols"
            /\ Path(new, n) = <<"trading", "symbols">>
         \/ /\ l.kind = "header" /\ l.indent = 1 /\ section \in {"exchanges", "fees"}
            /\ l.key \notin Sections \cup {"symbols", NoText}
            /\ Path(new, n) = <<section, l.key>>
         \/ /\ l.kind = "pair" /\ l.indent = 1 /\ section \notin {"exchanges", "fees"}
            /\ Path(new, n) = <<section, l.key>>
         \/ /\ l.kind = "pair" /\ l.indent = 2 /\ section \in {"exchanges", "fees"}
            /\ exchange # NoText /\ HasHeader(doc, <<section, exchange>>)
            /\ Path(new, n) = <<section, exchange, l.key>>
         \/ /\ l.kind = "item" /\ l.indent = 2 /\ listKey = <<"trading", "symbols">>
            /\ HasHeader(doc, <<"trading", "symbols">>)
            /\ Path(new, n) = <<"trading", "symbols", l.key>>
<1> DEFINE p == Parent(new, n)
           g == Parent(new, p)
           path == Path(new, n)
<1>1. /\ Document(new) /\ new \in Seq(Lines) /\ (\A i \in DOMAIN new : Nested(new, i))
      /\ n \in DOMAIN new /\ new[n] = l /\ doc \in Seq(Lines)
  BY StillDocument, AppendTypes DEF Document
<1>2. /\ l.indent \in {0, 1, 2} /\ l.kind \in {"header", "pair", "item"} /\ Len(path) = l.indent + 1
      /\ l.kind = "item" => l.indent # 0
  <2>1. new[n].indent \in {0, 1, 2} /\ Len(path) = new[n].indent + 1
    BY <1>1, LevelKeys
  <2> QED
    BY <1>1, <2>1, LineTypes
<1>3. /\ l.kind = "header" =>
           \/ Len(path) = 1 /\ path[1] \in Sections
           \/ path = <<"trading", "symbols">>
           \/ /\ Len(path) = 2 /\ path[1] \in {"exchanges", "fees"}
              /\ path[2] \notin Sections \cup {"symbols", NoText}
      /\ l.kind = "pair" => IF path[1] \in {"exchanges", "fees"} THEN Len(path) = 3 ELSE Len(path) = 2
      /\ l.kind = "item" => path = <<"trading", "symbols", l.key>>
  <2>1. /\ new[n].kind = "header" =>
             \/ Len(Path(new, n)) = 1 /\ Path(new, n)[1] \in Sections
             \/ Path(new, n) = <<"trading", "symbols">>
             \/ /\ Len(Path(new, n)) = 2 /\ Path(new, n)[1] \in {"exchanges", "fees"}
                /\ Path(new, n)[2] \notin Sections \cup {"symbols", NoText}
        /\ new[n].kind = "pair" =>
             IF Path(new, n)[1] \in {"exchanges", "fees"} THEN Len(Path(new, n)) = 3
             ELSE Len(Path(new, n)) = 2
        /\ new[n].kind = "item" => Path(new, n) = <<"trading", "symbols", new[n].key>>
    BY Placed
  <2> QED
    BY <1>1, <2>1
<1>4. CASE l.indent = 0
  <2>1. path = <<l.key>> /\ path[1] = l.key
    <3>1. path = <<new[n].key>>
      BY <1>1, <1>4, Levels
    <3> QED
      BY <1>1, <3>1, Tuple1, Zenon
  <2> HIDE DEF path
  <2>2. l.kind = "header" /\ l.key \in Sections
    BY <1>2, <1>3, <1>4, <2>1, SymbolsPath
  <2> QED
    BY <1>4, <2>1, <2>2 DEF path
<1>5. CASE l.indent = 1
  <2>1. /\ p \in DOMAIN doc /\ Open(doc, p) /\ doc[p].indent = 0
        /\ path = <<doc[p].key, l.key>>
    BY <1>1, <1>5, OpenAbove
  <2>2. section = doc[p].key
    BY <2>1 DEF SectionIsOpen
  <2>3. path = <<section, l.key>>
    BY <2>1, <2>2
  <2> HIDE DEF path
  <2>4. path[1] = section /\ path[2] = l.key /\ Len(path) = 2
    BY <2>3, Tuple2, Zenon
  <2>5. path # <<"trading", "symbols", l.key>>
    BY <2>4, SymbolsPath
  <2>6. path = <<"trading", "symbols">> => section = "trading" /\ l.key = "symbols"
    BY <2>4, SymbolsPath
  <2>7. CASE l.kind = "header"
    <3>1. \/ path = <<"trading", "symbols">>
          \/ section \in {"exchanges", "fees"} /\ l.key \notin Sections \cup {"symbols", NoText}
      BY <1>3, <2>4, <2>7
    <3> QED
      BY <1>5, <2>3, <2>6, <2>7, <3>1 DEF path
  <2>8. CASE l.kind = "pair"
    <3>1. section \notin {"exchanges", "fees"}
      BY <1>3, <2>4, <2>8
    <3> QED
      BY <1>5, <2>3, <2>8, <3>1 DEF path
  <2> QED
    BY <1>2, <1>3, <2>5, <2>7, <2>8
<1>6. CASE l.indent = 2
  <2>1. /\ p \in DOMAIN doc /\ Open(doc, p) /\ doc[p].indent = 1 /\ doc[p].kind = "header"
        /\ g \in DOMAIN doc /\ Open(doc, g) /\ doc[g].indent = 0
        /\ Path(doc, p) = <<doc[g].key, doc[p].key>>
        /\ path = <<doc[g].key, doc[p].key, l.key>>
    BY <1>1, <1>6, OpenAbove
  <2>2. section = doc[g].key
    BY <2>1 DEF SectionIsOpen
  <2> DEFINE key == doc[p].key
             above == Path(doc, p)
  <2>3. path = <<section, key, l.key>> /\ above = <<section, key>>
    BY <2>1, <2>2
  <2> HIDE DEF path, key, above
  <2>4. Len(path) = 3 /\ path[1] = section /\ path[2] = key /\ path[3] = l.key
    BY <2>3, Tuple3, Zenon
  <2>5. Len(above) = 2 /\ above[1] = section /\ above[2] = key
    BY <2>3, Tuple2, Zenon
  <2>6. l.kind # "header"
    BY <1>3, <2>4, SymbolsPath
  <2>7. CASE l.kind = "pair"
    <3>1. section \in {"exchanges", "fees"}
      BY <1>3, <2>4, <2>7
    <3>2. exchange = key
      BY <2>1, <3>1 DEF ExchangeIsOpen, key
    <3>3. WellPlaced(doc, p)
      BY <2>1 DEF Document
    <3>4. key # NoText
      <4>1. above # <<"trading", "symbols">>
        BY <2>5, <3>1, SymbolsPath
      <4>2. \/ Len(above) = 1
            \/ above = <<"trading", "symbols">>
            \/ above[2] \notin Sections \cup {"symbols", NoText}
        BY <2>1, <3>3, Placed DEF above
      <4> QED
        BY <2>5, <4>1, <4>2
    <3>5. HasHeader(doc, <<section, exchange>>)
      BY <2>1, <2>3, <3>2 DEF HasHeader, above
    <3> QED
      BY <1>6, <2>3, <2>7, <3>1, <3>2, <3>4, <3>5 DEF path
  <2>8. CASE l.kind = "item"
    <3>1. path = <<"trading", "symbols", l.key>>
      BY <1>3, <2>8
    <3>2. section = "trading" /\ key = "symbols"
      BY <2>4, <3>1, SymbolsPath
    <3>3. Path(doc, p) = <<"trading", "symbols">>
      BY <2>3, <3>2 DEF above
    <3>4. listKey = <<"trading", "symbols">> /\ HasHeader(doc, <<"trading", "symbols">>)
      BY <2>1, <3>3 DEF ListIsOpen, HasHeader
    <3> QED
      BY <1>6, <2>8, <3>1, <3>4 DEF path
  <2> QED
    BY <1>2, <2>6, <2>7, <2>8
<1> QED
  BY <1>2, <1>4, <1>5, <1>6

-----------------------------------------------------------------------------
(* The six kinds of lines, and what the loader makes of each.              *)

\* The line l read next, at n of the document `new`.
Reads(l, new, n) ==
  /\ ConfigInv /\ ~failed
  /\ l \in Lines /\ Follows(doc, l) /\ WellPlaced(new, n) /\ Read(l)
  /\ new = Append(doc, l) /\ n = Len(doc) + 1

OpensSection(l, new, n) ==
  /\ l.kind = "header" /\ l.indent = 0 /\ Path(new, n) = <<l.key>>
  /\ section' = l.key /\ listKey' = <<>> /\ cfg' = cfg /\ failed' = FALSE

OpensSymbols(l, new, n) ==
  /\ l.kind = "header" /\ l.indent = 1 /\ Path(new, n) = <<"trading", "symbols">>
  /\ section = "trading" /\ section' = section /\ exchange' = exchange
  /\ listKey' = <<"trading", "symbols">>
  /\ cfg' = [cfg EXCEPT !.symbols = <<>>] /\ failed' = FALSE

OpensExchange(l, new, n) ==
  /\ l.kind = "header" /\ l.indent = 1 /\ Path(new, n) = <<section, l.key>>
  /\ section \in {"exchanges", "fees"} /\ section' = section /\ exchange' = l.key /\ listKey' = <<>>
  /\ cfg' = (IF section = "exchanges" THEN Listed(l.key) ELSE WithFees(l.key)) /\ failed' = FALSE

SetsSetting(l, new, n) ==
  /\ l.kind = "pair" /\ l.indent = 1 /\ Path(new, n) = <<section, l.key>>
  /\ section \notin {"exchanges", "fees"} /\ SettingPair(l)

SetsExchange(l, new, n) ==
  /\ l.kind = "pair" /\ l.indent = 2 /\ Path(new, n) = <<section, exchange, l.key>>
  /\ section \in {"exchanges", "fees"} /\ HasHeader(doc, <<section, exchange>>)
  /\ exchange # NoText /\ UNCHANGED <<section, exchange, listKey>>
  /\ section = "exchanges" => ExchangePair(l)
  /\ section = "fees" => FeePair(l)

ListsSymbol(l, new, n) ==
  /\ l.kind = "item" /\ l.indent = 2 /\ Path(new, n) = <<"trading", "symbols", l.key>>
  /\ HasHeader(doc, <<"trading", "symbols">>)
  /\ cfg' = [cfg EXCEPT !.symbols = AppendIfMissing(@, l.value)]
  /\ UNCHANGED <<section, exchange, listKey>> /\ failed' = FALSE

LEMMA Kinds ==
  ASSUME NEW l, NEW new, NEW n, Reads(l, new, n)
  PROVE  /\ doc' = new
         /\ \/ OpensSection(l, new, n) \/ OpensSymbols(l, new, n) \/ OpensExchange(l, new, n)
            \/ SetsSetting(l, new, n) \/ SetsExchange(l, new, n) \/ ListsSymbol(l, new, n)
<1>1. /\ Document(doc) /\ SectionIsOpen /\ ExchangeIsOpen /\ ListIsOpen /\ l \in Lines
      /\ new = Append(doc, l) /\ n = Len(doc) + 1 /\ Follows(doc, l) /\ WellPlaced(new, n)
      /\ failed = FALSE /\ Read(l)
  <2>1. failed = FALSE
    BY DEF Reads, ConfigInv, FailsOnBadNumber
  <2> QED
    BY <2>1 DEF Reads, ConfigInv
<1>2. doc' = new
  BY <1>1 DEF Read
<1>3. CASE l.kind = "header" /\ l.indent = 0 /\ l.key \in Sections /\ Path(new, n) = <<l.key>>
  <2>1. SectionHeader(l)
    BY <1>1, <1>3 DEF Read, Item, SymbolsHeader, OtherHeader, ExchangePair, FeePair, SettingPair, Sections
  <2> QED
    BY <1>1, <1>2, <1>3, <2>1 DEF SectionHeader, OpensSection
<1>4. CASE /\ l.kind = "header" /\ l.indent = 1 /\ section = "trading" /\ l.key = "symbols"
           /\ Path(new, n) = <<"trading", "symbols">>
  <2>1. SymbolsHeader(l)
    BY <1>1, <1>4 DEF Read, Item, SectionHeader, OtherHeader, ExchangePair, FeePair, SettingPair, Sections
  <2> QED
    BY <1>1, <1>2, <1>4, <2>1 DEF SymbolsHeader, OpensSymbols
<1>5. CASE /\ l.kind = "header" /\ l.indent = 1 /\ section \in {"exchanges", "fees"}
           /\ l.key \notin Sections \cup {"symbols", NoText} /\ Path(new, n) = <<section, l.key>>
  <2>1. OtherHeader(l)
    BY <1>1, <1>5 DEF Read, Item, SectionHeader, SymbolsHeader, ExchangePair, FeePair, SettingPair
  <2> QED
    BY <1>1, <1>2, <1>5, <2>1 DEF OtherHeader, OpensExchange
<1>6. CASE /\ l.kind = "pair" /\ l.indent = 1 /\ section \notin {"exchanges", "fees"}
           /\ Path(new, n) = <<section, l.key>>
  <2>1. SettingPair(l)
    BY <1>1, <1>6 DEF Read, Item, SectionHeader, SymbolsHeader, OtherHeader, ExchangePair, FeePair
  <2> QED
    BY <1>1, <1>2, <1>6, <2>1 DEF SetsSetting
<1>7. CASE /\ l.kind = "pair" /\ l.indent = 2 /\ section \in {"exchanges", "fees"}
           /\ exchange # NoText /\ HasHeader(doc, <<section, exchange>>)
           /\ Path(new, n) = <<section, exchange, l.key>>
  <2>1. /\ section = "exchanges" => ExchangePair(l)
        /\ section = "fees" => FeePair(l)
        /\ ExchangePair(l) \/ FeePair(l)
    BY <1>1, <1>7 DEF Read, Item, SectionHeader, SymbolsHeader, OtherHeader, ExchangePair, FeePair, SettingPair
  <2>2. UNCHANGED <<section, exchange, listKey>>
    BY <2>1 DEF ExchangePair, FeePair
  <2> QED
    BY <1>1, <1>2, <1>7, <2>1, <2>2 DEF SetsExchange
<1>8. CASE /\ l.kind = "item" /\ l.indent = 2 /\ listKey = <<"trading", "symbols">>
           /\ HasHeader(doc, <<"trading", "symbols">>)
           /\ Path(new, n) = <<"trading", "symbols", l.key>>
  <2>1. Item(l)
    BY <1>1, <1>8 DEF Read, SectionHeader, SymbolsHeader, OtherHeader, ExchangePair, FeePair, SettingPair
  <2> QED
    BY <1>1, <1>2, <1>8, <2>1 DEF Item, ListsSymbol
<1> QED
  BY <1>1, <1>2, <1>3, <1>4, <1>5, <1>6, <1>7, <1>8, NextLine, ZenonT(40)

LEMMA SetsExchangePath ==
  ASSUME NEW l, NEW new, NEW n, SetsExchange(l, new, n)
  PROVE  /\ Len(Path(new, n)) = 3 /\ Path(new, n)[1] = section
         /\ Path(new, n)[2] = exchange /\ Path(new, n)[3] = l.key
<1> DEFINE key == l.key
<1>1. Path(new, n) = <<section, exchange, key>>
  BY DEF SetsExchange
<1> HIDE DEF key
<1>2. /\ Len(Path(new, n)) = 3 /\ Path(new, n)[1] = section
      /\ Path(new, n)[2] = exchange /\ Path(new, n)[3] = key
  BY <1>1, Tuple3, Zenon
<1> QED
  BY <1>2 DEF key

LEMMA KindsApart ==
  ASSUME NEW l, NEW new, NEW n, Reads(l, new, n)
  PROVE  /\ l.indent = 0 => OpensSection(l, new, n)
         /\ l.indent = 1 => \/ OpensSymbols(l, new, n) \/ OpensExchange(l, new, n)
                           \/ SetsSetting(l, new, n)
         /\ l.indent = 2 => SetsExchange(l, new, n) \/ ListsSymbol(l, new, n)
<1>1. /\ OpensSection(l, new, n) => l.indent = 0
      /\ OpensSymbols(l, new, n) \/ OpensExchange(l, new, n) \/ SetsSetting(l, new, n) => l.indent = 1
      /\ SetsExchange(l, new, n) \/ ListsSymbol(l, new, n) => l.indent = 2
  BY DEF OpensSection, OpensSymbols, OpensExchange, SetsSetting, SetsExchange, ListsSymbol
<1> QED
  BY <1>1, Kinds

LEMMA OpenNext ==
  ASSUME NEW l \in Lines, NEW new, new = Append(doc, l), NEW n, n = Len(doc) + 1, doc \in Seq(Lines),
         NEW i \in DOMAIN new, Open(new, i)
  PROVE  \/ i = n
         \/ /\ i \in DOMAIN doc /\ Open(doc, i) /\ doc[i].indent < l.indent
            /\ new[i] = doc[i] /\ Path(new, i) = Path(doc, i)
<1>1. /\ DOMAIN new = 1..n /\ Len(new) = n /\ DOMAIN doc = 1..(n - 1) /\ n \in Nat \ {0} /\ Len(doc) = n - 1
      /\ new[n] = l /\ \A j \in DOMAIN doc : new[j] = doc[j] /\ Path(new, j) = Path(doc, j)
  BY AppendTypes, OldLines
<1>2. CASE i # n
  <2>1. i \in DOMAIN doc /\ n \in (i + 1)..n
    BY <1>1, <1>2
  <2>2. \A j \in (i + 1)..n : new[j].indent > new[i].indent
    BY <1>1 DEF Open
  <2>3. new[i].indent \in 0..2 /\ l.indent \in 0..2
    BY <1>1, <2>1, DocTypes, LineTypes
  <2>4. l.indent > new[i].indent
    BY <1>1, <2>1, <2>2
  <2>5. Open(doc, i)
    <3>1. \A j \in (i + 1)..(n - 1) : j \in (i + 1)..n /\ j \in DOMAIN doc
      BY <1>1, <2>1
    <3> QED
      BY <1>1, <2>1, <2>2, <3>1 DEF Open
  <2> QED
    BY <1>1, <2>1, <2>3, <2>4, <2>5
<1> QED
  BY <1>2

LEMMA StillOpen ==
  ASSUME NEW l, NEW new, NEW n, Reads(l, new, n)
  PROVE  Document(doc)' /\ SectionIsOpen' /\ ExchangeIsOpen' /\ ListIsOpen'
<1>1. /\ Document(doc) /\ SectionIsOpen /\ ExchangeIsOpen /\ ListIsOpen /\ l \in Lines /\ doc \in Seq(Lines)
      /\ new = Append(doc, l) /\ n = Len(doc) + 1 /\ Follows(doc, l) /\ WellPlaced(new, n)
  BY DEF Reads, ConfigInv, Document
<1>2. doc' = new
  BY Kinds
<1>3. Document(new) /\ new[n] = l
  BY <1>1, StillDocument, AppendTypes
<1>4. \A i \in DOMAIN new : Open(new, i) =>
        \/ i = n
        \/ /\ i \in DOMAIN doc /\ Open(doc, i) /\ doc[i].indent < l.indent
           /\ new[i] = doc[i] /\ Path(new, i) = Path(doc, i)
  BY <1>1, OpenNext, ZenonT(40)
<1>5. \A i \in DOMAIN doc : doc[i].indent \in 0..2
  BY <1>1, DocTypes
<1>6. CASE l.indent = 0
  <2>1. OpensSection(l, new, n)
    BY <1>6, KindsApart
  <2>2. \A i \in DOMAIN new : Open(new, i) => i = n
    BY <1>4, <1>5, <1>6
  <2>3. Path(new, n) # <<"trading", "symbols">>
    <3>1. Len(Path(new, n)) = 1
      BY <2>1, Tuple1, Zenon DEF OpensSection
    <3> QED
      BY <3>1, SymbolsPath
  <2>4. SectionIsOpen' /\ ExchangeIsOpen'
    BY <1>2, <1>3, <1>6, <2>1, <2>2 DEF SectionIsOpen, ExchangeIsOpen, OpensSection
  <2>5. ListIsOpen'
    BY <1>2, <2>2, <2>3 DEF ListIsOpen
  <2> QED
    BY <1>2, <1>3, <2>4, <2>5
<1>7. CASE l.indent = 1
  <2>1. /\ section' = section
        /\ l.kind = "header" /\ section \in {"exchanges", "fees"} => exchange' = l.key
        /\ l.kind = "header" /\ Path(new, n) = <<"trading", "symbols">> => listKey' = <<"trading", "symbols">>
    <3>1. CASE OpensSymbols(l, new, n)
      BY <3>1 DEF OpensSymbols
    <3>2. CASE OpensExchange(l, new, n)
      <4>1. Path(new, n)[1] = section
        BY <3>2, Tuple2, Zenon DEF OpensExchange
      <4>2. Path(new, n) # <<"trading", "symbols">>
        BY <3>2, <4>1, SymbolsPath DEF OpensExchange
      <4> QED
        BY <3>2, <4>2 DEF OpensExchange
    <3>3. CASE SetsSetting(l, new, n)
      BY <3>3 DEF SetsSetting, SettingPair
    <3> QED
      BY <1>7, <3>1, <3>2, <3>3, KindsApart
  <2>2. \A i \in DOMAIN new : Open(new, i) => i = n \/ doc[i].indent = 0
    BY <1>4, <1>5, <1>7
  <2>3. SectionIsOpen'
    BY <1>1, <1>2, <1>3, <1>4, <1>7, <2>1 DEF SectionIsOpen
  <2>4. ExchangeIsOpen'
    <3> SUFFICES ASSUME NEW i \in DOMAIN new, Open(new, i), new[i].indent = 1, new[i].kind = "header",
                        section' \in {"exchanges", "fees"}
                 PROVE  exchange' = new[i].key
      BY <1>2 DEF ExchangeIsOpen
    <3>1. i = n
      BY <1>4, <2>2
    <3>2. new[i] = l /\ l.kind = "header" /\ section \in {"exchanges", "fees"}
      BY <1>3, <2>1, <3>1
    <3> QED
      BY <2>1, <3>2
  <2>5. ListIsOpen'
    <3>1. \A i \in DOMAIN doc : doc[i].indent = 0 => Path(doc, i) # <<"trading", "symbols">>
      <4> SUFFICES ASSUME NEW i \in DOMAIN doc, doc[i].indent = 0
                   PROVE  Path(doc, i) # <<"trading", "symbols">>
        OBVIOUS
      <4>1. Len(Path(doc, i)) = 1
        <5>1. \A k \in DOMAIN doc : Nested(doc, k)
          BY <1>1 DEF Document
        <5>2. Len(Path(doc, i)) = doc[i].indent + 1
          BY <1>1, <5>1, LevelKeys
        <5> QED
          BY <5>2
      <4> QED
        BY <4>1, SymbolsPath
    <3> SUFFICES ASSUME NEW i \in DOMAIN new, Open(new, i), new[i].kind = "header",
                        Path(new, i) = <<"trading", "symbols">>
                 PROVE  listKey' = <<"trading", "symbols">>
      BY <1>2 DEF ListIsOpen
    <3>2. i = n
      BY <1>4, <2>2, <3>1
    <3>3. new[i] = l /\ l.kind = "header" /\ Path(new, n) = <<"trading", "symbols">>
      BY <1>3, <3>2
    <3> QED
      BY <2>1, <3>3
  <2> QED
    BY <1>2, <1>3, <2>3, <2>4, <2>5
<1>8. CASE l.indent = 2
  <2>1. l.kind # "header" /\ UNCHANGED <<section, exchange, listKey>>
    <3>1. CASE SetsExchange(l, new, n)
      BY <3>1 DEF SetsExchange
    <3>2. CASE ListsSymbol(l, new, n)
      BY <3>2 DEF ListsSymbol
    <3> QED
      BY <1>8, <3>1, <3>2, KindsApart
  <2>2. SectionIsOpen' /\ ExchangeIsOpen' /\ ListIsOpen'
    BY <1>1, <1>2, <1>3, <1>4, <1>8, <2>1 DEF SectionIsOpen, ExchangeIsOpen, ListIsOpen
  <2> QED
    BY <1>2, <1>3, <2>2
<1> QED
  BY <1>1, <1>6, <1>7, <1>8, LineTypes

-----------------------------------------------------------------------------
(* Numbers.                                                                *)

BadNumber(d, i) ==
  /\ d[i].kind = "pair"
  /\ \/ ~Parses(Path(d, i), d[i].value)
     \/ /\ Path(d, i)[1] = "fees" /\ Path(d, i)[3] \in {"maker_pct", "taker_pct"}
        /\ d[i].value \notin DOMAIN Thousandths

LEMMA InLength ==
  ASSUME NEW s, NEW keys, NEW path \in In(s, keys)
  PROVE  Len(path) = 2 /\ path[1] = s
<1>1. PICK k \in keys : path = <<s, k>>
  BY DEF In
<1> QED
  BY <1>1, Tuple2, Zenon

LEMMA KeyLength ==
  ASSUME NEW path \in Keys
  PROVE  Len(path) = 2
BY InLength DEF Keys, TextKeys, BoolKeys, FloatKeys, IntKeys, MinuteKeys

LEMMA NoTripleIsAKey ==
  ASSUME NEW a, NEW b, NEW c, NEW text
  PROVE  Parses(<<a, b, c>>, text)
<1>1. Len(<<a, b, c>>) = 3
  BY Tuple3, Zenon
<1>2. <<a, b, c>> \notin Keys
  BY <1>1, KeyLength
<1> QED
  BY <1>2 DEF Parses, Keys

LEMMA StillFails ==
  ASSUME NEW l, NEW new, NEW n, Reads(l, new, n)
  PROVE  FailsOnBadNumber' /\ (failed' <=> BadNumber(new, n))
<1>1. /\ l \in Lines /\ doc \in Seq(Lines) /\ new = Append(doc, l) /\ n = Len(doc) + 1
      /\ doc' = new /\ ~failed /\ FailsOnBadNumber
  BY Kinds DEF Reads, ConfigInv, Document
<1>2. DOMAIN new = DOMAIN doc \cup {n} /\ new[n] = l
  BY <1>1, AppendTypes
<1>3. \A i \in DOMAIN doc : ~BadNumber(new, i)
  <2>1. \A i \in DOMAIN doc : ~BadNumber(doc, i)
    BY <1>1 DEF FailsOnBadNumber, BadNumber
  <2>2. \A i \in DOMAIN doc : new[i] = doc[i] /\ Path(new, i) = Path(doc, i)
    BY <1>1, OldLines
  <2> QED
    BY <2>1, <2>2 DEF BadNumber
<1>4. failed' <=> BadNumber(new, n)
  <2>1. CASE OpensSection(l, new, n) \/ OpensSymbols(l, new, n) \/ OpensExchange(l, new, n) \/ ListsSymbol(l, new, n)
    <3>1. l.kind # "pair" /\ failed' = FALSE
      BY <2>1 DEF OpensSection, OpensSymbols, OpensExchange, ListsSymbol
    <3> QED
      BY <1>2, <3>1 DEF BadNumber
  <2>2. CASE SetsSetting(l, new, n)
    <3>1. /\ l.kind = "pair" /\ Path(new, n) = <<section, l.key>> /\ section # "fees"
          /\ failed' = ~Parses(<<section, l.key>>, l.value)
      BY <2>2 DEF SetsSetting, SettingPair, Fails
    <3>2. Path(new, n)[1] # "fees"
      BY <3>1, Tuple2, Zenon
    <3> QED
      BY <1>2, <3>1, <3>2 DEF BadNumber
  <2>3. CASE SetsExchange(l, new, n)
    <3>1. /\ l.kind = "pair" /\ Path(new, n) = <<section, exchange, l.key>> /\ exchange # NoText
          /\ section \in {"exchanges", "fees"}
      BY <2>3 DEF SetsExchange
    <3>2. Parses(Path(new, n), l.value)
      BY <3>1, NoTripleIsAKey
    <3>3. Path(new, n)[1] = section /\ Path(new, n)[3] = l.key
      BY <2>3, SetsExchangePath
    <3>4. CASE section = "exchanges"
      <4>1. failed' = failed
        BY <2>3, <3>4 DEF SetsExchange, ExchangePair
      <4> QED
        BY <1>1, <1>2, <3>2, <3>3, <3>4, <4>1 DEF BadNumber
    <3>5. CASE section = "fees"
      <4>1. failed' <=> l.key \in {"maker_pct", "taker_pct"} /\ l.value \notin DOMAIN Thousandths
        BY <2>3, <3>1, <3>5 DEF SetsExchange, FeePair
      <4> QED
        BY <1>2, <3>1, <3>2, <3>3, <3>5, <4>1 DEF BadNumber
    <3> QED
      BY <3>1, <3>4, <3>5
  <2> QED
    BY <2>1, <2>2, <2>3, Kinds
<1>5. FailsOnBadNumber' <=> (failed' <=> \E i \in DOMAIN new : BadNumber(new, i))
  BY <1>1 DEF FailsOnBadNumber, BadNumber
<1> QED
  BY <1>2, <1>3, <1>4, <1>5

-----------------------------------------------------------------------------
(* What a new line adds to the meaning of a document.                      *)

LEMMA Lookups ==
  ASSUME NEW l, NEW new, NEW n, Reads(l, new, n)
  PROVE  /\ n \notin DOMAIN doc
         /\ \A path : HasHeader(new, path) <=>
                        HasHeader(doc, path) \/ (l.kind = "header" /\ Path(new, n) = path)
         /\ \A path : PairsAt(new, path) =
                        PairsAt(doc, path) \cup {i \in {n} : l.kind = "pair" /\ Path(new, n) = path}
         /\ \A s : Children(new, s) =
                     Children(doc, s) \cup {k \in {l.key} : l.kind = "header" /\ Path(new, n) = <<s, k>>}
         /\ \A i \in DOMAIN doc : new[i] = doc[i]
         /\ new[n] = l
<1>1. /\ DOMAIN new = DOMAIN doc \cup {n} /\ n \notin DOMAIN doc /\ new[n] = l
      /\ \A i \in DOMAIN doc : new[i] = doc[i] /\ Path(new, i) = Path(doc, i)
  BY AppendTypes, OldLines DEF Reads, ConfigInv, Document
<1>2. \A path : HasHeader(new, path) <=>
                HasHeader(doc, path) \/ (l.kind = "header" /\ Path(new, n) = path)
  BY <1>1 DEF HasHeader
<1>3. \A path : PairsAt(new, path) =
                PairsAt(doc, path) \cup {i \in {n} : l.kind = "pair" /\ Path(new, n) = path}
  BY <1>1 DEF PairsAt
<1>4. \A s : Children(new, s) =
             Children(doc, s) \cup {k \in {l.key} : l.kind = "header" /\ Path(new, n) = <<s, k>>}
  BY <1>1 DEF Children
<1> QED
  BY <1>1, <1>2, <1>3, <1>4

\* No mapping has a key twice.
LEMMA Fresh ==
  ASSUME NEW l, NEW new, NEW n, Reads(l, new, n), l.kind # "item"
  PROVE  PairsAt(doc, Path(new, n)) = {} /\ ~HasHeader(doc, Path(new, n))
<1>1. /\ DOMAIN new = DOMAIN doc \cup {n} /\ n \notin DOMAIN doc /\ new[n] = l
      /\ \A i \in DOMAIN doc : new[i] = doc[i] /\ Path(new, i) = Path(doc, i)
  BY AppendTypes, OldLines DEF Reads, ConfigInv, Document
<1>2. Document(new)
  BY StillDocument DEF Reads, ConfigInv
<1>3. \A i \in DOMAIN doc : doc[i].kind # "item" => Path(doc, i) # Path(new, n)
  BY <1>1, <1>2, SamePath
<1> QED
  BY <1>3 DEF PairsAt, HasHeader

SameValue(new, path) ==
  /\ PairsAt(new, path) = PairsAt(doc, path)
  /\ PairsAt(doc, path) # {} => ValueAt(new, path) = ValueAt(doc, path)

LEMMA ValueNext ==
  ASSUME NEW l, NEW new, NEW n, Reads(l, new, n), NEW path
  PROVE  /\ ~(l.kind = "pair" /\ Path(new, n) = path) => SameValue(new, path)
         /\ l.kind = "pair" /\ Path(new, n) = path =>
              PairsAt(new, path) # {} /\ ValueAt(new, path) = l.value
<1>1. CASE ~(l.kind = "pair" /\ Path(new, n) = path)
  <2>1. PairsAt(new, path) = PairsAt(doc, path)
    <3>1. {i \in {n} : l.kind = "pair" /\ Path(new, n) = path} = {}
      BY <1>1
    <3>2. PairsAt(new, path) = PairsAt(doc, path) \cup {i \in {n} : l.kind = "pair" /\ Path(new, n) = path}
      BY Lookups
    <3> QED
      BY <3>1, <3>2
  <2>2. ASSUME PairsAt(doc, path) # {}
        PROVE  ValueAt(new, path) = ValueAt(doc, path)
    <3> DEFINE i == CHOOSE i \in PairsAt(doc, path) : TRUE
    <3>1. i \in PairsAt(doc, path)
      BY <2>2
    <3>2. i \in DOMAIN doc
      BY <3>1 DEF PairsAt
    <3>3. new[i] = doc[i]
      BY <3>2, Lookups
    <3>4. ValueAt(new, path) = new[i].value /\ ValueAt(doc, path) = doc[i].value
      BY <2>1 DEF ValueAt
    <3> QED
      BY <3>3, <3>4
  <2> QED
    BY <1>1, <2>1, <2>2 DEF SameValue
<1>2. CASE l.kind = "pair" /\ Path(new, n) = path
  <2>1. PairsAt(doc, path) = {}
    BY <1>2, Fresh
  <2>2. PairsAt(new, path) = {n} /\ new[n] = l
    BY <1>2, <2>1, Lookups
  <2>3. (CHOOSE i \in {n} : TRUE) = n
    OBVIOUS
  <2>4. ValueAt(new, path) = l.value
    BY <2>2, <2>3 DEF ValueAt
  <2> QED
    BY <1>2, <2>2, <2>4
<1> QED
  BY <1>1, <1>2

\* A line two levels down has a header above it.
LEMMA HeaderAbove ==
  ASSUME NEW d, Document(d), NEW a, NEW b, NEW c, \E i \in DOMAIN d : Path(d, i) = <<a, b, c>>
  PROVE  HasHeader(d, <<a, b>>)
<1>1. PICK i \in DOMAIN d : Path(d, i) = <<a, b, c>>
  OBVIOUS
<1>2. d \in Seq(Lines) /\ \A k \in DOMAIN d : Nested(d, k)
  BY DEF Document
<1>3. Path(d, i)[1] = a /\ Path(d, i)[2] = b /\ Len(Path(d, i)) = 3
  BY <1>1, Tuple3, Zenon
<1>4. d[i].indent = 2
  <2> DEFINE m == Len(Path(d, i))
             v == d[i].indent
  <2>1. m = v + 1 /\ v \in {0, 1, 2}
    BY <1>2, LevelKeys
  <2>2. m = 3
    BY <1>3
  <2> HIDE DEF m, v
  <2>3. v = 2
    BY <2>1, <2>2
  <2> QED
    BY <2>3 DEF v
<1> DEFINE p == Parent(d, i)
           g == Parent(d, p)
<1>5. p \in DOMAIN d /\ d[p].indent = 1 /\ d[p].kind = "header"
  BY <1>2, <1>4, Levels
<1>6. d[g].key = a /\ d[p].key = b
  BY <1>2, <1>3, <1>4, LevelKeys
<1>7. Path(d, p) = <<d[g].key, d[p].key>>
  BY <1>2, <1>5, Levels
<1>8. Path(d, p) = <<a, b>>
  BY <1>6, <1>7
<1> QED
  BY <1>5, <1>8 DEF HasHeader

LEMMA ChildHasHeader ==
  ASSUME NEW d, Document(d), NEW s, NEW x
  PROVE  x \in Children(d, s) <=> HasHeader(d, <<s, x>>)
<1>1. ASSUME NEW i \in DOMAIN d, Path(d, i) = <<s, x>>
      PROVE  d[i].key = x
  <2>1. d \in Seq(Lines) /\ \A k \in DOMAIN d : Nested(d, k)
    BY DEF Document
  <2>2. Len(Path(d, i)) = 2 /\ Path(d, i)[2] = x
    BY <1>1, Tuple2, Zenon
  <2>3. Len(Path(d, i)) = d[i].indent + 1 /\ d[i].indent \in {0, 1, 2}
    BY <2>1, LevelKeys
  <2>4. d[i].indent = 1
    BY <2>2, <2>3
  <2> QED
    BY <2>1, <2>2, <2>4, LevelKeys
<1> QED
  BY <1>1 DEF Children, HasHeader

-----------------------------------------------------------------------------
(* Which part of the configuration a line may change.                      *)

Fields == {"settings", "symbols", "exchanges", "fees"}

SameBut(field) ==
  DOMAIN cfg' = Fields /\ \A f \in Fields \ {field} : cfg'[f] = cfg[f]

LEMMA OnePart ==
  ASSUME NEW l, NEW new, NEW n, Reads(l, new, n), DOMAIN cfg = Fields
  PROVE  /\ OpensSection(l, new, n) => DOMAIN cfg' = Fields /\ \A f \in Fields : cfg'[f] = cfg[f]
         /\ OpensSymbols(l, new, n) \/ ListsSymbol(l, new, n) => SameBut("symbols")
         /\ OpensExchange(l, new, n) \/ SetsExchange(l, new, n) => SameBut(section)
         /\ SetsSetting(l, new, n) => SameBut("settings")
<1>1. OpensSymbols(l, new, n) \/ ListsSymbol(l, new, n) => SameBut("symbols")
  BY DEF OpensSymbols, ListsSymbol, SameBut, Fields
<1>2. SetsSetting(l, new, n) => SameBut("settings")
  BY DEF SetsSetting, SettingPair, SameBut, Fields
<1>3. OpensExchange(l, new, n) => SameBut(section)
  BY DEF OpensExchange, Listed, WithFees, SameBut, Fields
<1>4. SetsExchange(l, new, n) => SameBut(section)
  <2>1. CASE section = "exchanges"
    BY <2>1 DEF SetsExchange, ExchangePair, SameBut, Fields
  <2>2. CASE section = "fees"
    BY <2>2 DEF SetsExchange, FeePair, SetFee, SameBut, Fields
  <2> QED
    BY <2>1, <2>2 DEF SetsExchange
<1>5. OpensSection(l, new, n) => DOMAIN cfg' = Fields /\ \A f \in Fields : cfg'[f] = cfg[f]
  BY DEF OpensSection
<1> QED
  BY <1>1, <1>2, <1>3, <1>4, <1>5

-----------------------------------------------------------------------------
(* The settings.                                                           *)

LEMMA InSection ==
  ASSUME NEW s, NEW t, NEW keys, NEW k
  PROVE  <<s, k>> \in In(t, keys) <=> s = t /\ k \in keys
<1>1. ASSUME <<s, k>> \in In(t, keys)
      PROVE  s = t /\ k \in keys
  <2>1. PICK j \in keys : <<s, k>> = <<t, j>>
    BY <1>1 DEF In
  <2> QED
    BY <2>1
<1>2. ASSUME s = t, k \in keys
      PROVE  <<s, k>> \in In(t, keys)
  BY <1>2 DEF In
<1> QED
  BY <1>1, <1>2

LEMMA SettingKeys ==
  ASSUME NEW s, NEW k
  PROVE  <<s, k>> \in Keys <=> s \in DOMAIN DefaultSettings /\ k \in DOMAIN DefaultSettings[s]
<1>1. <<s, k>> \in Keys <=>
        \/ s = "app" /\ k \in {"environment", "log_level", "admin_addr"}
        \/ s = "trading" /\ k \in {"enabled", "mode"}
        \/ s = "risk" /\ k \in {"max_trade_usd", "max_daily_volume_usd", "max_daily_loss_usd",
                                "min_profit_pct", "min_profit_usd", "max_slippage_pct",
                                "max_orderbook_age_ms", "stop_after_consecutive_failures"}
        \/ s = "strategy" /\ k \in {"max_depth_levels", "min_expected_carry_pct",
                                    "min_expected_carry_usd", "basis_risk_pct",
                                    "default_funding_rate_pct", "funding_interval_minutes",
                                    "min_time_to_funding_minutes", "max_hold_time_minutes"}
        \/ s = "execution" /\ k \in {"order_type", "retry_count", "order_timeout_ms",
                                     "cancel_unfilled_after_ms", "manual_intervention_on_partial_fill"}
        \/ s = "storage" /\ k \in {"redis_enabled", "redis_addr", "redis_password", "redis_db",
                                   "redis_history_limit", "redis_operation_timeout_ms"}
  BY InSection DEF Keys, TextKeys, BoolKeys, FloatKeys, IntKeys, MinuteKeys
<1>2. DOMAIN DefaultSettings = {"app", "trading", "risk", "strategy", "execution", "storage"}
  BY DEF DefaultSettings
<1>3. /\ DOMAIN DefaultSettings["app"] = {"environment", "log_level", "admin_addr"}
      /\ DOMAIN DefaultSettings["trading"] = {"enabled", "mode"}
      /\ DOMAIN DefaultSettings["risk"] =
           {"max_trade_usd", "max_daily_volume_usd", "max_daily_loss_usd", "min_profit_pct",
            "min_profit_usd", "max_slippage_pct", "max_orderbook_age_ms",
            "stop_after_consecutive_failures"}
      /\ DOMAIN DefaultSettings["strategy"] =
           {"max_depth_levels", "min_expected_carry_pct", "min_expected_carry_usd",
            "basis_risk_pct", "default_funding_rate_pct", "funding_interval_minutes",
            "min_time_to_funding_minutes", "max_hold_time_minutes"}
      /\ DOMAIN DefaultSettings["execution"] =
           {"order_type", "retry_count", "order_timeout_ms", "cancel_unfilled_after_ms",
            "manual_intervention_on_partial_fill"}
      /\ DOMAIN DefaultSettings["storage"] =
           {"redis_enabled", "redis_addr", "redis_password", "redis_db", "redis_history_limit",
            "redis_operation_timeout_ms"}
  BY DEF DefaultSettings
<1> QED
  BY <1>1, <1>2, <1>3

LEMMA SettingsNext ==
  ASSUME NEW l, NEW new, NEW n, Reads(l, new, n), ~failed', DOMAIN cfg = Fields,
         cfg.settings = SettingsOf(doc)
  PROVE  cfg'.settings = SettingsOf(new)
<1>1. CASE SetsSetting(l, new, n)
  <2> DEFINE path == <<section, l.key>>
  <2>1. /\ l.kind = "pair" /\ Path(new, n) = path /\ failed' = Fails(path, l.value)
        /\ cfg' = IF path \in Keys /\ Parses(path, l.value)
                  THEN [cfg EXCEPT !.settings[section][l.key] = Parsed(path, l.value)] ELSE cfg
    BY <1>1 DEF SetsSetting, SettingPair
  <2>2. Parses(path, l.value)
    BY <2>1 DEF Fails
  <2>3. \A s, k : <<s, k>> # path => Setting(new, s, k) = Setting(doc, s, k)
    BY <2>1, ValueNext DEF Setting, SameValue
  <2>4. Setting(new, section, l.key) = Parsed(path, l.value)
    BY <2>1, ValueNext DEF Setting, SameValue
  <2>5. \A s, k : <<s, k>> = path <=> s = section /\ k = l.key
    OBVIOUS
  <2> HIDE DEF path
  <2>6. CASE path \in Keys
    <3>1. section \in DOMAIN DefaultSettings /\ l.key \in DOMAIN DefaultSettings[section]
      BY <2>6, SettingKeys DEF path
    <3>2. cfg'.settings = [SettingsOf(doc) EXCEPT ![section][l.key] = Parsed(path, l.value)]
      BY <2>1, <2>2, <2>6 DEF Fields
    <3> DEFINE old == SettingsOf(doc)
               value == Parsed(path, l.value)
               changed == [old EXCEPT ![section][l.key] = value]
    <3>3. /\ DOMAIN SettingsOf(new) = DOMAIN DefaultSettings /\ DOMAIN changed = DOMAIN DefaultSettings
          /\ \A s \in DOMAIN DefaultSettings :
               /\ SettingsOf(new)[s] = [k \in DOMAIN DefaultSettings[s] |-> Setting(new, s, k)]
               /\ old[s] = [k \in DOMAIN DefaultSettings[s] |-> Setting(doc, s, k)]
      BY DEF SettingsOf
    <3>4. /\ changed[section] = [old[section] EXCEPT ![l.key] = value]
          /\ \A s \in DOMAIN DefaultSettings : s # section => changed[s] = old[s]
      BY <3>1, <3>3
    <3> HIDE DEF changed, old, value
    <3>5. changed[section] = SettingsOf(new)[section]
      <4>1. \A k \in DOMAIN DefaultSettings[section] :
              Setting(new, section, k) = IF k = l.key THEN value ELSE Setting(doc, section, k)
        BY <2>3, <2>4, <2>5 DEF value
      <4> DEFINE key == l.key
                 K == DOMAIN DefaultSettings[section]
      <4>2. old[section] = [k \in K |-> Setting(doc, section, k)] /\ key \in K
        BY <3>1, <3>3
      <4>3. SettingsOf(new)[section] = [k \in K |-> Setting(new, section, k)]
        BY <3>1, <3>3
      <4>4. changed[section] = [old[section] EXCEPT ![key] = value]
        BY <3>4
      <4> HIDE DEF key, K
      <4>5. changed[section] = [k \in K |-> IF k = key THEN value ELSE Setting(doc, section, k)]
        BY <4>2, <4>4
      <4> QED
        BY <4>1, <4>3, <4>5 DEF K, key
    <3>6. \A s \in DOMAIN DefaultSettings : s # section => changed[s] = SettingsOf(new)[s]
      <4> SUFFICES ASSUME NEW s \in DOMAIN DefaultSettings, s # section
                   PROVE  changed[s] = SettingsOf(new)[s]
        OBVIOUS
      <4>1. \A k : Setting(new, s, k) = Setting(doc, s, k)
        BY <2>3, <2>5
      <4>2. /\ SettingsOf(new)[s] = [k \in DOMAIN DefaultSettings[s] |-> Setting(new, s, k)]
            /\ changed[s] = [k \in DOMAIN DefaultSettings[s] |-> Setting(doc, s, k)]
        BY <3>3, <3>4
      <4> QED
        BY <4>1, <4>2
    <3>7. changed = SettingsOf(new)
      <4>1. changed = [s \in DOMAIN DefaultSettings |-> changed[s]]
        BY <3>3 DEF changed
      <4>2. SettingsOf(new) = [s \in DOMAIN DefaultSettings |-> SettingsOf(new)[s]]
        BY DEF SettingsOf
      <4> QED
        BY <3>5, <3>6, <4>1, <4>2
    <3> QED
      BY <3>2, <3>7 DEF changed, old, value
  <2>7. CASE path \notin Keys
    <3>1. \A s \in DOMAIN DefaultSettings : \A k \in DOMAIN DefaultSettings[s] : <<s, k>> # path
      BY <2>7, SettingKeys
    <3> QED
      BY <2>1, <2>3, <2>7, <3>1 DEF SettingsOf
  <2> QED
    BY <2>6, <2>7
<1>2. CASE ~SetsSetting(l, new, n)
  <2>1. cfg'.settings = cfg.settings
    BY <1>2, Kinds, OnePart DEF SameBut, Fields, OpensExchange, SetsExchange
  <2>2. \A s, k : ~(l.kind = "pair" /\ Path(new, n) = <<s, k>>)
    <3>1. SetsExchange(l, new, n) => Len(Path(new, n)) = 3
      BY SetsExchangePath
    <3>2. \A s, k : Len(<<s, k>>) = 2
      OBVIOUS
    <3>3. l.kind = "pair" => SetsExchange(l, new, n)
      BY <1>2, Kinds DEF OpensSection, OpensSymbols, OpensExchange, ListsSymbol
    <3> QED
      BY <3>1, <3>2, <3>3
  <2>3. \A s, k : Setting(new, s, k) = Setting(doc, s, k)
    BY <2>2, ValueNext DEF Setting, SameValue
  <2> QED
    BY <2>1, <2>3 DEF SettingsOf
<1> QED
  BY <1>1, <1>2

-----------------------------------------------------------------------------
(* The exchanges and the fees.                                             *)

\* Only a line in a section stands below it.
LEMMA Elsewhere ==
  ASSUME NEW l, NEW new, NEW n, Reads(l, new, n), NEW s, s \in {"exchanges", "fees"},
         ~(OpensExchange(l, new, n) /\ section = s), ~(SetsExchange(l, new, n) /\ section = s)
  PROVE  /\ Children(new, s) = Children(doc, s)
         /\ \A x, k : SameValue(new, <<s, x, k>>)
<1> DEFINE p == Path(new, n)
<1>1. \A x, k : /\ Len(<<s, x>>) = 2 /\ <<s, x>>[1] = s
                /\ Len(<<s, x, k>>) = 3 /\ <<s, x, k>>[1] = s
  OBVIOUS
<1>2. ASSUME l.kind = "header"
      PROVE  Len(p) # 2 \/ p[1] # s
  <2>1. CASE OpensSection(l, new, n)
    <3>1. Len(p) = 1
      BY <2>1, Tuple1, Zenon DEF OpensSection
    <3> QED
      BY <3>1
  <2>2. CASE OpensSymbols(l, new, n)
    <3>1. p[1] = "trading"
      BY <2>2, SymbolsPath DEF OpensSymbols
    <3> QED
      BY <3>1
  <2>3. CASE OpensExchange(l, new, n)
    <3>1. p = <<section, l.key>>
      BY <2>3 DEF OpensExchange
    <3>2. p[1] = section
      BY <3>1, Tuple2, ZenonT(40)
    <3> QED
      BY <2>3, <3>2
  <2> QED
    BY <1>2, <2>1, <2>2, <2>3, Kinds DEF SetsSetting, SetsExchange, ListsSymbol
<1>3. ASSUME l.kind = "pair"
      PROVE  Len(p) # 3 \/ p[1] # s
  <2>1. CASE SetsSetting(l, new, n)
    <3>1. Len(p) = 2
      BY <2>1, Tuple2, Zenon DEF SetsSetting
    <3> QED
      BY <3>1
  <2>2. CASE SetsExchange(l, new, n)
    <3>1. p[1] = section
      BY <2>2, SetsExchangePath
    <3> QED
      BY <2>2, <3>1
  <2> QED
    BY <1>3, <2>1, <2>2, Kinds DEF OpensSection, OpensSymbols, OpensExchange, ListsSymbol
<1> HIDE DEF p
<1>4. \A k : ~(l.kind = "header" /\ p = <<s, k>>)
  BY <1>1, <1>2
<1>5. \A x, k : ~(l.kind = "pair" /\ p = <<s, x, k>>)
  BY <1>1, <1>3
<1>6. Children(new, s) = Children(doc, s)
  <2>1. {k \in {l.key} : l.kind = "header" /\ Path(new, n) = <<s, k>>} = {}
    BY <1>4 DEF p
  <2>2. Children(new, s) =
          Children(doc, s) \cup {k \in {l.key} : l.kind = "header" /\ Path(new, n) = <<s, k>>}
    BY Lookups
  <2> QED
    BY <2>1, <2>2
<1> QED
  BY <1>5, <1>6, ValueNext DEF p

\* A line that opens an exchange is the first of it.
LEMMA NewChild ==
  ASSUME NEW l, NEW new, NEW n, Reads(l, new, n), OpensExchange(l, new, n)
  PROVE  /\ Children(new, section) = Children(doc, section) \cup {l.key}
         /\ l.key \notin Children(doc, section)
         /\ \A x, k : SameValue(new, <<section, x, k>>)
         /\ \A k : PairsAt(doc, <<section, l.key, k>>) = {}
<1>1. l.kind = "header" /\ Path(new, n) = <<section, l.key>>
  BY DEF OpensExchange
<1>2. Children(new, section) = Children(doc, section) \cup {l.key}
  <2>1. {k \in {l.key} : l.kind = "header" /\ Path(new, n) = <<section, k>>} = {l.key}
    BY <1>1
  <2>2. Children(new, section) =
          Children(doc, section) \cup {k \in {l.key} : l.kind = "header" /\ Path(new, n) = <<section, k>>}
    BY Lookups
  <2> QED
    BY <2>1, <2>2
<1>3. ~HasHeader(doc, <<section, l.key>>)
  BY <1>1, Fresh
<1>4. Document(doc)
  BY DEF Reads, ConfigInv
<1>5. l.key \notin Children(doc, section)
  BY <1>3, <1>4, ChildHasHeader
<1>6. \A k : PairsAt(doc, <<section, l.key, k>>) = {}
  BY <1>3, <1>4, HeaderAbove DEF PairsAt
<1> QED
  BY <1>1, <1>2, <1>5, <1>6, ValueNext

LEMMA NewValue ==
  ASSUME NEW l, NEW new, NEW n, Reads(l, new, n), SetsExchange(l, new, n)
  PROVE  /\ Children(new, section) = Children(doc, section)
         /\ exchange \in Children(doc, section)
         /\ \A x, k : ~(x = exchange /\ k = l.key) => SameValue(new, <<section, x, k>>)
         /\ PairsAt(new, <<section, exchange, l.key>>) # {}
         /\ ValueAt(new, <<section, exchange, l.key>>) = l.value
<1>1. /\ l.kind = "pair" /\ Path(new, n) = <<section, exchange, l.key>>
      /\ HasHeader(doc, <<section, exchange>>)
  BY DEF SetsExchange
<1>2. Children(new, section) = Children(doc, section)
  <2>1. {k \in {l.key} : l.kind = "header" /\ Path(new, n) = <<section, k>>} = {}
    BY <1>1
  <2>2. Children(new, section) =
          Children(doc, section) \cup {k \in {l.key} : l.kind = "header" /\ Path(new, n) = <<section, k>>}
    BY Lookups
  <2> QED
    BY <2>1, <2>2
<1>3. exchange \in Children(doc, section)
  BY <1>1, ChildHasHeader DEF Reads, ConfigInv
<1>4. \A x, k : <<section, x, k>> = <<section, exchange, l.key>> => x = exchange /\ k = l.key
  OBVIOUS
<1> QED
  BY <1>1, <1>2, <1>3, <1>4, ValueNext

LEMMA ExchangesNext ==
  ASSUME NEW l, NEW new, NEW n, Reads(l, new, n), DOMAIN cfg = Fields,
         cfg.exchanges = ExchangesOf(doc)
  PROVE  cfg'.exchanges = ExchangesOf(new)
<1> DEFINE s == "exchanges"
<1>1. CASE OpensExchange(l, new, n) /\ section = s
  <2>1. cfg'.exchanges = With(ExchangesOf(doc), l.key, FALSE)
    BY <1>1 DEF OpensExchange, Listed, Fields
  <2>2. Children(new, s) = Children(doc, s) \cup {l.key}
    BY <1>1, NewChild
  <2>3. \A x : Enabled(new, x) = Enabled(doc, x)
    BY <1>1, NewChild DEF Enabled, SameValue
  <2>4. Enabled(new, l.key) = FALSE
    BY <1>1, NewChild DEF Enabled, SameValue
  <2> DEFINE key == l.key
             old == ExchangesOf(doc)
             all == DOMAIN DefaultConfig.exchanges
  <2>5. DOMAIN old = all \cup Children(doc, s)
    BY DEF ExchangesOf
  <2>6. \A x \in all \cup Children(doc, s) :
          old[x] = IF x \in Children(doc, s) THEN Enabled(doc, x) ELSE DefaultConfig.exchanges[x]
    BY DEF ExchangesOf
  <2>7. ExchangesOf(new) = [x \in all \cup Children(new, s) |->
                              IF x \in Children(new, s) THEN Enabled(new, x) ELSE DefaultConfig.exchanges[x]]
    BY DEF ExchangesOf
  <2>8. With(old, key, FALSE) = [x \in DOMAIN old \cup {key} |-> IF x = key THEN FALSE ELSE old[x]]
    BY DEF With
  <2> HIDE DEF key, old, all
  <2>9. ExchangesOf(new) = [x \in DOMAIN old \cup {key} |-> IF x = key THEN FALSE ELSE old[x]]
    <3>1. Children(new, s) = Children(doc, s) \cup {key} /\ Enabled(new, key) = FALSE
      BY <2>2, <2>4 DEF key
    <3>2. all \cup Children(new, s) = DOMAIN old \cup {key}
      BY <2>5, <3>1
    <3> QED
      BY <2>3, <2>5, <2>6, <2>7, <3>1, <3>2
  <2> QED
    BY <2>1, <2>8, <2>9 DEF key, old
<1>2. CASE SetsExchange(l, new, n) /\ section = s
  <2>1. Children(new, s) = Children(doc, s) /\ exchange \in Children(doc, s)
    BY <1>2, NewValue
  <2>2. \A x, k : ~(x = exchange /\ k = l.key) => SameValue(new, <<s, x, k>>)
    BY <1>2, NewValue
  <2>3. \A x : ~(x = exchange /\ l.key = "enabled") => Enabled(new, x) = Enabled(doc, x)
    BY <2>2 DEF Enabled, SameValue
  <2>4. PairsAt(new, <<s, exchange, l.key>>) # {} /\ ValueAt(new, <<s, exchange, l.key>>) = l.value
    BY <1>2, NewValue
  <2>5. ExchangePair(l) /\ exchange # NoText
    BY <1>2 DEF SetsExchange
  <2>6. CASE l.key = "enabled"
    <3>1. cfg'.exchanges = With(ExchangesOf(doc), exchange, ParseBool(l.value))
      BY <2>5, <2>6 DEF ExchangePair, Fields
    <3>2. Enabled(new, exchange) = ParseBool(l.value)
      <4>1. Enabled(new, exchange) = (PairsAt(new, <<s, exchange, l.key>>) # {}
                                        /\ ParseBool(ValueAt(new, <<s, exchange, l.key>>)))
        BY <2>6 DEF Enabled
      <4>2. ParseBool(l.value) \in BOOLEAN
        BY DEF ParseBool
      <4> QED
        BY <2>4, <4>1, <4>2
    <3> QED
      BY <2>1, <2>3, <3>1, <3>2 DEF ExchangesOf, With
  <2>7. CASE l.key # "enabled"
    BY <2>1, <2>3, <2>5, <2>7 DEF ExchangePair, ExchangesOf
  <2> QED
    BY <2>6, <2>7
<1>3. CASE ~(OpensExchange(l, new, n) /\ section = s) /\ ~(SetsExchange(l, new, n) /\ section = s)
  <2>1. cfg'.exchanges = cfg.exchanges
    BY <1>3, Kinds, OnePart DEF SameBut, Fields
  <2>2. Children(new, s) = Children(doc, s) /\ \A x : Enabled(new, x) = Enabled(doc, x)
    BY <1>3, Elsewhere DEF Enabled, SameValue
  <2> QED
    BY <2>1, <2>2 DEF ExchangesOf
<1> QED
  BY <1>1, <1>2, <1>3

BaseFee(x) == IF x \in DOMAIN DefaultConfig.fees THEN DefaultConfig.fees[x] ELSE Fee(0, 0)

FeeAt(d, x, key) ==
  IF PairsAt(d, <<"fees", x, key>>) = {} THEN BaseFee(x)[key]
  ELSE Thousandths[ValueAt(d, <<"fees", x, key>>)]

LEMMA FeeParts ==
  ASSUME NEW d, NEW x
  PROVE  FeesOf(d, x) = [maker_pct |-> FeeAt(d, x, "maker_pct"), taker_pct |-> FeeAt(d, x, "taker_pct")]
BY DEF FeesOf, FeeAt, BaseFee, Fee

LEMMA FeesNext ==
  ASSUME NEW l, NEW new, NEW n, Reads(l, new, n), ~failed', DOMAIN cfg = Fields,
         cfg.fees = AllFeesOf(doc)
  PROVE  cfg'.fees = AllFeesOf(new)
<1> DEFINE s == "fees"
           old == AllFeesOf(doc)
           all == DOMAIN DefaultConfig.fees
<1>1. old = [x \in all \cup Children(doc, s) |-> FeesOf(doc, x)]
  BY DEF AllFeesOf
<1>2. AllFeesOf(new) = [x \in all \cup Children(new, s) |-> FeesOf(new, x)]
  BY DEF AllFeesOf
<1>3. CASE OpensExchange(l, new, n) /\ section = s
  <2> DEFINE key == l.key
  <2>1. /\ Children(new, s) = Children(doc, s) \cup {key} /\ key \notin Children(doc, s)
        /\ \A k : PairsAt(doc, <<s, key, k>>) = {}
    BY <1>3, NewChild
  <2>2. \A x, k : SameValue(new, <<s, x, k>>)
    BY <1>3, NewChild
  <2>3. \A x : FeesOf(new, x) = FeesOf(doc, x)
    BY <2>2, FeeParts DEF FeeAt, SameValue
  <2>4. cfg' = IF key \in DOMAIN old THEN cfg ELSE [cfg EXCEPT !.fees = With(old, key, Fee(0, 0))]
    BY <1>3 DEF OpensExchange, WithFees
  <2>5. CASE key \in DOMAIN old
    <3>1. all \cup Children(new, s) = all \cup Children(doc, s)
      BY <1>1, <2>1, <2>5
    <3> HIDE DEF old
    <3>2. AllFeesOf(new) = old
      BY <1>1, <1>2, <2>3, <3>1
    <3> QED
      BY <2>4, <2>5, <3>2 DEF old
  <2>6. CASE key \notin DOMAIN old
    <3>1. key \notin all
      BY <1>1, <2>6
    <3>2. FeesOf(new, key) = Fee(0, 0)
      <4>1. FeeAt(doc, key, "maker_pct") = 0 /\ FeeAt(doc, key, "taker_pct") = 0
        BY <2>1, <3>1 DEF FeeAt, BaseFee, Fee
      <4> QED
        BY <2>3, <4>1, FeeParts DEF Fee
    <3>3. cfg'.fees = With(old, key, Fee(0, 0))
      BY <2>4, <2>6 DEF Fields
    <3>4. With(old, key, Fee(0, 0)) = [x \in DOMAIN old \cup {key} |-> IF x = key THEN Fee(0, 0) ELSE old[x]]
      BY DEF With
    <3>5. DOMAIN old \cup {key} = all \cup Children(new, s)
      BY <1>1, <2>1
    <3>6. \A x \in DOMAIN old \cup {key} : (IF x = key THEN Fee(0, 0) ELSE old[x]) = FeesOf(new, x)
      BY <1>1, <2>3, <3>2
    <3> HIDE DEF old, key
    <3> QED
      BY <1>2, <3>3, <3>4, <3>5, <3>6
  <2> QED
    BY <2>5, <2>6
<1>4. CASE SetsExchange(l, new, n) /\ section = s
  <2> DEFINE key == l.key
             value == Thousandths[l.value]
  <2>1. Children(new, s) = Children(doc, s) /\ exchange \in Children(doc, s)
    BY <1>4, NewValue
  <2>2. \A x, k : ~(x = exchange /\ k = key) => SameValue(new, <<s, x, k>>)
    BY <1>4, NewValue
  <2>3. PairsAt(new, <<s, exchange, key>>) # {} /\ ValueAt(new, <<s, exchange, key>>) = l.value
    BY <1>4, NewValue
  <2>4. \A x, k : ~(x = exchange /\ k = key) => FeeAt(new, x, k) = FeeAt(doc, x, k)
    BY <2>2 DEF FeeAt, SameValue
  <2>5. FeeAt(new, exchange, key) = value
    BY <2>3 DEF FeeAt
  <2>6. cfg' = IF key \in {"maker_pct", "taker_pct"} THEN [cfg EXCEPT !.fees[exchange][key] = value] ELSE cfg
    BY <1>4 DEF SetsExchange, FeePair, SetFee
  <2>7. CASE key \in {"maker_pct", "taker_pct"}
    <3>1. cfg'.fees = [old EXCEPT ![exchange][key] = value]
      BY <2>6, <2>7 DEF Fields
    <3>2. [old[exchange] EXCEPT ![key] = value] = FeesOf(new, exchange)
      <4>1. old[exchange] = FeesOf(doc, exchange)
        BY <1>1, <2>1
      <4>2. /\ FeesOf(doc, exchange) = [maker_pct |-> FeeAt(doc, exchange, "maker_pct"),
                                        taker_pct |-> FeeAt(doc, exchange, "taker_pct")]
            /\ FeesOf(new, exchange) = [maker_pct |-> FeeAt(new, exchange, "maker_pct"),
                                        taker_pct |-> FeeAt(new, exchange, "taker_pct")]
        BY FeeParts
      <4> HIDE DEF old, key, value
      <4>3. CASE key = "maker_pct"
        BY <2>4, <2>5, <4>1, <4>2, <4>3
      <4>4. CASE key = "taker_pct"
        BY <2>4, <2>5, <4>1, <4>2, <4>4
      <4> QED
        BY <2>7, <4>3, <4>4
    <3>3. \A x : x # exchange => FeesOf(new, x) = FeesOf(doc, x)
      BY <2>4, FeeParts
    <3>4. [old EXCEPT ![exchange][key] = value] =
            [x \in DOMAIN old |-> IF x = exchange THEN [old[exchange] EXCEPT ![key] = value] ELSE old[x]]
      BY <1>1
    <3>5. \A x \in DOMAIN old : (IF x = exchange THEN [old[exchange] EXCEPT ![key] = value] ELSE old[x])
                                  = FeesOf(new, x)
      BY <1>1, <3>2, <3>3
    <3>6. DOMAIN old = all \cup Children(new, s)
      BY <1>1, <2>1
    <3> HIDE DEF old, key, value
    <3> QED
      BY <1>2, <3>1, <3>4, <3>5, <3>6
  <2>8. CASE key \notin {"maker_pct", "taker_pct"}
    <3>1. \A x : FeesOf(new, x) = FeesOf(doc, x)
      <4>1. \A x : /\ FeeAt(new, x, "maker_pct") = FeeAt(doc, x, "maker_pct")
                   /\ FeeAt(new, x, "taker_pct") = FeeAt(doc, x, "taker_pct")
        BY <2>4, <2>8
      <4> QED
        BY <4>1, FeeParts
    <3> QED
      BY <1>2, <2>1, <2>6, <2>8, <3>1 DEF AllFeesOf
  <2> QED
    BY <2>7, <2>8
<1>5. CASE ~(OpensExchange(l, new, n) /\ section = s) /\ ~(SetsExchange(l, new, n) /\ section = s)
  <2>1. cfg'.fees = cfg.fees
    BY <1>5, Kinds, OnePart DEF SameBut, Fields
  <2>2. Children(new, s) = Children(doc, s) /\ \A x, k : SameValue(new, <<s, x, k>>)
    BY <1>5, Elsewhere
  <2>3. \A x : FeesOf(new, x) = FeesOf(doc, x)
    BY <2>2, FeeParts DEF FeeAt, SameValue
  <2> QED
    BY <2>1, <2>2, <2>3 DEF AllFeesOf
<1> QED
  BY <1>3, <1>4, <1>5

-----------------------------------------------------------------------------
(* The symbols.                                                            *)

LEMMA ItemsNext ==
  ASSUME NEW l, NEW new, NEW n, Reads(l, new, n)
  PROVE  /\ ListsSymbol(l, new, n) => SymbolItems(new) = SymbolItems(doc) \cup {n}
         /\ ~ListsSymbol(l, new, n) => SymbolItems(new) = SymbolItems(doc)
         /\ SymbolItems(doc) \subseteq DOMAIN doc
         /\ n \in Nat /\ \A i \in DOMAIN doc : i \in Nat /\ i < n
         /\ new[n] = l /\ \A i \in DOMAIN doc : new[i] = doc[i]
<1>1. /\ DOMAIN new = DOMAIN doc \cup {n} /\ n \notin DOMAIN doc /\ new[n] = l
      /\ DOMAIN doc = 1..(n - 1) /\ n \in Nat
      /\ \A i \in DOMAIN doc : new[i] = doc[i] /\ Path(new, i) = Path(doc, i)
  BY AppendTypes, OldLines DEF Reads, ConfigInv, Document
<1>2. ListsSymbol(l, new, n) <=> l.kind = "item"
  BY Kinds DEF OpensSection, OpensSymbols, OpensExchange, SetsSetting, SetsExchange, ListsSymbol
<1>3. ListsSymbol(l, new, n) => Path(new, n) = <<"trading", "symbols", l.key>>
  BY DEF ListsSymbol
<1> QED
  BY <1>1, <1>2, <1>3 DEF SymbolItems

SymbolsMeant(d, list) ==
  IF HasHeader(d, <<"trading", "symbols">>)
  THEN /\ ListsItems(list, d) /\ list \in Seq(Items)
       /\ \A i \in SymbolItems(d) : \E k \in DOMAIN list : list[k] = d[i].value
  ELSE list = DefaultConfig.symbols

\* The list when an item comes: in the first case it has the value already.
LEMMA ListNext ==
  ASSUME NEW l, NEW new, NEW n, Reads(l, new, n), ListsSymbol(l, new, n), NEW list,
         SymbolsMeant(doc, list)
  PROVE  SymbolsMeant(new, AppendIfMissing(list, l.value))
<1>1. /\ HasHeader(doc, <<"trading", "symbols">>) /\ HasHeader(new, <<"trading", "symbols">>)
      /\ l.value \in Items
  BY Lookups, LineTypes DEF ListsSymbol, Reads
<1>2. /\ ListsItems(list, doc) /\ list \in Seq(Items)
      /\ \A i \in SymbolItems(doc) : \E k \in DOMAIN list : list[k] = doc[i].value
  BY <1>1 DEF SymbolsMeant
<1>3. /\ SymbolItems(new) = SymbolItems(doc) \cup {n} /\ SymbolItems(doc) \subseteq DOMAIN doc
      /\ n \in Nat /\ \A i \in DOMAIN doc : i \in Nat /\ i < n /\ new[i] = doc[i]
      /\ new[n] = l
  BY ItemsNext
<1>4. PICK at \in [DOMAIN list -> FirstItems(doc)] :
        /\ Range(at) = FirstItems(doc)
        /\ \A k, m \in DOMAIN list : k < m => at[k] < at[m]
        /\ \A k \in DOMAIN list : list[k] = doc[at[k]].value
  BY <1>2 DEF ListsItems
<1>5. FirstItems(doc) \subseteq SymbolItems(doc)
  BY DEF FirstItems
<1>6. \A i \in SymbolItems(doc) : i \in FirstItems(new) <=> i \in FirstItems(doc)
  BY <1>3 DEF FirstItems
<1>7. CASE \E k \in DOMAIN list : list[k] = l.value
  <2>1. AppendIfMissing(list, l.value) = list
    BY <1>7 DEF AppendIfMissing
  <2>2. n \notin FirstItems(new)
    <3>1. PICK k \in DOMAIN list : list[k] = l.value
      BY <1>7
    <3>2. at[k] \in SymbolItems(new) /\ at[k] < n /\ new[at[k]].value = new[n].value /\ at[k] \in Nat
      BY <1>3, <1>4, <1>5, <3>1
    <3> QED
      BY <1>3, <3>2 DEF FirstItems
  <2>3. FirstItems(new) = FirstItems(doc)
    BY <1>3, <1>5, <1>6, <2>2 DEF FirstItems
  <2>4. \A k \in DOMAIN list : list[k] = new[at[k]].value
    BY <1>3, <1>4, <1>5
  <2>5. ListsItems(list, new)
    BY <1>4, <2>3, <2>4 DEF ListsItems
  <2>6. \A i \in SymbolItems(new) : \E k \in DOMAIN list : list[k] = new[i].value
    BY <1>2, <1>3, <1>7
  <2> QED
    BY <1>1, <1>2, <2>1, <2>5, <2>6 DEF SymbolsMeant
<1>8. CASE ~\E k \in DOMAIN list : list[k] = l.value
  <2> DEFINE longer == Append(list, l.value)
             m == Len(list) + 1
             at2 == [k \in DOMAIN longer |-> IF k = m THEN n ELSE at[k]]
  <2>1. AppendIfMissing(list, l.value) = longer
    BY <1>8 DEF AppendIfMissing
  <2>2. /\ longer \in Seq(Items) /\ DOMAIN longer = DOMAIN list \cup {m} /\ m \notin DOMAIN list
        /\ longer[m] = l.value /\ \A k \in DOMAIN list : longer[k] = list[k] /\ k \in Nat /\ k < m
        /\ m \in Nat
    <3>1. /\ longer \in Seq(Items) /\ Len(longer) = m /\ longer[m] = l.value
          /\ \A k \in 1..Len(list) : longer[k] = list[k]
      BY <1>1, <1>2, AppendProperties
    <3>2. DOMAIN longer = 1..m /\ DOMAIN list = 1..Len(list) /\ Len(list) \in Nat
      BY <1>2, <3>1, LenProperties
    <3> HIDE DEF longer
    <3> QED
      BY <3>1, <3>2
  <2> HIDE DEF longer, m
  <2>3. n \in FirstItems(new)
    <3>1. \A j \in SymbolItems(doc) : new[j].value # new[n].value
      BY <1>2, <1>3, <1>8
    <3> QED
      BY <1>3, <3>1 DEF FirstItems
  <2>4. FirstItems(new) = FirstItems(doc) \cup {n}
    BY <1>3, <1>5, <1>6, <2>3 DEF FirstItems
  <2>5. at2 \in [DOMAIN longer -> FirstItems(new)]
    BY <1>4, <2>2, <2>4
  <2>6. at2[m] = n /\ \A k \in DOMAIN list : at2[k] = at[k]
    BY <2>2
  <2>7. DOMAIN at2 = DOMAIN longer /\ DOMAIN at = DOMAIN list
    BY <1>4
  <2> HIDE DEF at2
  <2>8. Range(at2) = FirstItems(new)
    BY <1>4, <2>2, <2>4, <2>6, <2>7 DEF Range
  <2>9. \A k, j \in DOMAIN longer : k < j => at2[k] < at2[j]
    <3> SUFFICES ASSUME NEW k \in DOMAIN longer, NEW j \in DOMAIN longer, k < j
                 PROVE  at2[k] < at2[j]
      OBVIOUS
    <3>1. k \in DOMAIN list
      BY <2>2
    <3>2. CASE j = m
      <4>1. at[k] \in DOMAIN doc
        BY <1>3, <1>4, <1>5, <3>1
      <4> QED
        BY <1>3, <2>6, <3>1, <3>2, <4>1
    <3>3. CASE j \in DOMAIN list
      BY <1>4, <2>6, <3>1, <3>3
    <3> QED
      BY <2>2, <3>2, <3>3
  <2>10. \A k \in DOMAIN longer : longer[k] = new[at2[k]].value
    <3>1. \A k \in DOMAIN list : longer[k] = new[at2[k]].value
      BY <1>3, <1>4, <1>5, <2>2, <2>6
    <3> QED
      BY <1>3, <2>2, <2>6, <3>1
  <2>11. ListsItems(longer, new)
    BY <2>5, <2>8, <2>9, <2>10 DEF ListsItems
  <2>12. \A i \in SymbolItems(new) : \E k \in DOMAIN longer : longer[k] = new[i].value
    BY <1>2, <1>3, <2>2
  <2> QED
    BY <1>1, <2>1, <2>2, <2>11, <2>12 DEF SymbolsMeant
<1> QED
  BY <1>7, <1>8

LEMMA SymbolsNext ==
  ASSUME NEW l, NEW new, NEW n, Reads(l, new, n), DOMAIN cfg = Fields,
         SymbolsMeant(doc, cfg.symbols)
  PROVE  SymbolsMeant(new, cfg'.symbols)
<1> DEFINE S == <<"trading", "symbols">>
<1>1. CASE ListsSymbol(l, new, n)
  <2>1. cfg'.symbols = AppendIfMissing(cfg.symbols, l.value)
    BY <1>1 DEF ListsSymbol, Fields
  <2> QED
    BY <1>1, <2>1, ListNext
<1>2. CASE OpensSymbols(l, new, n)
  <2>1. /\ cfg'.symbols = <<>> /\ l.kind = "header" /\ Path(new, n) = S
    BY <1>2 DEF OpensSymbols, Fields
  <2>2. ~HasHeader(doc, S) /\ HasHeader(new, S)
    BY <2>1, Fresh, Lookups
  <2>3. SymbolItems(new) = {}
    <3>1. SymbolItems(doc) = {}
      BY <2>2, HeaderAbove DEF SymbolItems, Reads, ConfigInv
    <3>2. ~ListsSymbol(l, new, n)
      BY <2>1 DEF ListsSymbol
    <3> QED
      BY <3>1, <3>2, ItemsNext
  <2>4. FirstItems(new) = {}
    BY <2>3 DEF FirstItems
  <2>5. DOMAIN <<>> = {} /\ <<>> \in Seq(Items)
    BY EmptySeq
  <2>6. ListsItems(<<>>, new)
    <3> DEFINE at == [k \in {} |-> 0]
    <3>1. at \in [{} -> FirstItems(new)] /\ Range(at) = {}
      BY DEF Range
    <3> QED
      BY <2>4, <2>5, <3>1 DEF ListsItems
  <2> QED
    BY <2>1, <2>2, <2>3, <2>5, <2>6 DEF SymbolsMeant
<1>3. CASE ~ListsSymbol(l, new, n) /\ ~OpensSymbols(l, new, n)
  <2>1. cfg'.symbols = cfg.symbols
    <3>1. "symbols" \in Fields \ {"settings", "exchanges", "fees"}
      BY DEF Fields
    <3>2. CASE OpensSection(l, new, n)
      BY <3>1, <3>2, OnePart
    <3>3. CASE OpensExchange(l, new, n) \/ SetsExchange(l, new, n)
      <4>1. section \in {"exchanges", "fees"}
        BY <3>3 DEF OpensExchange, SetsExchange
      <4> QED
        BY <3>1, <3>3, <4>1, OnePart DEF SameBut
    <3>4. CASE SetsSetting(l, new, n)
      BY <3>1, <3>4, OnePart DEF SameBut
    <3> QED
      BY <1>3, <3>2, <3>3, <3>4, Kinds
  <2>2. ~(l.kind = "header" /\ Path(new, n) = S)
    <3>1. CASE OpensSection(l, new, n)
      <4>1. Len(Path(new, n)) = 1
        BY <3>1, Tuple1, Zenon DEF OpensSection
      <4> QED
        BY <4>1, SymbolsPath
    <3>2. CASE OpensExchange(l, new, n)
      <4>1. Path(new, n)[1] \in {"exchanges", "fees"}
        <5>1. Path(new, n)[1] = section
          BY <3>2, Tuple2, Zenon DEF OpensExchange
        <5> QED
          BY <3>2, <5>1 DEF OpensExchange
      <4> QED
        BY <4>1, SymbolsPath
    <3> QED
      BY <1>3, <3>1, <3>2, Kinds DEF SetsSetting, SetsExchange
  <2>3. HasHeader(new, S) <=> HasHeader(doc, S)
    BY <2>2, Lookups
  <2>4. /\ SymbolItems(new) = SymbolItems(doc) /\ SymbolItems(doc) \subseteq DOMAIN doc
        /\ \A i \in DOMAIN doc : new[i] = doc[i]
    BY <1>3, ItemsNext
  <2>5. FirstItems(new) = FirstItems(doc) /\ FirstItems(doc) \subseteq DOMAIN doc
    BY <2>4 DEF FirstItems
  <2>6. ASSUME ListsItems(cfg.symbols, doc)
        PROVE  ListsItems(cfg.symbols, new)
    BY <2>4, <2>5, <2>6 DEF ListsItems
  <2>7. \A i \in SymbolItems(new) : new[i].value = doc[i].value
    BY <2>4
  <2> QED
    BY <2>1, <2>3, <2>4, <2>6, <2>7 DEF SymbolsMeant
<1> QED
  BY <1>1, <1>2, <1>3

-----------------------------------------------------------------------------
(* The invariant holds of every behaviour.                                 *)

\* An empty document means the defaults.
LEMMA InitInv ==
  ASSUME Init
  PROVE  ConfigInv
<1>1. doc = <<>> /\ DOMAIN doc = {} /\ doc \in Seq(Lines) /\ cfg = DefaultConfig /\ ~failed
  BY EmptySeq DEF Init
<1>2. Document(doc)
  BY <1>1 DEF Document
<1>3. SectionIsOpen /\ ExchangeIsOpen /\ ListIsOpen /\ FailsOnBadNumber
  BY <1>1 DEF SectionIsOpen, ExchangeIsOpen, ListIsOpen, FailsOnBadNumber
<1>4. /\ \A path : PairsAt(doc, path) = {} /\ ~HasHeader(doc, path)
      /\ \A s : Children(doc, s) = {}
  BY <1>1 DEF PairsAt, HasHeader, Children
<1>5. cfg.settings = SettingsOf(doc)
  <2>1. \A s \in DOMAIN DefaultSettings : \A k \in DOMAIN DefaultSettings[s] :
          Setting(doc, s, k) = DefaultSettings[s][k]
    BY <1>4 DEF Setting
  <2>2. DefaultSettings =
          [s \in DOMAIN DefaultSettings |-> [k \in DOMAIN DefaultSettings[s] |-> DefaultSettings[s][k]]]
    <3> DEFINE D == DefaultSettings
    <3>1. D = [s \in DOMAIN D |-> D[s]]
      BY DEF DefaultSettings
    <3>2. \A s \in DOMAIN D : D[s] = [k \in DOMAIN D[s] |-> D[s][k]]
      <4>1. DOMAIN D = {"app", "trading", "risk", "strategy", "execution", "storage"}
        BY DEF DefaultSettings
      <4>2. D["app"] = [k \in DOMAIN D["app"] |-> D["app"][k]]
        BY DEF DefaultSettings
      <4>3. D["trading"] = [k \in DOMAIN D["trading"] |-> D["trading"][k]]
        BY DEF DefaultSettings
      <4>4. D["risk"] = [k \in DOMAIN D["risk"] |-> D["risk"][k]]
        BY DEF DefaultSettings
      <4>5. D["strategy"] = [k \in DOMAIN D["strategy"] |-> D["strategy"][k]]
        BY DEF DefaultSettings
      <4>6. D["execution"] = [k \in DOMAIN D["execution"] |-> D["execution"][k]]
        BY DEF DefaultSettings
      <4>7. D["storage"] = [k \in DOMAIN D["storage"] |-> D["storage"][k]]
        BY DEF DefaultSettings
      <4> HIDE DEF D
      <4> QED
        BY <4>1, <4>2, <4>3, <4>4, <4>5, <4>6, <4>7
    <3> HIDE DEF D
    <3>3. D = [s \in DOMAIN D |-> [k \in DOMAIN D[s] |-> D[s][k]]]
      BY <3>1, <3>2
    <3> QED
      BY <3>3 DEF D
  <2>3. cfg.settings = DefaultSettings
    BY <1>1 DEF DefaultConfig
  <2> QED
    BY <2>1, <2>2, <2>3 DEF SettingsOf
<1>6. cfg.symbols = DefaultConfig.symbols
  BY <1>1
<1>7. cfg.exchanges = ExchangesOf(doc)
  <2>1. DefaultConfig.exchanges =
          [x \in DOMAIN DefaultConfig.exchanges |-> DefaultConfig.exchanges[x]]
    BY DEF DefaultConfig
  <2> QED
    BY <1>1, <1>4, <2>1 DEF ExchangesOf
<1>8. cfg.fees = AllFeesOf(doc)
  <2> DEFINE F == DefaultConfig.fees
  <2>1. F = [x \in DOMAIN F |-> F[x]]
    BY DEF DefaultConfig
  <2>2. \A x \in DOMAIN F : F[x] = [maker_pct |-> F[x].maker_pct, taker_pct |-> F[x].taker_pct]
    BY DEF DefaultConfig, Fee
  <2> HIDE DEF F
  <2>3. \A x \in DOMAIN F : FeesOf(doc, x) = F[x]
    BY <1>4, <2>2, FeeParts DEF FeeAt, BaseFee, F
  <2>4. AllFeesOf(doc) = [x \in DOMAIN F |-> F[x]]
    BY <1>4, <2>3 DEF AllFeesOf, F
  <2> QED
    BY <1>1, <2>1, <2>4 DEF F
<1>9. DOMAIN cfg = {"settings", "symbols", "exchanges", "fees"}
  BY <1>1 DEF DefaultConfig
<1>10. Meant
  BY <1>4, <1>5, <1>6, <1>7, <1>8, <1>9 DEF Meant, Means, SymbolsListed
<1> QED
  BY <1>2, <1>3, <1>10 DEF ConfigInv

\* A line that is read leaves every part of the configuration meant.
LEMMA StillMeant ==
  ASSUME NEW l, NEW new, NEW n, Reads(l, new, n), ~failed'
  PROVE  Meant'
<1>1. Meant /\ DOMAIN cfg = Fields
  BY DEF Reads, ConfigInv, Meant, Fields
<1>2. doc' = new
  BY Kinds
<1>3. cfg.settings = SettingsOf(doc) /\ cfg.exchanges = ExchangesOf(doc) /\ cfg.fees = AllFeesOf(doc)
  BY <1>1 DEF Meant, Means
<1>4. SymbolsMeant(doc, cfg.symbols)
  BY <1>1 DEF Meant, Means, SymbolsListed, SymbolsMeant
<1>5. /\ cfg'.settings = SettingsOf(new) /\ cfg'.exchanges = ExchangesOf(new)
      /\ cfg'.fees = AllFeesOf(new)
  BY <1>1, <1>3, SettingsNext, ExchangesNext, FeesNext
<1>6. SymbolsMeant(new, cfg'.symbols)
  BY <1>1, <1>4, SymbolsNext
<1>7. DOMAIN cfg' = Fields
  BY <1>1, Kinds, OnePart DEF SameBut
<1>8. Means(new, cfg')
  BY <1>5, <1>6 DEF Means, SymbolsMeant
<1>9. SymbolsListed'
  BY <1>2, <1>6 DEF SymbolsListed, SymbolsMeant
<1> QED
  BY <1>2, <1>7, <1>8, <1>9 DEF Meant, Fields

LEMMA NextInv ==
  ASSUME ConfigInv, [Next]_vars
  PROVE  ConfigInv'
<1>1. CASE UNCHANGED vars
  BY <1>1 DEF vars, ConfigInv, Meant, SectionIsOpen, ExchangeIsOpen, ListIsOpen, FailsOnBadNumber,
              SymbolsListed
<1>2. CASE Next
  <2>1. PICK l \in Lines :
          Follows(doc, l) /\ WellPlaced(Append(doc, l), Len(doc) + 1) /\ Read(l)
    BY <1>2 DEF Next
  <2>2. Reads(l, Append(doc, l), Len(doc) + 1)
    BY <2>1 DEF Reads, Read
  <2>3. Document(doc)' /\ SectionIsOpen' /\ ExchangeIsOpen' /\ ListIsOpen' /\ FailsOnBadNumber'
    BY <2>2, StillOpen, StillFails
  <2>4. ~failed' => Meant'
    BY <2>2, StillMeant
  <2> QED
    BY <2>3, <2>4 DEF ConfigInv
<1> QED
  BY <1>1, <1>2

-----------------------------------------------------------------------------
(* The theorems.                                                           *)

LEMMA ConfigHolds == Spec => []ConfigInv
<1>1. Init => ConfigInv
  BY InitInv
<1>2. ConfigInv /\ [Next]_vars => ConfigInv'
  BY NextInv
<1> QED
  BY <1>1, <1>2, PTL DEF Spec

\* LoadConfig gives every well-placed document, however long it is and whatever
\* texts are in it, the settings, exchanges, fees and symbols that its indentation
\* means, although it looks at no indentation.
THEOREM LoadsAsWritten == Spec => []LoadedAsWritten
<1>1. ConfigInv => LoadedAsWritten
  BY DEF ConfigInv, Meant, LoadedAsWritten
<1> QED
  BY <1>1, ConfigHolds, PTL

\* LoadConfig returns an error exactly if a value that must be a number is none:
\* it neither passes over a bad number of a known key nor rejects any other line.
THEOREM OnlyBadNumbersFail == Spec => []FailsOnBadNumber
<1>1. ConfigInv => FailsOnBadNumber
  BY DEF ConfigInv
<1> QED
  BY <1>1, ConfigHolds, PTL
=============================================================================
