-------------------------- MODULE EstimatorProofs --------------------------
(***************************************************************************)
(* Sizing and pricing of a trade, for books of any length over any prices  *)
(* and quantities.                                                         *)
(***************************************************************************)
EXTENDS MCEstimator, SequenceTheorems, WellFoundedInduction, TLAPS

-----------------------------------------------------------------------------
(* Induction, in a form without an operator parameter, and the existence   *)
(* of functions defined by recursion over 0..m.                            *)

LEMMA SetInduction ==
  ASSUME NEW S, 0 \in S, \A n \in Nat : n \in S => n + 1 \in S
  PROVE  \A n \in Nat : n \in S
<1> DEFINE T == {n \in Nat : n \notin S}
<1> SUFFICES ASSUME T # {} PROVE FALSE
  OBVIOUS
<1>1. PICK x \in T : \A y \in T : ~(<<y, x>> \in OpToRel(<, Nat))
  BY NatLessThanWellFounded, WFMin
<1>2. x \in Nat /\ x \notin S /\ x # 0
  OBVIOUS
<1>3. x - 1 \in Nat /\ x - 1 < x /\ (x - 1) + 1 = x
  BY <1>2
<1>4. <<x - 1, x>> \in OpToRel(<, Nat)
  BY <1>2, <1>3 DEF OpToRel
<1>5. x - 1 \in S
  BY <1>1, <1>3, <1>4
<1> QED
  BY <1>2, <1>3, <1>5

IsStep(G, S, m) == G \in [S \X (1..m) -> S]

Runs(F, S, b, m, G) ==
  F \in [0..m -> S] /\ F[0] = b /\ \A i \in 1..m : F[i] = G[<<F[i - 1], i>>]

LEMMA Recursion ==
  ASSUME NEW S, NEW b \in S, NEW m \in Nat, NEW G, IsStep(G, S, m)
  PROVE  \E F : Runs(F, S, b, m, G)
<1> USE DEF IsStep
<1> DEFINE Upto(n) ==
             \E F \in [0..n -> S] : F[0] = b /\ \A i \in 1..n : F[i] = G[<<F[i - 1], i>>]
           K == {n \in Nat : n <= m => Upto(n)}
<1>1. 0 \in K
  <2> DEFINE F == [i \in 0..0 |-> b]
  <2>1. F \in [0..0 -> S] /\ F[0] = b /\ \A i \in 1..0 : F[i] = G[<<F[i - 1], i>>]
    OBVIOUS
  <2> QED
    BY <2>1
<1>2. ASSUME NEW n \in Nat, n \in K
      PROVE  n + 1 \in K
  <2> SUFFICES ASSUME n + 1 <= m PROVE Upto(n + 1)
    OBVIOUS
  <2>1. PICK F \in [0..n -> S] : F[0] = b /\ \A i \in 1..n : F[i] = G[<<F[i - 1], i>>]
    BY <1>2
  <2> DEFINE H == [i \in 0..(n + 1) |-> IF i = n + 1 THEN G[<<F[n], n + 1>>] ELSE F[i]]
  <2>2. F[n] \in S /\ G[<<F[n], n + 1>>] \in S
    BY <2>1
  <2>3. H \in [0..(n + 1) -> S] /\ H[0] = b
    BY <2>1, <2>2
  <2>4. ASSUME NEW i \in 1..(n + 1)
        PROVE  H[i] = G[<<H[i - 1], i>>]
    <3>1. i - 1 \in 0..n /\ H[i - 1] = F[i - 1]
      OBVIOUS
    <3>2. CASE i = n + 1
      <4>1. i - 1 = n /\ H[i] = G[<<F[n], n + 1>>]
        BY <3>2
      <4> QED
        BY <3>1, <3>2, <4>1
    <3>3. CASE i \in 1..n
      BY <2>1, <3>1, <3>3
    <3> QED
      BY <3>2, <3>3
  <2> QED
    BY <2>3, <2>4
<1> HIDE DEF K
<1>3. m \in K
  BY <1>1, <1>2, SetInduction
<1> QED
  BY <1>3 DEF K, Runs

LEMMA MinOfTwo ==
  ASSUME NEW a \in Int, NEW b \in Int
  PROVE  Min({a, b}) = IF a <= b THEN a ELSE b
BY DEF Min

\* A function on 1..m is a sequence of length m.
LEMMA FunctionIsSeq ==
  ASSUME NEW S, NEW m \in Nat, NEW f \in [1..m -> S]
  PROVE  f \in Seq(S) /\ Len(f) = m
<1>1. f \in Seq(S)
  BY SeqDef
<1>2. DOMAIN f = 1..Len(f) /\ Len(f) \in Nat
  BY <1>1, LenProperties
<1> QED
  BY <1>1, <1>2

-----------------------------------------------------------------------------
(* The running sum and the running fill.                                   *)

LEMMA TotalFacts ==
  ASSUME NEW m \in Nat, NEW values \in [1..m -> Int]
  PROVE  \E t \in [0..m -> Int] :
           t[0] = 0 /\ (\A i \in 1..m : t[i] = t[i - 1] + values[i]) /\ Total(values) = t[m]
<1> DEFINE G == [p \in Int \X (1..m) |-> p[1] + values[p[2]]]
           Rec(t) == t = [n \in 0..m |-> IF n = 0 THEN 0 ELSE t[n - 1] + values[n]]
<1>1. IsStep(G, Int, m)
  BY DEF IsStep
<1> HIDE DEF G
<1>2. PICK F : Runs(F, Int, 0, m, G)
  <2>1. 0 \in Int
    OBVIOUS
  <2> QED
    BY <1>1, <2>1, Recursion
<1>3. \A i \in 1..m : F[i] = F[i - 1] + values[i]
  <2> TAKE i \in 1..m
  <2>1. F[i - 1] \in Int
    BY <1>2 DEF Runs
  <2>2. G[<<F[i - 1], i>>] = F[i - 1] + values[i]
    BY <2>1 DEF G
  <2> QED
    BY <1>2, <2>2 DEF Runs
<1>4. Rec(F)
  BY <1>2, <1>3 DEF Runs
<1> DEFINE t == CHOOSE t : Rec(t)
<1>5. Rec(t)
  BY <1>4
<1>6. Len(values) = m
  BY FunctionIsSeq
<1>7. Total(values) = t[m]
  BY <1>6 DEF Total
<1> HIDE DEF t
<1>8. \A i \in 0..m : t[i] = IF i = 0 THEN 0 ELSE t[i - 1] + values[i]
  BY <1>5
<1> DEFINE K == {i \in Nat : i <= m => t[i] \in Int}
<1>9. 0 \in K
  BY <1>8
<1>10. ASSUME NEW n \in Nat, n \in K
       PROVE  n + 1 \in K
  <2> SUFFICES ASSUME n + 1 <= m PROVE t[n + 1] \in Int
    OBVIOUS
  <2>1. n + 1 \in 0..m /\ n + 1 \in 1..m /\ (n + 1) - 1 = n /\ n + 1 # 0 /\ t[n] \in Int
    BY <1>10
  <2> QED
    BY <1>8, <2>1
<1> HIDE DEF K
<1>11. \A n \in Nat : n \in K
  BY <1>9, <1>10, SetInduction
<1>12. t \in [0..m -> Int]
  <2>1. \A i \in 0..m : t[i] \in Int
    BY <1>11 DEF K
  <2> QED
    BY <1>5, <2>1
<1>13. t[0] = 0 /\ \A i \in 1..m : t[i] = t[i - 1] + values[i]
  BY <1>8
<1> QED
  BY <1>7, <1>12, <1>13

-----------------------------------------------------------------------------
(* One leg: levels as the parser leaves them, and what is taken from them. *)

Side == {s \in Seq(Level) : \A i \in DOMAIN s : s[i].price > 0 /\ s[i].quantity > 0}

Reach(levels) == Len(TopLevels(levels))

LEMMA ReachFacts ==
  ASSUME NEW levels \in Side
  PROVE  /\ Reach(levels) \in Nat /\ Reach(levels) <= Len(levels) /\ Len(levels) \in Nat
         /\ DOMAIN TopLevels(levels) = 1..Reach(levels)
         /\ levels # <<>> => Reach(levels) >= 1
         /\ \A i \in 1..Reach(levels) :
              /\ i \in DOMAIN levels /\ levels[i] \in Level
              /\ levels[i].price \in Nat \ {0} /\ levels[i].quantity \in Nat \ {0}
<1>1. MaxDepth \in Nat \ {0}
  BY EstimatorAssumption DEF EstimatorAssumption, MaxDepth
<1>2. levels \in Seq(Level) /\ Len(levels) \in Nat /\ DOMAIN levels = 1..Len(levels)
  BY LenProperties DEF Side
<1> DEFINE k == Min({Len(levels), MaxDepth})
<1>3. k \in Nat /\ k <= Len(levels) /\ (Len(levels) >= 1 => k >= 1)
  <2>1. k = IF Len(levels) <= MaxDepth THEN Len(levels) ELSE MaxDepth
    <3>1. Len(levels) \in Int /\ MaxDepth \in Int
      BY <1>1, <1>2
    <3> QED
      BY <3>1, MinOfTwo
  <2> HIDE DEF k
  <2> QED
    BY <1>1, <1>2, <2>1
<1>4. \A i \in DOMAIN levels : levels[i] \in Level
  BY <1>2, ElementOfSeq
<1>5. TopLevels(levels) = SubSeq(levels, 1, k)
  BY DEF TopLevels
<1> HIDE DEF k
<1>6. SubSeq(levels, 1, k) \in Seq(Level) /\ Len(SubSeq(levels, 1, k)) = k
  <2>1. \A i \in 1..k : levels[i] \in Level
    BY <1>2, <1>3, <1>4
  <2>2. k \in Int /\ 1 \in Int /\ k - 1 + 1 = k
    BY <1>3
  <2>3. /\ SubSeq(levels, 1, k) \in Seq(Level)
        /\ Len(SubSeq(levels, 1, k)) = IF 1 <= k THEN k - 1 + 1 ELSE 0
    BY <2>1, <2>2, SubSeqProperties
  <2> QED
    BY <1>3, <2>2, <2>3
<1>7. Reach(levels) = k /\ DOMAIN TopLevels(levels) = 1..k
  BY <1>5, <1>6, LenProperties DEF Reach
<1>8. levels # <<>> => Len(levels) >= 1
  BY <1>2, EmptySeq
<1>9. \A i \in 1..k : i \in DOMAIN levels
  BY <1>2, <1>3
<1>10. \A i \in DOMAIN levels : levels[i].price \in Nat \ {0} /\ levels[i].quantity \in Nat \ {0}
  BY <1>4 DEF Side, Level
<1> QED
  BY <1>2, <1>3, <1>4, <1>7, <1>8, <1>9, <1>10

Less(a, b) == IF a <= b THEN a ELSE b

\* g[i] and c[i] are what the first i levels fill and cost.
Running(g, c, levels, qty) ==
  /\ g \in [0..Reach(levels) -> Int] /\ c \in [0..Reach(levels) -> Int]
  /\ g[0] = 0 /\ c[0] = 0
  /\ \A i \in 1..Reach(levels) :
       /\ g[i] = g[i - 1] + Less(levels[i].quantity, qty - g[i - 1])
       /\ c[i] = c[i - 1] + Less(levels[i].quantity, qty - g[i - 1]) * levels[i].price

LEMMA TakeFacts ==
  ASSUME NEW acc \in [cost : Int, filled : Int], NEW l \in Level, l.price > 0, l.quantity > 0,
         NEW qty \in Nat
  PROVE  LET taken == Less(l.quantity, qty - acc.filled)
         IN  /\ TakeLevel(acc, l, qty) = [cost |-> acc.cost + taken * l.price, filled |-> acc.filled + taken]
             /\ TakeLevel(acc, l, qty) \in [cost : Int, filled : Int]
<1>1. l.price \in Nat /\ l.quantity \in Nat /\ acc.filled \in Int /\ acc.cost \in Int
  BY DEF Level
<1> DEFINE taken == Less(l.quantity, qty - acc.filled)
<1>2. Min({l.quantity, qty - acc.filled}) = taken
  <2>1. l.quantity \in Int /\ qty - acc.filled \in Int
    BY <1>1
  <2> QED
    BY <2>1, MinOfTwo DEF Less
<1>3. taken \in Int
  BY <1>1 DEF Less
<1>4. TakeLevel(acc, l, qty) = [cost |-> acc.cost + taken * l.price, filled |-> acc.filled + taken]
  BY <1>1, <1>2 DEF TakeLevel
<1> HIDE DEF taken
<1>5. taken * l.price \in Int
  BY <1>1, <1>3
<1>6. acc.cost + taken * l.price \in Int /\ acc.filled + taken \in Int
  BY <1>1, <1>3, <1>5
<1>7. TakeLevel(acc, l, qty) \in [cost : Int, filled : Int]
  BY <1>4, <1>6
<1> QED
  BY <1>4, <1>7 DEF taken

LEMMA FillFacts ==
  ASSUME NEW levels \in Side, NEW qty \in Nat
  PROVE  \E g, c : Running(g, c, levels, qty)
                     /\ FillFor(levels, qty) = [cost |-> c[Reach(levels)], filled |-> g[Reach(levels)]]
<1> DEFINE m == Reach(levels)
           Acc == [cost : Int, filled : Int]
           zero == [cost |-> 0, filled |-> 0]
           G == [p \in Acc \X (1..m) |-> TakeLevel(p[1], levels[p[2]], qty)]
           Rec(f) == f = [n \in 0..m |-> IF n = 0 THEN zero ELSE TakeLevel(f[n - 1], levels[n], qty)]
<1>1. /\ m \in Nat
      /\ \A i \in 1..m : levels[i] \in Level /\ levels[i].price > 0 /\ levels[i].quantity > 0
  BY ReachFacts
<1>2. FillFor(levels, qty) = (CHOOSE f : Rec(f))[m]
  BY DEF FillFor, Reach
<1> HIDE DEF m
<1>3. \A a \in Acc : \A i \in 1..m : TakeLevel(a, levels[i], qty) \in Acc
  BY <1>1, TakeFacts
<1>4. zero \in Acc
  OBVIOUS
<1> HIDE DEF Acc, zero
<1>5. IsStep(G, Acc, m)
  BY <1>3 DEF IsStep
<1>6. \A a \in Acc : \A i \in 1..m : G[<<a, i>>] = TakeLevel(a, levels[i], qty)
  OBVIOUS
<1> HIDE DEF G
<1>7. PICK F : Runs(F, Acc, zero, m, G)
  BY <1>1, <1>4, <1>5, Recursion
<1>8. Rec(F)
  <2>1. \A i \in 1..m : F[i] = TakeLevel(F[i - 1], levels[i], qty)
    <3> TAKE i \in 1..m
    <3>1. F[i - 1] \in Acc
      BY <1>1, <1>7 DEF Runs
    <3> QED
      BY <1>6, <1>7, <3>1 DEF Runs
  <2> QED
    BY <1>7, <2>1 DEF Runs
<1> DEFINE f == CHOOSE f : Rec(f)
<1>9. Rec(f)
  BY <1>8
<1> HIDE DEF f
<1>10. f[0] = zero /\ \A i \in 1..m : f[i] = TakeLevel(f[i - 1], levels[i], qty)
  BY <1>1, <1>9
<1> DEFINE K == {i \in Nat : i <= m => f[i] \in Acc}
<1>11. 0 \in K
  BY <1>4, <1>10
<1>12. ASSUME NEW n \in Nat, n \in K
       PROVE  n + 1 \in K
  <2> SUFFICES ASSUME n + 1 <= m PROVE f[n + 1] \in Acc
    OBVIOUS
  <2>1. n + 1 \in 1..m /\ (n + 1) - 1 = n /\ f[n] \in Acc
    BY <1>1, <1>12
  <2> QED
    BY <1>3, <1>10, <2>1
<1> HIDE DEF K
<1>13. \A n \in Nat : n \in K
  BY <1>11, <1>12, SetInduction
<1>14. \A i \in 0..m : f[i] \in Acc
  BY <1>13 DEF K
<1> DEFINE g == [i \in 0..m |-> f[i].filled]
           c == [i \in 0..m |-> f[i].cost]
<1>15. f[m] = [cost |-> c[m], filled |-> g[m]]
  <2>1. f[m] \in Acc /\ m \in 0..m
    BY <1>1, <1>14
  <2> QED
    BY <2>1 DEF Acc
<1>16. g \in [0..m -> Int] /\ c \in [0..m -> Int] /\ g[0] = 0 /\ c[0] = 0
  <2>1. \A i \in 0..m : f[i].filled \in Int /\ f[i].cost \in Int
    BY <1>14 DEF Acc
  <2> QED
    BY <1>1, <1>10, <2>1 DEF zero
<1>17. ASSUME NEW i \in 1..m
       PROVE  /\ g[i] = g[i - 1] + Less(levels[i].quantity, qty - g[i - 1])
              /\ c[i] = c[i - 1] + Less(levels[i].quantity, qty - g[i - 1]) * levels[i].price
  <2>1. i - 1 \in 0..m /\ i \in 0..m
    BY <1>1
  <2>2. f[i - 1] \in Acc
    BY <1>14, <2>1
  <2> DEFINE taken == Less(levels[i].quantity, qty - f[i - 1].filled)
  <2>3. f[i] = [cost |-> f[i - 1].cost + taken * levels[i].price, filled |-> f[i - 1].filled + taken]
    BY <1>1, <1>10, <2>2, TakeFacts DEF Acc
  <2>4. taken = Less(levels[i].quantity, qty - g[i - 1])
    BY <2>1
  <2> HIDE DEF taken
  <2> QED
    BY <2>1, <2>3, <2>4
<1> HIDE DEF g, c
<1>18. Running(g, c, levels, qty)
  BY <1>16, <1>17 DEF Running, m
<1>19. FillFor(levels, qty) = [cost |-> c[m], filled |-> g[m]]
  BY <1>2, <1>15 DEF f
<1> QED
  BY <1>18, <1>19 DEF m

-----------------------------------------------------------------------------
(* What a leg fills and costs.                                             *)

LEMMA ProductBound ==
  ASSUME NEW a \in Nat, NEW p \in Int, NEW q \in Int, p <= q
  PROVE  a * p <= a * q
OBVIOUS

LEMMA ProductSign ==
  ASSUME NEW a \in Nat, NEW p \in Nat
  PROVE  a * p \in Nat
OBVIOUS

\* Nothing is taken beyond what is wanted, and never a negative amount.
LEMMA FillBounds ==
  ASSUME NEW levels \in Side, NEW qty \in Nat, NEW g, NEW c, Running(g, c, levels, qty)
  PROVE  /\ \A i \in 0..Reach(levels) : g[i] \in 0..qty
         /\ \A i \in 1..Reach(levels) : Less(levels[i].quantity, qty - g[i - 1]) \in Nat
<1> DEFINE m == Reach(levels)
           K == {i \in Nat : i <= m => g[i] \in 0..qty}
<1>1. m \in Nat /\ \A i \in 1..m : levels[i].quantity \in Nat
  BY ReachFacts
<1>2. g[0] = 0 /\ \A i \in 1..m : g[i] = g[i - 1] + Less(levels[i].quantity, qty - g[i - 1])
  BY DEF Running
<1> HIDE DEF m
<1>3. 0 \in K
  BY <1>2
<1>4. ASSUME NEW n \in Nat, n \in K
      PROVE  n + 1 \in K
  <2> SUFFICES ASSUME n + 1 <= m PROVE g[n + 1] \in 0..qty
    OBVIOUS
  <2>1. n + 1 \in 1..m /\ (n + 1) - 1 = n /\ g[n] \in 0..qty /\ levels[n + 1].quantity \in Nat
    BY <1>1, <1>4
  <2>2. g[n + 1] = g[n] + Less(levels[n + 1].quantity, qty - g[n])
    BY <1>2, <2>1
  <2> QED
    BY <2>1, <2>2 DEF Less
<1> HIDE DEF K
<1>5. \A n \in Nat : n \in K
  BY <1>3, <1>4, SetInduction
<1>6. \A i \in 0..m : g[i] \in 0..qty
  BY <1>1, <1>5 DEF K
<1>7. ASSUME NEW i \in 1..m
      PROVE  Less(levels[i].quantity, qty - g[i - 1]) \in Nat
  <2>1. g[i - 1] \in 0..qty /\ levels[i].quantity \in Nat
    BY <1>1, <1>6
  <2> QED
    BY <2>1 DEF Less
<1> QED
  BY <1>6, <1>7 DEF m

\* At no time has more been paid than the dearest price for all that is filled.
LEMMA CostBounds ==
  ASSUME NEW levels \in Side, NEW qty \in Nat, NEW g, NEW c, Running(g, c, levels, qty),
         NEW top \in Nat, \A i \in 1..Reach(levels) : levels[i].price <= top
  PROVE  \A i \in 0..Reach(levels) : c[i] \in Nat /\ c[i] <= g[i] * top
<1> DEFINE m == Reach(levels)
           K == {i \in Nat : i <= m => c[i] \in Nat /\ c[i] <= g[i] * top}
<1>1. m \in Nat /\ \A i \in 1..m : levels[i].price \in Nat /\ levels[i].price <= top
  BY ReachFacts
<1>2. g[0] = 0 /\ c[0] = 0
  BY DEF Running
<1>3. \A i \in 0..m : g[i] \in Nat
  BY FillBounds
<1>4. ASSUME NEW i \in 1..m
      PROVE  \E taken \in Nat : g[i] = g[i - 1] + taken /\ c[i] = c[i - 1] + taken * levels[i].price
  BY FillBounds DEF Running
<1> HIDE DEF m
<1>5. 0 \in K
  BY <1>2
<1>6. ASSUME NEW n \in Nat, n \in K
      PROVE  n + 1 \in K
  <2> SUFFICES ASSUME n + 1 <= m PROVE c[n + 1] \in Nat /\ c[n + 1] <= g[n + 1] * top
    OBVIOUS
  <2>1. n + 1 \in 1..m /\ (n + 1) - 1 = n /\ c[n] \in Nat /\ c[n] <= g[n] * top /\ g[n] \in Nat
    BY <1>1, <1>3, <1>6
  <2>2. PICK taken \in Nat : g[n + 1] = g[n] + taken /\ c[n + 1] = c[n] + taken * levels[n + 1].price
    BY <1>4, <2>1
  <2>3. taken * levels[n + 1].price \in Nat /\ taken * levels[n + 1].price <= taken * top
    BY <1>1, <2>1, ProductBound, ProductSign
  <2>4. g[n + 1] * top = g[n] * top + taken * top
    BY <2>1, <2>2
  <2>5. g[n] * top \in Nat /\ taken * top \in Nat
    BY <2>1, ProductSign
  <2> QED
    BY <2>1, <2>2, <2>3, <2>4, <2>5
<1> HIDE DEF K
<1>7. \A n \in Nat : n \in K
  BY <1>5, <1>6, SetInduction
<1> QED
  BY <1>1, <1>7 DEF K, m

\* The quantities within reach are all positive; their sum can be filled.
LEMMA SumFacts ==
  ASSUME NEW levels \in Side
  PROVE  /\ SumQuantity(levels) \in Nat
         /\ levels # <<>> => SumQuantity(levels) > 0
         /\ \A qty \in Nat : \A g, c : Running(g, c, levels, qty) /\ qty <= SumQuantity(levels)
                                         => g[Reach(levels)] = qty
<1> DEFINE m == Reach(levels)
           v == [i \in 1..m |-> levels[i].quantity]
<1>1. m \in Nat /\ (levels # <<>> => m >= 1) /\ \A i \in 1..m : levels[i].quantity \in Nat \ {0}
  BY ReachFacts
<1>2. SumQuantity(levels) = Total(v)
  <2>1. DOMAIN TopLevels(levels) = 1..m
    BY ReachFacts
  <2>2. [i \in 1..m |-> IF levels[i].quantity > 0 THEN levels[i].quantity ELSE 0] = v
    BY <1>1
  <2> QED
    BY <2>1, <2>2 DEF SumQuantity
<1> HIDE DEF m
<1>3. v \in [1..m -> Int] /\ \A i \in 1..m : v[i] = levels[i].quantity
  BY <1>1
<1> HIDE DEF v
<1>4. PICK t \in [0..m -> Int] :
        t[0] = 0 /\ (\A i \in 1..m : t[i] = t[i - 1] + v[i]) /\ Total(v) = t[m]
  BY <1>1, <1>3, TotalFacts
<1> DEFINE K == {i \in Nat : i <= m => t[i] \in Nat /\ t[i] >= i}
<1>5. 0 \in K
  BY <1>4
<1>6. ASSUME NEW n \in Nat, n \in K
      PROVE  n + 1 \in K
  <2> SUFFICES ASSUME n + 1 <= m PROVE t[n + 1] \in Nat /\ t[n + 1] >= n + 1
    OBVIOUS
  <2>1. n + 1 \in 1..m /\ (n + 1) - 1 = n /\ t[n] \in Nat /\ t[n] >= n
    BY <1>1, <1>6
  <2>2. t[n + 1] = t[n] + v[n + 1] /\ v[n + 1] \in Nat \ {0}
    BY <1>1, <1>3, <1>4, <2>1
  <2> QED
    BY <2>1, <2>2
<1> HIDE DEF K
<1>7. \A n \in Nat : n \in K
  BY <1>5, <1>6, SetInduction
<1>8. \A i \in 0..m : t[i] \in Nat /\ t[i] >= i
  BY <1>1, <1>7 DEF K
<1>9. ASSUME NEW qty \in Nat, NEW g, NEW c, Running(g, c, levels, qty), qty <= Total(v)
      PROVE  g[m] = qty
  <2> DEFINE J == {i \in Nat : i <= m => g[i] = qty \/ g[i] = t[i]}
  <2>1. \A i \in 0..m : g[i] \in 0..qty
    BY <1>9, FillBounds DEF m
  <2>2. g[0] = 0 /\ \A i \in 1..m : g[i] = g[i - 1] + Less(v[i], qty - g[i - 1])
    BY <1>3, <1>9 DEF Running, m
  <2>3. 0 \in J
    BY <1>4, <2>2
  <2>4. ASSUME NEW n \in Nat, n \in J
        PROVE  n + 1 \in J
    <3> SUFFICES ASSUME n + 1 <= m PROVE g[n + 1] = qty \/ g[n + 1] = t[n + 1]
      OBVIOUS
    <3>1. n + 1 \in 1..m /\ (n + 1) - 1 = n /\ n \in 0..m /\ (g[n] = qty \/ g[n] = t[n])
      BY <1>1, <2>4
    <3>2. /\ g[n + 1] = g[n] + Less(v[n + 1], qty - g[n]) /\ t[n + 1] = t[n] + v[n + 1]
          /\ v[n + 1] \in Nat /\ g[n] \in 0..qty /\ t[n] \in Nat
      BY <1>1, <1>3, <1>4, <1>8, <2>1, <2>2, <3>1
    <3> QED
      BY <3>1, <3>2 DEF Less
  <2> HIDE DEF J
  <2>5. \A n \in Nat : n \in J
    BY <2>3, <2>4, SetInduction
  <2>6. g[m] = qty \/ g[m] = t[m]
    BY <1>1, <2>5 DEF J
  <2> QED
    BY <1>1, <1>4, <1>9, <2>1, <2>6
<1>10. Total(v) \in Nat /\ (levels # <<>> => Total(v) > 0)
  BY <1>1, <1>4, <1>8
<1> QED
  BY <1>2, <1>9, <1>10 DEF m

\* Some price bounds all the prices within reach.
LEMMA DearestPrice ==
  ASSUME NEW levels \in Side
  PROVE  \E top \in Nat : \A i \in 1..Reach(levels) : levels[i].price <= top
<1> DEFINE m == Reach(levels)
           K == {n \in Nat : n <= m => \E top \in Nat : \A i \in 1..n : levels[i].price <= top}
<1>1. m \in Nat /\ \A i \in 1..m : levels[i].price \in Nat
  BY ReachFacts
<1> HIDE DEF m
<1>2. 0 \in K
  <2>1. \A i \in 1..0 : levels[i].price <= 0
    OBVIOUS
  <2> QED
    BY <2>1
<1>3. ASSUME NEW n \in Nat, n \in K
      PROVE  n + 1 \in K
  <2> SUFFICES ASSUME n + 1 <= m
               PROVE  \E top \in Nat : \A i \in 1..(n + 1) : levels[i].price <= top
    OBVIOUS
  <2>1. PICK top \in Nat : \A i \in 1..n : levels[i].price <= top
    BY <1>1, <1>3
  <2>2. levels[n + 1].price \in Nat
    BY <1>1
  <2> DEFINE higher == top + levels[n + 1].price
  <2>3. higher \in Nat /\ top <= higher /\ levels[n + 1].price <= higher
    BY <2>2
  <2> HIDE DEF higher
  <2>4. ASSUME NEW i \in 1..(n + 1)
        PROVE  levels[i].price <= higher
    <3>1. CASE i = n + 1
      BY <2>3, <3>1
    <3>2. CASE i \in 1..n
      <4>1. levels[i].price <= top /\ levels[i].price \in Nat
        BY <1>1, <2>1, <3>2
      <4> QED
        BY <2>3, <4>1
    <3> QED
      BY <3>1, <3>2
  <2> QED
    BY <2>3, <2>4
<1> HIDE DEF K
<1>4. \A n \in Nat : n \in K
  BY <1>2, <1>3, SetInduction
<1> QED
  BY <1>1, <1>4 DEF K, m

LEMMA LegFacts ==
  ASSUME NEW levels \in Side, NEW qty \in Nat
  PROVE  /\ LegCost(levels, qty) \in Nat
         /\ \A top \in Nat : (\A i \in 1..Reach(levels) : levels[i].price <= top)
              => LegCost(levels, qty) <= qty * top
         /\ qty > 0 /\ qty <= SumQuantity(levels) => Filled(levels, qty)
<1> DEFINE m == Reach(levels)
<1>1. PICK g, c : Running(g, c, levels, qty) /\ FillFor(levels, qty) = [cost |-> c[m], filled |-> g[m]]
  BY FillFacts
<1>2. m \in Nat /\ m \in 0..m
  BY ReachFacts
<1>3. LegCost(levels, qty) = c[m] /\ FillFor(levels, qty).filled = g[m] /\ g[m] \in 0..qty
  BY <1>1, <1>2, FillBounds DEF LegCost
<1>4. ASSUME NEW top \in Nat, \A i \in 1..m : levels[i].price <= top
      PROVE  c[m] \in Nat /\ c[m] <= qty * top
  <2>1. c[m] \in Nat /\ c[m] <= g[m] * top
    BY <1>1, <1>2, <1>4, CostBounds
  <2>2. g[m] * top <= qty * top
    <3>1. top * g[m] <= top * qty
      BY <1>3, ProductBound
    <3> QED
      BY <1>3, <3>1
  <2>3. g[m] * top \in Int /\ qty * top \in Int
    BY <1>3
  <2> QED
    BY <2>1, <2>2, <2>3
<1>5. c[m] \in Nat
  <2>1. PICK top \in Nat : \A i \in 1..m : levels[i].price <= top
    BY DearestPrice
  <2> QED
    BY <1>4, <2>1
<1>6. qty > 0 /\ qty <= SumQuantity(levels) => Filled(levels, qty)
  BY <1>1, <1>3, SumFacts DEF Filled
<1> QED
  BY <1>3, <1>4, <1>5, <1>6

-----------------------------------------------------------------------------
(* What the parser keeps.                                                  *)

RawLevel == [price : Int, quantity : Nat]

Positive(l) == l.price > 0 /\ l.quantity > 0

\* The levels of `s` are levels number f[1] < f[2] < ... <= n of `raw`.
DrawnFrom(s, raw, n, f) ==
  /\ f \in [1..Len(s) -> 1..n]
  /\ \A i \in 1..Len(s) : s[i] = raw[f[i]] /\ Positive(raw[f[i]])
  /\ \A i, j \in 1..Len(s) : i < j => f[i] < f[j]

LEMMA DrawnNone ==
  ASSUME NEW raw
  PROVE  \E f : DrawnFrom(<<>>, raw, 0, f)
<1> DEFINE f == [i \in 1..0 |-> 0]
<1>1. Len(<<>>) = 0
  BY EmptySeq
<1>2. f \in [1..0 -> 1..0]
  OBVIOUS
<1> HIDE DEF f
<1>3. DrawnFrom(<<>>, raw, 0, f)
  BY <1>1, <1>2 DEF DrawnFrom
<1> QED
  BY <1>3

LEMMA DrawnOne ==
  ASSUME NEW raw \in Seq(RawLevel), NEW n \in Nat, n + 1 \in 1..Len(raw),
         NEW s \in Seq(RawLevel), NEW f, DrawnFrom(s, raw, n, f)
  PROVE  /\ DrawnFrom(s, raw, n + 1, f)
         /\ Positive(raw[n + 1])
              => /\ Append(s, raw[n + 1]) \in Seq(RawLevel)
                 /\ \E g : DrawnFrom(Append(s, raw[n + 1]), raw, n + 1, g)
<1>1. Len(s) \in Nat /\ Len(raw) \in Nat /\ raw[n + 1] \in RawLevel
  BY LenProperties, ElementOfSeq
<1>2. DrawnFrom(s, raw, n + 1, f)
  <2>1. f \in [1..Len(s) -> 1..(n + 1)]
    BY <1>1 DEF DrawnFrom
  <2> QED
    BY <2>1 DEF DrawnFrom
<1>3. ASSUME Positive(raw[n + 1])
      PROVE  /\ Append(s, raw[n + 1]) \in Seq(RawLevel)
             /\ \E g : DrawnFrom(Append(s, raw[n + 1]), raw, n + 1, g)
  <2> DEFINE t == Append(s, raw[n + 1])
             k == Len(s)
             g == [i \in 1..(k + 1) |-> IF i = k + 1 THEN n + 1 ELSE f[i]]
  <2>1. t \in Seq(RawLevel) /\ Len(t) = k + 1 /\ t[k + 1] = raw[n + 1]
        /\ \A i \in 1..k : t[i] = s[i]
    BY <1>1, AppendProperties
  <2> HIDE DEF t
  <2>2. k \in Nat /\ f \in [1..k -> 1..n] /\ \A i \in 1..k : s[i] = raw[f[i]] /\ Positive(raw[f[i]])
    BY <1>1 DEF DrawnFrom
  <2>3. \A i, j \in 1..k : i < j => f[i] < f[j]
    BY DEF DrawnFrom
  <2> HIDE DEF k
  <2>4. g \in [1..(k + 1) -> 1..(n + 1)] /\ g[k + 1] = n + 1 /\ \A i \in 1..k : g[i] = f[i]
    BY <2>2
  <2> HIDE DEF g
  <2>5. ASSUME NEW i \in 1..(k + 1)
        PROVE  t[i] = raw[g[i]] /\ Positive(raw[g[i]])
    <3>1. CASE i = k + 1
      BY <1>3, <2>1, <2>4, <3>1
    <3>2. CASE i \in 1..k
      BY <2>1, <2>2, <2>4, <3>2
    <3> QED
      BY <2>2, <3>1, <3>2
  <2>6. ASSUME NEW i \in 1..(k + 1), NEW j \in 1..(k + 1), i < j
        PROVE  g[i] < g[j]
    <3>1. i \in 1..k /\ f[i] \in 1..n /\ g[i] = f[i]
      BY <2>2, <2>4, <2>6
    <3>2. CASE j = k + 1
      BY <2>4, <3>1, <3>2
    <3>3. CASE j \in 1..k
      BY <2>3, <2>4, <2>6, <3>1, <3>3
    <3> QED
      BY <2>2, <3>2, <3>3
  <2>7. DrawnFrom(t, raw, n + 1, g)
    BY <2>1, <2>4, <2>5, <2>6 DEF DrawnFrom
  <2> QED
    BY <2>1, <2>7 DEF t
<1> QED
  BY <1>2, <1>3

LEMMA ParseFacts ==
  ASSUME NEW raw \in Seq(RawLevel)
  PROVE  ParseLevels(raw) \in Side /\ \E f : DrawnFrom(ParseLevels(raw), raw, Len(raw), f)
<1> DEFINE m == Len(raw)
           S == Seq(RawLevel)
           Keep(s, i) == IF raw[i].price > 0 /\ raw[i].quantity > 0 THEN Append(s, raw[i]) ELSE s
           G == [p \in S \X (1..m) |-> Keep(p[1], p[2])]
           Rec(F) == F = [n \in 0..m |-> IF n = 0 THEN <<>> ELSE Keep(F[n - 1], n)]
           K == CHOOSE F : Rec(F)
           k == Min({Len(K[m]), LevelLimit})
<1>1. m \in Nat /\ \A i \in 1..m : raw[i] \in RawLevel
  BY LenProperties, ElementOfSeq
<1>2. ParseLevels(raw) = SubSeq(K[m], 1, k)
  BY DEF ParseLevels
<1>3. ASSUME NEW s \in S, NEW i \in 1..m
      PROVE  Keep(s, i) \in S
  <2>1. Append(s, raw[i]) \in S
    BY <1>1, AppendProperties
  <2> QED
    BY <2>1
<1>4. <<>> \in S
  BY EmptySeq
<1> HIDE DEF m, S, Keep
<1>5. IsStep(G, S, m) /\ \A s \in S : \A i \in 1..m : G[<<s, i>>] = Keep(s, i)
  BY <1>3 DEF IsStep
<1> HIDE DEF G
<1>6. PICK F : Runs(F, S, <<>>, m, G)
  BY <1>1, <1>4, <1>5, Recursion
<1>7. Rec(F)
  <2>1. ASSUME NEW i \in 1..m
        PROVE  F[i] = Keep(F[i - 1], i)
    <3>1. F[i - 1] \in S
      BY <1>1, <1>6 DEF Runs
    <3> QED
      BY <1>5, <1>6, <3>1 DEF Runs
  <2> QED
    BY <1>1, <1>6, <2>1 DEF Runs
<1>8. Rec(K)
  BY <1>7
<1> HIDE DEF K
<1>9. K[0] = <<>> /\ \A i \in 1..m : K[i] = Keep(K[i - 1], i)
  BY <1>1, <1>8
<1> DEFINE Good(n) == K[n] \in S /\ \E f : DrawnFrom(K[n], raw, n, f)
           I == {n \in Nat : n <= m => Good(n)}
<1>10. 0 \in I
  BY <1>4, <1>9, DrawnNone
<1>11. ASSUME NEW n \in Nat, n \in I
       PROVE  n + 1 \in I
  <2> SUFFICES ASSUME n + 1 <= m PROVE Good(n + 1)
    OBVIOUS
  <2>1. n + 1 \in 1..m /\ (n + 1) - 1 = n /\ Good(n)
    BY <1>1, <1>11
  <2>2. PICK f : DrawnFrom(K[n], raw, n, f)
    BY <2>1
  <2>3. K[n + 1] = Keep(K[n], n + 1)
    BY <1>9, <2>1
  <2>4. /\ DrawnFrom(K[n], raw, n + 1, f)
        /\ Positive(raw[n + 1])
             => /\ Append(K[n], raw[n + 1]) \in S
                /\ \E g : DrawnFrom(Append(K[n], raw[n + 1]), raw, n + 1, g)
    BY <2>1, <2>2, DrawnOne DEF m, S
  <2>5. CASE Positive(raw[n + 1])
    BY <2>3, <2>4, <2>5 DEF Keep, Positive
  <2>6. CASE ~Positive(raw[n + 1])
    BY <2>1, <2>3, <2>4, <2>6 DEF Keep, Positive
  <2> QED
    BY <2>5, <2>6
<1> HIDE DEF I
<1>12. \A n \in Nat : n \in I
  BY <1>10, <1>11, SetInduction
<1>13. Good(m)
  BY <1>1, <1>12 DEF I
<1>14. PICK f : DrawnFrom(K[m], raw, m, f)
  BY <1>13
<1> DEFINE s == K[m]
<1>15. s \in Seq(RawLevel) /\ Len(s) \in Nat
  BY <1>13, LenProperties DEF S
<1> HIDE DEF s
<1>16. k \in Nat /\ k <= Len(s)
  <2>1. k = IF Len(s) <= LevelLimit THEN Len(s) ELSE LevelLimit
    BY <1>15, MinOfTwo DEF LevelLimit, s
  <2> HIDE DEF k
  <2> QED
    BY <1>15, <2>1 DEF LevelLimit
<1> HIDE DEF k
<1>17. /\ SubSeq(s, 1, k) \in Seq(RawLevel) /\ Len(SubSeq(s, 1, k)) = k
       /\ \A i \in 1..k : SubSeq(s, 1, k)[i] = s[i]
  <2>1. \A i \in 1..k : s[i] \in RawLevel
    BY <1>15, <1>16, ElementOfSeq
  <2>2. k \in Int /\ 1 \in Int /\ k - 1 + 1 = k
    BY <1>16
  <2>3. /\ SubSeq(s, 1, k) \in Seq(RawLevel)
        /\ Len(SubSeq(s, 1, k)) = IF 1 <= k THEN k - 1 + 1 ELSE 0
        /\ \A i \in 1..(k - 1 + 1) : SubSeq(s, 1, k)[i] = s[1 + i - 1]
    BY <2>1, <2>2, SubSeqProperties
  <2>4. \A i \in 1..k : 1 + i - 1 = i
    BY <1>16
  <2> QED
    BY <1>16, <2>2, <2>3, <2>4
<1> DEFINE p == SubSeq(s, 1, k)
           g == [i \in 1..k |-> f[i]]
<1>18. DrawnFrom(p, raw, m, g)
  <2>1. f \in [1..Len(s) -> 1..m] /\ \A i \in 1..Len(s) : s[i] = raw[f[i]] /\ Positive(raw[f[i]])
    BY <1>14 DEF DrawnFrom, s
  <2>2. \A i, j \in 1..Len(s) : i < j => f[i] < f[j]
    BY <1>14 DEF DrawnFrom, s
  <2>3. Len(p) = k /\ \A i \in 1..k : p[i] = s[i] /\ i \in 1..Len(s)
    BY <1>15, <1>16, <1>17
  <2> HIDE DEF p
  <2>4. g \in [1..k -> 1..m] /\ \A i \in 1..k : g[i] = f[i]
    BY <2>1, <2>3
  <2> HIDE DEF g
  <2> QED
    BY <2>1, <2>2, <2>3, <2>4 DEF DrawnFrom
<1>19. p \in Side
  <2>1. p \in Seq(RawLevel) /\ Len(p) \in Nat /\ Len(p) = k
    BY <1>16, <1>17
  <2> HIDE DEF p
  <2>2. ASSUME NEW i \in 1..k
        PROVE  p[i] \in Level /\ p[i].price > 0 /\ p[i].quantity > 0
    <3>1. p[i] \in RawLevel
      BY <2>1, ElementOfSeq
    <3>2. Positive(p[i])
      BY <1>18, <2>1 DEF DrawnFrom
    <3> QED
      BY <3>1, <3>2 DEF RawLevel, Level, Positive
  <2>3. p \in [1..k -> Level]
    <3>1. p = [i \in 1..k |-> p[i]]
      BY <2>1, LenProperties
    <3> QED
      BY <2>2, <3>1
  <2>4. p \in Seq(Level) /\ DOMAIN p = 1..k
    BY <1>16, <2>3, FunctionIsSeq
  <2> QED
    BY <2>2, <2>4 DEF Side
<1> HIDE DEF g, p
<1>20. ParseLevels(raw) = p
  BY <1>2 DEF p, s
<1> QED
  BY <1>18, <1>19, <1>20 DEF m

-----------------------------------------------------------------------------
(* The quantity of a trade.                                                *)

LEMMA MaxOfTwo ==
  ASSUME NEW a \in Int, NEW b \in Int
  PROVE  Max({a, b}) = IF a >= b THEN a ELSE b
BY DEF Max

LEMMA MinPositiveFacts ==
  ASSUME NEW a \in Nat \ {0}, NEW b \in Nat \ {0}, NEW c \in Int
  PROVE  LET v == MinPositive({a, b, c})
         IN  v \in Nat \ {0} /\ v <= a /\ v <= b /\ (c > 0 => v <= c)
<1> DEFINE positive == {v \in {a, b, c} : v > 0}
<1>1. a \in positive /\ b \in positive /\ (c > 0 => c \in positive)
  OBVIOUS
<1>2. \A x \in positive : x \in Nat \ {0}
  OBVIOUS
<1>3. \E x \in positive : \A y \in positive : x <= y
  OBVIOUS
<1>4. MinPositive({a, b, c}) = Min(positive)
  BY <1>1 DEF MinPositive
<1> HIDE DEF positive
<1>5. Min(positive) \in positive /\ \A y \in positive : Min(positive) <= y
  BY <1>3 DEF Min
<1> QED
  BY <1>1, <1>2, <1>4, <1>5

LEMMA WholeLots ==
  ASSUME NEW usd \in Nat, NEW price \in Nat \ {0}, price <= usd
  PROVE  usd \div price \in Nat \ {0} /\ price * (usd \div price) <= usd
OBVIOUS

LEMMA TargetFacts ==
  ASSUME NEW long, NEW short,
         long.asks \in Side, long.asks # <<>>, short.bids \in Side, short.bids # <<>>
  PROVE  LET qty == TargetQty(long, short)
             ask == long.asks[1].price
             bid == short.bids[1].price
         IN  /\ qty \in Nat \ {0} /\ ask \in Nat \ {0} /\ bid \in Nat \ {0}
             /\ qty <= SumQuantity(long.asks) /\ qty <= SumQuantity(short.bids)
             /\ ask <= MaxTradeUSD /\ bid <= MaxTradeUSD => qty * bid <= MaxTradeUSD
<1> DEFINE qty == TargetQty(long, short)
           ask == long.asks[1].price
           bid == short.bids[1].price
           top == Max({ask, bid})
           a == SumQuantity(long.asks)
           b == SumQuantity(short.bids)
           c == MaxQtyByNotional(long, short)
<1>1. ask \in Nat \ {0} /\ bid \in Nat \ {0}
  BY ReachFacts
<1>2. a \in Nat \ {0} /\ b \in Nat \ {0}
  BY SumFacts
<1>3. c = MaxTradeUSD \div top
  BY DEF MaxQtyByNotional
<1>4. qty = MinPositive({a, b, c})
  BY DEF TargetQty
<1>5. MaxTradeUSD \in Int
  BY EstimatorAssumption DEF EstimatorAssumption
<1> HIDE DEF a, b, c, qty, ask, bid
<1>6. top = IF ask >= bid THEN ask ELSE bid
  BY <1>1, MaxOfTwo
<1> HIDE DEF top
<1>7. top \in Nat \ {0} /\ bid <= top /\ (ask <= MaxTradeUSD /\ bid <= MaxTradeUSD => top <= MaxTradeUSD)
  BY <1>1, <1>5, <1>6
<1>8. c \in Int
  BY <1>3, <1>5, <1>7
<1>9. qty \in Nat \ {0} /\ qty <= a /\ qty <= b /\ (c > 0 => qty <= c)
  BY <1>2, <1>4, <1>8, MinPositiveFacts
<1>10. ASSUME ask <= MaxTradeUSD, bid <= MaxTradeUSD
       PROVE  qty * bid <= MaxTradeUSD
  <2>1. c \in Nat \ {0} /\ top * c <= MaxTradeUSD
    BY <1>3, <1>5, <1>7, <1>10, WholeLots
  <2>2. qty * bid <= qty * top
    BY <1>1, <1>7, <1>9, ProductBound
  <2>3. top * qty <= top * c
    BY <1>7, <1>9, <2>1, ProductBound
  <2>4. qty * top = top * qty /\ qty * top \in Int /\ top * c \in Int /\ qty * bid \in Int
    BY <1>1, <1>7, <1>9, <2>1
  <2> QED
    BY <1>5, <2>1, <2>2, <2>3, <2>4
<1> QED
  BY <1>1, <1>9, <1>10 DEF a, b, qty, ask, bid

-----------------------------------------------------------------------------
(* The books, and what holds of every pair of them.                        *)

Ascending(s) == \A i, j \in 1..Len(s) : i < j => s[i].price <= s[j].price

Descending(s) == \A i, j \in 1..Len(s) : i < j => s[i].price >= s[j].price

\* The inductive invariant: both sides are sorted, best price first.
BooksInv ==
  /\ asks \in Seq(Levels) /\ Ascending(asks)
  /\ bids \in Seq(Levels) /\ Descending(bids)

LEMMA LevelTypes == \A l \in Levels : l.price \in Nat /\ l.quantity \in Nat /\ l \in RawLevel
<1> SUFFICES ASSUME NEW l \in Levels PROVE l.price \in Nat /\ l.quantity \in Nat /\ l \in RawLevel
  OBVIOUS
<1>1. l = [price |-> l.price, quantity |-> l.quantity] /\ l.price \in Prices /\ l.quantity \in Quantities
  BY DEF Levels
<1>2. l.price \in Nat /\ l.quantity \in Nat
  BY <1>1, BooksAssumption DEF BooksAssumption
<1> QED
  BY <1>1, <1>2 DEF RawLevel

LEMMA SortedAppend ==
  ASSUME NEW s \in Seq(Levels), NEW l \in Levels
  PROVE  /\ Append(s, l) \in Seq(Levels)
         /\ Ascending(s) /\ (s # <<>> => Last(s).price <= l.price) => Ascending(Append(s, l))
         /\ Descending(s) /\ (s # <<>> => Last(s).price >= l.price) => Descending(Append(s, l))
<1> DEFINE t == Append(s, l)
           k == Len(s)
<1>1. k \in Nat /\ t \in Seq(Levels) /\ Len(t) = k + 1 /\ t[k + 1] = l /\ \A i \in 1..k : t[i] = s[i]
  BY AppendProperties, LenProperties
<1>2. (\A i \in 1..k : s[i].price \in Int) /\ l.price \in Int
  BY ElementOfSeq, LevelTypes
<1>3. s # <<>> => k >= 1 /\ Last(s) = s[k]
  BY <1>1, EmptySeq DEF Last
<1>4. s = <<>> => k = 0
  BY EmptySeq
<1> HIDE DEF t, k
<1>5. ASSUME NEW i \in 1..(k + 1), NEW j \in 1..(k + 1), i < j
      PROVE  /\ i \in 1..k /\ t[i] = s[i] /\ s # <<>>
             /\ j = k + 1 \/ (j \in 1..k /\ t[j] = s[j])
  BY <1>1, <1>4, <1>5
<1>6. ASSUME Ascending(s), s # <<>> => Last(s).price <= l.price,
             NEW i \in 1..(k + 1), NEW j \in 1..(k + 1), i < j
      PROVE  t[i].price <= t[j].price
  <2>1. i \in 1..k /\ t[i] = s[i] /\ s[k].price <= l.price /\ k \in 1..k
    BY <1>1, <1>3, <1>5, <1>6
  <2>2. s[i].price <= s[k].price
    BY <1>2, <1>6, <2>1 DEF Ascending, k
  <2>3. CASE j = k + 1
    BY <1>1, <1>2, <2>1, <2>2, <2>3
  <2>4. CASE j \in 1..k
    BY <1>1, <1>6, <2>1, <2>4 DEF Ascending, k
  <2> QED
    BY <1>5, <1>6, <2>3, <2>4
<1>7. ASSUME Descending(s), s # <<>> => Last(s).price >= l.price,
             NEW i \in 1..(k + 1), NEW j \in 1..(k + 1), i < j
      PROVE  t[i].price >= t[j].price
  <2>1. i \in 1..k /\ t[i] = s[i] /\ s[k].price >= l.price /\ k \in 1..k
    BY <1>1, <1>3, <1>5, <1>7
  <2>2. s[i].price >= s[k].price
    BY <1>2, <1>7, <2>1 DEF Descending, k
  <2>3. CASE j = k + 1
    BY <1>1, <1>2, <2>1, <2>2, <2>3
  <2>4. CASE j \in 1..k
    BY <1>1, <1>7, <2>1, <2>4 DEF Descending, k
  <2> QED
    BY <1>5, <1>7, <2>3, <2>4
<1>8. Ascending(s) /\ (s # <<>> => Last(s).price <= l.price) => Ascending(t)
  BY <1>1, <1>6 DEF Ascending
<1>9. Descending(s) /\ (s # <<>> => Last(s).price >= l.price) => Descending(t)
  BY <1>1, <1>7 DEF Descending
<1> QED
  BY <1>1, <1>8, <1>9 DEF t

\* Both sides are always sorted, best price first.
LEMMA BooksAreSorted == Spec => []BooksInv
<1>1. Init => BooksInv
  <2> SUFFICES ASSUME Init PROVE BooksInv
    OBVIOUS
  <2>1. <<>> \in Seq(Levels) /\ Len(<<>>) = 0
    BY EmptySeq
  <2> QED
    BY <2>1 DEF Init, BooksInv, Ascending, Descending
<1>2. BooksInv /\ [Next]_vars => BooksInv'
  <2> SUFFICES ASSUME BooksInv, [Next]_vars PROVE BooksInv'
    OBVIOUS
  <2>1. ASSUME NEW l \in Levels, AddAsk(l)
        PROVE  BooksInv'
    BY <2>1, SortedAppend DEF AddAsk, BooksInv, Ascending, Descending
  <2>2. ASSUME NEW l \in Levels, AddBid(l)
        PROVE  BooksInv'
    BY <2>2, SortedAppend DEF AddBid, BooksInv, Ascending, Descending
  <2>3. CASE UNCHANGED vars
    BY <2>3 DEF vars, BooksInv, Ascending, Descending
  <2> QED
    BY <2>1, <2>2, <2>3 DEF Next
<1> QED
  BY <1>1, <1>2, PTL DEF Spec

LEMMA ParsedFacts ==
  ASSUME NEW raw \in Seq(Levels)
  PROVE  /\ ParseLevels(raw) \in Side
         /\ \A i \in 1..Len(ParseLevels(raw)) : ParseLevels(raw)[i].price \in Prices
         /\ Ascending(raw) => Ascending(ParseLevels(raw))
         /\ Descending(raw) => Descending(ParseLevels(raw))
<1>1. /\ Len(raw) \in Nat /\ raw \in Seq(RawLevel)
      /\ \A i \in 1..Len(raw) : raw[i].price \in Prices /\ raw[i] \in RawLevel
  <2>1. Len(raw) \in Nat /\ raw = [i \in 1..Len(raw) |-> raw[i]]
    BY LenProperties
  <2>2. \A i \in 1..Len(raw) : raw[i] \in Levels
    BY ElementOfSeq
  <2>3. \A i \in 1..Len(raw) : raw[i] \in RawLevel
    BY <2>2, LevelTypes
  <2>4. raw \in [1..Len(raw) -> RawLevel]
    BY <2>1, <2>3
  <2>5. \A i \in 1..Len(raw) : raw[i].price \in Prices
    BY <2>2 DEF Levels
  <2> QED
    BY <2>1, <2>3, <2>4, <2>5, FunctionIsSeq
<1> DEFINE s == ParseLevels(raw)
<1>2. s \in Side
  BY <1>1, ParseFacts
<1>3. PICK f : DrawnFrom(s, raw, Len(raw), f)
  BY <1>1, ParseFacts
<1> HIDE DEF s
<1>4. \A i \in 1..Len(s) : f[i] \in 1..Len(raw) /\ s[i] = raw[f[i]]
  BY <1>3 DEF DrawnFrom
<1>5. \A i, j \in 1..Len(s) : i < j => f[i] < f[j]
  BY <1>3 DEF DrawnFrom
<1>6. Ascending(raw) => Ascending(s)
  BY <1>4, <1>5 DEF Ascending
<1>7. Descending(raw) => Descending(s)
  BY <1>4, <1>5 DEF Descending
<1>8. \A i \in 1..Len(s) : s[i].price \in Prices
  BY <1>1, <1>4
<1> QED
  BY <1>2, <1>6, <1>7, <1>8 DEF s

\* The quantity sized from two usable books can be filled on both of them,
\* whatever the books, the limits and the depth looked at: the two depth
\* rejections of EstimateFunding are dead code.
THEOREM SizedWithinDepth == Spec => []DepthSuffices
<1>1. BooksInv => DepthSuffices
  <2> SUFFICES ASSUME BooksInv, Usable(LongBook, ShortBook)
               PROVE  LET qty == TargetQty(LongBook, ShortBook)
                      IN  qty > 0 /\ Filled(LongBook.asks, qty) /\ Filled(ShortBook.bids, qty)
    BY DEF DepthSuffices
  <2> DEFINE qty == TargetQty(LongBook, ShortBook)
  <2>1. LongBook.asks \in Side /\ ShortBook.bids \in Side
    BY ParsedFacts DEF BooksInv, LongBook, ShortBook, LongQuote, ShortQuote, ParseSnapshot
  <2>2. LongBook.asks # <<>> /\ ShortBook.bids # <<>>
    BY DEF Usable
  <2>3. qty \in Nat \ {0} /\ qty <= SumQuantity(LongBook.asks) /\ qty <= SumQuantity(ShortBook.bids)
    BY <2>1, <2>2, TargetFacts
  <2> HIDE DEF qty
  <2>4. Filled(LongBook.asks, qty) /\ Filled(ShortBook.bids, qty)
    BY <2>1, <2>3, LegFacts
  <2> QED
    BY <2>3, <2>4 DEF qty
<1> QED
  BY <1>1, BooksAreSorted, PTL

\* One lot is within the limit at every price.  The code sizes in fractions of a
\* coin; the model's smallest quantity is a lot, and no limit can be kept by a
\* trade of one lot that costs more than it.
LotsAffordable == \A p \in Prices : p <= MaxTradeUSD

\* No leg of an approved trade costs more than MaxTradeUSD, on books of any depth
\* and slope: the sizing divides by the dearer of the two best prices, and bids
\* only get cheaper from there.
THEOREM LegsAreWithinLimit ==
  ASSUME LotsAffordable
  PROVE  Spec => []LegsWithinLimit
<1>1. BooksInv => LegsWithinLimit
  <2> SUFFICES ASSUME BooksInv, Approved(LongBook, ShortBook)
               PROVE  LET o == Detected(LongBook, ShortBook)
                      IN  o.longCost <= MaxTradeUSD /\ o.shortCost <= MaxTradeUSD
    BY DEF LegsWithinLimit
  <2> DEFINE o == Detected(LongBook, ShortBook)
             qty == TargetQty(LongBook, ShortBook)
             a == LongBook.asks
             b == ShortBook.bids
  <2>1. /\ a \in Side /\ b \in Side /\ Descending(b)
        /\ \A i \in 1..Len(a) : a[i].price \in Prices
        /\ \A i \in 1..Len(b) : b[i].price \in Prices
    BY ParsedFacts DEF BooksInv, LongBook, ShortBook, LongQuote, ShortQuote, ParseSnapshot
  <2>2. a # <<>> /\ b # <<>>
    BY DEF Approved, Accepted, Usable
  <2>3. o.longCost = LegCost(a, qty) /\ o.shortCost = LegCost(b, qty)
    BY DEF Detected, Opportunity
  <2>4. MaxTradeUSD > 0 => o.longCost <= MaxTradeUSD
    BY DEF Approved, RiskApproves, WithinTradeLimit
  <2>5. /\ qty \in Nat \ {0} /\ a[1].price \in Nat \ {0} /\ b[1].price \in Nat \ {0}
        /\ a[1].price <= MaxTradeUSD /\ b[1].price <= MaxTradeUSD => qty * b[1].price <= MaxTradeUSD
    BY <2>1, <2>2, TargetFacts
  <2> HIDE DEF o, qty, a, b
  <2>6. MaxTradeUSD \in Int
    BY EstimatorAssumption DEF EstimatorAssumption
  <2>7. /\ Reach(a) >= 1 /\ Reach(a) <= Len(a) /\ Reach(b) >= 1 /\ Reach(b) <= Len(b)
        /\ Reach(a) \in Nat /\ Reach(b) \in Nat /\ Len(a) \in Nat /\ Len(b) \in Nat
        /\ \A i \in 1..Reach(b) : b[i].price \in Nat
    BY <2>1, <2>2, ReachFacts
  <2>8. a[1].price <= MaxTradeUSD /\ b[1].price <= MaxTradeUSD
    BY <2>1, <2>7 DEF LotsAffordable
  <2>9. o.longCost <= MaxTradeUSD
    BY <2>4, <2>5, <2>6, <2>8
  <2>10. LegCost(b, qty) \in Nat /\ LegCost(b, qty) <= qty * b[1].price
    <3>1. ASSUME NEW i \in 1..Reach(b)
          PROVE  b[i].price <= b[1].price
      <4>1. i \in 1..Len(b) /\ 1 \in 1..Len(b) /\ b[i].price \in Nat
        BY <2>7
      <4>2. CASE i = 1
        BY <4>1, <4>2
      <4>3. CASE 1 < i
        BY <2>1, <4>1, <4>3 DEF Descending
      <4> QED
        BY <4>2, <4>3
    <3> QED
      BY <2>1, <2>5, <3>1, LegFacts
  <2>11. o.shortCost <= MaxTradeUSD
    <3>1. qty * b[1].price \in Int
      BY <2>5
    <3> QED
      BY <2>3, <2>5, <2>6, <2>8, <2>10, <3>1
  <2> QED
    BY <2>9, <2>11 DEF o
<1> QED
  BY <1>1, BooksAreSorted, PTL

-----------------------------------------------------------------------------
(* One direction per pair of books.                                        *)

\* What is left of the carry after the costs is not more than the carry.
CarryMustPay ==
  \/ MinExpectedCarryUSD > 0
  \/ BasisRiskPct >= 0 /\ \A x \in DOMAIN Fees : Fees[x] >= 0

LEMMA MarkFacts ==
  ASSUME NEW book, book.asks \in Side, book.asks # <<>>, book.bids \in Side, book.bids # <<>>
  PROVE  MarkPrice(book) \in Nat
<1>1. book.asks[1].price \in Nat /\ book.bids[1].price \in Nat
  BY ReachFacts
<1> QED
  BY <1>1 DEF MarkPrice, Midpoint, FirstPrice

LEMMA FeeFacts ==
  ASSUME \A x \in DOMAIN Fees : Fees[x] >= 0, NEW x
  PROVE  TakerFeePct(x) \in Nat
BY EstimatorAssumption, MarketAssumption DEF EstimatorAssumption, MarketAssumption, TakerFeePct

LEMMA AcceptedFacts ==
  ASSUME CarryMustPay, NEW long, NEW short, Accepted(long, short),
         long.asks \in Side, long.bids \in Side, long.bids # <<>>, short.bids \in Side,
         NEW rate \in Int,
         rate = SyntheticSnapshot(short).predicted - SyntheticSnapshot(long).predicted
  PROVE  \E lots \in Nat : lots * rate > 0
<1> DEFINE qty == TargetQty(long, short)
           mark == MarkPrice(long)
           o == Detected(long, short)
           notional == Max({o.longCost, o.shortCost})
           entry == o.longCost * TakerFeePct(long.exchange) + o.shortCost * TakerFeePct(short.exchange)
<1>1. long.asks # <<>> /\ short.bids # <<>>
  BY DEF Accepted, Usable
<1>2. qty \in Nat
  BY <1>1, TargetFacts
<1>3. mark \in Nat
  BY <1>1, MarkFacts
<1>4. o.carry = qty * mark * rate
  BY DEF Detected, Opportunity, ExpectedCarry, SyntheticSnapshot
<1>5. o.longCost \in Nat /\ o.shortCost \in Nat
  BY <1>1, <1>2, LegFacts DEF Detected, Opportunity
<1>6. o.net = o.carry - 2 * entry - notional * BasisRiskPct
  BY DEF Detected, Opportunity, NetProfit
<1>7. o.carry >= MinExpectedCarryUSD /\ o.net > 0
  BY DEF Accepted, Worthwhile
<1>8. MinExpectedCarryUSD \in Int /\ BasisRiskPct \in Int
  BY EstimatorAssumption DEF EstimatorAssumption
<1> HIDE DEF qty, mark, o
<1>9. o.carry \in Int /\ qty * mark \in Nat
  BY <1>2, <1>3, <1>4
<1>10. CASE MinExpectedCarryUSD > 0
  <2>1. o.carry > 0
    BY <1>7, <1>8, <1>9, <1>10
  <2> QED
    BY <1>4, <1>9, <2>1
<1>11. CASE BasisRiskPct >= 0 /\ \A x \in DOMAIN Fees : Fees[x] >= 0
  <2>1. notional \in Nat
    <3>1. notional = IF o.longCost >= o.shortCost THEN o.longCost ELSE o.shortCost
      BY <1>5, MaxOfTwo
    <3> HIDE DEF notional
    <3> QED
      BY <1>5, <3>1
  <2>2. notional * BasisRiskPct \in Nat
    BY <1>8, <1>11, <2>1, ProductSign
  <2>3. entry \in Nat
    <3>1. TakerFeePct(long.exchange) \in Nat /\ TakerFeePct(short.exchange) \in Nat
      BY <1>11, FeeFacts
    <3>2. /\ o.longCost * TakerFeePct(long.exchange) \in Nat
          /\ o.shortCost * TakerFeePct(short.exchange) \in Nat
      BY <1>5, <3>1, ProductSign
    <3> QED
      BY <3>2
  <2> HIDE DEF entry, notional
  <2>4. o.carry > 0
    BY <1>6, <1>7, <1>9, <2>2, <2>3
  <2> QED
    BY <1>4, <1>9, <2>4
<1> QED
  BY <1>10, <1>11 DEF CarryMustPay

\* The same two books are never worthwhile in both directions, wherever their
\* prices stand: the carry is a positive amount times the difference of two rates,
\* and that changes its sign with the direction.
THEOREM NotBothDirections ==
  ASSUME CarryMustPay
  PROVE  Spec => []OneDirection
<1>1. BooksInv => OneDirection
  <2> SUFFICES ASSUME BooksInv, Accepted(LongBook, ShortBook), Accepted(ShortBook, LongBook)
               PROVE  FALSE
    BY DEF OneDirection
  <2>1. LongBook.asks \in Side /\ ShortBook.bids \in Side
    BY ParsedFacts DEF BooksInv, LongBook, ShortBook, LongQuote, ShortQuote, ParseSnapshot
  <2>2. \A price \in Int : One(price) \in Seq(RawLevel)
    BY DEF One, RawLevel
  <2>3. <<>> \in Seq(RawLevel)
    BY EmptySeq
  <2>4. LongQuote.bids \in Seq(RawLevel) /\ ShortQuote.asks \in Seq(RawLevel)
    <3>1. \A s \in Seq(Levels) : s # <<>> => s[1].price \in Int
      <4> SUFFICES ASSUME NEW s \in Seq(Levels), s # <<>> PROVE s[1].price \in Int
        OBVIOUS
      <4>1. Len(s) \in Nat /\ Len(s) # 0
        BY LenProperties, EmptySeq
      <4>2. s[1] \in Levels
        BY <4>1, ElementOfSeq
      <4> QED
        BY <4>2, LevelTypes
    <3>2. asks # <<>> => asks[1].price - Spread \in Int
      BY <3>1, BooksAssumption DEF BooksInv, BooksAssumption
    <3>3. bids # <<>> => bids[1].price + Spread \in Int
      BY <3>1, BooksAssumption DEF BooksInv, BooksAssumption
    <3> QED
      BY <2>2, <2>3, <3>2, <3>3 DEF LongQuote, ShortQuote
  <2>5. LongBook.bids \in Side /\ ShortBook.asks \in Side
    BY <2>4, ParseFacts DEF LongBook, ShortBook, ParseSnapshot
  <2>6. LongBook.bids # <<>> /\ ShortBook.bids # <<>>
    BY DEF Accepted, Usable
  <2> DEFINE p == SyntheticSnapshot(LongBook).predicted
             q == SyntheticSnapshot(ShortBook).predicted
  <2>7. p \in Int /\ q \in Int
    <3>1. Symbol \in Symbols
      BY BooksAssumption DEF BooksAssumption, Symbol
    <3>2. SymbolBucket[Symbol] \in Int /\ DefaultRatePct \in Int
      BY <3>1, MarketAssumption DEF MarketAssumption
    <3>3. p = SyntheticRate("htx", Symbol) /\ q = SyntheticRate("bybit", Symbol)
      BY DEF SyntheticSnapshot, LongBook, ShortBook, ParseSnapshot
    <3>4. RateScale["htx"] = 80 /\ RateScale["bybit"] = 120
      BY DEF RateScale, ExchangeNames
    <3> QED
      BY <3>2, <3>3, <3>4 DEF SyntheticRate
  <2>8. \E lots \in Nat : lots * (q - p) > 0
    BY <2>1, <2>5, <2>6, <2>7, AcceptedFacts
  <2>9. \E lots \in Nat : lots * (p - q) > 0
    BY <2>1, <2>5, <2>6, <2>7, AcceptedFacts
  <2> HIDE DEF p, q
  <2>10. \A lots \in Nat : \A r \in Int : lots * r > 0 => r > 0
    OBVIOUS
  <2>11. q - p \in Int /\ p - q \in Int
    BY <2>7
  <2> QED
    BY <2>7, <2>8, <2>9, <2>10, <2>11
<1> QED
  BY <1>1, BooksAreSorted, PTL

-----------------------------------------------------------------------------
(* The best of all fills.                                                  *)

LEMMA ScaledBound ==
  ASSUME NEW a \in Nat, NEW x \in Int, NEW y \in Int, NEW u \in Int, y <= x, u <= y * a
  PROVE  u <= a * x
<1>1. a * y <= a * x
  BY ProductBound
<1>2. y * a = a * y /\ a * y \in Int /\ a * x \in Int
  OBVIOUS
<1> QED
  BY <1>1, <1>2

\* One level at price p: t taken by the one fill and x by the other.
BothTake(g0, g1, c0, c1, h0, h1, b0, b1, t, x, p) ==
  /\ {g0, g1, c0, c1, h0, h1, b0, b1, t, x, p} \subseteq Int
  /\ g1 = g0 + t /\ c1 = c0 + t * p
  /\ h1 = h0 + x /\ b1 = b0 + x * p

LEMMA LeadStep ==
  ASSUME NEW g0, NEW g1, NEW c0, NEW c1, NEW h0, NEW h1, NEW b0, NEW b1, NEW t, NEW x, NEW p,
         BothTake(g0, g1, c0, c1, h0, h1, b0, b1, t, x, p)
  PROVE  /\ c1 - b1 = (c0 - b0) + p * ((g1 - h1) - (g0 - h0))
         /\ b1 - c1 = (b0 - c0) + (0 - p) * ((g1 - h1) - (g0 - h0))
<1> USE DEF BothTake
<1>1. (g1 - h1) - (g0 - h0) = t - x
  OBVIOUS
<1>2. p * (t - x) = t * p - x * p /\ (0 - p) * (t - x) = x * p - t * p
      /\ t * p \in Int /\ x * p \in Int
  OBVIOUS
<1> QED
  BY <1>1, <1>2

\* d[i] is the lead of the greedy fill over another one after i levels, w[i] the
\* price of level i (negated for a seller) and e[i] the extra cost so far.  A lead
\* taken at cheap levels is given back at dearer ones.
LEMMA Exchange ==
  ASSUME NEW m \in Nat, NEW w \in [1..m -> Int], NEW d \in [0..m -> Nat], NEW e \in [0..m -> Int],
         \A i, j \in 1..m : i < j => w[i] <= w[j],
         d[0] = 0, d[m] = 0, e[0] = 0,
         \A i \in 1..m : e[i] = e[i - 1] + w[i] * (d[i] - d[i - 1])
  PROVE  e[m] <= 0
<1> DEFINE K == {n \in Nat : n <= m => IF n = 0 THEN e[n] <= 0 ELSE e[n] <= w[n] * d[n]}
<1>1. 0 \in K
  OBVIOUS
<1>2. ASSUME NEW n \in Nat, n \in K
      PROVE  n + 1 \in K
  <2> SUFFICES ASSUME n + 1 <= m PROVE e[n + 1] <= w[n + 1] * d[n + 1]
    OBVIOUS
  <2>1. n + 1 \in 1..m /\ (n + 1) - 1 = n /\ n \in 0..m /\ n + 1 \in 0..m
    OBVIOUS
  <2> DEFINE x == w[n + 1]
             a == d[n]
             b == d[n + 1]
  <2>2. x \in Int /\ a \in Nat /\ b \in Nat /\ e[n] \in Int /\ e[n + 1] = e[n] + x * (b - a)
    BY <2>1
  <2>3. n # 0 => w[n] \in Int /\ w[n] <= x /\ e[n] <= w[n] * a
    <3> SUFFICES ASSUME n # 0 PROVE w[n] \in Int /\ w[n] <= x /\ e[n] <= w[n] * a
      OBVIOUS
    <3>1. n \in 1..m /\ n < n + 1
      BY <2>1
    <3>2. w[n] <= w[n + 1]
      BY <2>1, <3>1
    <3> QED
      BY <1>2, <2>1, <3>1, <3>2
  <2>4. n = 0 => e[n] <= 0
    BY <1>2, <2>1
  <2> HIDE DEF x, a, b
  <2>5. e[n] <= a * x
    <3>1. CASE n = 0
      <4>1. a = 0
        BY <3>1 DEF a
      <4> QED
        BY <2>2, <2>4, <3>1, <4>1
    <3>2. CASE n # 0
      <4>1. w[n] \in Int /\ w[n] <= x /\ e[n] <= w[n] * a
        BY <2>3, <3>2
      <4> QED
        BY <2>2, <4>1, ScaledBound
    <3> QED
      BY <3>1, <3>2
  <2>6. x * (b - a) = x * b - a * x /\ x * b \in Int /\ a * x \in Int
    BY <2>2
  <2>7. e[n + 1] <= x * b
    BY <2>2, <2>5, <2>6
  <2> QED
    BY <2>7 DEF x, b
<1> HIDE DEF K
<1>3. m \in K
  BY <1>1, <1>2, SetInduction
<1>4. m # 0 => w[m] * d[m] = 0
  OBVIOUS
<1> QED
  BY <1>3, <1>4 DEF K

\* The greedy fill is one of the fills.
LEMMA GreedyIsFill ==
  ASSUME NEW levels \in Side, NEW qty \in Nat, qty <= SumQuantity(levels)
  PROVE  LegCost(levels, qty) \in Costs(levels, qty)
<1> DEFINE m == Reach(levels)
<1>1. PICK g, c : Running(g, c, levels, qty) /\ FillFor(levels, qty) = [cost |-> c[m], filled |-> g[m]]
  BY FillFacts
<1> DEFINE take == [i \in 1..m |-> Less(levels[i].quantity, qty - g[i - 1])]
           paid == [i \in 1..m |-> take[i] * levels[i].price]
<1>2. /\ m \in Nat /\ DOMAIN TopLevels(levels) = 1..m
      /\ \A i \in 1..m : levels[i].price \in Nat /\ levels[i].quantity \in Nat
  BY ReachFacts
<1>3. g[m] = qty /\ LegCost(levels, qty) = c[m]
  BY <1>1, SumFacts DEF LegCost
<1>4. /\ \A i \in 0..m : g[i] \in 0..qty
      /\ \A i \in 1..m : Less(levels[i].quantity, qty - g[i - 1]) \in Nat
  BY <1>1, FillBounds
<1>5. /\ g[0] = 0 /\ c[0] = 0
      /\ g \in [0..m -> Int] /\ c \in [0..m -> Int]
      /\ \A i \in 1..m : g[i] = g[i - 1] + Less(levels[i].quantity, qty - g[i - 1])
      /\ \A i \in 1..m : c[i] = c[i - 1] + Less(levels[i].quantity, qty - g[i - 1]) * levels[i].price
  BY <1>1 DEF Running
<1> HIDE DEF m
<1>6. ASSUME NEW i \in 1..m
      PROVE  /\ take[i] \in 0..qty /\ take[i] <= levels[i].quantity
             /\ g[i] = g[i - 1] + take[i] /\ c[i] = c[i - 1] + paid[i] /\ paid[i] \in Int
  <2>1. i - 1 \in 0..m /\ take[i] = Less(levels[i].quantity, qty - g[i - 1])
    BY <1>2
  <2>2. g[i - 1] \in 0..qty /\ levels[i].quantity \in Nat /\ levels[i].price \in Nat /\ take[i] \in Nat
    BY <1>2, <1>4, <2>1
  <2>3. take[i] \in 0..qty /\ take[i] <= levels[i].quantity
    BY <2>1, <2>2 DEF Less
  <2>4. g[i] = g[i - 1] + take[i] /\ c[i] = c[i - 1] + take[i] * levels[i].price
    BY <1>5, <2>1
  <2>5. paid[i] = take[i] * levels[i].price /\ take[i] * levels[i].price \in Int
    BY <2>2
  <2> HIDE DEF take, paid
  <2> QED
    BY <2>3, <2>4, <2>5
<1>7. DOMAIN take = 1..m /\ paid = [i \in DOMAIN take |-> take[i] * levels[i].price]
      /\ take = [i \in 1..m |-> take[i]] /\ paid = [i \in 1..m |-> paid[i]]
  OBVIOUS
<1> HIDE DEF take, paid
<1>8. take \in [1..m -> 0..qty] /\ take \in [1..m -> Int] /\ paid \in [1..m -> Int]
  BY <1>6, <1>7
<1>9. ASSUME NEW v \in [1..m -> Int], NEW h \in [0..m -> Int],
             h[0] = 0, \A i \in 1..m : h[i] = h[i - 1] + v[i]
      PROVE  Total(v) = h[m]
  <2>1. PICK t \in [0..m -> Int] :
          t[0] = 0 /\ (\A i \in 1..m : t[i] = t[i - 1] + v[i]) /\ Total(v) = t[m]
    BY <1>2, TotalFacts
  <2> DEFINE K == {n \in Nat : n <= m => t[n] = h[n]}
  <2>2. 0 \in K
    BY <1>9, <2>1
  <2>3. ASSUME NEW n \in Nat, n \in K
        PROVE  n + 1 \in K
    <3> SUFFICES ASSUME n + 1 <= m PROVE t[n + 1] = h[n + 1]
      OBVIOUS
    <3>1. n + 1 \in 1..m /\ (n + 1) - 1 = n /\ t[n] = h[n]
      BY <1>2, <2>3
    <3> QED
      BY <1>9, <2>1, <3>1
  <2> HIDE DEF K
  <2>4. m \in K
    BY <1>2, <2>2, <2>3, SetInduction
  <2> QED
    BY <2>1, <2>4 DEF K
<1>10. Total(take) = qty
  BY <1>3, <1>5, <1>6, <1>8, <1>9
<1>11. Total(paid) = c[m]
  BY <1>5, <1>6, <1>8, <1>9
<1>12. take \in Fills(levels, qty)
  BY <1>2, <1>6, <1>7, <1>8, <1>10 DEF Fills
<1>13. CostOf(levels, take) = c[m]
  BY <1>7, <1>11 DEF CostOf
<1> QED
  BY <1>3, <1>12, <1>13 DEF Costs

\* No fill is cheaper on a side that ascends, and none is dearer on one that descends.
LEMMA NoBetterFill ==
  ASSUME NEW levels \in Side, NEW qty \in Nat, qty <= SumQuantity(levels),
         NEW f \in Fills(levels, qty)
  PROVE  /\ CostOf(levels, f) \in Int
         /\ Ascending(levels) => LegCost(levels, qty) <= CostOf(levels, f)
         /\ Descending(levels) => LegCost(levels, qty) >= CostOf(levels, f)
<1> DEFINE m == Reach(levels)
           paid == [i \in 1..m |-> f[i] * levels[i].price]
<1>1. PICK g, c : Running(g, c, levels, qty) /\ FillFor(levels, qty) = [cost |-> c[m], filled |-> g[m]]
  BY FillFacts
<1>2. /\ m \in Nat /\ DOMAIN TopLevels(levels) = 1..m /\ m <= Len(levels) /\ Len(levels) \in Nat
      /\ \A i \in 1..m : levels[i].price \in Nat /\ levels[i].quantity \in Nat
  BY ReachFacts
<1>3. g[m] = qty /\ LegCost(levels, qty) = c[m]
  BY <1>1, SumFacts DEF LegCost
<1>4. \A i \in 0..m : g[i] \in 0..qty
  BY <1>1, FillBounds
<1>5. /\ g[0] = 0 /\ c[0] = 0
      /\ g \in [0..m -> Int] /\ c \in [0..m -> Int]
      /\ \A i \in 1..m : g[i] = g[i - 1] + Less(levels[i].quantity, qty - g[i - 1])
      /\ \A i \in 1..m : c[i] = c[i - 1] + Less(levels[i].quantity, qty - g[i - 1]) * levels[i].price
  BY <1>1 DEF Running
<1>6. /\ f \in [1..m -> 0..qty] /\ Total(f) = qty
      /\ \A i \in 1..m : f[i] <= levels[i].quantity
  BY <1>2 DEF Fills
<1>7. DOMAIN f = 1..m /\ f \in [1..m -> Int] /\ \A i \in 1..m : f[i] \in 0..qty
  BY <1>6
<1>8. CostOf(levels, f) = Total(paid)
  BY <1>7 DEF CostOf
<1>9. \A i \in 1..m : paid[i] = f[i] * levels[i].price /\ paid[i] \in Int
  BY <1>2, <1>7
<1>10. paid \in [1..m -> Int]
  BY <1>9
<1>11. \A i, j \in 1..m : i < j => /\ Ascending(levels) => levels[i].price <= levels[j].price
                                   /\ Descending(levels) => levels[i].price >= levels[j].price
  BY <1>2 DEF Ascending, Descending
<1> HIDE DEF m, paid
<1>12. PICK F \in [0..m -> Int] : F[0] = 0 /\ (\A i \in 1..m : F[i] = F[i - 1] + f[i]) /\ Total(f) = F[m]
  BY <1>2, <1>7, TotalFacts
<1>13. PICK C \in [0..m -> Int] :
         C[0] = 0 /\ (\A i \in 1..m : C[i] = C[i - 1] + paid[i]) /\ Total(paid) = C[m]
  BY <1>2, <1>10, TotalFacts
<1>14. \A n \in 0..m : F[n] <= qty
  <2> DEFINE K == {n \in Nat : n <= m => F[m - n] <= qty}
  <2>1. 0 \in K
    BY <1>2, <1>6, <1>12
  <2>2. ASSUME NEW n \in Nat, n \in K
        PROVE  n + 1 \in K
    <3> SUFFICES ASSUME n + 1 <= m PROVE F[m - (n + 1)] <= qty
      OBVIOUS
    <3>1. m - n \in 1..m /\ (m - n) - 1 = m - (n + 1) /\ m - (n + 1) \in 0..m /\ F[m - n] <= qty
      BY <1>2, <2>2
    <3>2. F[m - n] = F[m - (n + 1)] + f[m - n] /\ f[m - n] \in 0..qty /\ F[m - (n + 1)] \in Int
      BY <1>7, <1>12, <3>1
    <3> QED
      BY <3>1, <3>2
  <2> HIDE DEF K
  <2>3. \A n \in Nat : n \in K
    BY <2>1, <2>2, SetInduction
  <2>4. \A n \in 0..m : m - n \in Nat /\ m - n <= m /\ m - (m - n) = n
    BY <1>2
  <2> QED
    BY <2>3, <2>4 DEF K
<1>15. \A n \in 0..m : F[n] <= g[n]
  <2> DEFINE K == {n \in Nat : n <= m => F[n] <= g[n]}
  <2>1. 0 \in K
    BY <1>5, <1>12
  <2>2. ASSUME NEW n \in Nat, n \in K
        PROVE  n + 1 \in K
    <3> SUFFICES ASSUME n + 1 <= m PROVE F[n + 1] <= g[n + 1]
      OBVIOUS
    <3>1. n + 1 \in 1..m /\ (n + 1) - 1 = n /\ n \in 0..m /\ n + 1 \in 0..m /\ F[n] <= g[n]
      BY <1>2, <2>2
    <3>2. /\ F[n + 1] = F[n] + f[n + 1] /\ F[n + 1] <= qty /\ F[n] \in Int
          /\ g[n + 1] = g[n] + Less(levels[n + 1].quantity, qty - g[n]) /\ g[n] \in 0..qty
          /\ f[n + 1] \in 0..qty /\ f[n + 1] <= levels[n + 1].quantity /\ levels[n + 1].quantity \in Nat
      BY <1>2, <1>4, <1>5, <1>6, <1>7, <1>12, <1>14, <3>1
    <3> DEFINE q == levels[n + 1].quantity
    <3>3. CASE q <= qty - g[n]
      <4>1. g[n + 1] = g[n] + q
        BY <3>2, <3>3 DEF Less
      <4> QED
        BY <3>1, <3>2, <4>1
    <3>4. CASE ~(q <= qty - g[n])
      <4>1. g[n + 1] = qty
        BY <3>2, <3>4 DEF Less
      <4> QED
        BY <3>2, <4>1
    <3> QED
      BY <3>3, <3>4
  <2> HIDE DEF K
  <2>3. \A n \in Nat : n \in K
    BY <2>1, <2>2, SetInduction
  <2> QED
    BY <1>2, <2>3 DEF K
<1> DEFINE d == [i \in 0..m |-> g[i] - F[i]]
           e == [i \in 0..m |-> c[i] - C[i]]
           s == [i \in 0..m |-> C[i] - c[i]]
           w == [i \in 1..m |-> levels[i].price]
           v == [i \in 1..m |-> 0 - levels[i].price]
<1>16. d \in [0..m -> Nat] /\ d[0] = 0 /\ d[m] = 0
  <2>1. \A i \in 0..m : g[i] \in Int /\ F[i] \in Int /\ F[i] <= g[i]
    BY <1>5, <1>12, <1>15
  <2> QED
    BY <1>2, <1>3, <1>5, <1>6, <1>12, <2>1
<1>17. \A i \in 1..m : i - 1 \in 0..m /\ i \in 0..m
  BY <1>2
<1>18. ASSUME NEW i \in 1..m
       PROVE  /\ e[i] = e[i - 1] + w[i] * (d[i] - d[i - 1])
              /\ s[i] = s[i - 1] + v[i] * (d[i] - d[i - 1])
  <2> DEFINE t == Less(levels[i].quantity, qty - g[i - 1])
             p == levels[i].price
             x == f[i]
  <2>1. /\ p \in Int /\ x \in Int /\ levels[i].quantity \in Int
        /\ g[i] \in Int /\ g[i - 1] \in Int /\ c[i] \in Int /\ c[i - 1] \in Int
        /\ F[i] \in Int /\ F[i - 1] \in Int /\ C[i] \in Int /\ C[i - 1] \in Int
    <3>1. p \in Int /\ levels[i].quantity \in Int
      BY <1>2
    <3>2. x \in Int
      BY <1>7
    <3>3. i - 1 \in 0..m /\ i \in 0..m
      BY <1>17
    <3> QED
      BY <1>5, <1>12, <1>13, <3>1, <3>2, <3>3
  <2>2. /\ g[i] = g[i - 1] + t /\ c[i] = c[i - 1] + t * p
        /\ F[i] = F[i - 1] + x /\ C[i] = C[i - 1] + x * p
    BY <1>5, <1>9, <1>12, <1>13
  <2>3. t \in Int
    BY <2>1 DEF Less
  <2>4. /\ d[i] = g[i] - F[i] /\ d[i - 1] = g[i - 1] - F[i - 1]
        /\ e[i] = c[i] - C[i] /\ e[i - 1] = c[i - 1] - C[i - 1]
        /\ s[i] = C[i] - c[i] /\ s[i - 1] = C[i - 1] - c[i - 1]
        /\ w[i] = p /\ v[i] = 0 - p
    BY <1>17
  <2> HIDE DEF t, p, x, d, e, s, w, v
  <2>5. /\ c[i] - C[i] = (c[i - 1] - C[i - 1]) + p * ((g[i] - F[i]) - (g[i - 1] - F[i - 1]))
        /\ C[i] - c[i] = (C[i - 1] - c[i - 1]) + (0 - p) * ((g[i] - F[i]) - (g[i - 1] - F[i - 1]))
    <3>1. BothTake(g[i - 1], g[i], c[i - 1], c[i], F[i - 1], F[i], C[i - 1], C[i], t, x, p)
      BY <2>1, <2>2, <2>3 DEF BothTake
    <3> QED
      BY <3>1, LeadStep
  <2> QED
    BY <2>4, <2>5
<1>19. e \in [0..m -> Int] /\ s \in [0..m -> Int] /\ e[0] = 0 /\ s[0] = 0
  BY <1>2, <1>5, <1>12, <1>13
<1>20. w \in [1..m -> Int] /\ v \in [1..m -> Int]
  BY <1>2
<1>21. \A i, j \in 1..m : i < j => /\ Ascending(levels) => w[i] <= w[j]
                                   /\ Descending(levels) => v[i] <= v[j]
  BY <1>2, <1>11
<1>22. e[m] = c[m] - C[m] /\ s[m] = C[m] - c[m] /\ c[m] \in Int /\ C[m] \in Int
  BY <1>2, <1>5, <1>13
<1> HIDE DEF d, e, s, w, v
<1>23. Ascending(levels) => e[m] <= 0
  BY <1>2, <1>16, <1>18, <1>19, <1>20, <1>21, Exchange
<1>24. Descending(levels) => s[m] <= 0
  BY <1>2, <1>16, <1>18, <1>19, <1>20, <1>21, Exchange
<1> QED
  BY <1>3, <1>8, <1>13, <1>22, <1>23, <1>24

LEMMA LegIsBest ==
  ASSUME NEW levels \in Side, NEW qty \in Nat, qty <= SumQuantity(levels)
  PROVE  /\ Ascending(levels) => LegCost(levels, qty) = Min(Costs(levels, qty))
         /\ Descending(levels) => LegCost(levels, qty) = Max(Costs(levels, qty))
<1> DEFINE best == LegCost(levels, qty)
           costs == Costs(levels, qty)
<1>1. best \in costs
  BY GreedyIsFill
<1>2. \A x \in costs : /\ x \in Int
                       /\ Ascending(levels) => best <= x
                       /\ Descending(levels) => best >= x
  BY NoBetterFill DEF Costs
<1> HIDE DEF best, costs
<1>3. Ascending(levels) => best = Min(costs)
  BY <1>1, <1>2 DEF Min
<1>4. Descending(levels) => best = Max(costs)
  BY <1>1, <1>2 DEF Max
<1> QED
  BY <1>3, <1>4 DEF best, costs

\* A leg is priced at the best of all the fills within the depth: the cheapest for
\* the buyer, the dearest for the seller, on books of any length.
THEOREM PricedAtBest == Spec => []BestFill
<1>1. BooksInv => BestFill
  <2> SUFFICES ASSUME BooksInv, Usable(LongBook, ShortBook)
               PROVE  LET qty == TargetQty(LongBook, ShortBook)
                      IN  /\ LegCost(LongBook.asks, qty) = Min(Costs(LongBook.asks, qty))
                          /\ LegCost(ShortBook.bids, qty) = Max(Costs(ShortBook.bids, qty))
    BY DEF BestFill
  <2> DEFINE qty == TargetQty(LongBook, ShortBook)
  <2>1. /\ LongBook.asks \in Side /\ Ascending(LongBook.asks)
        /\ ShortBook.bids \in Side /\ Descending(ShortBook.bids)
    BY ParsedFacts DEF BooksInv, LongBook, ShortBook, LongQuote, ShortQuote, ParseSnapshot
  <2>2. LongBook.asks # <<>> /\ ShortBook.bids # <<>>
    BY DEF Usable
  <2>3. qty \in Nat \ {0} /\ qty <= SumQuantity(LongBook.asks) /\ qty <= SumQuantity(ShortBook.bids)
    BY <2>1, <2>2, TargetFacts
  <2> HIDE DEF qty
  <2>4. /\ LegCost(LongBook.asks, qty) = Min(Costs(LongBook.asks, qty))
        /\ LegCost(ShortBook.bids, qty) = Max(Costs(ShortBook.bids, qty))
    BY <2>1, <2>3, LegIsBest
  <2> QED
    BY <2>4 DEF qty
<1> QED
  BY <1>1, BooksAreSorted, PTL
=============================================================================
