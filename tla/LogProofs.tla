----------------------------- MODULE LogProofs -----------------------------
(***************************************************************************)
(* Queue, writer and Redis are one log (HistoryLog), for every capacity,   *)
(* limit and number of attempts, over any number of crashes.               *)
(***************************************************************************)
EXTENDS RestartProofs

-----------------------------------------------------------------------------
(* The invariant.  A step of the scanner that makes calls replaces the     *)
(* outbox, so none may be left from the step before.                       *)

QueueTypeOK ==
  /\ events \in Seq(Range(events))
  /\ outbox \in Seq(Range(outbox))
  /\ redis \in Seq(Range(redis))

CallsMade == pc \in {"idle", "check", "execute", "stopped"} => outbox = <<>>

LogInv == QueueTypeOK /\ CallsMade

-----------------------------------------------------------------------------
(* What a write leaves: n copies of the value on the newest k entries of   *)
(* the list, which are all of them or fill the list to its limit.          *)

Layered(S, list, value, n, k, r) ==
  /\ r \in Seq(S) /\ n \in Nat /\ k \in 0..Len(list) /\ Len(r) = n + k
  /\ \A i \in 1..(n + k) : r[i] = IF i <= n THEN value ELSE list[i - n]
  /\ k = Len(list) \/ n + k >= RedisLimit

LEMMA LimitFacts == RedisLimit \in Nat \ {0} /\ MaxAttempts \in Nat \ {0}
BY StorageAssumption DEF StorageAssumption

\* Elements of a sequence of given length.
LEMMA Elements ==
  ASSUME NEW S, NEW s \in Seq(S)
  PROVE  Len(s) \in Nat /\ DOMAIN s = 1..Len(s) /\ \A i \in 1..Len(s) : s[i] \in S
BY LenProperties, ElementOfSeq

LEMMA UntouchedIsLayered ==
  ASSUME NEW S, NEW list \in Seq(S), NEW value
  PROVE  Layered(S, list, value, 0, Len(list), list)
BY Elements DEF Layered

\* LPUSH, m times.
LEMMA PushedIsLayered ==
  ASSUME NEW S, NEW list \in Seq(S), NEW value \in S, NEW n, NEW k, NEW l,
         Layered(S, list, value, n, k, l), NEW m \in Nat
  PROVE  Layered(S, list, value, n + m, k, Pushed(l, value, m))
<1> DEFINE copies == [i \in 1..m |-> value]
           r == Pushed(l, value, m)
<1>1. /\ l \in Seq(S) /\ n \in Nat /\ k \in 0..Len(list) /\ Len(l) = n + k /\ Len(list) \in Nat
      /\ \A i \in 1..(n + k) : l[i] = IF i <= n THEN value ELSE list[i - n]
      /\ k = Len(list) \/ n + k >= RedisLimit
  BY Elements DEF Layered
<1>2. copies \in Seq(S) /\ Len(copies) = m
  OBVIOUS
<1>3. /\ r \in Seq(S) /\ Len(r) = m + (n + k)
      /\ \A i \in 1..(m + (n + k)) : r[i] = IF i <= m THEN copies[i] ELSE l[i - m]
  <2>1. r = copies \o l
    BY DEF Pushed
  <2> HIDE DEF copies, r
  <2>2. /\ r \in Seq(S) /\ Len(r) = Len(copies) + Len(l)
        /\ \A i \in 1..(Len(copies) + Len(l)) : r[i] = IF i <= Len(copies) THEN copies[i] ELSE l[i - Len(copies)]
    BY <1>1, <1>2, <2>1, ConcatProperties
  <2> QED
    BY <1>1, <1>2, <2>2
<1>4. \A i \in 1..m : copies[i] = value
  OBVIOUS
<1> HIDE DEF copies, r
<1>5. ASSUME NEW i \in 1..((n + m) + k)
      PROVE  r[i] = IF i <= n + m THEN value ELSE list[i - (n + m)]
  <2>1. CASE i <= m
    <3>1. i \in 1..m /\ i \in 1..(m + (n + k)) /\ i <= n + m
      BY <1>1, <2>1
    <3> QED
      BY <1>3, <1>4, <2>1, <3>1
  <2>2. CASE ~(i <= m)
    <3>1. r[i] = l[i - m] /\ i - m \in 1..(n + k)
      BY <1>1, <1>3, <2>2
    <3>2. l[i - m] = IF i - m <= n THEN value ELSE list[(i - m) - n]
      BY <1>1, <3>1
    <3>3. (i - m <= n <=> i <= n + m) /\ (i - m) - n = i - (n + m)
      BY <1>1
    <3> QED
      BY <3>1, <3>2, <3>3
  <2> QED
    BY <2>1, <2>2
<1>6. n + m \in Nat /\ Len(r) = (n + m) + k /\ (n + k >= RedisLimit => (n + m) + k >= RedisLimit)
  BY <1>1, <1>3, LimitFacts
<1> QED
  BY <1>1, <1>3, <1>5, <1>6 DEF Layered, r

\* LTRIM.
LEMMA TrimmedIsLayered ==
  ASSUME NEW S, NEW list \in Seq(S), NEW value, NEW n, NEW k, NEW l,
         Layered(S, list, value, n, k, l), n >= 1
  PROVE  \E c \in Nat \ {0}, j \in Nat : Layered(S, list, value, c, j, Trimmed(l))
<1> DEFINE t == Min({Len(l), RedisLimit})
           c == IF n <= t THEN n ELSE t
           j == t - c
           r == Trimmed(l)
<1>1. /\ l \in Seq(S) /\ n \in Nat /\ k \in 0..Len(list) /\ Len(l) = n + k /\ Len(list) \in Nat
      /\ \A i \in 1..(n + k) : l[i] = IF i <= n THEN value ELSE list[i - n]
      /\ k = Len(list) \/ n + k >= RedisLimit
      /\ \A i \in 1..(n + k) : l[i] \in S
  BY Elements DEF Layered
<1>2. t \in Nat \ {0} /\ t <= n + k /\ (t = n + k \/ t = RedisLimit)
  <2>1. n + k \in Int /\ RedisLimit \in Int
    BY <1>1, LimitFacts
  <2>2. t = IF n + k <= RedisLimit THEN n + k ELSE RedisLimit
    BY <1>1, <2>1 DEF Min
  <2> HIDE DEF t
  <2> QED
    BY <1>1, <2>1, <2>2, LimitFacts
<1>3. r = SubSeq(l, 1, t)
  BY DEF Trimmed
<1> HIDE DEF t, r
<1>4. /\ r \in Seq(S) /\ Len(r) = t
      /\ \A i \in 1..t : r[i] = l[i]
  <2>1. t \in Int /\ 1 \in Int /\ t - 1 + 1 = t /\ 1 <= t /\ \A i \in 1..t : l[i] \in S /\ 1 + i - 1 = i
    BY <1>1, <1>2
  <2>2. /\ SubSeq(l, 1, t) \in Seq(S)
        /\ Len(SubSeq(l, 1, t)) = IF 1 <= t THEN t - 1 + 1 ELSE 0
        /\ \A i \in 1..(t - 1 + 1) : SubSeq(l, 1, t)[i] = l[1 + i - 1]
    BY <2>1, SubSeqProperties
  <2> QED
    BY <1>3, <2>1, <2>2
<1>5. /\ c \in Nat \ {0} /\ c <= n /\ j \in 0..k /\ c + j = t /\ j \in Nat /\ k <= Len(list)
      /\ c # n => j = 0
  BY <1>1, <1>2
<1>6. j = Len(list) \/ c + j >= RedisLimit
  <2>1. CASE t = RedisLimit
    BY <1>5, <2>1, LimitFacts
  <2>2. CASE t = n + k
    <3>1. c = n /\ j = k
      BY <1>1, <2>2
    <3> QED
      BY <1>1, <3>1
  <2> QED
    BY <1>2, <2>1, <2>2
<1> HIDE DEF c, j
<1>7. ASSUME NEW i \in 1..(c + j)
      PROVE  r[i] = IF i <= c THEN value ELSE list[i - c]
  <2>1. i \in 1..t /\ i \in 1..(n + k) /\ r[i] = l[i]
    BY <1>1, <1>2, <1>4, <1>5
  <2>2. CASE c = n
    BY <1>1, <2>1, <2>2
  <2>3. CASE c # n
    <3>1. i <= c /\ i <= n
      BY <1>1, <1>5, <2>3
    <3> QED
      BY <1>1, <2>1, <3>1
  <2> QED
    BY <2>2, <2>3
<1>8. j \in 0..Len(list)
  BY <1>1, <1>5
<1>9. Layered(S, list, value, c, j, r)
  BY <1>4, <1>5, <1>6, <1>7, <1>8 DEF Layered
<1> QED
  BY <1>5, <1>9 DEF r

\* Every outcome of a write but the lost one.
LEMMA WrittenIsLayered ==
  ASSUME NEW S, NEW list \in Seq(S), NEW value \in S, NEW r \in Written(list, value)
  PROVE  r = list \/ \E n \in Nat \ {0}, k \in Nat : Layered(S, list, value, n, k, r)
<1> SUFFICES ASSUME r # list
             PROVE  \E n \in Nat \ {0}, k \in Nat : Layered(S, list, value, n, k, r)
  OBVIOUS
<1>0. PICK a \in 1..MaxAttempts : \E m \in 0..(MaxAttempts - a) :
        \E l \in {Pushed(list, value, a), Trimmed(Pushed(list, value, a))} : r = Pushed(l, value, m)
  BY DEF Written
<1>1. PICK m \in 0..(MaxAttempts - a) :
        \E l \in {Pushed(list, value, a), Trimmed(Pushed(list, value, a))} : r = Pushed(l, value, m)
  BY <1>0
<1>2. PICK l \in {Pushed(list, value, a), Trimmed(Pushed(list, value, a))} : r = Pushed(l, value, m)
  BY <1>1
<1>3. a \in Nat \ {0} /\ m \in Nat /\ 0 + a = a /\ a >= 1
  BY LimitFacts
<1>4. Layered(S, list, value, a, Len(list), Pushed(list, value, a))
  BY <1>3, UntouchedIsLayered, PushedIsLayered
<1>5. Len(list) \in Nat
  BY Elements
<1>6. \E n \in Nat \ {0}, k \in Nat : Layered(S, list, value, n, k, l)
  BY <1>2, <1>3, <1>4, <1>5, TrimmedIsLayered
<1>7. PICK n \in Nat \ {0}, k \in Nat : Layered(S, list, value, n, k, l)
  BY <1>6
<1>8. Layered(S, list, value, n + m, k, r)
  BY <1>2, <1>3, <1>7, PushedIsLayered
<1>9. n + m \in Nat \ {0}
  BY <1>3
<1> QED
  BY <1>8, <1>9

\* The same, as HistoryLog puts it.
LEMMA LayeredIsLogged ==
  ASSUME NEW S, NEW value \in S, redis \in Seq(S), NEW n, NEW k, NEW r,
         Layered(S, redis, value, n, k, r)
  PROVE  r = Log!Logged(value, n, k)
<1> DEFINE copies == [i \in 1..n |-> value]
           rest == SubSeq(redis, 1, k)
<1>1. /\ r \in Seq(S) /\ n \in Nat /\ k \in 0..Len(redis) /\ Len(redis) \in Nat /\ Len(r) = n + k
      /\ \A i \in 1..(n + k) : r[i] = IF i <= n THEN value ELSE redis[i - n]
      /\ \A i \in 1..Len(redis) : redis[i] \in S
  BY Elements DEF Layered
<1>2. copies \in Seq(S) /\ Len(copies) = n /\ \A i \in 1..n : copies[i] = value
  BY <1>1
<1>3. rest \in Seq(S) /\ Len(rest) = k /\ \A i \in 1..k : rest[i] = redis[i]
  <2>1. k \in Int /\ 1 \in Int /\ k - 1 + 1 = k /\ \A i \in 1..k : redis[i] \in S /\ 1 + i - 1 = i
    BY <1>1
  <2>2. /\ rest \in Seq(S)
        /\ Len(rest) = IF 1 <= k THEN k - 1 + 1 ELSE 0
        /\ \A i \in 1..(k - 1 + 1) : rest[i] = redis[1 + i - 1]
    BY <2>1, SubSeqProperties
  <2> HIDE DEF rest
  <2> QED
    BY <1>1, <2>1, <2>2
<1> HIDE DEF copies, rest
<1>4. /\ copies \o rest \in Seq(S) /\ Len(copies \o rest) = n + k
      /\ \A i \in 1..(n + k) : (copies \o rest)[i] = IF i <= n THEN copies[i] ELSE rest[i - n]
  BY <1>1, <1>2, <1>3, ConcatProperties
<1>5. ASSUME NEW i \in 1..(n + k)
      PROVE  r[i] = (copies \o rest)[i]
  <2>1. CASE i <= n
    <3>1. i \in 1..n
      BY <1>1, <2>1
    <3> QED
      BY <1>1, <1>2, <1>4, <2>1, <3>1
  <2>2. CASE ~(i <= n)
    <3>1. i - n \in 1..k
      BY <1>1, <2>2
    <3> QED
      BY <1>1, <1>3, <1>4, <2>2, <3>1
  <2> QED
    BY <2>1, <2>2
<1>6. r = copies \o rest
  BY <1>1, <1>4, <1>5, SeqEqual
<1> QED
  BY <1>6 DEF Log!Logged, copies, rest

-----------------------------------------------------------------------------
(* Lemmas about two queues, one after the other.                           *)

LEMMA SameElements ==
  ASSUME NEW S, NEW s \in Seq(S), NEW t \in Seq(S), t # <<>>
  PROVE  Append(s, Head(t)) \o Tail(t) = s \o t
<1> DEFINE h == Head(t)
           u == Append(s, h)
           v == Tail(t)
<1>1. /\ h \in S /\ v \in Seq(S) /\ Len(v) = Len(t) - 1
      /\ \A i \in 1..Len(v) : v[i] = t[i + 1]
      /\ Len(s) \in Nat /\ Len(t) \in Nat \ {0} /\ h = t[1]
  BY HeadTailProperties, Elements, EmptySeq
<1>2. /\ u \in Seq(S) /\ Len(u) = Len(s) + 1
      /\ \A i \in 1..Len(s) : u[i] = s[i]
      /\ u[Len(s) + 1] = h
  BY <1>1, AppendProperties
<1> HIDE DEF h, u, v
<1>3. /\ u \o v \in Seq(S) /\ Len(u \o v) = Len(u) + Len(v)
      /\ \A i \in 1..(Len(u) + Len(v)) : (u \o v)[i] = IF i <= Len(u) THEN u[i] ELSE v[i - Len(u)]
  BY <1>1, <1>2, ConcatProperties
<1>4. /\ s \o t \in Seq(S) /\ Len(s \o t) = Len(s) + Len(t)
      /\ \A i \in 1..(Len(s) + Len(t)) : (s \o t)[i] = IF i <= Len(s) THEN s[i] ELSE t[i - Len(s)]
  BY ConcatProperties
<1>5. Len(u) + Len(v) = Len(s) + Len(t)
  BY <1>1, <1>2
<1>6. ASSUME NEW i \in 1..(Len(s) + Len(t))
      PROVE  (u \o v)[i] = (s \o t)[i]
  <2>1. CASE i <= Len(s)
    <3>1. i \in 1..Len(s) /\ i <= Len(u) /\ i \in 1..(Len(u) + Len(v))
      BY <1>1, <1>2, <1>5, <2>1
    <3> QED
      BY <1>2, <1>3, <1>4, <2>1, <3>1
  <2>2. CASE i = Len(s) + 1
    <3>1. i <= Len(u) /\ ~(i <= Len(s)) /\ i - Len(s) = 1 /\ i \in 1..(Len(u) + Len(v))
      BY <1>1, <1>2, <1>5, <2>2
    <3> QED
      BY <1>1, <1>2, <1>3, <1>4, <2>2, <3>1
  <2>3. CASE i > Len(s) + 1
    <3>1. /\ ~(i <= Len(u)) /\ ~(i <= Len(s)) /\ i \in 1..(Len(u) + Len(v))
          /\ i - Len(u) \in 1..Len(v) /\ (i - Len(u)) + 1 = i - Len(s)
      BY <1>1, <1>2, <1>5, <2>3
    <3> QED
      BY <1>1, <1>3, <1>4, <3>1
  <2>4. i <= Len(s) \/ i = Len(s) + 1 \/ i > Len(s) + 1
    BY <1>1
  <2> QED
    BY <2>1, <2>2, <2>3, <2>4
<1>7. u \o v = s \o t
  BY <1>3, <1>4, <1>5, <1>6, SeqEqual
<1> QED
  BY <1>7 DEF u, v, h

LEMMA Removed ==
  ASSUME NEW s, NEW i
  PROVE  RemoveAt(s, i) = SubSeq(s, 1, i - 1) \o SubSeq(s, i + 1, Len(s))
BY DEF RemoveAt

\* The head of the second queue is dropped.
LEMMA OneLess ==
  ASSUME NEW S, NEW s \in Seq(S), NEW t \in Seq(S), t # <<>>
  PROVE  /\ Len(s) + 1 \in DOMAIN (s \o t)
         /\ s \o Tail(t) = RemoveAt(s \o t, Len(s) + 1)
<1> DEFINE all == s \o t
           d == Len(s) + 1
           a == SubSeq(all, 1, d - 1)
           b == SubSeq(all, d + 1, Len(all))
           v == Tail(t)
<1>1. /\ v \in Seq(S) /\ Len(v) = Len(t) - 1
      /\ \A i \in 1..Len(v) : v[i] = t[i + 1]
      /\ Len(s) \in Nat /\ Len(t) \in Nat \ {0}
  BY HeadTailProperties, Elements, EmptySeq
<1>2. /\ all \in Seq(S) /\ Len(all) = Len(s) + Len(t)
      /\ \A i \in 1..(Len(s) + Len(t)) : all[i] = IF i <= Len(s) THEN s[i] ELSE t[i - Len(s)]
  BY ConcatProperties
<1> HIDE DEF all, v, d
<1>3. RemoveAt(all, d) = a \o b
  BY Removed
<1>4. DOMAIN all = 1..Len(all) /\ \A i \in 1..Len(all) : all[i] \in S
  BY <1>2, Elements
<1>5. a \in Seq(S) /\ Len(a) = Len(s) /\ \A i \in 1..Len(s) : a[i] = s[i]
  <2> DEFINE n == d - 1
  <2>1. n = Len(s) /\ n - 1 + 1 = n /\ n \in Int /\ 1 \in Int
    BY <1>1 DEF d
  <2>2. \A i \in 1..n : all[i] \in S /\ all[i] = s[i] /\ 1 + i - 1 = i
    BY <1>1, <1>2, <1>4, <2>1
  <2>3. a = SubSeq(all, 1, n)
    OBVIOUS
  <2> HIDE DEF n, a, b
  <2>4. /\ a \in Seq(S) /\ Len(a) = IF 1 <= n THEN n - 1 + 1 ELSE 0
        /\ \A i \in 1..(n - 1 + 1) : a[i] = all[1 + i - 1]
    BY <2>1, <2>2, <2>3, SubSeqProperties
  <2>5. Len(a) = n
    BY <1>1, <2>1, <2>4
  <2>6. \A i \in 1..n : a[i] = s[i]
    BY <2>1, <2>2, <2>4
  <2> QED
    BY <2>1, <2>4, <2>5, <2>6
<1>6. b \in Seq(S) /\ Len(b) = Len(v) /\ \A i \in 1..Len(v) : b[i] = v[i]
  <2> DEFINE m == d + 1
             n == Len(all)
  <2>1. m \in Int /\ n \in Int /\ n - m + 1 = Len(v) /\ m = Len(s) + 2
    BY <1>1, <1>2 DEF d
  <2>2. b = SubSeq(all, m, n)
    OBVIOUS
  <2>3. \A i \in m..n : all[i] \in S
    BY <1>1, <1>2, <1>4, <2>1
  <2> HIDE DEF m, n, b
  <2>4. /\ b \in Seq(S) /\ Len(b) = IF m <= n THEN n - m + 1 ELSE 0
        /\ \A i \in 1..(n - m + 1) : b[i] = all[m + i - 1]
    BY <2>1, <2>2, <2>3, SubSeqProperties
  <2>5. Len(b) = Len(v)
    BY <1>1, <2>1, <2>4
  <2>6. ASSUME NEW i \in 1..Len(v)
        PROVE  b[i] = v[i]
    <3>1. /\ m + i - 1 = Len(s) + 1 + i /\ Len(s) + 1 + i \in 1..(Len(s) + Len(t))
          /\ ~(Len(s) + 1 + i <= Len(s)) /\ (Len(s) + 1 + i) - Len(s) = i + 1
      BY <1>1, <2>1
    <3>2. b[i] = all[Len(s) + 1 + i]
      BY <2>1, <2>4, <3>1
    <3> QED
      BY <1>1, <1>2, <3>1, <3>2
  <2> QED
    BY <2>4, <2>5, <2>6
<1> HIDE DEF a, b
<1>7. s \o v = a \o b
  <2>1. a = s
    BY <1>5, SeqEqual
  <2>2. b = v
    BY <1>1, <1>6, SeqEqual
  <2> QED
    BY <2>1, <2>2
<1>8. Len(s) + 1 \in 1..(Len(s) + Len(t))
  BY <1>1
<1> QED
  BY <1>2, <1>3, <1>4, <1>7, <1>8 DEF all, v, d

\* The head of the first queue is taken.
LEMMA FirstTaken ==
  ASSUME NEW S, NEW s \in Seq(S), NEW t \in Seq(S), s # <<>>
  PROVE  /\ s \o t # <<>> /\ Head(s \o t) = Head(s)
         /\ Tail(s \o t) = Tail(s) \o t
<1> DEFINE all == s \o t
           v == Tail(s)
           w == Tail(all)
<1>1. /\ v \in Seq(S) /\ Len(v) = Len(s) - 1 /\ \A i \in 1..Len(v) : v[i] = s[i + 1]
      /\ Len(s) \in Nat \ {0} /\ Len(t) \in Nat /\ Head(s) = s[1]
  BY HeadTailProperties, Elements, EmptySeq
<1>2. /\ all \in Seq(S) /\ Len(all) = Len(s) + Len(t)
      /\ \A i \in 1..(Len(s) + Len(t)) : all[i] = IF i <= Len(s) THEN s[i] ELSE t[i - Len(s)]
  BY ConcatProperties
<1> HIDE DEF all, v
<1>3. all # <<>> /\ Head(all) = all[1]
  BY <1>1, <1>2, EmptySeq
<1>4. Head(all) = Head(s)
  BY <1>1, <1>2, <1>3
<1>5. w \in Seq(S) /\ Len(w) = Len(all) - 1 /\ \A i \in 1..Len(w) : w[i] = all[i + 1]
  BY <1>2, <1>3, HeadTailProperties
<1> HIDE DEF w
<1>6. /\ v \o t \in Seq(S) /\ Len(v \o t) = Len(v) + Len(t)
      /\ \A i \in 1..(Len(v) + Len(t)) : (v \o t)[i] = IF i <= Len(v) THEN v[i] ELSE t[i - Len(v)]
  BY <1>1, ConcatProperties
<1>7. Len(w) = Len(v) + Len(t) /\ Len(w) \in Nat
  BY <1>1, <1>2, <1>5
<1>8. ASSUME NEW i \in 1..Len(w)
      PROVE  w[i] = (v \o t)[i]
  <2>1. w[i] = all[i + 1] /\ i + 1 \in 1..(Len(s) + Len(t))
    BY <1>1, <1>5, <1>7
  <2>2. CASE i <= Len(v)
    <3>1. i \in 1..Len(v) /\ i + 1 <= Len(s)
      BY <1>1, <1>7, <2>2
    <3> QED
      BY <1>1, <1>2, <1>6, <1>7, <2>1, <2>2, <3>1
  <2>3. CASE ~(i <= Len(v))
    <3>1. ~(i + 1 <= Len(s)) /\ (i + 1) - Len(s) = i - Len(v)
      BY <1>1, <1>7, <2>3
    <3> QED
      BY <1>2, <1>6, <1>7, <2>1, <2>3, <3>1
  <2> QED
    BY <2>2, <2>3
<1>9. w = v \o t
  BY <1>5, <1>6, <1>7, <1>8, SeqEqual
<1> QED
  BY <1>3, <1>4, <1>9 DEF all, v, w

LEMMA ExtendedIsPrefix ==
  ASSUME NEW S, NEW s \in Seq(S), NEW t \in Seq(S)
  PROVE  IsPrefix(s, s \o t)
<1>1. Len(s) \in Nat /\ Len(t) \in Nat /\ Len(s \o t) = Len(s) + Len(t)
  BY Elements, ConcatProperties
<1>2. SubSeq(s, 1, Len(s)) = SubSeq(s \o t, 1, Len(s))
  <2>1. CASE Len(s) = 0
    BY <2>1, SubSeqEmpty
  <2>2. CASE Len(s) # 0
    <3>1. 1 \in 1..Len(s) /\ Len(s) \in 1..Len(s)
      BY <1>1, <2>2
    <3> QED
      BY <3>1, SubSeqOfConcat1
  <2> QED
    BY <2>1, <2>2
<1> QED
  BY <1>1, <1>2 DEF IsPrefix

-----------------------------------------------------------------------------
(* The steps of the queues are steps of the log.                           *)

LEMMA OneCall ==
  ASSUME NEW e
  PROVE  <<e>> \in Seq(Range(<<e>>))
<1>1. DOMAIN <<e>> = {1} /\ <<e>>[1] = e /\ Len(<<e>>) = 1
  OBVIOUS
<1>2. Range(<<e>>) = {e}
  BY <1>1 DEF Range
<1> QED
  BY <1>2

LEMMA TwoCalls ==
  ASSUME NEW e, NEW f
  PROVE  <<e, f>> \in Seq(Range(<<e, f>>))
<1>1. DOMAIN <<e, f>> = {1, 2} /\ <<e, f>>[1] = e /\ <<e, f>>[2] = f
  OBVIOUS
<1>2. Range(<<e, f>>) = {e, f}
  BY <1>1 DEF Range
<1> QED
  BY <1>2

LEMMA BothTyped ==
  ASSUME QueueTypeOK
  PROVE  LET S == Range(events) \cup Range(outbox) IN events \in Seq(S) /\ outbox \in Seq(S)
BY SeqMonotonic DEF QueueTypeOK

\* Enqueue moves a call into the queue, or drops it.
LEMMA EnqueueLogs ==
  ASSUME QueueTypeOK, Enqueue
  PROVE  [Log!Next]_(Log!vars)
<1> DEFINE S == Range(events) \cup Range(outbox)
<1>1. /\ outbox # <<>> /\ events' = QueueOrDrop(events, Head(outbox)) /\ outbox' = Tail(outbox)
      /\ redis' = redis
  BY DEF Enqueue
<1>2. events \in Seq(S) /\ outbox \in Seq(S)
  BY BothTyped
<1> HIDE DEF S
<1>3. CASE Len(events) < EventCap
  <2>1. events' = Append(events, Head(outbox))
    BY <1>1, <1>3 DEF QueueOrDrop
  <2>2. events' \o outbox' = events \o outbox
    BY <1>1, <1>2, <2>1, SameElements
  <2> QED
    BY <1>1, <2>2 DEF Log!vars
<1>4. CASE ~(Len(events) < EventCap)
  <2>1. events' = events
    BY <1>1, <1>4 DEF QueueOrDrop
  <2>2. /\ Len(events) + 1 \in DOMAIN (events \o outbox)
        /\ events' \o outbox' = RemoveAt(events \o outbox, Len(events) + 1)
    BY <1>1, <1>2, <2>1, OneLess
  <2>3. Log!Drop(Len(events) + 1)
    BY <1>1, <2>2, Zenon DEF Log!Drop, Log!RemoveAt, RemoveAt
  <2> QED
    BY <2>2, <2>3 DEF Log!Next
<1> QED
  BY <1>3, <1>4

\* WriteEvent saves the first record, or passes it over.
LEMMA WriteLogs ==
  ASSUME QueueTypeOK, WriteEvent
  PROVE  Log!Next /\ redis' \in Seq(Range(redis'))
<1> DEFINE S == Range(events) \cup Range(outbox)
           v == Head(events).value
           T == Range(redis) \cup {v}
<1>1. /\ events # <<>> /\ events' = Tail(events) /\ outbox' = outbox
      /\ redis' \in IF Head(events).type = "position" THEN Written(redis, v) ELSE {redis}
  BY DEF WriteEvent
<1>2. events \in Seq(S) /\ outbox \in Seq(S)
  BY BothTyped
<1> HIDE DEF S
<1>3. /\ events \o outbox # <<>> /\ Head(events \o outbox) = Head(events)
      /\ events' \o outbox' = Tail(events \o outbox)
  BY <1>1, <1>2, FirstTaken
<1>4. redis \in Seq(T) /\ v \in T
  BY SeqMonotonic DEF QueueTypeOK
<1> HIDE DEF T, v
<1>5. CASE redis' = redis
  <2>1. Log!Pass
    BY <1>3, <1>5 DEF Log!Pass
  <2> QED
    BY <1>5, <2>1 DEF Log!Next, QueueTypeOK
<1>6. CASE redis' # redis
  <2>1. Head(events).type = "position" /\ redis' \in Written(redis, v)
    BY <1>1, <1>6
  <2>2. PICK n \in Nat \ {0}, k \in Nat : Layered(T, redis, v, n, k, redis')
    BY <1>4, <1>6, <2>1, WrittenIsLayered
  <2>3. redis' = Log!Logged(v, n, k)
    BY <1>4, <2>2, LayeredIsLogged
  <2>4. /\ redis' \in Seq(T) /\ k \in 0..Len(redis) /\ n \in 1..Len(redis')
        /\ k = Len(redis) \/ n + k >= RedisLimit
    BY <2>2 DEF Layered
  <2>5. Log!Save(n, k)
    BY <1>3, <2>1, <2>3, <2>4 DEF Log!Save, v
  <2>6. redis' \in Seq(Range(redis'))
    BY <2>4, SeqOfRange
  <2> QED
    BY <2>4, <2>5, <2>6 DEF Log!Next
<1> QED
  BY <1>5, <1>6

\* The calls of the scanner are handed over behind those of its earlier steps.
LEMMA EmitLogs ==
  ASSUME QueueTypeOK, outbox = <<>>, UNCHANGED <<events, redis>>,
         NEW calls, calls \in Seq(Range(calls)), Emit(calls)
  PROVE  Log!Next /\ outbox' \in Seq(Range(outbox'))
<1>1. outbox' \in {calls, <<>>}
  BY DEF Emit
<1>2. <<>> \in Seq(Range(<<>>))
  BY EmptySeq
<1>3. outbox' \in Seq(Range(outbox'))
  BY <1>1, <1>2
<1> DEFINE S == Range(events) \cup Range(outbox')
<1>4. events \in Seq(S) /\ outbox' \in Seq(S)
  BY <1>3, SeqMonotonic DEF QueueTypeOK
<1> HIDE DEF S
<1>5. events \o outbox = events
  BY <1>4, ConcatEmptySeq
<1>6. IsPrefix(events, events' \o outbox')
  BY <1>4, ExtendedIsPrefix
<1>7. Log!HandOver
  BY <1>5, <1>6, Zenon DEF Log!HandOver, Log!IsPrefix, IsPrefix
<1> QED
  BY <1>3, <1>7 DEF Log!Next

-----------------------------------------------------------------------------
(* The steps of the scanner, and crashes.                                  *)

LEMMA LogInit == Init => LogInv /\ Log!Init
<1> SUFFICES ASSUME Init PROVE LogInv /\ Log!Init
  OBVIOUS
<1>1. redis = <<>> /\ events = <<>> /\ outbox = <<>>
  BY DEF Init, StorageInit
<1>2. <<>> \in Seq(Range(<<>>)) /\ <<>> \o <<>> = <<>>
  BY EmptySeq, ConcatEmptySeq
<1>3. QueueTypeOK /\ CallsMade
  BY <1>1, <1>2 DEF QueueTypeOK, CallsMade
<1> QED
  BY <1>1, <1>2, <1>3 DEF LogInv, Log!Init

\* The steps that make calls.
Calling == Receive \/ Execute \/ \E p \in todo : Close(p)

LEMMA CallingLogs ==
  ASSUME LogInv, Calling
  PROVE  LogInv' /\ Log!Next
<1>1. /\ outbox = <<>> /\ UNCHANGED <<events, redis>>
      /\ pc' \in {"detect", "refresh"}
  <2>1. CASE Receive
    BY <2>1 DEF Receive, LogInv, CallsMade
  <2>2. CASE Execute
    BY <2>2 DEF Execute, LogInv, CallsMade, BeginRefresh
  <2>3. CASE \E p \in todo : Close(p)
    BY <2>3 DEF Close
  <2> QED
    BY <2>1, <2>2, <2>3 DEF Calling
<1>2. \E calls : calls \in Seq(Range(calls)) /\ Emit(calls)
  <2>1. CASE Receive
    <3> DEFINE e == [type |-> "orderbook", value |-> Head(updates)]
    <3>1. Emit(<<e>>)
      BY <2>1 DEF Receive
    <3> HIDE DEF e
    <3>2. <<e>> \in Seq(Range(<<e>>))
      BY OneCall
    <3> QED
      BY <3>1, <3>2
  <2>2. CASE Execute
    <3> DEFINE p == NewPosition(best, clock)
               e == [type |-> "opportunity", value |-> p.id]
               f == PositionEvent(p, "open")
    <3>1. Emit(<<e, f>>)
      BY <2>2 DEF Execute
    <3> HIDE DEF e, f
    <3>2. <<e, f>> \in Seq(Range(<<e, f>>))
      BY TwoCalls
    <3> QED
      BY <3>1, <3>2
  <2>3. CASE \E p \in todo : Close(p)
    <3>1. PICK p \in todo : Close(p)
      BY <2>3
    <3> DEFINE e == PositionEvent(p, "closed")
    <3>2. Emit(<<e>>)
      BY <3>1 DEF Close
    <3> HIDE DEF e
    <3>3. <<e>> \in Seq(Range(<<e>>))
      BY OneCall
    <3> QED
      BY <3>2, <3>3
  <2> QED
    BY <2>1, <2>2, <2>3 DEF Calling
<1>3. Log!Next /\ outbox' \in Seq(Range(outbox'))
  BY <1>1, <1>2, EmitLogs DEF LogInv
<1>4. QueueTypeOK' /\ CallsMade'
  BY <1>1, <1>3 DEF LogInv, QueueTypeOK, CallsMade
<1> QED
  BY <1>3, <1>4 DEF LogInv

\* The others make none.  Those that end a part of the handler after which calls
\* follow wait for the earlier ones.
LEMMA OtherLogs ==
  ASSUME LogInv, [Next]_vars, ~Calling
  PROVE  LogInv' /\ [Log!Next]_(Log!vars)
<1>1. CASE EnqueueNext
  <2>1. Enqueue /\ pc' = pc /\ outbox # <<>> /\ redis' = redis
    BY <1>1 DEF EnqueueNext, Enqueue, handlerVars
  <2>2. events' \in Seq(Range(events')) /\ outbox' \in Seq(Range(outbox'))
    BY <2>1, QueueFacts, TailFacts DEF Enqueue, LogInv, QueueTypeOK
  <2>3. QueueTypeOK' /\ CallsMade'
    BY <2>1, <2>2 DEF LogInv, QueueTypeOK, CallsMade
  <2> QED
    BY <2>1, <2>3, EnqueueLogs DEF LogInv
<1>2. CASE Write /\ WriteEvent
  <2>1. WriteEvent /\ pc' = pc /\ outbox' = outbox
    BY <1>2 DEF Write, WriteEvent, handlerVars
  <2>2. events' \in Seq(Range(events'))
    BY <2>1, TailFacts DEF WriteEvent, LogInv, QueueTypeOK
  <2>3. Log!Next /\ redis' \in Seq(Range(redis'))
    BY <2>1, WriteLogs DEF LogInv
  <2>4. QueueTypeOK' /\ CallsMade'
    BY <2>1, <2>2, <2>3 DEF LogInv, QueueTypeOK, CallsMade
  <2> QED
    BY <2>3, <2>4 DEF LogInv
<1>3. CASE UNCHANGED <<events, outbox, redis>>
  <2>1. outbox = <<>> \/ pc' = pc \/ pc' = "refresh"
    BY DEF Next, Tick, Cancel, Connect, Parse, Send, Abort, Leave, Scan, Detect, DetectNothing,
           Approve, Reject, Skip, Hold, Return, Stop, Calling, EnqueueNext, Write, BeginRefresh,
           vars, handlerVars, LogInv, CallsMade
  <2>2. QueueTypeOK' /\ CallsMade'
    BY <1>3, <2>1 DEF LogInv, QueueTypeOK, CallsMade
  <2> QED
    BY <1>3, <2>2 DEF LogInv, Log!vars
<1>4. EnqueueNext \/ (Write /\ WriteEvent) \/ UNCHANGED <<events, outbox, redis>>
  BY DEF Next, Tick, Cancel, Connect, Parse, Send, Abort, Leave, Scan, Detect, DetectNothing,
         Approve, Reject, Skip, Hold, Return, Stop, Calling, Write, CloseWriter, vars, storageVars
<1> QED
  BY <1>1, <1>2, <1>3, <1>4

LEMMA CrashLogs ==
  ASSUME LogInv, Crash
  PROVE  LogInv' /\ Log!Next
<1>1. events' = <<>> /\ outbox' = <<>> /\ redis' = redis
  BY DEF Crash
<1>2. <<>> \in Seq(Range(<<>>)) /\ <<>> \o <<>> = <<>>
  BY EmptySeq, ConcatEmptySeq
<1>3. QueueTypeOK' /\ CallsMade'
  BY <1>1, <1>2 DEF LogInv, QueueTypeOK, CallsMade
<1>4. Log!Crash
  BY <1>1, <1>2 DEF Log!Crash
<1> QED
  BY <1>3, <1>4 DEF LogInv, Log!Next

\* Queue, writer and Redis implement HistoryLog, whatever is dropped, lost, repeated
\* or cut, and over any number of crashes.
THEOREM ImplementsLog == RestartSpec => LogKept
<1>1. LogInv /\ [RestartNext]_vars => LogInv' /\ [Log!Next]_(Log!vars)
  BY CallingLogs, OtherLogs, CrashLogs DEF RestartNext
<1>2. Init => LogInv /\ Log!Init
  BY LogInit
<1> QED
  BY <1>1, <1>2, PTL DEF RestartSpec, LogKept, Log!Spec
=============================================================================
