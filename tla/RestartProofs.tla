--------------------------- MODULE RestartProofs ---------------------------
(***************************************************************************)
(* What the history saved in Redis can be trusted for, whatever is lost,   *)
(* repeated or cut on the way there, and over any number of crashes.       *)
(***************************************************************************)
EXTENDS Restart, ScannerProofs

-----------------------------------------------------------------------------
(* Records on their way to Redis.                                          *)

SavedRecord ==
  [id : Symbols \X Exchanges \X Exchanges \X Nat, openedAt : Nat, target : Nat,
   status : {"open", "closed"}]

IsEvent(e) == e.type = "position" => e.value \in SavedRecord

Queued(queue) == {e.value : e \in {e \in Range(queue) : e.type = "position"}}

Recorded == Range(redis) \cup Queued(events) \cup Queued(outbox)

ClosedRecords == {r \in Recorded : r.status = "closed"}

\* The record says that a position opened which an earlier one says has closed.
Reopens(later, earlier) ==
  /\ later.id = earlier.id /\ later.openedAt = earlier.openedAt
  /\ later.status = "open" /\ earlier.status = "closed"

-----------------------------------------------------------------------------
(* The invariant.  What makes an open record always the first of its       *)
(* position is the clock: a record is written with the time of opening, by *)
(* then the past of every record that says closed.  What makes a credited  *)
(* instant the only one of its pair is the book: an open position's        *)
(* instant is later than any that its pair has been credited for.          *)

StorageTypeOK ==
  /\ redis \in Seq(SavedRecord)
  /\ events \in Seq(Range(events)) /\ outbox \in Seq(Range(outbox))
  /\ \A e \in Range(events) \cup Range(outbox) : IsEvent(e)

ClosedInThePast ==
  \A r \in ClosedRecords : r.openedAt < r.target /\ r.target <= clock

OpenIsLater ==
  \A r \in ClosedRecords : \A p \in open :
    SavedPair(r) = <<p.symbol, p.long, p.short>> => r.target < p.target

CreditedOnce ==
  \A r, q \in ClosedRecords : SavedPair(r) = SavedPair(q) /\ r.target = q.target => r = q

InOrder ==
  /\ \A i, j \in DOMAIN redis : i < j => ~Reopens(redis[i], redis[j])
  /\ \A r \in Range(redis) : \A s \in Queued(events) \cup Queued(outbox) : ~Reopens(s, r)
  /\ \A i, j \in DOMAIN events :
       i < j /\ events[i].type = "position" /\ events[j].type = "position"
         => ~Reopens(events[j].value, events[i].value)
  /\ \A r \in Queued(events) : \A s \in Queued(outbox) : ~Reopens(s, r)
  /\ \A r, s \in Queued(outbox) : ~Reopens(s, r)

SavedInv ==
  /\ FundingInv /\ StorageTypeOK
  /\ ClosedInThePast /\ OpenIsLater /\ CreditedOnce /\ InOrder

-----------------------------------------------------------------------------
(* Lemmas about the queues.                                                *)

LEMMA RangeFacts ==
  ASSUME NEW S, NEW seq \in Seq(S)
  PROVE  /\ DOMAIN seq = 1..Len(seq) /\ Len(seq) \in Nat
         /\ Range(seq) \subseteq S
         /\ \A i \in DOMAIN seq : seq[i] \in Range(seq)
BY LenProperties DEF Range

\* Taking the head leaves the rest in its order.
LEMMA TailFacts ==
  ASSUME NEW seq, seq \in Seq(Range(seq)), seq # <<>>
  PROVE  /\ Head(seq) \in Range(seq) /\ Head(seq) = seq[1] /\ 1 \in DOMAIN seq
         /\ Tail(seq) \in Seq(Range(Tail(seq)))
         /\ Range(Tail(seq)) \subseteq Range(seq)
         /\ \A i \in DOMAIN Tail(seq) : i \in Nat \ {0} /\ i + 1 \in DOMAIN seq /\ Tail(seq)[i] = seq[i + 1]
<1>1. /\ Head(seq) \in Range(seq) /\ Tail(seq) \in Seq(Range(seq))
      /\ Len(Tail(seq)) = Len(seq) - 1
      /\ \A i \in 1..Len(Tail(seq)) : Tail(seq)[i] = seq[i + 1]
  BY HeadTailProperties
<1>2. /\ DOMAIN seq = 1..Len(seq) /\ Len(seq) \in Nat
      /\ DOMAIN Tail(seq) = 1..Len(Tail(seq)) /\ Len(Tail(seq)) \in Nat
  BY <1>1, LenProperties
<1>3. Range(Tail(seq)) \subseteq Range(seq)
  BY <1>1, RangeOfSeq
<1>4. Tail(seq) \in Seq(Range(Tail(seq)))
  BY <1>1, SeqOfRange
<1> QED
  BY <1>1, <1>2, <1>3, <1>4

\* A queue that takes an event appends it; one that drops it stays as it is.
LEMMA QueueFacts ==
  ASSUME NEW seq, seq \in Seq(Range(seq)), NEW e
  PROVE  LET q == QueueOrDrop(seq, e)
         IN  /\ q \in Seq(Range(q))
             /\ Range(q) \subseteq Range(seq) \cup {e}
             /\ \A i \in DOMAIN q :
                  \/ i \in DOMAIN seq /\ q[i] = seq[i]
                  \/ q[i] = e /\ \A j \in DOMAIN q : j <= i
<1> DEFINE S == Range(seq) \cup {e}
           new == Append(seq, e)
<1>1. seq \in Seq(S) /\ e \in S
  BY SeqMonotonic
<1>2. /\ new \in Seq(S) /\ Len(new) = Len(seq) + 1
      /\ \A i \in 1..Len(seq) : new[i] = seq[i]
      /\ new[Len(seq) + 1] = e
  BY <1>1, AppendProperties
<1>3. /\ Len(seq) \in Nat /\ DOMAIN seq = 1..Len(seq)
      /\ DOMAIN new = 1..(Len(seq) + 1)
      /\ new \in Seq(Range(new)) /\ Range(new) \subseteq S
  BY <1>1, <1>2, LenProperties, SeqOfRange, RangeOfSeq
<1> HIDE DEF new
<1>4. \A i \in DOMAIN new :
        \/ i \in DOMAIN seq /\ new[i] = seq[i]
        \/ new[i] = e /\ \A j \in DOMAIN new : j <= i
  <2> SUFFICES ASSUME NEW i \in 1..(Len(seq) + 1)
               PROVE  \/ i \in DOMAIN seq /\ new[i] = seq[i]
                      \/ new[i] = e /\ \A j \in DOMAIN new : j <= i
    BY <1>3
  <2>1. CASE i \in 1..Len(seq)
    BY <1>2, <1>3, <2>1
  <2>2. CASE i = Len(seq) + 1
    BY <1>2, <1>3, <2>2
  <2> QED
    BY <1>3, <2>1, <2>2
<1> QED
  BY <1>3, <1>4 DEF QueueOrDrop, new

\* r is copies of the new value, then a beginning of the old list.
OnTop(list, v, n, r) ==
  /\ r \in Seq(SavedRecord)
  /\ \A i \in DOMAIN r : IF i <= n THEN r[i] = v ELSE i - n \in DOMAIN list /\ r[i] = list[i - n]

LEMMA AttemptFacts ==
  ASSUME NEW list \in Seq(SavedRecord), NEW v \in SavedRecord, NEW n \in Nat,
         NEW r \in {Pushed(list, v, n), Trimmed(Pushed(list, v, n))}
  PROVE  OnTop(list, v, n, r)
<1> DEFINE copies == [i \in 1..n |-> v]
           all == Pushed(list, v, n)
<1>1. n \in Nat /\ RedisLimit \in Nat
  BY StorageAssumption DEF StorageAssumption
<1>2. copies \in Seq(SavedRecord) /\ Len(copies) = n
  BY <1>1
<1>3. all \in Seq(SavedRecord) /\ Len(all) = n + Len(list) /\ Len(list) \in Nat
  BY <1>2, ConcatProperties, LenProperties DEF Pushed
<1>4. \A i \in 1..(n + Len(list)) : all[i] = IF i <= n THEN v ELSE list[i - n]
  <2>1. \A i \in 1..(n + Len(list)) : all[i] = IF i <= n THEN copies[i] ELSE list[i - n]
    BY <1>2, ConcatProperties DEF Pushed
  <2> QED
    BY <1>1, <1>3, <2>1
<1>5. DOMAIN list = 1..Len(list) /\ DOMAIN all = 1..(n + Len(list))
  BY <1>3, LenProperties
<1> HIDE DEF copies, all
<1>6. CASE r = all
  BY <1>1, <1>3, <1>4, <1>5, <1>6 DEF OnTop
<1>7. CASE r = Trimmed(all)
  <2> DEFINE k == Min({Len(all), RedisLimit})
  <2>1. k \in Nat /\ k <= Len(all)
    <3>1. Len(all) \in Nat /\ Len(all) \in Int /\ RedisLimit \in Int
      BY <1>1, <1>3
    <3>2. k \in {Len(all), RedisLimit} /\ k <= Len(all)
      BY <1>1, <3>1, MinOfTwo
    <3> QED
      BY <1>1, <3>1, <3>2
  <2> HIDE DEF k
  <2>2. \A i \in 1..k : all[i] \in SavedRecord
    BY <1>3, <1>5, <2>1, ElementOfSeq
  <2>3. /\ r = SubSeq(all, 1, k) /\ r \in Seq(SavedRecord)
        /\ Len(r) = k /\ \A i \in 1..k : r[i] = all[i]
    <3>1. r = SubSeq(all, 1, k)
      BY <1>7 DEF Trimmed, k
    <3>2. k \in Int /\ 1 \in Int /\ k - 1 + 1 = k
      BY <2>1
    <3>3. /\ SubSeq(all, 1, k) \in Seq(SavedRecord)
          /\ Len(SubSeq(all, 1, k)) = IF 1 <= k THEN k - 1 + 1 ELSE 0
          /\ \A i \in 1..(k - 1 + 1) : SubSeq(all, 1, k)[i] = all[1 + i - 1]
      BY <2>2, <3>2, SubSeqProperties
    <3> QED
      BY <2>1, <3>1, <3>3
  <2>4. DOMAIN r = 1..k
    BY <2>3, LenProperties
  <2> QED
    BY <1>1, <1>3, <1>4, <1>5, <2>1, <2>3, <2>4 DEF OnTop
<1> QED
  BY <1>6, <1>7 DEF all

LEMMA WrittenFacts ==
  ASSUME NEW list \in Seq(SavedRecord), NEW v \in SavedRecord, NEW r \in Written(list, v)
  PROVE  \E n \in Nat : OnTop(list, v, n, r)
<1>1. CASE r = list
  <2>1. DOMAIN list = 1..Len(list)
    BY LenProperties
  <2>2. \A i \in DOMAIN r : IF i <= 0 THEN r[i] = v ELSE i - 0 \in DOMAIN list /\ r[i] = list[i - 0]
    BY <1>1, <2>1
  <2>3. OnTop(list, v, 0, r)
    BY <1>1, <2>2 DEF OnTop
  <2> QED
    BY <2>3
<1>2. ASSUME NEW n \in 1..MaxAttempts, NEW m \in 0..(MaxAttempts - n),
             NEW l \in {Pushed(list, v, n), Trimmed(Pushed(list, v, n))}, r = Pushed(l, v, m)
      PROVE  OnTop(list, v, m + n, r)
  <2>1. n \in Nat /\ m \in Nat
    BY StorageAssumption DEF StorageAssumption
  <2>2. OnTop(list, v, n, l)
    BY <2>1, AttemptFacts
  <2>3. OnTop(l, v, m, r)
    BY <1>2, <2>1, <2>2, AttemptFacts DEF OnTop
  <2>4. DOMAIN r \subseteq Nat
    BY <2>3, LenProperties DEF OnTop
  <2>5. ASSUME NEW i \in DOMAIN r
        PROVE  IF i <= m + n THEN r[i] = v
               ELSE i - (m + n) \in DOMAIN list /\ r[i] = list[i - (m + n)]
    <3>1. CASE i <= m
      BY <2>1, <2>3, <2>4, <3>1 DEF OnTop
    <3>2. CASE ~(i <= m)
      <4>1. i - m \in DOMAIN l /\ r[i] = l[i - m]
        BY <2>1, <2>3, <3>2 DEF OnTop
      <4>2. i - m <= n <=> i <= m + n
        BY <2>1, <2>4
      <4>3. (i - m) - n = i - (m + n)
        BY <2>1, <2>4
      <4> QED
        BY <2>2, <4>1, <4>2, <4>3 DEF OnTop
    <3> QED
      BY <3>1, <3>2
  <2> QED
    BY <2>3, <2>5 DEF OnTop
<1> QED
  <2>1. \/ r = list
        \/ \E n \in 1..MaxAttempts : \E m \in 0..(MaxAttempts - n) :
             \E l \in {Pushed(list, v, n), Trimmed(Pushed(list, v, n))} : r = Pushed(l, v, m)
    BY DEF Written
  <2>2. \A n \in 1..MaxAttempts : \A m \in 0..(MaxAttempts - n) : m + n \in Nat
    BY StorageAssumption DEF StorageAssumption
  <2> QED
    BY <1>1, <1>2, <2>1, <2>2

-----------------------------------------------------------------------------
(* The steps of the queues.                                                *)

LEMMA RecordedTypes ==
  ASSUME StorageTypeOK
  PROVE  Recorded \subseteq SavedRecord
<1>1. Range(redis) \subseteq SavedRecord
  BY RangeFacts DEF StorageTypeOK
<1>2. Queued(events) \cup Queued(outbox) \subseteq SavedRecord
  BY DEF StorageTypeOK, Queued, IsEvent
<1> QED
  BY <1>1, <1>2 DEF Recorded

\* Handing an event over, or dropping it.
LEMMA EnqueueMoves ==
  ASSUME StorageTypeOK, InOrder, Enqueue
  PROVE  StorageTypeOK' /\ InOrder' /\ Recorded' \subseteq Recorded
<1> DEFINE e == Head(outbox)
<1>1. /\ outbox # <<>> /\ events' = QueueOrDrop(events, e) /\ outbox' = Tail(outbox)
      /\ redis' = redis
  BY DEF Enqueue
<1>2. /\ e \in Range(outbox)
      /\ outbox' \in Seq(Range(outbox')) /\ Range(outbox') \subseteq Range(outbox)
  BY <1>1, TailFacts DEF StorageTypeOK
<1> HIDE DEF e
<1>3. /\ events' \in Seq(Range(events')) /\ Range(events') \subseteq Range(events) \cup {e}
      /\ \A i \in DOMAIN events' :
           \/ i \in DOMAIN events /\ events'[i] = events[i]
           \/ events'[i] = e /\ \A j \in DOMAIN events' : j <= i
  BY <1>1, QueueFacts DEF StorageTypeOK
<1>4. StorageTypeOK'
  BY <1>1, <1>2, <1>3 DEF StorageTypeOK, IsEvent
<1>5. /\ Queued(outbox') \subseteq Queued(outbox)
      /\ Queued(events') \subseteq Queued(events) \cup Queued(outbox)
      /\ e.type = "position" => e.value \in Queued(outbox)
  BY <1>2, <1>3 DEF Queued
<1>6. Recorded' \subseteq Recorded
  BY <1>1, <1>5 DEF Recorded
<1>7. ASSUME NEW i \in DOMAIN events', NEW j \in DOMAIN events', i < j,
             events'[i].type = "position", events'[j].type = "position"
      PROVE  ~Reopens(events'[j].value, events'[i].value)
  <2>1. i \in Nat /\ j \in Nat
    BY <1>3, LenProperties
  <2>2. i \in DOMAIN events /\ events'[i] = events[i]
    BY <1>3, <1>7, <2>1
  <2>3. CASE j \in DOMAIN events /\ events'[j] = events[j]
    BY <1>7, <2>2, <2>3 DEF InOrder
  <2>4. CASE events'[j] = e
    <3>1. events[i].value \in Queued(events)
      BY <1>7, <2>2 DEF Queued, Range
    <3>2. e.value \in Queued(outbox)
      BY <1>5, <1>7, <2>4
    <3> QED
      BY <2>2, <2>4, <3>1, <3>2 DEF InOrder
  <2> QED
    BY <1>3, <2>3, <2>4
<1>8. \A r \in Range(redis') : \A s \in Queued(events') \cup Queued(outbox') : ~Reopens(s, r)
  BY <1>1, <1>5 DEF InOrder
<1>9. /\ \A r \in Queued(events') : \A s \in Queued(outbox') : ~Reopens(s, r)
      /\ \A r, s \in Queued(outbox') : ~Reopens(s, r)
  BY <1>5 DEF InOrder
<1>10. \A i, j \in DOMAIN redis' : i < j => ~Reopens(redis'[i], redis'[j])
  BY <1>1 DEF InOrder
<1>11. InOrder'
  BY <1>7, <1>8, <1>9, <1>10 DEF InOrder, Reopens
<1> QED
  BY <1>4, <1>6, <1>11

\* Writing an event, whatever becomes of it.
LEMMA WriteMoves ==
  ASSUME StorageTypeOK, InOrder, WriteEvent
  PROVE  StorageTypeOK' /\ InOrder' /\ Recorded' \subseteq Recorded
<1> DEFINE e == Head(events)
           v == e.value
<1>1. /\ events # <<>> /\ events' = Tail(events) /\ outbox' = outbox
      /\ redis' \in IF e.type = "position" THEN Written(redis, v) ELSE {redis}
  BY DEF WriteEvent
<1>2. /\ e \in Range(events) /\ e = events[1] /\ 1 \in DOMAIN events
      /\ events' \in Seq(Range(events')) /\ Range(events') \subseteq Range(events)
      /\ \A i \in DOMAIN events' : i \in Nat \ {0} /\ i + 1 \in DOMAIN events /\ events'[i] = events[i + 1]
  BY <1>1, TailFacts DEF StorageTypeOK
<1>3. /\ Queued(events') \subseteq Queued(events)
      /\ e.type = "position" => v \in Queued(events) /\ v \in SavedRecord
  BY <1>2 DEF Queued, StorageTypeOK, IsEvent
<1> HIDE DEF e
<1>4. PICK n \in Nat :
        /\ redis' \in Seq(SavedRecord)
        /\ e.type # "position" => n = 0
        /\ \A i \in DOMAIN redis' :
             IF i <= n THEN redis'[i] = v ELSE i - n \in DOMAIN redis /\ redis'[i] = redis[i - n]
  <2>1. CASE e.type = "position"
    BY <1>1, <1>3, <2>1, WrittenFacts DEF StorageTypeOK, OnTop
  <2>2. CASE e.type # "position"
    <3>1. redis' = redis /\ redis \in Seq(SavedRecord)
      BY <1>1, <2>2 DEF StorageTypeOK
    <3>2. DOMAIN redis = 1..Len(redis)
      BY <3>1, LenProperties
    <3>3. \A i \in DOMAIN redis' :
             IF i <= 0 THEN redis'[i] = v ELSE i - 0 \in DOMAIN redis /\ redis'[i] = redis[i - 0]
      BY <3>1, <3>2
    <3> QED
      BY <2>2, <3>1, <3>3
  <2> QED
    BY <2>1, <2>2
<1>5. DOMAIN redis' \subseteq Nat \ {0}
  BY <1>4, LenProperties
<1> HIDE DEF v
<1>6. Range(redis') \subseteq Range(redis) \cup Queued(events)
  <2> SUFFICES ASSUME NEW i \in DOMAIN redis'
               PROVE  redis'[i] \in Range(redis) \cup Queued(events)
    BY DEF Range
  <2>1. CASE i <= n
    BY <1>3, <1>4, <1>5, <2>1
  <2>2. CASE ~(i <= n)
    BY <1>4, <2>2 DEF Range
  <2> QED
    BY <2>1, <2>2
<1>7. Recorded' \subseteq Recorded
  BY <1>1, <1>3, <1>6 DEF Recorded
<1>8. StorageTypeOK'
  BY <1>1, <1>2, <1>4 DEF StorageTypeOK, IsEvent
<1>9. ASSUME NEW i \in DOMAIN redis', NEW j \in DOMAIN redis', i < j
      PROVE  ~Reopens(redis'[i], redis'[j])
  <2>1. i \in Nat /\ j \in Nat
    BY <1>5
  <2>2. CASE j <= n
    BY <1>4, <1>9, <2>1, <2>2 DEF Reopens
  <2>3. CASE i <= n /\ n < j
    <3>1. redis'[i] = v /\ redis'[j] = redis[j - n] /\ j - n \in DOMAIN redis /\ v \in Queued(events)
      BY <1>3, <1>4, <1>5, <2>1, <2>3
    <3> QED
      BY <3>1 DEF InOrder, Range
  <2>4. CASE n < i
    <3>1. /\ redis'[i] = redis[i - n] /\ i - n \in DOMAIN redis
          /\ redis'[j] = redis[j - n] /\ j - n \in DOMAIN redis
          /\ i - n < j - n
      BY <1>4, <1>9, <2>1, <2>4
    <3> QED
      BY <3>1 DEF InOrder
  <2> QED
    BY <2>1, <2>2, <2>3, <2>4
<1>10. ASSUME NEW r \in Range(redis'), NEW s \in Queued(events') \cup Queued(outbox')
       PROVE  ~Reopens(s, r)
  <2>1. CASE r \in Range(redis)
    BY <1>1, <1>3, <2>1 DEF InOrder
  <2>2. CASE r \notin Range(redis)
    <3>1. PICK i \in DOMAIN redis' : r = redis'[i]
      BY DEF Range
    <3>2. i <= n /\ r = v
      BY <1>4, <2>2, <3>1 DEF Range
    <3>3. e.type = "position" /\ v \in Queued(events)
      BY <1>3, <1>4, <1>5, <3>2
    <3>4. CASE s \in Queued(outbox')
      BY <1>1, <3>2, <3>3, <3>4 DEF InOrder
    <3>5. CASE s \in Queued(events')
      <4>1. PICK k \in DOMAIN events' : events'[k].type = "position" /\ s = events'[k].value
        BY <3>5 DEF Queued, Range
      <4>2. /\ k + 1 \in DOMAIN events /\ events[k + 1].type = "position"
            /\ s = events[k + 1].value /\ 1 < k + 1
        BY <1>2, <4>1
      <4>3. events[1].type = "position" /\ r = events[1].value
        BY <1>2, <3>2, <3>3 DEF v
      <4> QED
        BY <1>2, <4>2, <4>3 DEF InOrder
    <3> QED
      BY <3>4, <3>5
  <2> QED
    BY <2>1, <2>2
<1>11. ASSUME NEW i \in DOMAIN events', NEW j \in DOMAIN events', i < j,
              events'[i].type = "position", events'[j].type = "position"
       PROVE  ~Reopens(events'[j].value, events'[i].value)
  <2>1. i + 1 \in DOMAIN events /\ j + 1 \in DOMAIN events /\ i + 1 < j + 1
    BY <1>2, <1>11
  <2>2. events'[i] = events[i + 1] /\ events'[j] = events[j + 1]
    BY <1>2
  <2> QED
    BY <1>11, <2>1, <2>2 DEF InOrder
<1>12. /\ \A r \in Queued(events') : \A s \in Queued(outbox') : ~Reopens(s, r)
       /\ \A r, s \in Queued(outbox') : ~Reopens(s, r)
  BY <1>1, <1>3 DEF InOrder
<1>13. InOrder'
  BY <1>9, <1>10, <1>11, <1>12 DEF InOrder, Reopens
<1> QED
  BY <1>7, <1>8, <1>13

\* The scanner's own calls: whatever was still in the outbox is replaced.
LEMMA EmitMoves ==
  ASSUME StorageTypeOK, InOrder, UNCHANGED <<redis, events>>,
         NEW calls, calls \in Seq(Range(calls)), Emit(calls),
         \A e \in Range(calls) : IsEvent(e),
         \A s \in Queued(calls) :
           \A r \in Range(redis) \cup Queued(events) \cup Queued(calls) : ~Reopens(s, r)
  PROVE  /\ StorageTypeOK' /\ InOrder'
         /\ Recorded' \subseteq Recorded \cup Queued(calls)
<1>1. <<>> \in Seq(Range(<<>>)) /\ Range(<<>>) = {}
  BY EmptySeq DEF Range
<1>2. Queued(<<>>) = {}
  BY <1>1 DEF Queued
<1>3. outbox' \in {calls, <<>>}
  BY DEF Emit
<1>4. /\ outbox' \in Seq(Range(outbox')) /\ Range(outbox') \subseteq Range(calls)
      /\ Queued(outbox') \subseteq Queued(calls)
  BY <1>1, <1>2, <1>3
<1>5. StorageTypeOK'
  BY <1>4 DEF StorageTypeOK, IsEvent
<1>6. InOrder'
  BY <1>4 DEF InOrder, Reopens
<1> QED
  BY <1>4, <1>5, <1>6 DEF Recorded

\* What becomes of the records themselves if none is new and no position either.
LEMMA NothingRecorded ==
  ASSUME StorageTypeOK, ClosedInThePast, OpenIsLater, CreditedOnce,
         Recorded' \subseteq Recorded, clock \in Nat, clock' \in Nat, clock <= clock',
         \A p \in open' : \E q \in open : SamePair(p, q) /\ p.target = q.target
  PROVE  ClosedInThePast' /\ OpenIsLater' /\ CreditedOnce'
<1>1. ClosedRecords' \subseteq ClosedRecords
  BY DEF ClosedRecords
<1>2. \A r \in ClosedRecords : r.target \in Nat
  BY RecordedTypes DEF ClosedRecords, SavedRecord
<1>3. ClosedInThePast'
  BY <1>1, <1>2 DEF ClosedInThePast
<1>4. OpenIsLater'
  <2> SUFFICES ASSUME NEW r \in ClosedRecords', NEW p \in open',
                      SavedPair(r) = <<p.symbol, p.long, p.short>>
               PROVE  r.target < p.target
    BY DEF OpenIsLater, SavedPair
  <2>1. PICK q \in open : SamePair(p, q) /\ p.target = q.target
    OBVIOUS
  <2> QED
    BY <1>1, <2>1 DEF OpenIsLater, SamePair
<1>5. CreditedOnce'
  BY <1>1 DEF CreditedOnce, SavedPair
<1> QED
  BY <1>3, <1>4, <1>5

-----------------------------------------------------------------------------
(* The steps of the scanner, and crashes.                                  *)

LEMMA PositionSaved ==
  ASSUME NEW p, IsPosition(p), NEW status \in {"open", "closed"}
  PROVE  Saved(p, status) \in SavedRecord
BY DEF IsPosition, Saved, SavedRecord

\* A queue of at most one record: the other events are of opportunities.
LEMMA QueuedOne ==
  ASSUME NEW queue, NEW v, NEW id, v \in SavedRecord,
         \/ Range(queue) = {[type |-> "position", value |-> v]}
         \/ Range(queue) = {[type |-> "opportunity", value |-> id], [type |-> "position", value |-> v]}
  PROVE  (\A e \in Range(queue) : IsEvent(e)) /\ Queued(queue) = {v}
<1> DEFINE e1 == [type |-> "opportunity", value |-> id]
           e2 == [type |-> "position", value |-> v]
<1>1. e1.type # "position" /\ e2.type = "position" /\ e2.value = v
  OBVIOUS
<1>2. Range(queue) = {e2} \/ Range(queue) = {e1, e2}
  OBVIOUS
<1> HIDE DEF e1, e2
<1>3. \A e \in Range(queue) : IsEvent(e)
  BY <1>1, <1>2 DEF IsEvent
<1>4. {e \in Range(queue) : e.type = "position"} = {e2}
  BY <1>1, <1>2
<1>5. Queued(queue) = {e.value : e \in {e2}}
  BY <1>4 DEF Queued
<1> QED
  BY <1>1, <1>3, <1>5

\* A position that is opened now has not been closed before.
LEMMA ExecuteRecords ==
  ASSUME MarginCoversPause, SavedInv, Execute
  PROVE  StorageTypeOK' /\ InOrder' /\ ClosedInThePast' /\ OpenIsLater' /\ CreditedOnce'
<1> DEFINE n == NewPosition(best, clock)
           v == Saved(n, "open")
           calls == <<[type |-> "opportunity", value |-> n.id], PositionEvent(n, "open")>>
<1>1. /\ open' = Put(open, n) /\ Emit(calls) /\ pc = "execute"
      /\ UNCHANGED <<clock, redis, events>>
  BY DEF Execute, envVars
<1>2. /\ StorageTypeOK /\ InOrder /\ ClosedInThePast /\ OpenIsLater /\ CreditedOnce
      /\ FundingInv /\ clock \in Nat /\ IsOpportunity(best)
  BY <1>1 DEF SavedInv, FundingInv, BookInv, TypeOK, FeedTypeOK, HandlerTypeOK
<1>3. IsPosition(n) /\ n.openedAt = clock /\ n.target = best.target
  BY <1>2 DEF NewPosition, OpportunityID, IsPosition, IsOpportunity
<1>4. clock < n.target /\ n.target \in Nat
  BY <1>2, <1>3, OpenedInTime DEF IsPosition
<1>5. v \in SavedRecord /\ v.openedAt = clock /\ v.status = "open"
  BY <1>3, PositionSaved DEF Saved
<1>6. /\ calls \in Seq(Range(calls))
      /\ Range(calls) = {[type |-> "opportunity", value |-> n.id], [type |-> "position", value |-> v]}
  <2>1. calls = <<[type |-> "opportunity", value |-> n.id], [type |-> "position", value |-> v]>>
    BY DEF PositionEvent
  <2> HIDE DEF v, n
  <2>2. DOMAIN calls = {1, 2} /\ Len(calls) = 2
    BY <2>1
  <2>3. Range(calls) = {calls[1], calls[2]}
    BY <2>2 DEF Range
  <2> QED
    BY <2>1, <2>2, <2>3
<1> HIDE DEF v, n, calls
<1>7. (\A e \in Range(calls) : IsEvent(e)) /\ Queued(calls) = {v}
  BY <1>5, <1>6, QueuedOne
<1>8. \A r \in ClosedRecords : r.openedAt \in Nat /\ r.target \in Nat
  BY <1>2, RecordedTypes DEF ClosedRecords, SavedRecord
<1>9. ~Reopens(v, v) /\ \A r \in Recorded : ~Reopens(v, r)
  <2>1. \A r \in ClosedRecords : r.openedAt < clock
    BY <1>2, <1>8 DEF ClosedInThePast
  <2>2. ~Reopens(v, v)
    BY <1>5 DEF Reopens
  <2> QED
    BY <1>2, <1>5, <2>1, <2>2 DEF Reopens, ClosedRecords
<1>10. /\ StorageTypeOK' /\ InOrder'
       /\ Recorded' \subseteq Recorded \cup {v}
  BY <1>1, <1>2, <1>6, <1>7, <1>9, EmitMoves DEF Recorded
<1>11. ClosedRecords' \subseteq ClosedRecords
  BY <1>5, <1>10 DEF ClosedRecords
<1>12. ClosedInThePast' /\ CreditedOnce'
  BY <1>1, <1>2, <1>11 DEF ClosedInThePast, CreditedOnce, SavedPair
<1>13. OpenIsLater'
  <2>1. open' \subseteq open \cup {n}
    BY <1>1 DEF Put
  <2>2. \A r \in ClosedRecords : r.target < n.target
    BY <1>2, <1>4, <1>8 DEF ClosedInThePast
  <2> QED
    BY <1>2, <1>11, <2>1, <2>2 DEF OpenIsLater, SavedPair
<1> QED
  BY <1>10, <1>12, <1>13

\* The instant of a position that is closed now has not been credited before.
LEMMA CloseRecords ==
  ASSUME HoldCoversFunding, SavedInv, NEW p \in todo, Close(p)
  PROVE  StorageTypeOK' /\ InOrder' /\ ClosedInThePast' /\ OpenIsLater' /\ CreditedOnce'
<1> DEFINE v == Saved(p, "closed")
           calls == <<PositionEvent(p, "closed")>>
<1>1. /\ open' = {q \in open : q.id # p.id} /\ Emit(calls)
      /\ UNCHANGED <<clock, redis, events>>
  BY DEF Close, envVars
<1>2. /\ StorageTypeOK /\ InOrder /\ ClosedInThePast /\ OpenIsLater /\ CreditedOnce
      /\ FundingInv /\ BookInv /\ clock \in Nat /\ p \in open /\ IsPosition(p)
  BY DEF SavedInv, FundingInv, BookInv, TypeOK, FeedTypeOK, LedgerTypeOK
<1>3. p.openedAt < p.target /\ p.target <= clock
  <2>1. p.openedAt < p.target
    BY <1>2 DEF FundingInv, OpenTimesOK
  <2>2. p.target <= update.at /\ update.at <= clock
    BY <1>2, ClosedInTime
  <2>3. update.at \in Nat /\ p.target \in Nat
    BY <1>2 DEF Close, BookInv, TypeOK, HandlerTypeOK, OrderBookSnapshot, IsPosition
  <2> QED
    BY <1>2, <2>1, <2>2, <2>3
<1>4. /\ v \in SavedRecord /\ v.status = "closed"
      /\ v.id = p.id /\ v.openedAt = p.openedAt /\ v.target = p.target
  BY <1>2, PositionSaved DEF Saved
<1>5. SavedPair(v) = <<p.symbol, p.long, p.short>>
  BY <1>2, <1>4 DEF SavedPair, BookInv, OpenOK
<1>6. /\ calls \in Seq(Range(calls))
      /\ Range(calls) = {[type |-> "position", value |-> v]}
  <2>1. calls = <<[type |-> "position", value |-> v]>>
    BY DEF PositionEvent
  <2> HIDE DEF v
  <2>2. DOMAIN calls = {1} /\ Len(calls) = 1
    BY <2>1
  <2>3. Range(calls) = {calls[1]}
    BY <2>2 DEF Range
  <2> QED
    BY <2>1, <2>2, <2>3
<1> HIDE DEF v, calls
<1>7. (\A e \in Range(calls) : IsEvent(e)) /\ Queued(calls) = {v}
  BY <1>4, <1>6, QueuedOne
<1>8. \A r : ~Reopens(v, r)
  BY <1>4 DEF Reopens
<1>9. /\ StorageTypeOK' /\ InOrder'
      /\ Recorded' \subseteq Recorded \cup {v}
  BY <1>1, <1>2, <1>6, <1>7, <1>8, EmitMoves
<1>10. ClosedRecords' \subseteq ClosedRecords \cup {v}
  BY <1>9 DEF ClosedRecords
<1>11. ClosedInThePast'
  BY <1>1, <1>2, <1>3, <1>4, <1>10 DEF ClosedInThePast
<1>12. OpenIsLater'
  <2>1. \A q \in open' : q \in open /\ SavedPair(v) # <<q.symbol, q.long, q.short>>
    BY <1>1, <1>2, <1>5 DEF BookInv, OnePositionPerPair, SamePair
  <2> QED
    BY <1>2, <1>10, <2>1 DEF OpenIsLater, SavedPair
<1>13. CreditedOnce'
  <2>1. \A r \in ClosedRecords : r.target \in Nat
    BY <1>2, RecordedTypes DEF ClosedRecords, SavedRecord
  <2>2. \A r \in ClosedRecords : SavedPair(r) = SavedPair(v) => r.target < v.target
    BY <1>2, <1>4, <1>5 DEF OpenIsLater
  <2>3. v.target \in Nat
    BY <1>4 DEF SavedRecord
  <2>4. \A r \in ClosedRecords : SavedPair(r) = SavedPair(v) => r.target # v.target
    BY <2>1, <2>2, <2>3
  <2> QED
    BY <1>2, <1>10, <2>4 DEF CreditedOnce, SavedPair
<1> QED
  BY <1>9, <1>11, <1>12, <1>13

\* The other steps record nothing, but for the order book of Receive, which nothing
\* reads back.
LEMMA QuietRecords ==
  ASSUME SavedInv, [Next]_vars, ~Execute, \A p \in todo : ~Close(p)
  PROVE  StorageTypeOK' /\ InOrder' /\ ClosedInThePast' /\ OpenIsLater' /\ CreditedOnce'
<1>0. /\ StorageTypeOK /\ InOrder /\ ClosedInThePast /\ OpenIsLater /\ CreditedOnce
      /\ FundingInv /\ BookInv /\ clock \in Nat
  BY DEF SavedInv, FundingInv, BookInv, TypeOK, FeedTypeOK
<1>1. clock' \in Nat /\ clock <= clock'
  <2>1. clock' = clock \/ clock' = clock + 1
    BY DEF Next, Tick, Cancel, Connect, Parse, Send, Abort, Leave, Scan, Receive, Detect,
           DetectNothing, Approve, Reject, Skip, Hold, Return, Stop, EnqueueNext, Write, vars, envVars
  <2> QED
    BY <1>0, <2>1
<1>2. \A p \in open' : \E q \in open : SamePair(p, q) /\ p.target = q.target
  <2>1. ASSUME NEW p \in todo, Hold(p)
        PROVE  \A q \in open' : \E r \in open : SamePair(q, r) /\ q.target = r.target
    <3> DEFINE m == [p EXCEPT !.unrealized = Unrealized(p)]
    <3>1. p \in open /\ IsPosition(p) /\ open' = Put(open, m)
      BY <1>0, <2>1 DEF Hold, BookInv, TypeOK, LedgerTypeOK
    <3>2. m.symbol = p.symbol /\ m.long = p.long /\ m.short = p.short /\ m.target = p.target
      BY <3>1, MarkedFacts
    <3> HIDE DEF m
    <3> QED
      BY <3>1, <3>2 DEF Put, SamePair
  <2>2. CASE open' = open
    BY <2>2 DEF SamePair
  <2>3. open' = open \/ \E p \in todo : Hold(p)
    BY DEF Next, Tick, Cancel, Connect, Parse, Send, Abort, Leave, Scan, Receive, Detect,
           DetectNothing, Approve, Reject, Skip, Return, Stop, EnqueueNext, Write, vars, ledgerVars
  <2> QED
    BY <2>1, <2>2, <2>3
<1>3. CASE Receive
  <2> DEFINE calls == <<[type |-> "orderbook", value |-> Head(updates)]>>
  <2>1. Emit(calls) /\ UNCHANGED <<redis, events>>
    BY <1>3 DEF Receive
  <2>2. DOMAIN calls = {1} /\ Len(calls) = 1 /\ calls[1].type = "orderbook"
    OBVIOUS
  <2>3. Range(calls) = {calls[1]} /\ calls \in Seq(Range(calls))
    BY <2>2 DEF Range
  <2> HIDE DEF calls
  <2>4. (\A e \in Range(calls) : IsEvent(e)) /\ Queued(calls) = {}
    BY <2>2, <2>3 DEF IsEvent, Queued
  <2>5. StorageTypeOK' /\ InOrder' /\ Recorded' \subseteq Recorded
    BY <1>0, <2>1, <2>3, <2>4, EmitMoves
  <2> QED
    BY <1>0, <1>1, <1>2, <2>5, NothingRecorded
<1>4. CASE EnqueueNext
  <2>1. StorageTypeOK' /\ InOrder' /\ Recorded' \subseteq Recorded
    BY <1>0, <1>4, EnqueueMoves DEF EnqueueNext
  <2> QED
    BY <1>0, <1>1, <1>2, <2>1, NothingRecorded
<1>5. CASE Write /\ WriteEvent
  <2>1. StorageTypeOK' /\ InOrder' /\ Recorded' \subseteq Recorded
    BY <1>0, <1>5, WriteMoves
  <2> QED
    BY <1>0, <1>1, <1>2, <2>1, NothingRecorded
<1>6. CASE UNCHANGED <<redis, events, outbox>>
  <2>1. StorageTypeOK' /\ InOrder' /\ Recorded' \subseteq Recorded
    BY <1>0, <1>6 DEF StorageTypeOK, IsEvent, InOrder, Reopens, Queued, Recorded
  <2> QED
    BY <1>0, <1>1, <1>2, <2>1, NothingRecorded
<1>7. Receive \/ EnqueueNext \/ (Write /\ WriteEvent) \/ UNCHANGED <<redis, events, outbox>>
  BY DEF Next, Tick, Cancel, Connect, Parse, Send, Abort, Leave, Scan, Detect, DetectNothing,
         Approve, Reject, Skip, Hold, Return, Stop, Write, CloseWriter, vars, storageVars
<1> QED
  BY <1>3, <1>4, <1>5, <1>6, <1>7

\* A crash forgets the positions and what was queued; only Redis and the clock go on.
LEMMA CrashRecords ==
  ASSUME SavedInv, Crash
  PROVE  SavedInv'
<1>1. <<>> \in Seq(Range(<<>>)) /\ <<>> \in Seq(OrderBookSnapshot) /\ DOMAIN <<>> = {}
      /\ Range(<<>>) = {}
  BY EmptySeq DEF Range
<1>2. /\ StorageTypeOK /\ InOrder /\ ClosedInThePast /\ OpenIsLater /\ CreditedOnce
      /\ clock \in Nat
  BY DEF SavedInv, FundingInv, BookInv, TypeOK, FeedTypeOK
<1>3. /\ UNCHANGED <<clock, redis>>
      /\ open' = {} /\ todo' = {} /\ books' = {} /\ funding' = {} /\ parsed' = {}
      /\ updates' = <<>> /\ history' = <<>> /\ events' = <<>> /\ outbox' = <<>>
      /\ pc' = "idle" /\ checkedAt' = 0 /\ cancelled' = FALSE /\ reading' = Exchanges
  BY DEF Crash
<1>4. TypeOK'
  BY <1>1, <1>2, <1>3 DEF TypeOK, FeedTypeOK, LedgerTypeOK, HandlerTypeOK
<1>5. BookInv'
  BY <1>1, <1>3, <1>4 DEF BookInv, RatesAreSynthetic, CandidateOK, OpenOK, OnePositionPerPair,
                          NeverDeteriorates
<1>6. FundingInv'
  BY <1>1, <1>3, <1>5 DEF FundingInv, StampsArePast, TargetOK, OpenTimesOK, HistoryTimesOK,
                          EachFundingOnce
<1>7. StorageTypeOK'
  BY <1>1, <1>2, <1>3 DEF StorageTypeOK, IsEvent
<1>8. Queued(events)' = {} /\ Queued(outbox)' = {}
  BY <1>1, <1>3 DEF Queued
<1>9. InOrder'
  BY <1>1, <1>2, <1>3, <1>8 DEF InOrder, Reopens
<1>10. Recorded' \subseteq Recorded
  BY <1>3, <1>8 DEF Recorded
<1>11. ClosedInThePast' /\ OpenIsLater' /\ CreditedOnce'
  BY <1>2, <1>3, <1>10, NothingRecorded
<1> QED
  BY <1>6, <1>7, <1>9, <1>11 DEF SavedInv

LEMMA SavedInit == Init => SavedInv
<1> SUFFICES ASSUME Init PROVE SavedInv
  OBVIOUS
<1>1. <<>> \in Seq(Range(<<>>)) /\ <<>> \in Seq(SavedRecord) /\ DOMAIN <<>> = {} /\ Range(<<>>) = {}
  BY EmptySeq DEF Range
<1>2. redis = <<>> /\ events = <<>> /\ outbox = <<>>
  BY DEF Init, StorageInit
<1>3. Queued(<<>>) = {}
  BY <1>1 DEF Queued
<1>4. StorageTypeOK /\ InOrder
  BY <1>1, <1>2, <1>3 DEF StorageTypeOK, InOrder
<1>5. ClosedRecords = {}
  BY <1>1, <1>2, <1>3 DEF ClosedRecords, Recorded
<1> QED
  BY <1>4, <1>5, FundingInit DEF SavedInv, ClosedInThePast, OpenIsLater, CreditedOnce

LEMMA SavedStep ==
  ASSUME HoldCoversFunding, MarginCoversPause, SavedInv, [Next]_vars
  PROVE  SavedInv'
<1>1. FundingInv'
  <2>1. BookInv'
    BY BookStep DEF SavedInv, FundingInv
  <2> QED
    BY <2>1, StampsStep, TargetStep, LedgerStep DEF SavedInv, FundingInv
<1>2. StorageTypeOK' /\ InOrder' /\ ClosedInThePast' /\ OpenIsLater' /\ CreditedOnce'
  BY ExecuteRecords, CloseRecords, QuietRecords
<1> QED
  BY <1>1, <1>2 DEF SavedInv

LEMMA SavedInvariant ==
  ASSUME HoldCoversFunding, MarginCoversPause
  PROVE  RestartSpec => []SavedInv
<1>1. SavedInv /\ [RestartNext]_vars => SavedInv'
  BY SavedStep, CrashRecords DEF RestartNext
<1> QED
  BY <1>1, SavedInit, PTL DEF RestartSpec

\* Over drops, lost and repeated writes, lost trims and crashes, the saved history of
\* a position never says that it opened after it closed.
THEOREM HistoryIsInOrder ==
  ASSUME HoldCoversFunding, MarginCoversPause
  PROVE  RestartSpec => []SavedInOrder
<1>1. SavedInv => SavedInOrder
  BY DEF SavedInv, InOrder, Reopens, SavedInOrder
<1> QED
  BY <1>1, SavedInvariant, PTL

\* Over the same faults no funding instant is credited twice to a pair in the saved
\* history, although a crash forgets which positions are open.
THEOREM HistoryCreditsOnce ==
  ASSUME HoldCoversFunding, MarginCoversPause
  PROVE  RestartSpec => []CreditedOnceInRedis
<1>1. SavedInv => CreditedOnceInRedis
  <2> SUFFICES ASSUME SavedInv PROVE CreditedOnceInRedis
    OBVIOUS
  <2>1. \A i \in DOMAIN redis : redis[i].status = "closed" => redis[i] \in ClosedRecords
    BY DEF ClosedRecords, Recorded, Range
  <2> QED
    BY <2>1 DEF SavedInv, CreditedOnce, CreditedOnceInRedis
<1> QED
  BY <1>1, SavedInvariant, PTL
=============================================================================
