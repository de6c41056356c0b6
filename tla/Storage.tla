------------------------------ MODULE Storage ------------------------------
(***************************************************************************)
(* The history writer (internal/storage/redis.go): a bounded queue filled  *)
(* by the scanner, which never waits for it, and emptied by one goroutine  *)
(* that hands each event to the Redis client once, whatever comes of it.   *)
(*                                                                         *)
(* The calls of Enqueue that a step of the scanner makes stand in `outbox` *)
(* until they are done, one at a time: the writer may take an event        *)
(* between two of them.                                                    *)
(*                                                                         *)
(* Assumed of Redis: a command the client has given up waiting for takes   *)
(* effect before every later command of the writer, or never.              *)
(***************************************************************************)
EXTENDS Integers, Sequences, SequencesExt, FiniteSetsExt

CONSTANTS
  StorageEnabled,   \* cfg.Redis.Enabled
  EventCap,         \* capacity of the channel `events` (4096)
  RedisLimit,       \* cfg.Redis.HistoryLimit
  MaxAttempts       \* attempts of the Redis client at one pipeline (1 + its MaxRetries)

ASSUME StorageAssumption ==
  /\ StorageEnabled \in BOOLEAN
  /\ EventCap \in Nat \ {0}
  /\ RedisLimit \in Nat \ {0}
  /\ MaxAttempts \in Nat \ {0}

VARIABLES
  outbox,    \* Enqueue calls the scanner's current step has still to make
  events,    \* the channel `events`
  redis,     \* the history of positions in Redis, newest first
  writer     \* "up" while Store.Run is in its loop

storageVars == <<outbox, events, redis, writer>>

StorageInit ==
  /\ outbox = <<>>
  /\ events = <<>>
  /\ redis  = <<>>
  /\ writer = "up"

\* Used by the scanner's steps; a disabled store ignores the call.
Emit(calls) == outbox' = IF StorageEnabled THEN calls ELSE <<>>

QueueOrDrop(queue, event) ==
  IF Len(queue) < EventCap THEN Append(queue, event) ELSE queue

Enqueue ==
  /\ outbox # <<>>
  /\ events' = QueueOrDrop(events, Head(outbox))
  /\ outbox' = Tail(outbox)
  /\ UNCHANGED <<redis, writer>>

\* RPUSH in place of LPUSH (a broken variant).
PushedLast(list, value, n) == list \o [i \in 1..n |-> value]

\* pushJSON: LPUSH and LTRIM in one pipeline, which is not a transaction.  Here n
\* attempts have reached Redis.
Pushed(list, value, n) == [i \in 1..n |-> value] \o list

\* LTRIM with the end index off by one (a broken variant).
TrimmedShort(list) == SubSeq(list, 1, Min({Len(list), RedisLimit - 1}))

Trimmed(list) == SubSeq(list, 1, Min({Len(list), RedisLimit}))

\* What an event may leave of a list.  No attempt may have reached Redis (no
\* connection, or OperationTimeout); or n + m have, each pushing the value again
\* because its answer was lost: the n-th may be the last to keep its trim.
Written(list, value) ==
  {list} \cup UNION {{Pushed(l, value, m) : l \in {Pushed(list, value, n), Trimmed(Pushed(list, value, n))},
                                          m \in 0..(MaxAttempts - n)} : n \in 1..MaxAttempts}

\* A failure is only logged.  The opportunities are pushed likewise to a list of
\* their own, and the latest order books to a hash that nothing reads back.
WriteEvent ==
  /\ writer = "up"
  /\ events # <<>>
  /\ events' = Tail(events)
  /\ redis' \in IF Head(events).type = "position"
                THEN Written(redis, Head(events).value) ELSE {redis}
  /\ UNCHANGED <<outbox, writer>>

\* The loop's select may take ctx.Done while events are still queued.
CloseWriter ==
  /\ writer = "up"
  /\ writer' = "down"
  /\ UNCHANGED <<outbox, events, redis>>
=============================================================================
