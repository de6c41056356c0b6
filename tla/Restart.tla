------------------------------ MODULE Restart ------------------------------
(***************************************************************************)
(* Scanner with crashes: the process dies at any moment, any number of     *)
(* times, and is started again (docker-compose.yml, restart:               *)
(* unless-stopped).  What was in memory is gone, Redis is not, and         *)
(* NewRuntime does not read it: the position book starts empty.            *)
(*                                                                         *)
(* Bound of the model: MaxSaved.                                           *)
(***************************************************************************)
EXTENDS MCScanner

CONSTANT MaxSaved   \* no crash while Redis holds more positions

ASSUME RestartAssumption == MaxSaved \in Nat

\* Init, except for what outlives the process.
Crash ==
  /\ Len(redis) <= MaxSaved
  /\ cancelled' = FALSE
  /\ reading' = Exchanges /\ parsed' = {} /\ updates' = <<>>
  /\ books' = {} /\ funding' = {}
  /\ open' = {} /\ history' = <<>> /\ records' = <<>>
  /\ pc' = "idle" /\ update' = None /\ best' = None /\ checkedAt' = 0 /\ todo' = {}
  /\ outbox' = <<>> /\ events' = <<>> /\ writer' = "up"
  /\ UNCHANGED <<clock, redis>>

RestartNext == Crash \/ Next

RestartSpec == Init /\ [][RestartNext]_vars

-----------------------------------------------------------------------------
SavedPair(record) == <<record.id[1], record.id[2], record.id[3]>>

\* No funding instant is credited twice to a pair in the saved history, although a
\* restart forgets the open position and its pair may be opened again at once.
\* (Every closed position is credited: see NeverDeteriorates.)
CreditedOnceInRedis ==
  \A i, j \in DOMAIN redis :
    LET r == redis[i]
        q == redis[j]
    IN  r.status = "closed" /\ q.status = "closed"
          /\ SavedPair(r) = SavedPair(q) /\ r.target = q.target => r = q

\* Queue, writer and Redis seen as one log: what is handed over and not yet tried is
\* the channel, with the calls still to be made behind it.
Log == INSTANCE HistoryLog WITH
         pending <- events \o outbox, saved <- redis, Limit <- RedisLimit

\* Whatever is dropped, lost, repeated or cut on the way and however often the process
\* dies: records are saved in the order of the Enqueue calls, none is made up, and
\* the oldest are forgotten only where HistoryLimit entries remain (pushJSON).
LogKept == Log!Spec
=============================================================================
