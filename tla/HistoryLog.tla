----------------------------- MODULE HistoryLog -----------------------------
(***************************************************************************)
(* What the history writer promises of the positions, and no more: a log   *)
(* in the order of the records handed over, each written any number of     *)
(* times (none, once, or again after an answer that was lost), which       *)
(* forgets its oldest entries only for newer ones and only beyond a limit, *)
(* and which a crash leaves as it is.                                      *)
(***************************************************************************)
EXTENDS Integers, SequencesExt

CONSTANT Limit   \* entries the log must hold before it forgets one

VARIABLES
  pending,   \* records handed over and not yet tried, oldest first
  saved      \* the log, newest first

vars == <<pending, saved>>

Init == pending = <<>> /\ saved = <<>>

HandOver == IsPrefix(pending, pending') /\ UNCHANGED saved

\* There was no room for a record.
Drop(i) == pending' = RemoveAt(pending, i) /\ UNCHANGED saved

\* n copies of the value, and the newest k entries behind them.
Logged(value, n, k) == [i \in 1..n |-> value] \o SubSeq(saved, 1, k)

Save(n, k) ==
  /\ pending # <<>>
  /\ pending' = Tail(pending)
  /\ Head(pending).type = "position"
  /\ saved' = Logged(Head(pending).value, n, k)
  /\ k = Len(saved) \/ n + k >= Limit

\* The write failed, or the record belongs elsewhere.
Pass == pending # <<>> /\ pending' = Tail(pending) /\ UNCHANGED saved

Crash == pending' = <<>> /\ UNCHANGED saved

Next ==
  \/ HandOver
  \/ \E i \in DOMAIN pending : Drop(i)
  \/ \E n \in 1..Len(saved'), k \in 0..Len(saved) : Save(n, k)
  \/ Pass
  \/ Crash

Spec == Init /\ [][Next]_vars
=============================================================================
