--------------------------- MODULE FundingLedger ---------------------------
(***************************************************************************)
(* What the scanner promises of its positions, whatever the order of the   *)
(* updates and whatever books they bring: a position is opened strictly    *)
(* before its funding instant, on a pair that is free, and is settled when *)
(* the instant has come, never before.                                     *)
(***************************************************************************)
EXTENDS Integers

VARIABLES
  now,    \* wall clock
  held    \* open positions: [pair, openedAt, target]

vars == <<now, held>>

Init == now = 0 /\ held = {}

Advance == now' = now + 1 /\ UNCHANGED held

Open(position) ==
  /\ position.openedAt = now
  /\ now < position.target
  /\ \A other \in held : other.pair # position.pair
  /\ held' = held \cup {position}
  /\ UNCHANGED now

Settle(position) ==
  /\ position.target <= now
  /\ held' = held \ {position}
  /\ UNCHANGED now

Next ==
  \/ Advance
  \/ \E position \in held' : Open(position)
  \/ \E position \in held : Settle(position)

Spec == Init /\ [][Next]_vars
=============================================================================
