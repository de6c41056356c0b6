----------------------------- MODULE OrderPair -----------------------------
(***************************************************************************)
(* What a live execution promises, whatever happens between the engine and *)
(* the two exchanges: the reported outcome never claims an order that does *)
(* not exist, and an order the report does not know of can exist only      *)
(* under the outcome "needs_reconcile".                                    *)
(***************************************************************************)
Legs == {"long", "short"}

VARIABLES
  outcome,   \* "none", "pending" while Execute runs, then what it returned
  placed,    \* legs whose order exists on its exchange
  known      \* legs whose order the returned result holds

vars == <<outcome, placed, known>>

Init == outcome = "none" /\ placed = {} /\ known = {}

Submit ==
  /\ outcome # "pending"
  /\ outcome' = "pending" /\ placed' = {} /\ known' = {}

\* After a network error an order may still be placed, but none that the report
\* counts as answered.
Place(leg) ==
  /\ outcome \in {"pending", "needs_reconcile"}
  /\ leg \notin placed \cup known
  /\ placed' = placed \cup {leg}
  /\ UNCHANGED <<outcome, known>>

Report ==
  /\ outcome = "pending"
  /\ \E legs \in SUBSET placed :
       /\ known' = legs
       /\ outcome' = IF legs = Legs THEN "live_open" ELSE "needs_reconcile"
  /\ UNCHANGED placed

Next == Submit \/ Report \/ \E leg \in Legs : Place(leg)

Spec == Init /\ [][Next]_vars
=============================================================================
