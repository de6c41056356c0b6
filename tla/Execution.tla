----------------------------- MODULE Execution -----------------------------
(***************************************************************************)
(* Engine.Execute in live mode (internal/execution/engine.go): one         *)
(* goroutine per leg calls PlaceOrder of its connector under a context     *)
(* with a timeout; the engine collects both answers from a buffered        *)
(* channel and only then returns.                                          *)
(*                                                                         *)
(* The connectors are external: those of the repository refuse every order *)
(* (answer an error at once), a trading connector may also place it, and   *)
(* its error does not say that the order was not placed.  An answer        *)
(* without an error counts as an order, whatever status it carries: the    *)
(* code does not look at the status.                                       *)
(***************************************************************************)
EXTENDS Context, Integers, Sequences, FiniteSets

Legs == {"long", "short"}

VARIABLES
  engine,     \* "idle", or "waiting" in the loop over the two answers
  orders,     \* goroutine of each leg: "none", "placing", "accepted" or "failed"
  onExchange, \* legs whose order exists on its exchange
  responses,  \* the channel `responses`
  received,   \* number of answers collected
  result,     \* legs whose OrderResult is in the result
  status,     \* Result.Status
  expired     \* orderCtx has reached its timeout

execVars == <<engine, orders, onExchange, responses, received, result, status, expired>>

ExecInit ==
  /\ engine = "idle" /\ status = "none"
  /\ orders = [leg \in Legs |-> "none"]
  /\ onExchange = {} /\ responses = <<>> /\ received = 0 /\ result = {}
  /\ expired = FALSE

-----------------------------------------------------------------------------
ResponseCap == 2

Submit ==
  /\ engine = "idle"
  /\ engine' = "waiting" /\ status' = "submitted"
  /\ orders' = [leg \in Legs |-> "placing"]
  /\ onExchange' = {} /\ responses' = <<>> /\ received' = 0 /\ result' = {}
  /\ expired' = FALSE

\* The exchange takes the order in; an answer may be lost on the way back, and a
\* request the connector has given up may still arrive.
TakeOrder(leg) ==
  /\ orders[leg] \in {"placing", "failed"}
  /\ leg \notin onExchange
  /\ onExchange' = onExchange \cup {leg}
  /\ UNCHANGED <<engine, orders, responses, received, result, status, expired>>

Answer(leg, ok) ==
  /\ orders[leg] = "placing"
  /\ Len(responses) < ResponseCap
  /\ ok => leg \in onExchange
  /\ orders' = [orders EXCEPT ![leg] = IF ok THEN "accepted" ELSE "failed"]
  /\ responses' = Append(responses, [leg |-> leg, ok |-> ok])
  /\ UNCHANGED <<engine, onExchange, received, result, status, expired>>

\* The timer of orderCtx.
Expire ==
  /\ engine = "waiting" /\ ~expired
  /\ expired' = TRUE
  /\ UNCHANGED <<engine, orders, onExchange, responses, received, result, status>>

\* An order context without a timeout (a broken variant).
CancelledOnly == cancelled

OrderContextDone == expired \/ cancelled

\* A later answer overwrites an earlier failure (a broken variant).
StatusOfLast(ok) == IF ok THEN "submitted" ELSE "needs_reconcile"

StatusAfter(ok) == IF ok THEN status ELSE "needs_reconcile"

Collect ==
  /\ engine = "waiting" /\ received < 2
  /\ responses # <<>>
  /\ LET response == Head(responses)
     IN  /\ status' = StatusAfter(response.ok)
         /\ result' = IF response.ok THEN result \cup {response.leg} ELSE result
  /\ responses' = Tail(responses)
  /\ received' = received + 1
  /\ UNCHANGED <<engine, orders, onExchange, expired>>

\* Waiting for both results or the timeout (a broken variant).
CollectedOrExpired == received = 2 \/ expired

Collected == received = 2

ReturnResult ==
  /\ engine = "waiting" /\ Collected
  /\ engine' = "idle"
  /\ status' = IF status = "submitted" THEN "live_open" ELSE status
  /\ UNCHANGED <<orders, onExchange, responses, received, result, expired>>

ExecNext ==
  \/ Expire \/ Collect \/ ReturnResult
  \/ \E leg \in Legs : TakeOrder(leg) \/ \E ok \in BOOLEAN : Answer(leg, ok)

-----------------------------------------------------------------------------
\* The refinement of OrderPair: an execution is pending while Execute runs; the
\* answers collected so far are not reported yet.
Outcome == IF engine = "waiting" THEN "pending" ELSE status

Reported == IF engine = "waiting" THEN {} ELSE result

Pair == INSTANCE OrderPair WITH outcome <- Outcome, placed <- onExchange, known <- Reported
=============================================================================
