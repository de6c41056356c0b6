------------------------------ MODULE Runtime ------------------------------
(***************************************************************************)
(* Runtime.Run (internal/app/runtime.go): the goroutines it starts, what   *)
(* they wait for, and the way it stops.  Composes Connectors and Execution *)
(* over one context and one channel; the scanner is reduced to the calls   *)
(* that may block it, the storage writer and the admin server to what Run  *)
(* waits for.                                                              *)
(***************************************************************************)
EXTENDS Connectors, Execution

CONSTANTS
  Mode,             \* cfg.Trading.Mode
  Silent,           \* exchanges that may stop sending without closing
  HonoursContext    \* PlaceOrder returns once its context is done

ASSUME RuntimeAssumption ==
  /\ Mode \in {"analysis", "paper", "live"}
  /\ Silent \subseteq Exchanges
  /\ HonoursContext \in BOOLEAN

VARIABLES
  scanner,   \* runScanner: "idle", "handling", "executing" or "stopped"
  writer,    \* storage.Run: "up" or "down"
  api,       \* ListenAndServe: "listening" or "closed"
  main       \* Run itself: "waiting", "shutdown", "joining" or "returned"

runVars == <<scanner, writer, api, main>>
vars    == <<cancelled, connVars, execVars, runVars>>

Init ==
  /\ ContextInit /\ ConnInit /\ ExecInit
  /\ scanner = "idle" /\ writer = "up" /\ api = "listening" /\ main = "waiting"

-----------------------------------------------------------------------------
(* The scanner's goroutine.                                                *)

ScannerGoes(to) == scanner' = to /\ UNCHANGED <<writer, api, main>>

Take ==
  /\ scanner = "idle"
  /\ queued > 0 /\ queued' = queued - 1
  /\ ScannerGoes("handling")
  /\ UNCHANGED <<cancelled, phase, execVars>>

\* Nothing to trade, a trade on paper, or a rejection.
Handled ==
  /\ scanner = "handling"
  /\ ScannerGoes("idle")
  /\ UNCHANGED <<cancelled, connVars, execVars>>

\* The risk engine refuses once the context is cancelled; it may be cancelled
\* between the risk check and the execution all the same.
Trade ==
  /\ scanner = "handling"
  /\ Mode = "live"
  /\ Submit
  /\ ScannerGoes("executing")
  /\ UNCHANGED <<cancelled, connVars>>

Executed ==
  /\ scanner = "executing"
  /\ engine = "idle"
  /\ ScannerGoes("idle")
  /\ UNCHANGED <<cancelled, connVars, execVars>>

StopScanner ==
  /\ scanner = "idle" /\ cancelled
  /\ ScannerGoes("stopped")
  /\ UNCHANGED <<cancelled, connVars, execVars>>

Scan == Take \/ Handled \/ Trade \/ Executed \/ StopScanner

-----------------------------------------------------------------------------
(* The other goroutines and Run.                                           *)

StopWriter ==
  /\ writer = "up" /\ cancelled
  /\ writer' = "down"
  /\ UNCHANGED <<cancelled, connVars, execVars, scanner, api, main>>

Signal ==
  /\ ~cancelled
  /\ CancelContext
  /\ UNCHANGED <<connVars, execVars, runVars>>

\* ListenAndServe fails, for one because the address is in use.
ApiFails ==
  /\ api = "listening" /\ main = "waiting"
  /\ api' = "closed"
  /\ CancelContext
  /\ UNCHANGED <<connVars, execVars, scanner, writer, main>>

MainGoes(from, to) ==
  /\ main = from
  /\ main' = to
  /\ UNCHANGED <<cancelled, connVars, execVars, scanner, writer, api>>

BeginShutdown == cancelled /\ MainGoes("waiting", "shutdown")

\* Shutdown closes the listeners first, and with them ends ListenAndServe.
ApiCloses ==
  /\ api = "listening" /\ main \in {"shutdown", "joining"}
  /\ api' = "closed"
  /\ UNCHANGED <<cancelled, connVars, execVars, scanner, writer, main>>

\* All requests are answered, or two seconds have passed.
EndShutdown == MainGoes("shutdown", "joining")

\* wg.Wait
Running ==
  {x \in Exchanges : phase[x] # "left"}
    \cup {g \in {"scanner"} : scanner # "stopped"}
    \cup {g \in {"writer"} : writer = "up"}
    \cup {g \in {"api"} : api = "listening"}

Return == Running = {} /\ MainGoes("joining", "returned")

Main == BeginShutdown \/ EndShutdown \/ Return

Next ==
  \/ \E x \in Exchanges : ConnNext(x) /\ UNCHANGED <<cancelled, execVars, runVars>>
  \/ ExecNext /\ UNCHANGED <<cancelled, connVars, runVars>>
  \/ Scan
  \/ StopWriter \/ Signal \/ ApiFails \/ ApiCloses \/ Main

Spec == Init /\ [][Next]_vars

-----------------------------------------------------------------------------
Step(A) == A /\ UNCHANGED <<cancelled, connVars, runVars>>

ConnStep(A) == A /\ UNCHANGED <<cancelled, execVars, runVars>>

\* A connector that honours the context answers once the order context is done;
\* without that it may keep PlaceOrder for ever.
AnswerInTime(leg) ==
  HonoursContext /\ OrderContextDone /\ \E ok \in BOOLEAN : Answer(leg, ok)

\* Runnable goroutines run, timers fire, and calls with a deadline end.  A read
\* ends if the exchange keeps sending; blocked senders are served in turn (SF).
\* Nothing is assumed of signals, of the admin server, or of the outcome of a call.
Fairness ==
  /\ \A x \in Exchanges : /\ WF_vars(ConnStep(Bounded(x)))
                          /\ SF_vars(ConnStep(Send(x) \/ Abort(x)))
  /\ \A x \in Exchanges \ Silent : WF_vars(ConnStep(Read(x)))
  /\ WF_vars(Step(Expire)) /\ WF_vars(Step(Collect \/ ReturnResult))
  /\ \A leg \in Legs : WF_vars(Step(AnswerInTime(leg)))
  /\ WF_vars(Scan) /\ WF_vars(StopWriter) /\ WF_vars(ApiCloses) /\ WF_vars(Main)

FairSpec == Spec /\ Fairness

-----------------------------------------------------------------------------
(* Properties.                                                             *)

RuntimeTypeOK ==
  /\ cancelled \in BOOLEAN
  /\ phase \in [Exchanges -> Phases] /\ queued \in 0..ChannelCap
  /\ engine \in {"idle", "waiting"} /\ received \in 0..2 /\ expired \in BOOLEAN
  /\ orders \in [Legs -> {"none", "placing", "accepted", "failed"}]
  /\ onExchange \subseteq Legs /\ result \subseteq Legs
  /\ responses \in Seq([leg : Legs, ok : BOOLEAN]) /\ Len(responses) <= ResponseCap
  /\ status \in {"none", "submitted", "live_open", "needs_reconcile"}
  /\ scanner \in {"idle", "handling", "executing", "stopped"}
  /\ writer \in {"up", "down"} /\ api \in {"listening", "closed"}
  /\ main \in {"waiting", "shutdown", "joining", "returned"}

\* Execute returns with both answers in hand: no goroutine of an execution is left
\* with an order, neither for the next execution nor after Run has returned.
NoOrderLeftBehind ==
  engine = "idle" \/ main = "returned" =>
    responses = <<>> /\ \A leg \in Legs : orders[leg] # "placing"

\* Execute keeps the promise of OrderPair: live_open means two orders on their
\* exchanges, and an order the result does not hold means needs_reconcile.
ReportIsTrue == Pair!Spec

\* Whatever fails, whatever order hangs until its timeout, however full the channel
\* is: a connector calls its exchange or reads again and again until the run is cancelled.
KeepsConnecting ==
  \A x \in Exchanges : []<>(cancelled \/ phase[x] \in {"resolving", "dialing", "reading"})

\* A cancelled run returns.  (Design document, 6.1: every external call has a
\* deadline.)
RunReturns == cancelled ~> main = "returned"
=============================================================================
