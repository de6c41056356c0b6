----------------------------- MODULE Connectors -----------------------------
(***************************************************************************)
(* PublicWSConnector.Start and run (internal/exchange/public_ws.go), one   *)
(* goroutine per exchange: obtain the endpoint, dial, subscribe, read and  *)
(* send until something fails, pause, start again.                         *)
(*                                                                         *)
(* Books are counted, not described: Scanner has their contents.           *)
(***************************************************************************)
EXTENDS Context, Integers

CONSTANTS
  Exchanges,    \* enabled connectors
  ChannelCap    \* capacity of the channel `updates` (1024)

ASSUME ConnectorsAssumption == ChannelCap \in Nat \ {0}

VARIABLES
  phase,    \* phase[x]: where the goroutine of connector x is
  queued    \* number of snapshots in the channel `updates`

connVars == <<phase, queued>>

Phases == {"resolving", "dialing", "subscribing", "reading", "sending", "pause", "left"}

\* Only KuCoin asks the exchange for its endpoint before it dials.
FirstCall(x) == IF x = "kucoin" THEN "resolving" ELSE "dialing"

ConnInit ==
  /\ phase = [x \in Exchanges |-> FirstCall(x)]
  /\ queued = 0

Goto(x, p) == phase' = [phase EXCEPT ![x] = p] /\ UNCHANGED queued

-----------------------------------------------------------------------------
\* Giving up at the first error (a broken variant).
GiveUp(x) == Goto(x, "left")

\* run returned an error: Start asks whether the context is cancelled.
Failed(x) == Goto(x, IF cancelled THEN "left" ELSE "pause")

\* The pause ends and run is called without a look at the context; but the HTTP
\* request and the dialer refuse a cancelled context, and that ends Start.
Resume(x) ==
  /\ phase[x] = "pause"
  /\ Goto(x, IF cancelled THEN "left" ELSE FirstCall(x))

Resolve(x) ==
  /\ phase[x] = "resolving"
  /\ \/ ~cancelled /\ Goto(x, "dialing")
     \/ Failed(x)

\* A dial under way may still succeed after a cancellation.
Dial(x) ==
  /\ phase[x] = "dialing"
  /\ Goto(x, "subscribing") \/ Failed(x)

\* The top of the read loop.
ReadNext(x) == Goto(x, IF cancelled THEN "left" ELSE "reading")

Subscribe(x) ==
  /\ phase[x] = "subscribing"
  /\ ReadNext(x) \/ Failed(x)

\* ReadMessage returns a book, or a control frame that is answered or something
\* that is no book, or an error; a frame that cannot be unpacked or answered is
\* an error too.
Read(x) ==
  /\ phase[x] = "reading"
  /\ Goto(x, "sending") \/ ReadNext(x) \/ Failed(x)

\* A channel without a bound (a broken variant).
SendUnbounded(x) ==
  /\ phase[x] = "sending"
  /\ queued' = queued + 1
  /\ phase' = [phase EXCEPT ![x] = "reading"]

Send(x) ==
  /\ phase[x] = "sending"
  /\ queued < ChannelCap
  /\ queued' = queued + 1
  /\ phase' = [phase EXCEPT ![x] = IF cancelled THEN "left" ELSE "reading"]

\* A send that does not watch the context (a broken variant).
AbortNever(x) == FALSE /\ UNCHANGED connVars

Abort(x) ==
  /\ phase[x] = "sending"
  /\ cancelled
  /\ Goto(x, "left")

\* Everything that ends by itself: the calls have timeouts, the pause is two
\* seconds.  Read and the send are not among them.
Bounded(x) == Resolve(x) \/ Dial(x) \/ Subscribe(x) \/ Resume(x)

ConnNext(x) == Bounded(x) \/ Read(x) \/ Send(x) \/ Abort(x)
=============================================================================
