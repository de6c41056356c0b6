--------------------------- MODULE RuntimeProofs ---------------------------
(***************************************************************************)
(* Safety of Runtime, and that its executions implement OrderPair, for any *)
(* set of exchanges and any capacity of the channel.                       *)
(***************************************************************************)
EXTENDS Runtime, SequenceTheorems, TLAPS

-----------------------------------------------------------------------------
(* The inductive invariant.  The answers are accounted for: while Execute  *)
(* runs, each of the two orders is with its goroutine, or its answer is in *)
(* the channel, or its answer is in the result and the status.             *)

ExecTypeOK ==
  /\ engine \in {"idle", "waiting"} /\ received \in 0..2 /\ expired \in BOOLEAN
  /\ orders \in [Legs -> {"none", "placing", "accepted", "failed"}]
  /\ onExchange \subseteq Legs /\ result \subseteq Legs
  /\ responses \in Seq([leg : Legs, ok : BOOLEAN])
  /\ status \in {"none", "submitted", "live_open", "needs_reconcile"}

Outstanding(leg) == IF orders[leg] = "placing" THEN 1 ELSE 0

AllCounted ==
  engine = "waiting" =>
    received + Len(responses) + Outstanding("long") + Outstanding("short") = 2

NothingPending ==
  engine = "idle" => responses = <<>> /\ \A leg \in Legs : orders[leg] # "placing"

InChannel(leg) == \E i \in DOMAIN responses : responses[i].leg = leg

\* What an answer says agrees with what its goroutine saw.
AnswersAgree ==
  /\ \A i \in DOMAIN responses :
       orders[responses[i].leg] = IF responses[i].ok THEN "accepted" ELSE "failed"
  /\ \A leg \in result : orders[leg] = "accepted"
  /\ \A leg \in Legs : orders[leg] = "accepted" => leg \in onExchange

\* A failure is in the status, or still in the channel; a success is in the result,
\* or still in the channel.
NothingForgotten ==
  /\ \A leg \in Legs : orders[leg] = "failed" => status = "needs_reconcile" \/ InChannel(leg)
  /\ engine = "waiting" =>
       /\ status \in {"submitted", "needs_reconcile"}
       /\ status = "needs_reconcile" => \E leg \in Legs : orders[leg] = "failed"
       /\ \A leg \in Legs : /\ orders[leg] # "none"
                            /\ orders[leg] = "accepted" => leg \in result \/ InChannel(leg)

ExecInv == ExecTypeOK /\ AllCounted /\ NothingPending /\ AnswersAgree /\ NothingForgotten

LEMMA ExecInitially == ExecInit => ExecInv
<1> SUFFICES ASSUME ExecInit PROVE ExecInv
  OBVIOUS
<1>1. \A leg \in Legs : orders[leg] = "none"
  BY DEF ExecInit
<1>2. responses = <<>> /\ DOMAIN responses = {}
  BY DEF ExecInit
<1>3. ExecTypeOK
  <2>1. responses \in Seq([leg : Legs, ok : BOOLEAN])
    BY <1>2, EmptySeq
  <2>2. orders \in [Legs -> {"none", "placing", "accepted", "failed"}]
    BY DEF ExecInit
  <2> QED
    BY <2>1, <2>2, 0 \in 0..2 DEF ExecInit, ExecTypeOK
<1> QED
  BY <1>1, <1>2, <1>3 DEF ExecInit, ExecInv, AllCounted, NothingPending, AnswersAgree,
                          NothingForgotten

LEMMA SubmitStep == ExecInv /\ Submit => ExecInv'
<1> SUFFICES ASSUME ExecInv, Submit PROVE ExecInv'
  OBVIOUS
<1>1. /\ engine' = "waiting" /\ status' = "submitted" /\ responses' = <<>>
      /\ orders' = [leg \in Legs |-> "placing"]
      /\ onExchange' = {} /\ received' = 0 /\ result' = {} /\ expired' = FALSE
  BY DEF Submit
<1>2. orders'["long"] = "placing" /\ orders'["short"] = "placing"
  BY <1>1 DEF Legs
<1>3. ExecTypeOK'
  <2>1. responses' \in Seq([leg : Legs, ok : BOOLEAN])
    BY <1>1, EmptySeq
  <2>2. orders' \in [Legs -> {"none", "placing", "accepted", "failed"}]
    BY <1>1
  <2> QED
    BY <1>1, <2>1, <2>2, 0 \in 0..2 DEF ExecTypeOK
<1>4. \A leg \in Legs : orders'[leg] = "placing"
  BY <1>1
<1>5. DOMAIN responses' = {}
  BY <1>1
<1>6. AnswersAgree' /\ NothingForgotten' /\ NothingPending'
  BY <1>1, <1>4, <1>5 DEF AnswersAgree, NothingForgotten, NothingPending
<1>7. AllCounted'
  BY <1>1, <1>2 DEF AllCounted, Outstanding
<1> QED
  BY <1>3, <1>6, <1>7 DEF ExecInv

LEMMA TakeOrderStep == ASSUME ExecInv, NEW leg \in Legs, TakeOrder(leg) PROVE ExecInv'
<1>1. /\ onExchange' = onExchange \cup {leg}
      /\ UNCHANGED <<engine, orders, responses, received, result, status, expired>>
  BY DEF TakeOrder
<1> QED
  BY <1>1 DEF ExecInv, ExecTypeOK, AllCounted, Outstanding, NothingPending, AnswersAgree,
              NothingForgotten, InChannel

LEMMA AnswerStep ==
  ASSUME ExecInv, NEW leg \in Legs, NEW ok \in BOOLEAN, Answer(leg, ok)
  PROVE  ExecInv'
<1> DEFINE r == [leg |-> leg, ok |-> ok]
<1>1. /\ orders[leg] = "placing" /\ (ok => leg \in onExchange)
      /\ orders' = [orders EXCEPT ![leg] = IF ok THEN "accepted" ELSE "failed"]
      /\ responses' = Append(responses, r)
      /\ UNCHANGED <<engine, onExchange, received, result, status, expired>>
  BY DEF Answer
<1>2. ExecTypeOK /\ r \in [leg : Legs, ok : BOOLEAN] /\ r.leg = leg /\ r.ok = ok
  BY DEF ExecInv
<1>3. engine = "waiting"
  BY <1>1, <1>2 DEF ExecInv, NothingPending, ExecTypeOK
<1>4. ExecTypeOK'
  BY <1>1, <1>2 DEF ExecTypeOK
<1>5. /\ orders'[leg] = (IF ok THEN "accepted" ELSE "failed")
      /\ \A other \in Legs : other # leg => orders'[other] = orders[other]
  BY <1>1, <1>2 DEF ExecTypeOK
<1> HIDE DEF r
<1>6. /\ Len(responses') = Len(responses) + 1 /\ Len(responses) \in Nat
      /\ DOMAIN responses = 1..Len(responses) /\ DOMAIN responses' = 1..Len(responses')
      /\ responses'[Len(responses')] = r
      /\ \A i \in DOMAIN responses : responses'[i] = responses[i]
  BY <1>1, <1>2 DEF ExecTypeOK
<1>7. \A other \in Legs : InChannel(other) => InChannel(other)'
  BY <1>6 DEF InChannel
<1>8. InChannel(leg)'
  BY <1>2, <1>6 DEF InChannel
<1>9. AllCounted'
  <2>1. received + Len(responses) + Outstanding("long") + Outstanding("short") = 2
    BY <1>3 DEF ExecInv, AllCounted
  <2>2. CASE leg = "long"
    <3>1. Outstanding("long") = 1 /\ Outstanding("long")' = 0
      BY <1>1, <1>5, <2>2 DEF Outstanding
    <3>2. Outstanding("short")' = Outstanding("short") /\ Outstanding("short") \in {0, 1}
      BY <1>5, <2>2 DEF Outstanding, Legs
    <3> QED
      BY <1>1, <1>2, <1>6, <2>1, <3>1, <3>2 DEF AllCounted, ExecTypeOK
  <2>3. CASE leg = "short"
    <3>1. Outstanding("short") = 1 /\ Outstanding("short")' = 0
      BY <1>1, <1>5, <2>3 DEF Outstanding
    <3>2. Outstanding("long")' = Outstanding("long") /\ Outstanding("long") \in {0, 1}
      BY <1>5, <2>3 DEF Outstanding, Legs
    <3> QED
      BY <1>1, <1>2, <1>6, <2>1, <3>1, <3>2 DEF AllCounted, ExecTypeOK
  <2> QED
    BY <2>2, <2>3 DEF Legs
<1>10. AnswersAgree'
  <2>1. ASSUME NEW i \in DOMAIN responses'
        PROVE  orders'[responses'[i].leg] = IF responses'[i].ok THEN "accepted" ELSE "failed"
    <3>1. CASE i = Len(responses')
      BY <1>2, <1>5, <1>6, <3>1
    <3>2. CASE i # Len(responses')
      <4>1. i \in DOMAIN responses /\ responses'[i] = responses[i]
        BY <1>6, <2>1, <3>2
      <4>2. responses[i].leg \in Legs
        <5>1. responses \in Seq([leg : Legs, ok : BOOLEAN])
          BY <1>2 DEF ExecTypeOK
        <5>2. responses[i] \in [leg : Legs, ok : BOOLEAN]
          BY <1>6, <4>1, <5>1, ElementOfSeq
        <5> QED
          BY <5>2
      <4>3. responses[i].leg # leg
        BY <1>1, <4>1 DEF ExecInv, AnswersAgree
      <4> QED
        BY <1>5, <4>1, <4>2, <4>3 DEF ExecInv, AnswersAgree
    <3> QED
      BY <3>1, <3>2
  <2>2. \A l \in result' : orders'[l] = "accepted"
    BY <1>1, <1>2, <1>5 DEF ExecInv, AnswersAgree, ExecTypeOK
  <2>3. \A l \in Legs : orders'[l] = "accepted" => l \in onExchange'
    BY <1>1, <1>5 DEF ExecInv, AnswersAgree
  <2> QED
    BY <2>1, <2>2, <2>3 DEF AnswersAgree
<1>11. NothingForgotten'
  <2>1. \A l \in Legs : orders'[l] = "failed" => status' = "needs_reconcile" \/ InChannel(l)'
    BY <1>1, <1>5, <1>7, <1>8 DEF ExecInv, NothingForgotten
  <2>2. status' \in {"submitted", "needs_reconcile"}
    BY <1>1, <1>3 DEF ExecInv, NothingForgotten
  <2>3. status' = "needs_reconcile" => \E l \in Legs : orders'[l] = "failed"
    <3>1. status = "needs_reconcile" => \E l \in Legs : orders[l] = "failed"
      BY <1>3 DEF ExecInv, NothingForgotten
    <3> QED
      BY <1>1, <1>5, <3>1
  <2>4. \A l \in Legs : /\ orders'[l] # "none"
                        /\ orders'[l] = "accepted" => l \in result' \/ InChannel(l)'
    BY <1>1, <1>3, <1>5, <1>7, <1>8 DEF ExecInv, NothingForgotten
  <2> QED
    BY <2>1, <2>2, <2>3, <2>4 DEF NothingForgotten
<1>12. NothingPending'
  BY <1>1, <1>3 DEF NothingPending
<1> QED
  BY <1>4, <1>9, <1>10, <1>11, <1>12 DEF ExecInv

LEMMA CollectStep == ExecInv /\ Collect => ExecInv'
<1> SUFFICES ASSUME ExecInv, Collect PROVE ExecInv'
  OBVIOUS
<1> DEFINE r == Head(responses)
<1>1. /\ engine = "waiting" /\ responses # <<>>
      /\ status' = (IF r.ok THEN status ELSE "needs_reconcile")
      /\ result' = (IF r.ok THEN result \cup {r.leg} ELSE result)
      /\ responses' = Tail(responses) /\ received' = received + 1
      /\ UNCHANGED <<engine, orders, onExchange, expired>>
  BY DEF Collect, StatusAfter
<1>r. received < 2
  BY DEF Collect
<1>2. ExecTypeOK /\ AnswersAgree
  BY DEF ExecInv
<1>3. /\ 1 \in DOMAIN responses /\ r = responses[1] /\ r \in [leg : Legs, ok : BOOLEAN]
      /\ DOMAIN responses = 1..Len(responses) /\ DOMAIN responses' = 1..(Len(responses) - 1)
      /\ Len(responses) \in Nat /\ Len(responses') = Len(responses) - 1
      /\ \A i \in DOMAIN responses' : i + 1 \in DOMAIN responses /\ responses'[i] = responses[i + 1]
  <2>1. responses \in Seq([leg : Legs, ok : BOOLEAN]) /\ responses # <<>>
    BY <1>1, <1>2 DEF ExecTypeOK
  <2>2. Len(responses) \in Nat \ {0} /\ DOMAIN responses = 1..Len(responses)
    BY <2>1, EmptySeq, LenProperties
  <2>r. r = responses[1]
    BY <2>1
  <2>3. /\ r \in [leg : Legs, ok : BOOLEAN]
        /\ responses' \in Seq([leg : Legs, ok : BOOLEAN])
        /\ Len(responses') = Len(responses) - 1
        /\ \A i \in 1..(Len(responses) - 1) : responses'[i] = responses[i + 1]
    BY <1>1, <2>1, <2>2, HeadTailProperties
  <2>4. DOMAIN responses' = 1..(Len(responses) - 1)
    BY <2>3, LenProperties
  <2> QED
    BY <2>2, <2>r, <2>3, <2>4
<1>4. orders[r.leg] = IF r.ok THEN "accepted" ELSE "failed"
  BY <1>2, <1>3 DEF AnswersAgree
<1> HIDE DEF r
<1>5. ExecTypeOK'
  BY <1>1, <1>2, <1>3, <1>r DEF ExecTypeOK
<1>6. AllCounted'
  <2>1. received + Len(responses) + Outstanding("long") + Outstanding("short") = 2
    BY <1>1 DEF ExecInv, AllCounted
  <2>2. Outstanding("long")' = Outstanding("long") /\ Outstanding("short")' = Outstanding("short")
    BY <1>1 DEF Outstanding
  <2>3. Outstanding("long") \in Int /\ Outstanding("short") \in Int /\ received \in Nat
    BY <1>2 DEF Outstanding, ExecTypeOK
  <2> QED
    BY <1>1, <1>3, <2>1, <2>2, <2>3 DEF AllCounted
<1>7. AnswersAgree'
  BY <1>1, <1>2, <1>3, <1>4 DEF AnswersAgree
<1>8. \A leg \in Legs : InChannel(leg) => leg = r.leg \/ InChannel(leg)'
  <2> SUFFICES ASSUME NEW leg \in Legs, NEW i \in DOMAIN responses, responses[i].leg = leg,
                      leg # r.leg
               PROVE  InChannel(leg)'
    BY DEF InChannel
  <2>1. i # 1
    BY <1>3
  <2>2. i - 1 \in DOMAIN responses' /\ responses'[i - 1] = responses[i]
    BY <1>3, <2>1
  <2> QED
    BY <2>2 DEF InChannel
<1>9. NothingForgotten'
  <2>1. ASSUME NEW leg \in Legs, orders'[leg] = "failed"
        PROVE  status' = "needs_reconcile" \/ InChannel(leg)'
    <3>1. status = "needs_reconcile" \/ InChannel(leg)
      BY <1>1, <2>1 DEF ExecInv, NothingForgotten
    <3>2. CASE leg = r.leg
      BY <1>1, <1>4, <2>1, <3>2
    <3> QED
      BY <1>1, <1>8, <3>1, <3>2
  <2>2. /\ status' \in {"submitted", "needs_reconcile"}
        /\ status' = "needs_reconcile" => \E leg \in Legs : orders'[leg] = "failed"
    BY <1>1, <1>3, <1>4 DEF ExecInv, NothingForgotten
  <2>3. ASSUME NEW leg \in Legs
        PROVE  /\ orders'[leg] # "none"
               /\ orders'[leg] = "accepted" => leg \in result' \/ InChannel(leg)'
    <3>1. /\ orders[leg] # "none"
          /\ orders[leg] = "accepted" => leg \in result \/ InChannel(leg)
      BY <1>1 DEF ExecInv, NothingForgotten
    <3>2. orders[leg] = "accepted" /\ leg = r.leg => leg \in result'
      BY <1>1, <1>4
    <3> QED
      BY <1>1, <1>8, <3>1, <3>2
  <2> QED
    BY <2>1, <2>2, <2>3 DEF NothingForgotten
<1>10. NothingPending'
  BY <1>1 DEF NothingPending
<1> QED
  BY <1>5, <1>6, <1>7, <1>9, <1>10 DEF ExecInv

\* When two answers have been collected nothing is outstanding, and the status says
\* whether both legs are in the result.
LEMMA BothCollected ==
  ASSUME ExecInv, engine = "waiting", Collected
  PROVE  /\ responses = <<>> /\ \A leg \in Legs : orders[leg] # "placing"
         /\ status \in {"submitted", "needs_reconcile"}
         /\ status = "submitted" <=> result = Legs
         /\ result \subseteq onExchange
<1>1. ExecTypeOK /\ AnswersAgree /\ NothingForgotten
  BY DEF ExecInv
<1>2. received + Len(responses) + Outstanding("long") + Outstanding("short") = 2 /\ received = 2
  BY DEF ExecInv, AllCounted, Collected
<1>3. Outstanding("long") \in {0, 1} /\ Outstanding("short") \in {0, 1} /\ Len(responses) \in Nat
  BY <1>1 DEF Outstanding, ExecTypeOK
<1>4. Len(responses) = 0 /\ Outstanding("long") = 0 /\ Outstanding("short") = 0
  BY <1>2, <1>3
<1>5. responses = <<>> /\ \A leg \in Legs : ~InChannel(leg)
  BY <1>1, <1>4 DEF ExecTypeOK, InChannel
<1>6. \A leg \in Legs : orders[leg] # "placing"
  BY <1>4 DEF Outstanding, Legs
<1>7. \A leg \in Legs : orders[leg] \in {"accepted", "failed"}
  BY <1>1, <1>6 DEF ExecTypeOK, NothingForgotten
<1>8. status = "submitted" => result = Legs
  BY <1>1, <1>5, <1>7 DEF ExecTypeOK, NothingForgotten
<1>9. result = Legs => status = "submitted"
  <2>1. result = Legs => \A leg \in Legs : orders[leg] = "accepted"
    BY <1>1 DEF AnswersAgree
  <2> QED
    BY <1>1, <2>1 DEF NothingForgotten
<1>10. result \subseteq onExchange
  BY <1>1 DEF AnswersAgree, ExecTypeOK
<1> QED
  BY <1>1, <1>5, <1>6, <1>8, <1>9, <1>10 DEF NothingForgotten

LEMMA ReturnStep == ExecInv /\ ReturnResult => ExecInv'
<1> SUFFICES ASSUME ExecInv, ReturnResult PROVE ExecInv'
  OBVIOUS
<1>1. /\ engine = "waiting" /\ Collected /\ engine' = "idle"
      /\ status' = (IF status = "submitted" THEN "live_open" ELSE status)
      /\ UNCHANGED <<orders, onExchange, responses, received, result, expired>>
  BY DEF ReturnResult
<1>2. /\ responses = <<>> /\ \A leg \in Legs : orders[leg] # "placing"
      /\ status \in {"submitted", "needs_reconcile"}
  BY <1>1, BothCollected
<1>3. ExecTypeOK' /\ AllCounted' /\ NothingPending' /\ AnswersAgree'
  BY <1>1, <1>2 DEF ExecInv, ExecTypeOK, AllCounted, NothingPending, AnswersAgree
<1>4. NothingForgotten'
  <2>1. \A leg \in Legs : ~InChannel(leg)
    BY <1>2 DEF InChannel
  <2>2. \A leg \in Legs : orders[leg] = "failed" => status = "needs_reconcile"
    BY <2>1 DEF ExecInv, NothingForgotten
  <2> QED
    BY <1>1, <2>2 DEF NothingForgotten
<1> QED
  BY <1>3, <1>4 DEF ExecInv

LEMMA ExecStays == ExecInv /\ UNCHANGED execVars => ExecInv'
BY DEF execVars, ExecInv, ExecTypeOK, AllCounted, Outstanding, NothingPending, AnswersAgree,
       NothingForgotten, InChannel

LEMMA ExpireStep == ExecInv /\ Expire => ExecInv'
BY DEF Expire, ExecInv, ExecTypeOK, AllCounted, Outstanding, NothingPending, AnswersAgree,
       NothingForgotten, InChannel

LEMMA ExecStep == ExecInv /\ ExecNext => ExecInv'
BY ExpireStep, CollectStep, ReturnStep, TakeOrderStep, AnswerStep DEF ExecNext

-----------------------------------------------------------------------------
(* The goroutines.                                                         *)

ControlOK ==
  /\ cancelled \in BOOLEAN
  /\ phase \in [Exchanges -> Phases] /\ queued \in 0..ChannelCap
  /\ scanner \in {"idle", "handling", "executing", "stopped"}
  /\ writer \in {"up", "down"} /\ api \in {"listening", "closed"}
  /\ main \in {"waiting", "shutdown", "joining", "returned"}

\* Only the scanner executes, and Run has waited for it.
Joined ==
  /\ engine = "waiting" => scanner = "executing"
  /\ main = "returned" => scanner = "stopped"

RuntimeInv == ExecInv /\ ControlOK /\ Joined

LEMMA RuntimeInit == Init => RuntimeInv
<1> SUFFICES ASSUME Init PROVE RuntimeInv
  OBVIOUS
<1>1. ExecInv
  BY ExecInitially DEF Init
<1>2. phase \in [Exchanges -> Phases]
  BY DEF Init, ConnInit, FirstCall, Phases
<1>3. queued \in 0..ChannelCap
  BY ConnectorsAssumption DEF ConnectorsAssumption, Init, ConnInit
<1> QED
  BY <1>1, <1>2, <1>3 DEF Init, ContextInit, ExecInit, RuntimeInv, ControlOK, Joined

LEMMA ConnectorStep ==
  ASSUME RuntimeInv, NEW x \in Exchanges, ConnNext(x), UNCHANGED <<cancelled, execVars, runVars>>
  PROVE  RuntimeInv'
<1>1. ExecInv'
  BY ExecStays DEF RuntimeInv
<1>2. phase \in [Exchanges -> Phases] /\ queued \in 0..ChannelCap /\ ChannelCap \in Nat
  BY ConnectorsAssumption DEF ConnectorsAssumption, RuntimeInv, ControlOK
<1>3. ASSUME NEW p \in Phases, Goto(x, p)
      PROVE  phase' \in [Exchanges -> Phases] /\ queued' \in 0..ChannelCap
  BY <1>2, <1>3 DEF Goto
<1>4. ASSUME Send(x)
      PROVE  phase' \in [Exchanges -> Phases] /\ queued' \in 0..ChannelCap
  <2>1. queued < ChannelCap /\ queued' = queued + 1
    BY <1>4 DEF Send
  <2>2. "left" \in Phases /\ "reading" \in Phases
    BY DEF Phases
  <2>3. phase' = [phase EXCEPT ![x] = IF cancelled THEN "left" ELSE "reading"]
    BY <1>4 DEF Send
  <2>4. phase' \in [Exchanges -> Phases]
    BY <1>2, <2>2, <2>3
  <2> QED
    BY <1>2, <2>1, <2>4
<1>5. ASSUME ~Send(x) PROVE \E p \in Phases : Goto(x, p)
  <2>1. \/ \E p \in {"dialing", "subscribing", "sending", "left"} : Goto(x, p)
        \/ Failed(x) \/ ReadNext(x) \/ Resume(x)
    BY <1>5 DEF ConnNext, Bounded, Resolve, Dial, Subscribe, Read, Abort
  <2>2. Failed(x) => Goto(x, "left") \/ Goto(x, "pause")
    BY DEF Failed
  <2>3. ReadNext(x) => Goto(x, "left") \/ Goto(x, "reading")
    BY DEF ReadNext
  <2>4. Resume(x) => Goto(x, "left") \/ Goto(x, "resolving") \/ Goto(x, "dialing")
    BY DEF Resume, FirstCall
  <2> QED
    BY <2>1, <2>2, <2>3, <2>4 DEF Phases
<1>6. phase' \in [Exchanges -> Phases] /\ queued' \in 0..ChannelCap
  BY <1>3, <1>4, <1>5
<1> QED
  BY <1>1, <1>6 DEF RuntimeInv, ControlOK, Joined, runVars, execVars

LEMMA ExecutionStep ==
  ASSUME RuntimeInv, ExecNext, UNCHANGED <<cancelled, connVars, runVars>>
  PROVE  RuntimeInv'
<1>1. ExecInv'
  BY ExecStep DEF RuntimeInv
<1>2. engine' = "waiting" => engine = "waiting"
  BY DEF ExecNext, Expire, Collect, ReturnResult, TakeOrder, Answer
<1> QED
  BY <1>1, <1>2 DEF RuntimeInv, ControlOK, Joined, runVars, connVars

LEMMA ScannerStep == RuntimeInv /\ Scan => RuntimeInv'
<1> SUFFICES ASSUME RuntimeInv, Scan PROVE RuntimeInv'
  OBVIOUS
<1>1. CASE Trade
  <2>1. ExecInv' /\ engine' = "waiting" /\ scanner = "handling" /\ scanner' = "executing"
    BY <1>1, SubmitStep DEF Trade, Submit, ScannerGoes, RuntimeInv
  <2> QED
    BY <1>1, <2>1 DEF Trade, ScannerGoes, RuntimeInv, ControlOK, Joined, connVars
<1>2. CASE Take
  <2>1. ExecInv' /\ engine' = engine
    BY <1>2, ExecStays DEF Take, RuntimeInv, execVars
  <2>2. queued' \in 0..ChannelCap
    BY <1>2, ConnectorsAssumption DEF ConnectorsAssumption, Take, RuntimeInv, ControlOK
  <2> QED
    BY <1>2, <2>1, <2>2 DEF Take, ScannerGoes, RuntimeInv, ControlOK, Joined
<1>3. CASE Handled \/ Executed \/ StopScanner
  <2>1. ExecInv' /\ engine' = engine
    BY <1>3, ExecStays DEF Handled, Executed, StopScanner, RuntimeInv, execVars
  <2>2. engine # "waiting"
    BY <1>3 DEF Handled, Executed, StopScanner, RuntimeInv, Joined
  <2> QED
    BY <1>3, <2>1, <2>2 DEF Handled, Executed, StopScanner, ScannerGoes, RuntimeInv, ControlOK,
                            Joined, connVars
<1> QED
  BY <1>1, <1>2, <1>3 DEF Scan

LEMMA OtherStep ==
  ASSUME RuntimeInv, StopWriter \/ Signal \/ ApiFails \/ ApiCloses \/ Main
  PROVE  RuntimeInv'
<1>1. ExecInv' /\ UNCHANGED <<engine, scanner, phase, queued>>
  BY ExecStays DEF StopWriter, Signal, ApiFails, ApiCloses, Main, BeginShutdown, EndShutdown,
                   Return, MainGoes, RuntimeInv, execVars, connVars, runVars
<1>2. main' = "returned" => scanner = "stopped"
  BY DEF StopWriter, Signal, ApiFails, ApiCloses, Main, BeginShutdown, EndShutdown, Return,
         Running, MainGoes, RuntimeInv, Joined, runVars
<1>3. ControlOK'
  BY DEF StopWriter, Signal, ApiFails, ApiCloses, Main, BeginShutdown, EndShutdown, Return,
         MainGoes, CancelContext, RuntimeInv, ControlOK, connVars, runVars
<1> QED
  BY <1>1, <1>2, <1>3 DEF RuntimeInv, Joined

LEMMA RuntimeStep == RuntimeInv /\ [Next]_vars => RuntimeInv'
<1>1. RuntimeInv /\ UNCHANGED vars => RuntimeInv'
  BY ExecStays DEF vars, connVars, runVars, execVars, RuntimeInv, ControlOK, Joined
<1> QED
  BY <1>1, ConnectorStep, ExecutionStep, ScannerStep, OtherStep DEF Next

LEMMA RuntimeInvariant == Spec => []RuntimeInv
<1> QED
  BY RuntimeInit, RuntimeStep, PTL DEF Spec

\* The control state of the goroutines and of an execution keeps its types; the
\* channels never hold more than their capacity.
THEOREM RuntimeTypes == Spec => []RuntimeTypeOK
<1>1. RuntimeInv => RuntimeTypeOK
  <2> SUFFICES ASSUME RuntimeInv PROVE RuntimeTypeOK
    OBVIOUS
  <2>1. ExecTypeOK /\ ControlOK
    BY DEF RuntimeInv, ExecInv
  <2>2. Len(responses) <= ResponseCap
    <3>1. CASE engine = "idle"
      BY <3>1, EmptySeq DEF RuntimeInv, ExecInv, NothingPending, ResponseCap
    <3>2. CASE engine = "waiting"
      <4>1. received + Len(responses) + Outstanding("long") + Outstanding("short") = 2
        BY <3>2 DEF RuntimeInv, ExecInv, AllCounted
      <4>2. /\ Outstanding("long") \in {0, 1} /\ Outstanding("short") \in {0, 1}
            /\ Len(responses) \in Nat /\ received \in 0..2
        BY <2>1 DEF Outstanding, ExecTypeOK
      <4> QED
        BY <4>1, <4>2 DEF ResponseCap
    <3> QED
      BY <2>1, <3>1, <3>2 DEF ExecTypeOK
  <2> QED
    BY <2>1, <2>2 DEF RuntimeTypeOK, ExecTypeOK, ControlOK
<1> QED
  BY <1>1, RuntimeInvariant, PTL

\* No execution leaves an order with its goroutine, or an answer in its channel, when
\* Execute returns or when Run has returned.
THEOREM OrdersAreCollected == Spec => []NoOrderLeftBehind
<1>1. RuntimeInv => NoOrderLeftBehind
  BY DEF RuntimeInv, ExecInv, ExecTypeOK, Joined, NothingPending, NoOrderLeftBehind
<1> QED
  BY <1>1, RuntimeInvariant, PTL

-----------------------------------------------------------------------------
(* The executions of Runtime implement OrderPair.                          *)

LEMMA SubmitKeepsPromise == ASSUME ExecInv, Submit PROVE Pair!Next
<1>1. /\ engine = "idle" /\ engine' = "waiting" /\ onExchange' = {}
      /\ status \in {"none", "submitted", "live_open", "needs_reconcile"}
  BY DEF Submit, ExecInv, ExecTypeOK
<1>2. Outcome # "pending" /\ Outcome' = "pending" /\ Reported' = {}
  BY <1>1 DEF Outcome, Reported
<1> QED
  BY <1>1, <1>2 DEF Pair!Next, Pair!Submit

\* An order that appears after Execute has returned is one that failed, so that the
\* result does not hold it and the status is needs_reconcile.
LEMMA TakeOrderKeepsPromise ==
  ASSUME ExecInv, NEW leg \in Legs, TakeOrder(leg)
  PROVE  Pair!Next
<1>1. /\ orders[leg] \in {"placing", "failed"} /\ leg \notin onExchange
      /\ onExchange' = onExchange \cup {leg}
      /\ UNCHANGED <<engine, result, status>>
  BY DEF TakeOrder
<1>2. leg \notin result
  BY <1>1 DEF ExecInv, AnswersAgree
<1>3. engine = "waiting" \/ status = "needs_reconcile"
  <2>1. CASE engine = "idle"
    <3>1. orders[leg] = "failed" /\ responses = <<>>
      BY <1>1, <2>1 DEF ExecInv, NothingPending
    <3>2. ~InChannel(leg)
      BY <3>1 DEF InChannel
    <3> QED
      BY <3>1, <3>2 DEF ExecInv, NothingForgotten
  <2> QED
    BY <2>1 DEF ExecInv, ExecTypeOK
<1>4. Outcome \in {"pending", "needs_reconcile"} /\ leg \notin onExchange \cup Reported
  BY <1>1, <1>2, <1>3 DEF Outcome, Reported
<1>5. Outcome' = Outcome /\ Reported' = Reported
  BY <1>1 DEF Outcome, Reported
<1>6. leg \in Pair!Legs
  BY DEF Legs, Pair!Legs
<1>7. Pair!Place(leg)
  BY <1>1, <1>4, <1>5 DEF Pair!Place
<1> QED
  BY <1>6, <1>7 DEF Pair!Next

LEMMA ReturnKeepsPromise == ASSUME ExecInv, ReturnResult PROVE Pair!Next
<1>1. /\ engine = "waiting" /\ Collected /\ engine' = "idle"
      /\ status' = (IF status = "submitted" THEN "live_open" ELSE status)
      /\ UNCHANGED <<onExchange, result>>
  BY DEF ReturnResult
<1>2. /\ status \in {"submitted", "needs_reconcile"} /\ result \subseteq onExchange
      /\ status = "submitted" <=> result = Legs
  BY <1>1, BothCollected
<1>3. Outcome = "pending" /\ Outcome' = status' /\ Reported' = result
  BY <1>1 DEF Outcome, Reported
<1>4. status' = IF result = Pair!Legs THEN "live_open" ELSE "needs_reconcile"
  BY <1>1, <1>2 DEF Legs, Pair!Legs
<1> QED
  BY <1>1, <1>2, <1>3, <1>4 DEF Pair!Next, Pair!Report

\* Answers are collected in private; nothing else touches an execution.
LEMMA StepKeepsPromise == ASSUME RuntimeInv, [Next]_vars PROVE [Pair!Next]_(Pair!vars)
<1>0. ExecInv
  BY DEF RuntimeInv
<1>1. CASE Trade
  BY <1>0, <1>1, SubmitKeepsPromise DEF Trade
<1>2. CASE ExecNext
  <2>1. ASSUME NEW leg \in Legs, TakeOrder(leg) PROVE Pair!Next
    BY <1>0, <2>1, TakeOrderKeepsPromise
  <2>2. CASE ReturnResult
    BY <1>0, <2>2, ReturnKeepsPromise
  <2>3. ASSUME NEW leg \in Legs, NEW ok \in BOOLEAN, Answer(leg, ok) PROVE UNCHANGED Pair!vars
    BY <2>3 DEF Answer, Pair!vars, Outcome, Reported
  <2>4. CASE Expire
    BY <2>4 DEF Expire, Pair!vars, Outcome, Reported
  <2>5. CASE Collect
    BY <2>5 DEF Collect, Pair!vars, Outcome, Reported
  <2> QED
    BY <1>2, <2>1, <2>2, <2>3, <2>4, <2>5 DEF ExecNext
<1>3. CASE UNCHANGED execVars
  BY <1>3 DEF execVars, Pair!vars, Outcome, Reported
<1> QED
  <2>1. ASSUME ~Trade, ~ExecNext PROVE UNCHANGED execVars
    BY <2>1 DEF Next, Scan, Take, Handled, Executed, StopScanner, StopWriter, Signal, ApiFails,
                ApiCloses, Main, BeginShutdown, EndShutdown, Return, MainGoes, vars
  <2> QED
    BY <1>1, <1>2, <1>3, <2>1

\* A live execution keeps the promise of OrderPair: it says live_open only with both
\* orders on their exchanges, and needs_reconcile whenever an order may exist that its
\* result does not hold.
THEOREM ReportsAreTrue == Spec => ReportIsTrue
<1>1. Init => Pair!Init
  BY DEF Init, ExecInit, Pair!Init, Outcome, Reported
<1>2. RuntimeInv /\ [Next]_vars => [Pair!Next]_(Pair!vars)
  BY StepKeepsPromise
<1> QED
  BY <1>1, <1>2, RuntimeInvariant, PTL DEF Spec, ReportIsTrue, Pair!Spec
=============================================================================
