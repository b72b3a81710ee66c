--------------------------- MODULE HealthProbeProofs ---------------------------
(***************************************************************************)
(* The probe of a machine for any thresholds and any number of results     *)
(* that wait for the ReadinessActor.                                       *)
(***************************************************************************)
EXTENDS HealthProbe, TLAPS

LEMMA ThresholdType == ASSUME NEW b \in Result PROVE Threshold(b) \in Nat \ {0}
  BY ThresholdAssumption DEF Threshold

\* What one result does to a ReadinessActor: it stays below the threshold of the
\* behaviour it has, keeps that or takes the one that the result argues for, and
\* counts a result that speaks against it.
LEMMA ResultCounts ==
  ASSUME NEW s \in Readiness, NEW r \in Result, s.counter < Threshold(s.behavior)
  PROVE  /\ AfterResult(s, r) \in Readiness
         /\ AfterResult(s, r).counter < Threshold(AfterResult(s, r).behavior)
         /\ Flips(s, r) => AfterResult(s, r).behavior = r
         /\ ~Flips(s, r) => AfterResult(s, r).behavior = s.behavior
         /\ AfterResult(s, r).behavior = r \/ AfterResult(s, r).counter = s.counter + 1
<1>1. s.behavior \in Result /\ s.counter \in Nat
  BY DEF Readiness
<1>2. Threshold(s.behavior) \in Nat \ {0} /\ Threshold(r) \in Nat \ {0}
  BY <1>1, ThresholdType
<1>3. CASE Flips(s, r)
  BY <1>2, <1>3 DEF AfterResult, Readiness
<1>4. CASE ~Flips(s, r) /\ r # s.behavior
  BY <1>1, <1>2, <1>4 DEF AfterResult, Readiness, Flips
<1>5. CASE r = s.behavior
  BY <1>5 DEF AfterResult, Flips
<1> QED
  BY <1>3, <1>4, <1>5

\* A mailbox of at most one message.
LEMMA OneMessage ==
  ASSUME NEW S, NEW m \in S, NEW q \in {<<>>, <<m>>}
  PROVE  q \in Seq(S) /\ Len(q) <= 1
<1>1. CASE q = <<>>
  BY <1>1
<1>2. CASE q = <<m>>
  BY <1>2
<1> QED
  BY <1>1, <1>2

LEMMA LastMessage ==
  ASSUME NEW S, NEW q \in Seq(S), Len(q) <= 1, q # <<>>
  PROVE  Tail(q) \in Seq(S) /\ Tail(q) = <<>>
  OBVIOUS

LEMMA MostNeededType == MostNeeded \in Nat \ {0}
  BY ThresholdAssumption DEF MostNeeded

\* One token goes round: a message of the TickerActor, the request its handler
\* makes, or the timer.
Token ==
  /\ Len(inbox) <= 1
  /\ inbox # <<>> => request = "none" /\ timer = "off"
  /\ request # "none" => timer = "off"

\* The ReadinessActor never sits on a full count, and the manager knows what it is.
Told ==
  /\ readiness.counter < Threshold(readiness.behavior)
  /\ \/ reported = readiness.behavior
     \/ reported = "none" /\ readiness.behavior = "Unready"

\* The streak, result by result: its last ones wait in the mailbox, and those before
\* have been counted, or they have changed the behaviour.
Streak ==
  listener = "alive" =>
    /\ \A i \in 1..Len(results) : i > Len(results) - streak.length => results[i] = streak.of
    /\ streak.length > Len(results) =>
         \/ readiness.behavior = streak.of
         \/ readiness.counter >= streak.length - Len(results)

ProbeInv == TypeOK /\ Token /\ Told /\ Streak

LEMMA ProbeInitial == Init => ProbeInv
<1> SUFFICES ASSUME Init PROVE ProbeInv
  OBVIOUS
<1> USE DEF Init
<1>1. MostNeeded \in Nat \ {0} /\ Threshold("Unready") \in Nat \ {0}
  BY MostNeededType, ThresholdType DEF Result
<1>2. inbox \in Seq({"Start", "ReceiveTimeout"}) /\ Len(inbox) <= 1
  <2>1. inbox \in {<<>>, <<"Start">>}
    OBVIOUS
  <2> DEFINE Message == {"Start", "ReceiveTimeout"}
  <2>2. "Start" \in Message
    OBVIOUS
  <2> HIDE DEF Message
  <2>3. inbox \in Seq(Message) /\ Len(inbox) <= 1
    BY <2>1, <2>2, OneMessage
  <2> QED
    BY <2>3 DEF Message
<1>3. TypeOK
  BY <1>1, <1>2 DEF TypeOK, Services, Result, Readiness, NewReadiness
<1>4. Token /\ Told /\ Streak
  BY <1>1, <1>2 DEF Token, Told, Streak, NewReadiness
<1> QED
  BY <1>3, <1>4 DEF ProbeInv

\* The TickerActor takes a message, and the handler learns the outcome.
LEMMA TickKeeps ==
  ASSUME ProbeInv, ReceiveStart \/ ReceiveTimeout \/ Probe
  PROVE  ProbeInv'
<1> USE DEF ProbeInv
<1>1. UNCHANGED <<ticker, timer, service, listener, results, readiness, reported, streak>>
  BY DEF ReceiveStart, ReceiveTimeout, Probe, BeginTick, listenerVars
<1>2. CASE ReceiveStart \/ ReceiveTimeout
  <2>1. request = "none" /\ inbox # <<>> /\ inbox' = Tail(inbox) /\ request' = "sent"
    BY <1>2 DEF ReceiveStart, ReceiveTimeout, Takes, BeginTick
  <2>2. inbox \in Seq({"Start", "ReceiveTimeout"}) /\ Len(inbox) <= 1
    BY DEF TypeOK, Token
  <2>3. inbox' \in Seq({"Start", "ReceiveTimeout"}) /\ inbox' = <<>>
    BY <2>1, <2>2, LastMessage
  <2>4. TypeOK'
    BY <1>1, <2>1, <2>3 DEF TypeOK
  <2>5. Token' /\ Told' /\ Streak'
    BY <1>1, <2>1, <2>3 DEF Token, Told, Streak
  <2> QED
    BY <2>4, <2>5
<1>3. CASE Probe
  <2>1. request = "sent" /\ request' \in Result /\ inbox' = inbox
    BY <1>3 DEF Probe, Outcome, Result
  <2>2. TypeOK'
    BY <1>1, <2>1 DEF TypeOK
  <2>3. Token' /\ Told' /\ Streak'
    BY <1>1, <2>1 DEF Token, Told, Streak, Result
  <2> QED
    BY <2>2, <2>3
<1> QED
  BY <1>2, <1>3

\* The handler sends its result and arms the timer: the streak grows with the mailbox.
LEMMA EndTickKeeps == ASSUME ProbeInv, EndTick PROVE ProbeInv'
<1> USE DEF ProbeInv
<1>1. /\ request \in Result /\ request' = "none" /\ timer' = "armed"
      /\ UNCHANGED <<ticker, inbox, service, listener, readiness, reported>>
  BY DEF EndTick, SetReceiveTimeout
<1>2. results' = IF listener = "alive" THEN Append(results, request) ELSE results
  BY DEF EndTick
<1>3. /\ streak \in [of : Result, length : 0..MostNeeded] /\ results \in Seq(Result)
      /\ MostNeeded \in Nat \ {0} /\ readiness.counter \in Nat
  BY MostNeededType DEF TypeOK, Readiness
<1>4. \/ /\ streak.of # request /\ streak' = [of |-> request, length |-> 1]
      \/ /\ streak.of = request
         /\ streak' = [streak EXCEPT !.length = IF streak.length = MostNeeded
                                                THEN streak.length ELSE streak.length + 1]
  BY DEF EndTick
<1>5. /\ streak' \in [of : Result, length : 0..MostNeeded]
      /\ \/ streak.of # request /\ streak'.of = request /\ streak'.length = 1
         \/ /\ streak.of = request /\ streak'.of = request
            /\ streak'.length \in {streak.length, streak.length + 1}
  BY <1>1, <1>3, <1>4
<1>6. results' \in Seq(Result)
  BY <1>1, <1>2, <1>3
<1>7. TypeOK'
  BY <1>1, <1>5, <1>6 DEF TypeOK
<1>8. Token' /\ Told'
  BY <1>1 DEF Token, Told, Result
<1>9. Streak'
  <2> SUFFICES ASSUME listener = "alive" PROVE Streak'
    BY <1>1 DEF Streak
  <2>1. /\ Len(results') = Len(results) + 1 /\ Len(results) \in Nat
        /\ results'[Len(results) + 1] = request
        /\ \A i \in 1..Len(results) : results'[i] = results[i]
    BY <1>1, <1>2, <1>3
  <2>2. streak.length \in Nat /\ streak'.length \in Nat
    BY <1>3, <1>5
  <2>3. \A i \in 1..Len(results') :
          i > Len(results') - streak'.length => results'[i] = streak'.of
    <3> SUFFICES ASSUME NEW i \in 1..Len(results'), i > Len(results') - streak'.length
                 PROVE  results'[i] = streak'.of
      OBVIOUS
    <3>1. CASE i = Len(results) + 1
      BY <1>5, <2>1, <3>1
    <3>2. CASE i # Len(results) + 1
      <4>1. i \in 1..Len(results) /\ streak'.length # 1
        BY <2>1, <2>2, <3>2
      <4>2. streak.of = request /\ streak'.of = request /\ i > Len(results) - streak.length
        BY <1>5, <2>1, <2>2, <4>1
      <4> QED
        BY <2>1, <4>1, <4>2 DEF Streak
    <3> QED
      BY <3>1, <3>2
  <2>4. streak'.length > Len(results') =>
          \/ readiness.behavior = streak'.of
          \/ readiness.counter >= streak'.length - Len(results')
    <3> SUFFICES ASSUME streak'.length > Len(results'), readiness.behavior # streak'.of
                 PROVE  readiness.counter >= streak'.length - Len(results')
      OBVIOUS
    <3>1. streak'.of = streak.of /\ streak.length > Len(results)
          /\ streak'.length - Len(results') <= streak.length - Len(results)
      BY <1>5, <2>1, <2>2
    <3>2. readiness.counter >= streak.length - Len(results)
      BY <3>1 DEF Streak
    <3> QED
      BY <1>3, <2>1, <2>2, <3>1, <3>2
  <2> QED
    BY <1>1, <2>3, <2>4 DEF Streak
<1> QED
  BY <1>7, <1>8, <1>9

\* The ReadinessActor takes the oldest result.
LEMMA ReceiveKeeps == ASSUME ProbeInv, ReadinessReceive PROVE ProbeInv'
<1> USE DEF ProbeInv
<1> DEFINE r == Head(results)
<1>1. /\ listener = "alive" /\ results # <<>> /\ results' = Tail(results)
      /\ readiness' = AfterResult(readiness, r)
      /\ reported' = IF Flips(readiness, r) THEN r ELSE reported
      /\ UNCHANGED <<ticker, inbox, timer, request, service, listener, streak>>
  BY DEF ReadinessReceive, Forwards, tickerVars
<1>2. /\ results \in Seq(Result) /\ readiness \in Readiness
      /\ streak \in [of : Result, length : 0..MostNeeded] /\ streak.length \in Nat
  BY MostNeededType DEF TypeOK
<1>3. /\ r \in Result /\ r = results[1] /\ Len(results) \in Nat \ {0}
      /\ results' \in Seq(Result) /\ Len(results') = Len(results) - 1
      /\ \A i \in 1..Len(results') : results'[i] = results[i + 1]
  BY <1>1, <1>2
<1>4. /\ readiness' \in Readiness /\ readiness'.counter < Threshold(readiness'.behavior)
      /\ Flips(readiness, r) => readiness'.behavior = r
      /\ ~Flips(readiness, r) => readiness'.behavior = readiness.behavior
      /\ readiness'.behavior = r \/ readiness'.counter = readiness.counter + 1
  BY <1>1, <1>2, <1>3, ResultCounts DEF Told
<1> HIDE DEF r
<1>5. TypeOK'
  BY <1>1, <1>3, <1>4 DEF TypeOK
<1>6. Token'
  BY <1>1 DEF Token
<1>7. Told'
  BY <1>1, <1>4 DEF Told
<1>8. Streak'
  <2>1. \A i \in 1..Len(results') :
          i > Len(results') - streak.length => results'[i] = streak.of
    <3> SUFFICES ASSUME NEW i \in 1..Len(results'), i > Len(results') - streak.length
                 PROVE  results'[i] = streak.of
      OBVIOUS
    <3>1. i + 1 \in 1..Len(results) /\ i + 1 > Len(results) - streak.length
      BY <1>2, <1>3
    <3> QED
      BY <1>1, <1>3, <3>1 DEF Streak
  <2>2. streak.length > Len(results') =>
          \/ readiness'.behavior = streak.of
          \/ readiness'.counter >= streak.length - Len(results')
    <3> SUFFICES ASSUME streak.length > Len(results'), readiness'.behavior # streak.of
                 PROVE  readiness'.counter >= streak.length - Len(results')
      OBVIOUS
    <3>1. r = streak.of
      <4>1. 1 \in 1..Len(results) /\ 1 > Len(results) - streak.length
        BY <1>2, <1>3
      <4> QED
        BY <1>1, <1>3, <4>1 DEF Streak
    <3>2. /\ readiness'.counter = readiness.counter + 1
          /\ readiness.behavior # streak.of
      BY <1>4, <3>1
    <3>3. readiness.counter \in Nat
      BY <1>2 DEF Readiness
    <3>4. CASE streak.length > Len(results)
      <4>1. readiness.counter >= streak.length - Len(results)
        BY <1>1, <3>2, <3>4 DEF Streak
      <4> QED
        BY <1>2, <1>3, <3>2, <3>3, <4>1
    <3>5. CASE streak.length = Len(results)
      BY <1>2, <1>3, <3>2, <3>3, <3>5
    <3> QED
      BY <1>2, <1>3, <3>4, <3>5
  <2> QED
    BY <1>1, <2>1, <2>2 DEF Streak
<1> QED
  BY <1>5, <1>6, <1>7, <1>8

\* The timer, the service and the ends of the actors.
LEMMA OutsideKeeps ==
  ASSUME ProbeInv, TimerFires \/ ServiceChanges \/ StopTicker \/ StopListener
  PROVE  ProbeInv'
<1> USE DEF ProbeInv
<1>1. CASE TimerFires
  <2>1. /\ timer = "armed" /\ timer' = "off"
        /\ inbox' = IF ticker = "alive" THEN Append(inbox, "ReceiveTimeout") ELSE inbox
        /\ UNCHANGED <<ticker, request, service, listener, results, readiness, reported, streak>>
    BY <1>1 DEF TimerFires, listenerVars
  <2>2. inbox = <<>> /\ request = "none"
    BY <2>1 DEF Token
  <2>3. inbox' \in Seq({"Start", "ReceiveTimeout"}) /\ Len(inbox') <= 1
    <3>1. inbox' \in {<<>>, <<"ReceiveTimeout">>}
      BY <2>1, <2>2
    <3> DEFINE Message == {"Start", "ReceiveTimeout"}
    <3>2. "ReceiveTimeout" \in Message
      OBVIOUS
    <3> HIDE DEF Message
    <3>3. inbox' \in Seq(Message) /\ Len(inbox') <= 1
      BY <3>1, <3>2, OneMessage
    <3> QED
      BY <3>3 DEF Message
  <2>4. TypeOK'
    BY <2>1, <2>3 DEF TypeOK
  <2>5. Token' /\ Told' /\ Streak'
    BY <2>1, <2>2, <2>3 DEF Token, Told, Streak
  <2> QED
    BY <2>4, <2>5
<1>2. CASE ServiceChanges
  <2>1. TypeOK'
    BY <1>2 DEF ServiceChanges, TypeOK, tickerVars, listenerVars
  <2>2. Token' /\ Told' /\ Streak'
    BY <1>2 DEF ServiceChanges, Token, Told, Streak, tickerVars, listenerVars
  <2> QED
    BY <2>1, <2>2
<1>3. CASE StopTicker
  <2>1. TypeOK'
    BY <1>3 DEF StopTicker, TypeOK, listenerVars
  <2>2. Token' /\ Told' /\ Streak'
    BY <1>3 DEF StopTicker, Token, Told, Streak, listenerVars
  <2> QED
    BY <2>1, <2>2
<1>4. CASE StopListener
  <2>1. TypeOK'
    BY <1>4 DEF StopListener, TypeOK, tickerVars
  <2>2. Token' /\ Told' /\ Streak'
    BY <1>4 DEF StopListener, Token, Told, Streak, tickerVars
  <2> QED
    BY <2>1, <2>2
<1> QED
  BY <1>1, <1>2, <1>3, <1>4

LEMMA ProbeInvariant == Spec => []ProbeInv
<1>1. ASSUME ProbeInv, UNCHANGED vars PROVE ProbeInv'
  BY <1>1 DEF ProbeInv, vars, tickerVars, listenerVars, TypeOK, Token, Told, Streak
<1>2. ProbeInv /\ [Next]_vars => ProbeInv'
  BY <1>1, TickKeeps, EndTickKeeps, ReceiveKeeps, OutsideKeeps DEF Next
<1> QED
  BY <1>2, ProbeInitial, PTL DEF Spec

\* The state keeps its type: in particular the count of a ReadinessActor stays a
\* number and its mailbox holds results only, whatever the machine answers.
THEOREM ProbeTyped == Spec => []TypeOK
  BY ProbeInvariant, PTL DEF ProbeInv

\* However long a probe takes, no tick waits behind another one: the handler has the
\* only message, and the timer is off until it has answered.
THEOREM TicksDoNotPileUp == Spec => []OneTick
<1>1. ProbeInv => OneTick
  <2> SUFFICES ASSUME ProbeInv PROVE OneTick
    OBVIOUS
  <2>1. request # "none" \/ timer = "armed" => inbox = <<>>
    BY DEF ProbeInv, Token
  <2>2. inbox = <<>> => Waiting = {}
    BY DEF Waiting
  <2> QED
    BY <2>1, <2>2 DEF ProbeInv, Token, OneTick
<1> QED
  BY <1>1, ProbeInvariant, PTL

\* For any thresholds, a run of equal results as long as its threshold has been
\* reported once the ReadinessActor has read it, whatever results came before.
THEOREM StreaksAreReported == Spec => []StreakReported
<1>1. ProbeInv => StreakReported
  <2> SUFFICES ASSUME ProbeInv, listener = "alive", results = <<>>
               PROVE  \/ streak.length < Threshold(IF streak.of = "Ready" THEN "Unready" ELSE "Ready")
                      \/ reported = streak.of
                      \/ streak.of = "Unready" /\ reported = "none"
    BY DEF StreakReported
  <2>1. /\ streak.of \in Result /\ streak.length \in Nat /\ Len(results) = 0
        /\ readiness.behavior \in Result /\ readiness.counter \in Nat
        /\ Threshold("Ready") \in Nat \ {0} /\ Threshold("Unready") \in Nat \ {0}
    BY MostNeededType, ThresholdType DEF ProbeInv, TypeOK, Readiness, Result
  <2>2. CASE streak.length = 0
    BY <2>1, <2>2
  <2>3. CASE readiness.behavior = streak.of
    BY <2>3 DEF ProbeInv, Told
  <2>4. CASE streak.length # 0 /\ readiness.behavior # streak.of
    <3>1. readiness.counter >= streak.length /\ readiness.counter < Threshold(readiness.behavior)
      BY <2>1, <2>4 DEF ProbeInv, Told, Streak
    <3>2. readiness.behavior = IF streak.of = "Ready" THEN "Unready" ELSE "Ready"
      BY <2>1, <2>4 DEF Result
    <3> QED
      BY <2>1, <3>1, <3>2
  <2> QED
    BY <2>2, <2>3, <2>4
<1> QED
  BY <1>1, ProbeInvariant, PTL

===============================================================================
