------------------------------ MODULE HealthProbe ------------------------------
(***************************************************************************)
(* The probe of one machine: the TickerActor, which the actor system wakes *)
(* by a receive timeout (pkg/actors/ticker), the GET /health it makes      *)
(* inside its handler (pkg/actors/vmm/probe.go, pkg/prober/remote/http),   *)
(* and the ReadinessActor that turns results into reports for the manager. *)
(* VMMManager takes a tick for one action; here is what it consists of.    *)
(***************************************************************************)
EXTENDS ReadinessRules, Sequences

CONSTANT MaxResults  \* bound: results that wait for the ReadinessActor

ASSUME ProbeAssumption == MaxResults \in Nat \ {0}

VARIABLES
  ticker,     \* the TickerActor: alive or stopped
  inbox,      \* its messages
  timer,      \* its receive timeout
  request,    \* GET /health, made by the handler the TickerActor is in
  service,    \* how the machine answers
  listener,   \* the ReadinessActor: alive or stopped
  results,    \* its messages
  readiness,  \* its behaviour and counter
  reported,   \* the last report the manager was sent
  streak      \* history: the latest probes with the same result, and that result

tickerVars == <<ticker, inbox, timer, request>>
listenerVars == <<listener, results, readiness, reported>>
vars == <<tickerVars, service, listenerVars, streak>>

Services == {"healthy", "failing", "silent", "down"}

MostNeeded == IF SuccessThreshold > FailureThreshold THEN SuccessThreshold ELSE FailureThreshold

TypeOK ==
  /\ ticker \in {"alive", "stopped"}
  /\ inbox \in Seq({"Start", "ReceiveTimeout"})
  /\ timer \in {"off", "armed"}
  /\ request \in {"none", "sent"} \cup Result
  /\ service \in Services
  /\ listener \in {"alive", "stopped"}
  /\ results \in Seq(Result)
  /\ readiness \in Readiness
  /\ reported \in Result \cup {"none"}
  /\ streak \in [of : Result, length : 0..MostNeeded]

\* startHealthProbe has spawned both actors and sent Start.
Init ==
  /\ ticker = "alive"
  /\ inbox = <<"Start">>
  /\ timer = "off"
  /\ request = "none"
  /\ service = "down"
  /\ listener = "alive"
  /\ results = <<>>
  /\ readiness = NewReadiness
  /\ reported = "none"
  /\ streak = [of |-> "Unready", length |-> 0]

-------------------------------------------------------------------------------
(* The TickerActor.  A handler that is inside the request holds it. *)

Takes(message) == /\ ticker = "alive"
                  /\ request = "none"
                  /\ inbox # <<>>
                  /\ Head(inbox) = message
                  /\ inbox' = Tail(inbox)

MutBeginTick == request' = "sent" /\ timer' = "armed"

\* The handler comes first and SetReceiveTimeout after it.
BeginTick == request' = "sent" /\ UNCHANGED timer

\* *Start, without an initial delay.
ReceiveStart ==
  /\ Takes("Start")
  /\ BeginTick
  /\ UNCHANGED <<ticker, service, listenerVars, streak>>

ReceiveTimeout ==
  /\ Takes("ReceiveTimeout")
  /\ BeginTick
  /\ UNCHANGED <<ticker, service, listenerVars, streak>>

MutRawOutcome == IF service = "healthy" THEN "Ready" ELSE service

\* DoHTTPProbe: only a 2xx status is a success; another status, a refused
\* connection and the three seconds of the client are failures.
Outcome == IF service = "healthy" THEN "Ready" ELSE "Unready"

\* The answer, or the lack of one, is known to the handler.
Probe ==
  /\ request = "sent"
  /\ request' = Outcome
  /\ UNCHANGED <<ticker, inbox, timer, service, listenerVars, streak>>

MutSetReceiveTimeout == timer' = IF service = "silent" THEN "off" ELSE "armed"

\* SetReceiveTimeout(period)
SetReceiveTimeout == timer' = "armed"

\* TickerFunc sends the result, which a stopped actor does not take.
EndTick ==
  /\ request \in Result
  /\ Len(results) < MaxResults
  /\ request' = "none"
  /\ SetReceiveTimeout
  /\ results' = IF listener = "alive" THEN Append(results, request) ELSE results
  /\ streak' = IF streak.of # request THEN [of |-> request, length |-> 1]
               ELSE [streak EXCEPT !.length = IF @ = MostNeeded THEN @ ELSE @ + 1]
  /\ UNCHANGED <<ticker, inbox, service, listener, readiness, reported>>

\* The timer goroutine switches the timer off and sends the message.
TimerFires ==
  /\ timer = "armed"
  /\ timer' = "off"
  /\ inbox' = IF ticker = "alive" THEN Append(inbox, "ReceiveTimeout") ELSE inbox
  /\ UNCHANGED <<ticker, request, service, listenerVars, streak>>

-------------------------------------------------------------------------------
(* The ReadinessActor. *)

MutForwards(s, result) == result # s.behavior /\ s.counter + 1 > Threshold(s.behavior)

\* context.Forward(a.manager)
Forwards(s, result) == Flips(s, result)

ReadinessReceive ==
  /\ listener = "alive"
  /\ results # <<>>
  /\ results' = Tail(results)
  /\ readiness' = AfterResult(readiness, Head(results))
  /\ reported' = IF Forwards(readiness, Head(results)) THEN Head(results) ELSE reported
  /\ UNCHANGED <<tickerVars, service, listener, streak>>

-------------------------------------------------------------------------------
(* The outside. *)

\* The service starts, fails, hangs, ends.
ServiceChanges ==
  /\ \E s \in Services \ {service} : service' = s
  /\ UNCHANGED <<tickerVars, listenerVars, streak>>

\* The VMMActor stops and takes its children with it, each between two messages.
StopTicker ==
  /\ ticker = "alive"
  /\ request = "none"
  /\ ticker' = "stopped"
  /\ inbox' = <<>>
  /\ UNCHANGED <<timer, request, service, listenerVars, streak>>

StopListener ==
  /\ listener = "alive"
  /\ listener' = "stopped"
  /\ results' = <<>>
  /\ UNCHANGED <<tickerVars, service, readiness, reported, streak>>

Next == \/ ReceiveStart \/ ReceiveTimeout \/ Probe \/ EndTick \/ TimerFires
        \/ ReadinessReceive
        \/ ServiceChanges \/ StopTicker \/ StopListener

Spec == Init /\ [][Next]_vars

(***************************************************************************)
(* Actors with a message run, timers fire, and a request ends: the client  *)
(* has a timeout.  Nothing is assumed of the service or of the parent.     *)
(***************************************************************************)
Fairness ==
  /\ WF_vars(ReceiveStart) /\ WF_vars(ReceiveTimeout)
  /\ WF_vars(Probe) /\ WF_vars(EndTick) /\ WF_vars(TimerFires)
  /\ WF_vars(ReadinessReceive)

FairSpec == Spec /\ Fairness

-------------------------------------------------------------------------------

Waiting == {i \in DOMAIN inbox : inbox[i] = "ReceiveTimeout"}

\* A probe may take three seconds while the period is one, and the timer runs in
\* a goroutine of its own: still no tick waits behind another one, and a machine
\* that does not answer is not asked ever more often.
OneTick == /\ request # "none" \/ timer = "armed" => Waiting = {}
           /\ Len(inbox) <= 1

\* The reports keep up with the probes, whatever came before: once the
\* ReadinessActor has read all results, the manager has been told of the latest
\* run of equal results if it is as long as its threshold.  Results that are not
\* consecutive may make a machine unready earlier than that, never later.
StreakReported ==
  listener = "alive" /\ results = <<>> =>
    \/ streak.length < Threshold(IF streak.of = "Ready" THEN "Unready" ELSE "Ready")
    \/ reported = streak.of
    \/ streak.of = "Unready" /\ reported = "none"

Alive == ticker = "alive" /\ listener = "alive"

\* As long as the actors live, a service that stays dead, fails or hangs is
\* reported unready if it had been reported ready, and one that stays healthy is
\* reported ready.
ReportSettles ==
  /\ <>[](Alive /\ service # "healthy") => <>[](reported # "Ready")
  /\ <>[](Alive /\ service = "healthy") => <>[](reported = "Ready")

===============================================================================
