---------------------------- MODULE ReadinessRules ----------------------------
(***************************************************************************)
(* What one probe result does to a ReadinessActor                          *)
(* (pkg/actors/vmm/readiness.go).  The actor is one of two behaviours,     *)
(* Unready and Ready, and a counter.  A behaviour counts only the results  *)
(* that speak against it and ignores the others: the counter is reset when *)
(* the behaviour changes and by nothing else, so the results it counts     *)
(* need not be consecutive.                                                *)
(***************************************************************************)
EXTENDS Naturals

CONSTANTS SuccessThreshold,  \* results *Ready that make an Unready actor Ready
          FailureThreshold   \* results *Unready that make a Ready actor Unready

ASSUME ThresholdAssumption == /\ SuccessThreshold \in Nat \ {0}
                              /\ FailureThreshold \in Nat \ {0}

\* The two messages of a probe, named as the two behaviours they argue for.
Result == {"Ready", "Unready"}

Readiness == [behavior : Result, counter : Nat]

NewReadiness == [behavior |-> "Unready", counter |-> 0]

Threshold(behavior) ==
  IF behavior = "Unready" THEN SuccessThreshold ELSE FailureThreshold

\* The result makes the actor change its behaviour, and then the actor
\* forwards the result to the manager.
Flips(s, result) == /\ result # s.behavior
                    /\ s.counter + 1 >= Threshold(s.behavior)

\* The actor after it has received the result.
AfterResult(s, result) ==
  IF Flips(s, result) THEN [behavior |-> result, counter |-> 0]
  ELSE IF result # s.behavior THEN [s EXCEPT !.counter = @ + 1]
  ELSE s

===============================================================================
