----------------------------- MODULE FireboxProofs -----------------------------
(***************************************************************************)
(* What the http servers do by themselves is proved first, of HttpServer.  *)
(* The server process as a whole keeps what its parts promise: seen from   *)
(* the machines and the invocations every step of Firebox is one of        *)
(* ServiceInvoke or changes nothing, and seen from the http servers it is  *)
(* one of HttpServer.  What a graceful shutdown means for requests and     *)
(* machines follows from the two and from the requests that join them.     *)
(***************************************************************************)
EXTENDS Firebox, ServiceInvokeProofs, FiniteSetTheorems

-------------------------------------------------------------------------------
(* The http servers by themselves, for any schemes and any number of connections. *)

\* The servers whose result the loop of handleShutdown has yet to receive.
Undelivered == {s \in Schemes : shutter[s] # "delivered"}

\* The server has no connection left.
Quiet(s) == active[s] = 0 /\ idle[s] = 0

\* Where handleShutdown is and where its goroutines are.
StopperInv ==
  /\ main \in {"status", "listen", "start"} => stopper = "none"
  /\ stopper \in {"none", "await", "hook"} => success /\ \A s \in Schemes : shutter[s] = "none"
  /\ stopper \in {"collect", "finished"} => ~ready
  /\ \A s \in Schemes : inShutdown[s] <=> shutter[s] \in {"draining", "ok", "failed", "delivered"}

\* As long as no failure has been received every turn of the loop receives a
\* result, so the turns that are left and the results that are left agree, and
\* what has been received speaks of idle servers.
LoopInv ==
  /\ stopper = "collect" /\ success => pending = Cardinality(Undelivered)
  /\ stopper = "finished" /\ success => Undelivered = {}
  /\ \A s \in Schemes : shutter[s] = "ok" \/ (shutter[s] = "delivered" /\ success) => Quiet(s)
  /\ main # "status" /\ ~healthy => stopper = "finished" /\ success

Inv == TypeOK /\ StopperInv /\ LoopInv

LEMMA SchemesFinite == IsFiniteSet(Schemes)
<1>1. IsFiniteSet({} \cup {"unix"})
  BY FS_EmptySet, FS_AddElement
<1>2. IsFiniteSet(({} \cup {"unix"}) \cup {"http"})
  BY <1>1, FS_AddElement
<1>3. IsFiniteSet((({} \cup {"unix"}) \cup {"http"}) \cup {"https"})
  BY <1>2, FS_AddElement
<1>4. AllSchemes = (({} \cup {"unix"}) \cup {"http"}) \cup {"https"}
  BY DEF AllSchemes
<1> QED
  BY <1>3, <1>4, FS_Subset, ServerAssumption

LEMMA TurnsLeft == Cardinality(Schemes) \in Nat
BY SchemesFinite, FS_CardinalityType

LEMMA InitInv == Init => Inv
<1> SUFFICES ASSUME Init PROVE Inv
  OBVIOUS
<1>1. /\ pending \in 0..Cardinality(Schemes)
      /\ active \in [Schemes -> 0..MaxConnections]
      /\ idle \in [Schemes -> 0..MaxConnections]
  BY TurnsLeft, ServerAssumption DEF Init
<1>2. TypeOK
  BY <1>1 DEF Init, TypeOK
<1>3. StopperInv /\ LoopInv
  BY DEF Init, StopperInv, LoopInv, Quiet
<1> QED
  BY <1>2, <1>3 DEF Inv

\* A step that leaves the shutdown alone and opens no connection to a server that
\* has been shut down.
LEMMA ShutdownUntouched ==
  ASSUME Inv, TypeOK', UNCHANGED <<inShutdown, stopVars, statusVars>>,
         main' \in {"status", "listen", "start"} => main \in {"status", "listen", "start"},
         main = "status" => main' = "status" \/ (healthy /\ stopper = "none"),
         \A s \in Schemes : Quiet(s) /\ inShutdown[s] => Quiet(s)'
  PROVE  Inv'
<1>1. StopperInv'
  BY DEF Inv, StopperInv, stopVars, statusVars
<1>2. LoopInv'
  BY DEF Inv, StopperInv, LoopInv, Quiet, Undelivered, stopVars, statusVars
<1> QED
  BY <1>1, <1>2 DEF Inv

LEMMA StepTyped == TypeOK /\ [Next]_vars => TypeOK'
<1> SUFFICES ASSUME TypeOK, [Next]_vars PROVE TypeOK'
  OBVIOUS
<1> USE TurnsLeft, ServerAssumption DEF TypeOK
<1>1. CASE SetStatus
  BY <1>1 DEF SetStatus, serveVars, signalVars, stopVars, statusVars
<1>2. CASE ListenFails \/ TLSFails
  BY <1>2 DEF ListenFails, TLSFails, Fatalf, serveVars, signalVars, stopVars, statusVars
<1>3. CASE Notify
  BY <1>3 DEF Notify, serveVars, signalVars, stopVars, statusVars
<1>4. CASE StartStopper
  BY <1>4 DEF StartStopper, serveVars, signalVars, stopVars, statusVars
<1>5. CASE BeginClose
  BY <1>5 DEF BeginClose, serveVars, signalVars, stopVars, statusVars
<1>6. CASE Exit
  BY <1>6 DEF Exit, serveVars, signalVars, stopVars, statusVars
<1>7. CASE Signal
  <2>1. interrupt' \in BOOLEAN
    BY <1>7 DEF Signal
  <2>2. exit' \in {"no", "clean", "fatal"}
    BY <1>7 DEF Signal
  <2>3. UNCHANGED <<main, serveVars, notified, interrupted, shutdown, stopVars, statusVars>>
    BY <1>7 DEF Signal
  <2> QED
    BY <2>1, <2>2, <2>3 DEF serveVars, stopVars, statusVars
<1>8. CASE HandleInterrupt
  <2>1. interrupt' \in BOOLEAN /\ interrupted' \in BOOLEAN /\ shutdown' \in BOOLEAN
    BY <1>8 DEF HandleInterrupt
  <2>2. UNCHANGED <<main, serveVars, notified, stopVars, statusVars, exit>>
    BY <1>8 DEF HandleInterrupt
  <2> QED
    BY <2>1, <2>2 DEF serveVars, stopVars, statusVars
<1>9. CASE BeginGrace
  BY <1>9 DEF BeginGrace, serveVars, signalVars, stopVars, statusVars
<1>10. CASE GraceExpires
  BY <1>10 DEF GraceExpires, serveVars, signalVars, stopVars, statusVars
<1>11. CASE FinishStopper
  <2>1. healthy' \in BOOLEAN
    BY <1>11 DEF FinishStopper, ServerShutdown
  <2>2. /\ stopper' = "finished"
        /\ UNCHANGED <<main, serveVars, signalVars, shutter, pending, success, grace, ready, exit>>
    BY <1>11 DEF FinishStopper
  <2> QED
    BY <2>1, <2>2 DEF serveVars, signalVars
<1>12. CASE SpawnShutters
  <2>1. pending' \in 0..Cardinality(Schemes)
    BY <1>12 DEF SpawnShutters, Turns
  <2>2. shutter' \in [Schemes -> {"none", "spawned", "draining", "ok", "failed", "delivered"}]
    BY <1>12 DEF SpawnShutters
  <2>3. /\ stopper' = "collect" /\ ready' \in BOOLEAN
        /\ UNCHANGED <<main, serveVars, signalVars, success, grace, healthy, exit>>
    BY <1>12 DEF SpawnShutters, PreServerShutdown
  <2> QED
    BY <2>1, <2>2, <2>3 DEF serveVars, signalVars
<1>13. CASE UNCHANGED vars
  BY <1>13 DEF vars, serveVars, signalVars, stopVars, statusVars
<1>14. ASSUME NEW s \in Schemes, Listen(s) \/ AcceptFails(s) PROVE TypeOK'
  BY <1>14 DEF Listen, AcceptFails, Fatalf, serveVars, signalVars, stopVars, statusVars
<1>15. ASSUME NEW s \in Schemes, StartServer(s) \/ Serve(s) \/ ServeReturns(s) PROVE TypeOK'
  <2>1. server' \in [Schemes -> {"none", "starting", "serving", "returned"}]
    BY <1>15 DEF StartServer, Serve, ServeReturns
  <2> QED
    BY <1>15, <2>1 DEF StartServer, Serve, ServeReturns, signalVars, stopVars, statusVars
<1>16. ASSUME NEW s \in Schemes, Accept(s) \/ Request(s) \/ Respond(s) PROVE TypeOK'
  <2>1. active' \in [Schemes -> 0..MaxConnections]
    BY <1>16 DEF Accept, Request, Respond
  <2>2. idle' \in [Schemes -> 0..MaxConnections]
    BY <1>16 DEF Accept, Request, Respond
  <2> QED
    BY <1>16, <2>1, <2>2 DEF Accept, Request, Respond, signalVars, stopVars, statusVars
<1>17. ASSUME NEW s \in Schemes, ShutdownServer(s) PROVE TypeOK'
  <2>1. shutter' \in [Schemes -> {"none", "spawned", "draining", "ok", "failed", "delivered"}]
    BY <1>17 DEF ShutdownServer
  <2>2. inShutdown' \in [Schemes -> BOOLEAN]
    BY <1>17 DEF ShutdownServer
  <2> QED
    BY <1>17, <2>1, <2>2 DEF ShutdownServer, signalVars, statusVars
<1>18. ASSUME NEW s \in Schemes, ShutdownPolls(s) PROVE TypeOK'
  <2>1. shutter' \in [Schemes -> {"none", "spawned", "draining", "ok", "failed", "delivered"}]
    BY <1>18 DEF ShutdownPolls, ShutdownOutcome
  <2>2. idle' \in [Schemes -> 0..MaxConnections]
    BY <1>18 DEF ShutdownPolls
  <2> QED
    BY <1>18, <2>1, <2>2 DEF ShutdownPolls, signalVars, statusVars
<1>19. CASE Collect
  <2>1. pending' \in 0..Cardinality(Schemes)
    BY <1>19 DEF Collect
  <2>2. success' \in BOOLEAN
    BY <1>19 DEF Collect, Received
  <2>3. shutter' \in [Schemes -> {"none", "spawned", "draining", "ok", "failed", "delivered"}]
    BY <1>19 DEF Collect
  <2> QED
    BY <1>19, <2>1, <2>2, <2>3 DEF Collect, serveVars, signalVars, statusVars
<1> QED
  BY <1>1, <1>2, <1>3, <1>4, <1>5, <1>6, <1>7, <1>8, <1>9, <1>10, <1>11, <1>12, <1>13,
     <1>14, <1>15, <1>16, <1>17, <1>18, <1>19 DEF Next

LEMMA CollectKeepsLoop ==
  ASSUME Inv, Collect
  PROVE  LoopInv'
<1>0. /\ stopper = "collect" /\ UNCHANGED <<main, active, idle, stopper, healthy>>
      /\ shutter \in [Schemes -> {"none", "spawned", "draining", "ok", "failed", "delivered"}]
  BY DEF Collect, serveVars, statusVars, Inv, TypeOK
<1>1. CASE ~success /\ UNCHANGED <<success, shutter>>
  BY <1>0, <1>1 DEF Inv, LoopInv, Quiet
<1>2. ASSUME NEW s \in Schemes, success, shutter[s] \in {"ok", "failed"}, success' = Received(s),
             shutter' = [shutter EXCEPT ![s] = "delivered"]
      PROVE  LoopInv'
  <2>1. Undelivered' = Undelivered \ {s} /\ s \in Undelivered
    BY <1>0, <1>2 DEF Undelivered
  <2>2. IsFiniteSet(Undelivered)
    BY SchemesFinite, FS_Subset DEF Undelivered
  <2>3. Cardinality(Undelivered') = pending'
    BY <1>0, <1>2, <2>1, <2>2, FS_RemoveElement DEF Collect, Inv, LoopInv
  <2>4. success' => Quiet(s)
    BY <1>2 DEF Received, Inv, LoopInv
  <2>5. \A t \in Schemes : shutter'[t] = "ok" \/ (shutter'[t] = "delivered" /\ success')
          => Quiet(t)'
    BY <1>0, <1>2, <2>4 DEF Inv, LoopInv, Quiet
  <2> QED
    BY <1>0, <2>3, <2>5 DEF Inv, LoopInv
<1> QED
  BY <1>1, <1>2 DEF Collect

LEMMA StepInv == Inv /\ [Next]_vars => Inv'
<1> SUFFICES ASSUME Inv, [Next]_vars PROVE Inv'
  OBVIOUS
<1>0. TypeOK /\ TypeOK'
  BY StepTyped DEF Inv
<1>1. CASE SetStatus
  BY <1>0, <1>1 DEF SetStatus, Inv, StopperInv, LoopInv, Quiet, Undelivered, serveVars, stopVars
<1>2. CASE StartStopper
  <2>1. StopperInv'
    BY <1>2 DEF StartStopper, Inv, StopperInv, serveVars, statusVars
  <2>2. LoopInv'
    BY <1>2 DEF StartStopper, Inv, StopperInv, LoopInv, serveVars, statusVars
  <2> QED
    BY <1>0, <2>1, <2>2 DEF Inv
<1>3. CASE BeginGrace
  <2>1. StopperInv'
    BY <1>3 DEF BeginGrace, Inv, StopperInv, serveVars, statusVars
  <2>2. LoopInv'
    BY <1>3 DEF BeginGrace, Inv, LoopInv, Quiet, serveVars, statusVars
  <2> QED
    BY <1>0, <2>1, <2>2 DEF Inv
<1>4. CASE SpawnShutters
  <2>1. \A s \in Schemes : shutter[s] = "none" /\ shutter'[s] = "spawned"
    BY <1>4 DEF SpawnShutters, Inv, StopperInv
  <2>2. StopperInv'
    BY <1>4, <2>1 DEF SpawnShutters, PreServerShutdown, Inv, StopperInv, serveVars
  <2>3. Undelivered' = Schemes
    BY <2>1 DEF Undelivered
  <2>4. LoopInv'
    BY <1>4, <2>1, <2>3 DEF SpawnShutters, Turns, Inv, LoopInv
  <2> QED
    BY <1>0, <2>2, <2>4 DEF Inv
<1>5. ASSUME NEW s \in Schemes, ShutdownServer(s) PROVE Inv'
  <2>1. StopperInv'
    BY <1>0, <1>5 DEF ShutdownServer, Inv, StopperInv, TypeOK, statusVars
  <2>2. Undelivered' = Undelivered
    BY <1>0, <1>5 DEF ShutdownServer, Undelivered, TypeOK
  <2>3. LoopInv'
    BY <1>0, <1>5, <2>2 DEF ShutdownServer, Inv, LoopInv, Quiet, TypeOK, statusVars
  <2> QED
    BY <1>0, <2>1, <2>3 DEF Inv
<1>6. ASSUME NEW s \in Schemes, ShutdownPolls(s) PROVE Inv'
  <2>1. PICK outcome \in ShutdownOutcome(s) : shutter' = [shutter EXCEPT ![s] = outcome]
    BY <1>6 DEF ShutdownPolls
  <2>2. outcome \in {"draining", "ok", "failed"} /\ (outcome = "ok" => active[s] = 0)
    BY <2>1 DEF ShutdownOutcome
  <2>3. StopperInv'
    BY <1>0, <1>6, <2>1, <2>2 DEF ShutdownPolls, Inv, StopperInv, TypeOK, statusVars
  <2>4. Undelivered' = Undelivered
    BY <1>0, <1>6, <2>1, <2>2 DEF ShutdownPolls, Undelivered, TypeOK
  <2>5. \A t \in Schemes : shutter'[t] = "ok" \/ (shutter'[t] = "delivered" /\ success)
          => Quiet(t)'
    BY <1>0, <1>6, <2>1, <2>2 DEF ShutdownPolls, Inv, LoopInv, Quiet, TypeOK
  <2>6. LoopInv'
    BY <1>0, <1>6, <2>4, <2>5 DEF ShutdownPolls, Inv, LoopInv, statusVars
  <2> QED
    BY <1>0, <2>3, <2>6 DEF Inv
<1>7. CASE Collect
  <2>1. StopperInv'
    BY <1>0, <1>7 DEF Collect, Inv, StopperInv, TypeOK, serveVars, statusVars
  <2> QED
    BY <1>0, <1>7, <2>1, CollectKeepsLoop DEF Inv
<1>8. CASE FinishStopper
  <2>1. StopperInv'
    BY <1>8 DEF FinishStopper, Inv, StopperInv, serveVars
  <2>2. IsFiniteSet(Undelivered)
    BY SchemesFinite, FS_Subset DEF Undelivered
  <2>3. success => Undelivered = {}
    BY <1>8, <2>2, FS_EmptySet DEF FinishStopper, Inv, LoopInv
  <2>4. Undelivered' = Undelivered
    BY <1>8 DEF FinishStopper, Undelivered
  <2>5. LoopInv'
    BY <1>8, <2>3, <2>4 DEF FinishStopper, ServerShutdown, Inv, LoopInv, Quiet, serveVars
  <2> QED
    BY <1>0, <2>1, <2>5 DEF Inv
<1>9. CASE GraceExpires
  <2>1. UNCHANGED <<main, serveVars, stopper, shutter, pending, success, statusVars>>
    BY <1>9 DEF GraceExpires
  <2>2. StopperInv' /\ LoopInv'
    BY <2>1 DEF Inv, StopperInv, LoopInv, Quiet, Undelivered, serveVars, statusVars
  <2> QED
    BY <1>0, <2>2 DEF Inv
<1>10. ASSUME NEW s \in Schemes, Accept(s) \/ Request(s) \/ Respond(s) PROVE Inv'
  <2>1. \A t \in Schemes : Quiet(t) /\ inShutdown[t] => Quiet(t)'
    BY <1>0, <1>10 DEF Accept, Request, Respond, Quiet, TypeOK
  <2>2. UNCHANGED <<main, inShutdown, stopVars, statusVars>>
    BY <1>10 DEF Accept, Request, Respond
  <2> QED
    BY <1>0, <2>1, <2>2, ShutdownUntouched
<1>11. ASSUME NEW s \in Schemes,
              Listen(s) \/ StartServer(s) \/ Serve(s) \/ ServeReturns(s) \/ AcceptFails(s)
       PROVE  Inv'
  <2>1. UNCHANGED <<main, active, idle, inShutdown, stopVars, statusVars>>
    BY <1>11 DEF Listen, StartServer, Serve, ServeReturns, AcceptFails, Fatalf, serveVars
  <2> QED
    BY <1>0, <2>1, ShutdownUntouched DEF Quiet
<1>12. CASE \/ ListenFails \/ Notify \/ TLSFails \/ BeginClose \/ Exit
            \/ Signal \/ HandleInterrupt \/ UNCHANGED vars
  <2>1. /\ UNCHANGED <<active, idle, inShutdown, stopVars, statusVars>>
        /\ main' # main => main # "status" /\ main' # "status"
        /\ main' \in {"status", "listen", "start"} => main \in {"status", "listen", "start"}
    BY <1>12 DEF ListenFails, Notify, TLSFails, BeginClose, Exit, Signal, HandleInterrupt, Fatalf,
       vars, serveVars
  <2> QED
    BY <1>0, <2>1, ShutdownUntouched DEF Quiet
<1> QED
  BY <1>1, <1>2, <1>3, <1>4, <1>5, <1>6, <1>7, <1>8, <1>9, <1>10, <1>11, <1>12 DEF Next

LEMMA Invariance == Spec => []Inv
BY InitInv, StepInv, PTL DEF Spec

THEOREM TypeCorrect == Spec => []TypeOK
<1>1. Inv => TypeOK
  BY DEF Inv
<1> QED
  BY Invariance, <1>1, PTL

\* handleShutdown (server.go:441): although its loop stops receiving after the
\* first failure, the process becomes unhealthy, and the context of the requests
\* is cancelled, only when every server has shut down and is idle.
THEOREM HealthyUntilDown == Spec => []UnhealthyMeansDown
<1>1. Inv => UnhealthyMeansDown
  BY DEF Inv, StopperInv, LoopInv, UnhealthyMeansDown, Quiet, Undelivered
<1> QED
  BY Invariance, <1>1, PTL

\* handleShutdown (server.go:425): /-/ready is withdrawn before the first listener
\* closes.
THEOREM ReadyFirst == Spec => []ReadyWithdrawnFirst
<1>1. Inv => ReadyWithdrawnFirst
  BY DEF Inv, TypeOK, StopperInv, ReadyWithdrawnFirst
<1> QED
  BY Invariance, <1>1, PTL

\* The WaitGroup lets main go only when the goroutine of every server is over, and
\* none of them runs again.
CloseInv == main \in {"close", "exited"} => \A s \in Schemes : server[s] = "returned"

LEMMA CloseStep == CloseInv /\ [Next]_vars => CloseInv'
<1> SUFFICES ASSUME CloseInv, [Next]_vars PROVE CloseInv'
  OBVIOUS
<1>1. CASE BeginClose
  BY <1>1 DEF BeginClose, WaitGroup, CloseInv, serveVars
<1>2. ASSUME NEW s \in Schemes, StartServer(s) \/ Serve(s) \/ ServeReturns(s) PROVE CloseInv'
  <2>1. UNCHANGED main /\ server[s] # "returned"
    BY <1>2 DEF StartServer, Serve, ServeReturns
  <2> QED
    BY <2>1 DEF CloseInv
<1>3. CASE \/ SetStatus \/ ListenFails \/ Notify \/ TLSFails \/ StartStopper \/ Exit \/ Signal
           \/ HandleInterrupt \/ BeginGrace \/ GraceExpires \/ SpawnShutters \/ Collect
           \/ FinishStopper \/ UNCHANGED vars
  <2>1. /\ UNCHANGED server
        /\ main' \in {"close", "exited"} => main \in {"close", "exited"}
    BY <1>3 DEF SetStatus, ListenFails, Notify, TLSFails, StartStopper, Exit, Signal,
       HandleInterrupt, BeginGrace, GraceExpires, SpawnShutters, Collect, FinishStopper, Fatalf,
       vars, serveVars
  <2> QED
    BY <2>1 DEF CloseInv
<1>4. ASSUME NEW s \in Schemes,
             \/ Listen(s) \/ AcceptFails(s) \/ Accept(s) \/ Request(s) \/ Respond(s)
             \/ ShutdownServer(s) \/ ShutdownPolls(s)
      PROVE  CloseInv'
  <2>1. UNCHANGED <<main, server>>
    BY <1>4 DEF Listen, AcceptFails, Accept, Request, Respond, ShutdownServer, ShutdownPolls,
       Fatalf, serveVars
  <2> QED
    BY <2>1 DEF CloseInv
<1> QED
  BY <1>1, <1>2, <1>3, <1>4 DEF Next

\* The number of connections is only ever raised by Accept.
LEMMA ConnectionsBounded ==
  ASSUME TypeOK, [Next]_vars, NEW t \in Schemes, server[t] = "returned"
  PROVE  active'[t] + idle'[t] <= active[t] + idle[t]
<1>0. active[t] \in Nat /\ idle[t] \in Nat
  BY ServerAssumption DEF TypeOK
<1>1. ASSUME NEW s \in Schemes, Accept(s) PROVE UNCHANGED <<active[t], idle[t]>>
  BY <1>1 DEF Accept, TypeOK
<1>2. ASSUME NEW s \in Schemes, Request(s) PROVE active'[t] + idle'[t] = active[t] + idle[t]
  <2>1. CASE s = t
    BY <1>0, <1>2, <2>1 DEF Request, TypeOK
  <2>2. CASE s # t
    BY <1>0, <1>2, <2>2 DEF Request, TypeOK
  <2> QED
    BY <2>1, <2>2
<1>3. ASSUME NEW s \in Schemes, Respond(s)
      PROVE  active'[t] + idle'[t] <= active[t] + idle[t]
  <2>1. CASE s = t
    BY <1>0, <1>3, <2>1 DEF Respond, TypeOK
  <2>2. CASE s # t
    BY <1>0, <1>3, <2>2 DEF Respond, TypeOK
  <2> QED
    BY <2>1, <2>2
<1>4. ASSUME NEW s \in Schemes, ShutdownPolls(s)
      PROVE  active'[t] + idle'[t] <= active[t] + idle[t]
  <2>1. UNCHANGED active[t] /\ idle'[t] \in {0, idle[t]}
    BY <1>4 DEF ShutdownPolls, TypeOK
  <2> QED
    BY <1>0, <2>1
<1>5. CASE UNCHANGED <<active, idle>>
  BY <1>0, <1>5
<1>6. ASSUME NEW s \in Schemes,
             \/ Listen(s) \/ StartServer(s) \/ Serve(s) \/ ServeReturns(s) \/ AcceptFails(s)
             \/ ShutdownServer(s)
      PROVE  UNCHANGED <<active, idle>>
  BY <1>6 DEF Listen, StartServer, Serve, ServeReturns, AcceptFails, ShutdownServer, Fatalf, serveVars
<1>7. CASE \/ SetStatus \/ ListenFails \/ Notify \/ TLSFails \/ StartStopper \/ BeginClose \/ Exit
           \/ Signal \/ HandleInterrupt \/ BeginGrace \/ GraceExpires \/ SpawnShutters \/ Collect
           \/ FinishStopper \/ UNCHANGED vars
  <2>1. UNCHANGED <<active, idle>>
    BY <1>7 DEF SetStatus, ListenFails, Notify, TLSFails, StartStopper, BeginClose, Exit, Signal,
       HandleInterrupt, BeginGrace, GraceExpires, SpawnShutters, Collect, FinishStopper, Fatalf,
       vars, serveVars
  <2> QED
    BY <1>5, <2>1
<1> QED
  BY <1>0, <1>1, <1>2, <1>3, <1>4, <1>5, <1>6, <1>7 DEF Next

\* Serve and handleShutdown (server.go:192-228, 318-332): while VMMManager.Close
\* runs no client can connect.
THEOREM ClosedToClients == Spec => NoConnectionDuringClose
<1>1. Init => CloseInv
  BY DEF Init, CloseInv
<1>2. TypeOK /\ CloseInv /\ [Next]_vars
        => [main = "close" => \A s \in Schemes : active'[s] + idle'[s] <= active[s] + idle[s]]_vars
  BY ConnectionsBounded DEF CloseInv
<1> QED
  BY <1>1, <1>2, CloseStep, TypeCorrect, PTL DEF Spec, NoConnectionDuringClose

-------------------------------------------------------------------------------
(* Which steps of the servers move main, the result and the ready flag.    *)

LEMMA WhoMoves ==
  ASSUME TypeOK, [Next]_vars
  PROVE  /\ main' # main => SetStatus \/ Notify \/ StartStopper \/ BeginClose \/ Exit
         /\ success' # success => success
         /\ stopper' # stopper => StartStopper \/ stopper # "finished"
         /\ ready' # ready => main = "status" \/ ~ready'
<1>1. SetStatus \/ Notify \/ StartStopper \/ BeginClose \/ Exit
        => /\ UNCHANGED success
           /\ stopper' # stopper => StartStopper
           /\ ready' # ready => main = "status"
  BY DEF SetStatus, Notify, StartStopper, BeginClose, Exit, stopVars, statusVars
<1>2. Collect => UNCHANGED <<main, stopper, ready>> /\ (success' # success => success)
  BY DEF Collect, statusVars
<1>3. BeginGrace \/ SpawnShutters \/ FinishStopper
        => UNCHANGED <<main, success>> /\ stopper # "finished" /\ (ready' # ready => ~ready')
  BY DEF BeginGrace, SpawnShutters, FinishStopper, PreServerShutdown, statusVars
<1>4. ListenFails \/ TLSFails \/ Signal \/ HandleInterrupt \/ GraceExpires \/ UNCHANGED vars
        => UNCHANGED <<main, success, stopper, ready>>
  BY DEF ListenFails, TLSFails, Fatalf, Signal, HandleInterrupt, GraceExpires, vars, stopVars,
     statusVars
<1>5. ASSUME NEW s \in Schemes,
             \/ Listen(s) \/ StartServer(s) \/ Serve(s) \/ ServeReturns(s) \/ AcceptFails(s)
             \/ Accept(s) \/ Request(s) \/ Respond(s) \/ ShutdownServer(s) \/ ShutdownPolls(s)
      PROVE  UNCHANGED <<main, success, stopper, ready>>
  BY <1>5 DEF Listen, StartServer, Serve, ServeReturns, AcceptFails, Fatalf, Accept, Request,
     Respond, ShutdownServer, ShutdownPolls, stopVars, statusVars
<1> QED
  BY <1>1, <1>2, <1>3, <1>4, <1>5 DEF Next

\* Before the servers are started they have no connection.
EarlyInv == main \in {"status", "listen"} =>
  \A s \in Schemes : server[s] = "none" /\ active[s] = 0 /\ idle[s] = 0

LEMMA EarlyStep == TypeOK /\ EarlyInv /\ [Next]_vars => EarlyInv'
<1> SUFFICES ASSUME TypeOK, EarlyInv, [Next]_vars, main' \in {"status", "listen"}
             PROVE  \A s \in Schemes : server'[s] = "none" /\ active'[s] = 0 /\ idle'[s] = 0
  BY DEF EarlyInv
<1>1. main \in {"status", "listen"}
  BY WhoMoves DEF SetStatus, Notify, StartStopper, BeginClose, Exit
<1>2. \A s \in Schemes : server[s] = "none" /\ active[s] = 0 /\ idle[s] = 0
  BY <1>1 DEF EarlyInv
<1>3. ASSUME NEW s \in Schemes
      PROVE  /\ ~StartServer(s) /\ ~Serve(s) /\ ~ServeReturns(s) /\ ~AcceptFails(s)
             /\ ~Accept(s) /\ ~Request(s) /\ ~Respond(s)
  BY <1>1, <1>2 DEF StartServer, Serve, ServeReturns, AcceptFails, Accept, Request, Respond
<1>4. ASSUME NEW s \in Schemes, ShutdownPolls(s)
      PROVE  UNCHANGED <<server, active>> /\ idle' = [idle EXCEPT ![s] = 0]
  BY <1>4 DEF ShutdownPolls
<1>5. ASSUME NEW s \in Schemes, Listen(s) \/ ShutdownServer(s)
      PROVE  UNCHANGED <<server, active, idle>>
  BY <1>5 DEF Listen, ShutdownServer
<1>6. \/ SetStatus \/ ListenFails \/ Notify \/ TLSFails \/ StartStopper \/ BeginClose \/ Exit
      \/ Signal \/ HandleInterrupt \/ BeginGrace \/ GraceExpires \/ SpawnShutters \/ Collect
      \/ FinishStopper \/ UNCHANGED vars
      => UNCHANGED <<server, active, idle>>
  BY DEF SetStatus, ListenFails, Notify, TLSFails, StartStopper, BeginClose, Exit, Signal,
     HandleInterrupt, BeginGrace, GraceExpires, SpawnShutters, Collect, FinishStopper, Fatalf,
     vars, serveVars
<1>7. \/ UNCHANGED <<server, active, idle>>
      \/ \E s \in Schemes : UNCHANGED <<server, active>> /\ idle' = [idle EXCEPT ![s] = 0]
  BY <1>3, <1>4, <1>5, <1>6 DEF Next
<1> QED
  BY <1>2, <1>7 DEF TypeOK

\* Serve has returned only when handleShutdown has.
DoneInv == main \in {"close", "exited"} => stopper = "finished"

LEMMA DoneStep == TypeOK /\ DoneInv /\ [Next]_vars => DoneInv'
<1> SUFFICES ASSUME TypeOK, DoneInv, [Next]_vars, main' \in {"close", "exited"}
             PROVE  stopper' = "finished"
  BY DEF DoneInv
<1>1. CASE main' # main
  <2>1. BeginClose \/ Exit
    BY <1>1, WhoMoves DEF SetStatus, Notify, StartStopper
  <2>2. stopper = "finished" /\ UNCHANGED stopper
    BY <2>1 DEF BeginClose, Exit, WaitGroup, DoneInv, stopVars
  <2> QED
    BY <2>2
<1>2. CASE main' = main
  <2>1. stopper = "finished" /\ ~StartStopper
    BY <1>2 DEF DoneInv, StartStopper
  <2> QED
    BY <2>1, WhoMoves
<1> QED
  BY <1>1, <1>2

-------------------------------------------------------------------------------
(* What a failed shutdown of one server costs the others.                  *)

\* The shutdown of a server fails over its listeners, when it has no connection left,
\* or because its context is done, which the loop has not lived to see unless the
\* grace period is over; and the loop has stopped waiting only after it received a
\* result.
GraceInv ==
  /\ \A s \in Schemes :
       /\ shutter[s] \in {"ok", "failed"} => Quiet(s) \/ ContextDone
       /\ shutter[s] = "delivered" => Quiet(s) \/ grace = "expired"
  /\ ~success => \E t \in Schemes : shutter[t] = "delivered"

LEMMA GraceStep == TypeOK /\ StopperInv /\ GraceInv /\ [Next]_vars => GraceInv'
<1> SUFFICES ASSUME TypeOK, StopperInv, GraceInv, [Next]_vars PROVE GraceInv'
  OBVIOUS
<1>1. ASSUME NEW s \in Schemes, ShutdownPolls(s) PROVE GraceInv'
  <2>1. PICK outcome \in ShutdownOutcome(s) : shutter' = [shutter EXCEPT ![s] = outcome]
    BY <1>1 DEF ShutdownPolls
  <2>2. /\ outcome \in {"draining", "ok", "failed"}
        /\ outcome # "draining" => active[s] = 0 \/ ContextDone
    BY <2>1 DEF ShutdownOutcome
  <2>3. /\ shutter[s] = "draining" /\ idle' = [idle EXCEPT ![s] = 0]
        /\ UNCHANGED <<active, success, grace, stopper>>
    BY <1>1 DEF ShutdownPolls
  <2> QED
    BY <2>1, <2>2, <2>3 DEF GraceInv, Quiet, ContextDone, TypeOK
<1>2. CASE Collect
  <2>1. /\ UNCHANGED <<active, idle, grace, stopper>> /\ stopper = "collect"
        /\ \/ \E s \in Schemes : /\ shutter[s] \in {"ok", "failed"}
                                 /\ shutter' = [shutter EXCEPT ![s] = "delivered"]
           \/ UNCHANGED <<success, shutter>>
    BY <1>2 DEF Collect, serveVars
  <2> QED
    BY <2>1 DEF GraceInv, Quiet, ContextDone, TypeOK
<1>3. ASSUME NEW s \in Schemes, Accept(s) \/ Request(s) \/ Respond(s) PROVE GraceInv'
  <2>1. \A t \in Schemes : Quiet(t) /\ inShutdown[t] => Quiet(t)'
    BY <1>3 DEF Accept, Request, Respond, Quiet, TypeOK
  <2>2. UNCHANGED <<shutter, success, grace, stopper>>
    BY <1>3 DEF Accept, Request, Respond, stopVars
  <2> QED
    BY <2>1, <2>2 DEF GraceInv, StopperInv, ContextDone
<1>4. CASE SpawnShutters
  BY <1>4 DEF SpawnShutters, StopperInv, GraceInv, serveVars
<1>5. ASSUME NEW s \in Schemes, ShutdownServer(s) PROVE GraceInv'
  BY <1>5 DEF ShutdownServer, GraceInv, Quiet, ContextDone, TypeOK
<1>6. CASE BeginGrace
  BY <1>6 DEF BeginGrace, StopperInv, GraceInv, serveVars
<1>7. CASE GraceExpires
  BY <1>7 DEF GraceExpires, GraceInv, Quiet, ContextDone, serveVars
<1>8. CASE StartStopper
  BY <1>8 DEF StartStopper, StopperInv, GraceInv, serveVars
<1>9. CASE FinishStopper
  BY <1>9 DEF FinishStopper, GraceInv, Quiet, ContextDone, serveVars
<1>10. ASSUME NEW s \in Schemes,
             Listen(s) \/ StartServer(s) \/ Serve(s) \/ ServeReturns(s) \/ AcceptFails(s)
      PROVE  UNCHANGED <<active, idle, shutter, success, grace, stopper>>
  BY <1>10 DEF Listen, StartServer, Serve, ServeReturns, AcceptFails, Fatalf, serveVars, stopVars
<1>11. \/ SetStatus \/ ListenFails \/ Notify \/ TLSFails \/ BeginClose \/ Exit \/ Signal
      \/ HandleInterrupt \/ UNCHANGED vars
      => UNCHANGED <<active, idle, shutter, success, grace, stopper>>
  BY DEF SetStatus, ListenFails, Notify, TLSFails, BeginClose, Exit, Signal, HandleInterrupt,
     Fatalf, vars, serveVars, stopVars
<1>12. UNCHANGED <<active, idle, shutter, success, grace, stopper>> => GraceInv'
  BY DEF GraceInv, Quiet, ContextDone
<1> QED
  BY <1>1, <1>2, <1>3, <1>4, <1>5, <1>6, <1>7, <1>8, <1>9, <1>10, <1>11, <1>12 DEF Next

\* A request that Serve leaves behind within the grace period was left behind for the
\* failure of another server.
CutByAnother == \A s \in Schemes :
  main = "close" /\ active[s] > 0 /\ grace # "expired"
    => ~success /\ \E t \in Schemes \ {s} : shutter[t] = "delivered"

\* handleShutdown (server.go:444-452): what GraceRespected promises is only lost
\* where the shutdown of one server fails and another one still has requests.
THEOREM OnlyAnotherCutsGrace == Spec => []CutByAnother
<1>1. Init => GraceInv /\ DoneInv
  BY DEF Init, GraceInv, DoneInv
<1>2. Inv /\ GraceInv /\ DoneInv /\ [Next]_vars => GraceInv' /\ DoneInv'
  BY GraceStep, DoneStep DEF Inv
<1>3. Inv /\ GraceInv /\ DoneInv => CutByAnother
  <2> SUFFICES ASSUME Inv, GraceInv, DoneInv, NEW s \in Schemes,
                      main = "close", active[s] > 0, grace # "expired"
               PROVE  ~success /\ \E t \in Schemes \ {s} : shutter[t] = "delivered"
    BY DEF CutByAnother
  <2>1. stopper = "finished" /\ ~Quiet(s)
    BY DEF DoneInv, Quiet
  <2>2. shutter[s] # "delivered"
    BY <2>1 DEF GraceInv
  <2>3. ~success
    BY <2>1, <2>2 DEF Inv, LoopInv, Undelivered
  <2> QED
    BY <2>2, <2>3 DEF GraceInv
<1> QED
  BY <1>1, <1>2, <1>3, Invariance, PTL DEF Spec

\* Serve with one server (server.go:192): nothing cuts its requests within the grace
\* period.
COROLLARY OneServerKeepsGrace ==
  ASSUME NEW s, Schemes = {s}
  PROVE  Spec => []GraceRespected
<1>1. CutByAnother => GraceRespected
  BY DEF CutByAnother, GraceRespected
<1> QED
  BY <1>1, OnlyAnotherCutsGrace, PTL

-------------------------------------------------------------------------------
(* The process. *)

all == <<vars, fleetVars, invokeVars, via, told>>

\* The http servers, the shutdown and the exit of the process leave the machines
\* and the invocations as they are, and everything else that happens to those is
\* a step of ServiceInvoke.
THEOREM FireboxInvokes == FireboxSpec => InvokeSpec
<1>1. FireboxInit => InvokeInit
  BY DEF FireboxInit
<1>2. ASSUME [FireboxNext]_all
      PROVE  [InvokeNext]_<<fleetVars, invokeVars>>
  <2>1. ASSUME NEW s \in Schemes, BeginHandler(s) PROVE InvokeNext
    BY <2>1 DEF BeginHandler, InvokeNext, FleetNext
  <2>2. ASSUME NEW s \in Schemes, CheckHealth(s) PROVE UNCHANGED <<fleetVars, invokeVars>>
    BY <2>2 DEF CheckHealth
  <2>3. CASE HttpStep
    BY <2>3 DEF HttpStep
  <2>4. ASSUME NEW v \in Machine, MachineStep(v) PROVE InvokeNext
    BY <2>4 DEF MachineStep, InvokeNext, FleetNext
  <2>5. ASSUME NEW c \in Call, InvocationStep(c) PROVE InvokeNext
    BY <2>5 DEF InvocationStep, InvokeNext
  <2>6. CASE CloseBegins \/ CloseReturns
    BY <2>6 DEF CloseBegins, CloseReturns, InvokeNext, FleetNext
  <2>7. CASE UNCHANGED all
    BY <2>7 DEF all
  <2> QED
    BY <1>2, <2>1, <2>2, <2>3, <2>4, <2>5, <2>6, <2>7 DEF FireboxNext
<1> QED
  BY <1>1, <1>2, PTL DEF FireboxSpec, InvokeSpec, all

\* Handlers, machines and what Close does with them leave the http servers, the
\* signals and the shutdown as they are.
LEMMA ServesStep == [FireboxNext]_all => [Next]_vars
<1> SUFFICES ASSUME [FireboxNext]_all PROVE [Next]_vars
  OBVIOUS
<1>1. ASSUME NEW s \in Schemes, BeginHandler(s) \/ CheckHealth(s) PROVE UNCHANGED vars
  BY <1>1 DEF BeginHandler, CheckHealth
<1>2. CASE HttpStep
  BY <1>2 DEF HttpStep
<1>3. ASSUME NEW v \in Machine, MachineStep(v) PROVE UNCHANGED vars
  BY <1>3 DEF MachineStep
<1>4. ASSUME NEW c \in Call, InvocationStep(c) PROVE UNCHANGED vars
  BY <1>4 DEF InvocationStep
<1>5. CASE CloseBegins \/ CloseReturns
  BY <1>5 DEF CloseBegins, CloseReturns, Next
<1>6. CASE UNCHANGED all
  BY <1>6 DEF all
<1> QED
  BY <1>1, <1>2, <1>3, <1>4, <1>5, <1>6 DEF FireboxNext

\* The servers of the whole process behave as those of HttpServer do by
\* themselves, so what is proved of those holds in it.
THEOREM FireboxServes == FireboxSpec => Spec
<1>1. FireboxInit => Init
  BY DEF FireboxInit
<1> QED
  BY <1>1, ServesStep, PTL DEF FireboxSpec, Spec, all

-------------------------------------------------------------------------------
(* Handlers live in requests.                                              *)

\* Each handler answers to a server, and that server has a request in progress
\* for each of its handlers.
HandlerInv ==
  /\ via \in [Machine \cup Call -> Schemes \cup {NoScheme}]
  /\ \A h \in Handlers : via[h] \in Schemes
  /\ \A s \in Schemes : /\ IsFiniteSet(HandlersOf(s))
                         /\ Cardinality(HandlersOf(s)) <= active[s]

\* Only BeginHandler adds a handler.
LEMMA HandlersEnd ==
  ASSUME IInv,
         \/ HttpStep \/ CloseBegins \/ CloseReturns \/ UNCHANGED all
         \/ \E s \in Schemes : CheckHealth(s)
         \/ \E v \in Machine : MachineStep(v)
         \/ \E c \in Call : InvocationStep(c)
  PROVE  Handlers' \subseteq Handlers /\ UNCHANGED via
<1>0. /\ request \in [Machine -> {"none", "open", "listed", "refused"}]
      /\ call \in [Call -> {"none", "open", "sending", "sent", "ok", "unavailable", "error"}]
  BY DEF IInv, InvokeTypeOK, FleetTypeOK
<1>1. UNCHANGED <<request, call>> => Handlers' = Handlers
  BY DEF Handlers, Invoking
<1>2. HttpStep \/ CloseBegins \/ CloseReturns \/ UNCHANGED all => UNCHANGED <<request, call, via>>
  BY DEF HttpStep, CloseBegins, CloseReturns, BeginClosing, EndClosing, all, fleetVars, invokeVars
<1>3. ASSUME NEW s \in Schemes, CheckHealth(s) PROVE UNCHANGED <<request, call, via>>
  BY <1>3 DEF CheckHealth, fleetVars, invokeVars
<1>4. ASSUME NEW v \in Machine, MachineStep(v) PROVE Handlers' \subseteq Handlers /\ UNCHANGED via
  <2>1. UNCHANGED <<call, via>>
    BY <1>4 DEF MachineStep, invokeVars
  <2>2. \A w \in Machine : request'[w] = "open" => request[w] = "open"
    BY <1>0, <1>4 DEF MachineStep, Boot, List, Refuse, Mark, End, Free, Unlist, Drop
  <2> QED
    BY <2>1, <2>2 DEF Handlers, Invoking
<1>5. ASSUME NEW c \in Call, InvocationStep(c) PROVE Handlers' \subseteq Handlers /\ UNCHANGED via
  <2>1. UNCHANGED <<request, via>>
    BY <1>5 DEF InvocationStep, InvokeStep, GetServiceIP, NoneReady, Connect, Answer, InvokeFails,
       fleetVars
  <2>2. \A d \in Call : call'[d] \in {"open", "sending", "sent"} => call[d] \in {"open", "sending", "sent"}
    BY <1>0, <1>5 DEF InvocationStep, InvokeStep, GetServiceIP, NoneReady, Connect, Answer, InvokeFails
  <2> QED
    BY <2>1, <2>2 DEF Handlers, Invoking
<1> QED
  BY <1>1, <1>2, <1>3, <1>4, <1>5

LEMMA BeginHandlerKeeps ==
  ASSUME IInv, TypeOK, HandlerInv, NEW s \in Schemes, BeginHandler(s)
  PROVE  HandlerInv'
<1>0. /\ request \in [Machine -> {"none", "open", "listed", "refused"}]
      /\ call \in [Call -> {"none", "open", "sending", "sent", "ok", "unavailable", "error"}]
  BY DEF IInv, InvokeTypeOK, FleetTypeOK
<1>1. PICK h \in Machine \cup Call : /\ Handlers' \subseteq Handlers \cup {h}
                                    /\ via' = [via EXCEPT ![h] = s]
  <2>1. ASSUME NEW v \in Machine, RequestVM(v), UNCHANGED invokeVars
        PROVE  Handlers' \subseteq Handlers \cup {v}
    BY <1>0, <2>1 DEF RequestVM, Handlers, Invoking, invokeVars
  <2>2. ASSUME NEW c \in Call, Handle(c)
        PROVE  Handlers' \subseteq Handlers \cup {c}
    BY <1>0, <2>2 DEF Handle, Handlers, Invoking, fleetVars
  <2> QED
    BY <2>1, <2>2 DEF BeginHandler
<1>2. UNCHANGED active
  BY DEF BeginHandler, vars, serveVars
<1>3. via' \in [Machine \cup Call -> Schemes \cup {NoScheme}] /\ \A g \in Handlers' : via'[g] \in Schemes
  BY <1>1 DEF HandlerInv
<1>4. \A t \in Schemes : HandlersOf(t)' \subseteq HandlersOf(t) \cup (IF t = s THEN {h} ELSE {})
  BY <1>1 DEF HandlersOf, HandlerInv
<1>5. ASSUME NEW t \in Schemes
      PROVE  IsFiniteSet(HandlersOf(t)') /\ Cardinality(HandlersOf(t)') <= active[t]
  <2>1. IsFiniteSet(HandlersOf(t)) /\ Cardinality(HandlersOf(t)) <= active[t]
    BY DEF HandlerInv
  <2>2. active[t] \in Nat /\ Cardinality(HandlersOf(t)) \in Nat
    BY <2>1, ServerAssumption, FS_CardinalityType DEF TypeOK
  <2>3. CASE t = s
    <3>1. HandlersOf(t)' \subseteq HandlersOf(t) \cup {h} /\ Cardinality(HandlersOf(t)) < active[t]
      BY <1>4, <2>3 DEF BeginHandler
    <3>2. /\ IsFiniteSet(HandlersOf(t) \cup {h})
          /\ Cardinality(HandlersOf(t) \cup {h}) <= Cardinality(HandlersOf(t)) + 1
      <4>1. CASE h \in HandlersOf(t)
        <5>1. HandlersOf(t) \cup {h} = HandlersOf(t)
          BY <4>1
        <5> QED
          BY <2>1, <2>2, <5>1
      <4>2. CASE h \notin HandlersOf(t)
        <5>1. /\ IsFiniteSet(HandlersOf(t) \cup {h})
              /\ Cardinality(HandlersOf(t) \cup {h}) = Cardinality(HandlersOf(t)) + 1
          BY <2>1, <4>2, FS_AddElement
        <5> QED
          BY <2>2, <5>1
      <4> QED
        BY <4>1, <4>2
    <3>3. /\ IsFiniteSet(HandlersOf(t)')
          /\ Cardinality(HandlersOf(t)') <= Cardinality(HandlersOf(t) \cup {h})
      BY <3>1, <3>2, FS_Subset
    <3>4. Cardinality(HandlersOf(t)') \in Nat /\ Cardinality(HandlersOf(t) \cup {h}) \in Nat
      BY <3>2, <3>3, FS_CardinalityType
    <3> QED
      BY <2>2, <3>1, <3>2, <3>3, <3>4
  <2>4. CASE t # s
    <3>1. HandlersOf(t)' \subseteq HandlersOf(t)
      BY <1>4, <2>4
    <3>2. IsFiniteSet(HandlersOf(t)') /\ Cardinality(HandlersOf(t)') <= Cardinality(HandlersOf(t))
      BY <2>1, <3>1, FS_Subset
    <3>3. Cardinality(HandlersOf(t)') \in Nat
      BY <3>2, FS_CardinalityType
    <3> QED
      BY <2>1, <2>2, <3>2, <3>3
  <2> QED
    BY <2>3, <2>4
<1> QED
  BY <1>2, <1>3, <1>5 DEF HandlerInv

LEMMA HandlerStep == IInv /\ TypeOK /\ TypeOK' /\ HandlerInv /\ [FireboxNext]_all => HandlerInv'
<1> SUFFICES ASSUME IInv, TypeOK, TypeOK', HandlerInv, [FireboxNext]_all PROVE HandlerInv'
  OBVIOUS
<1>1. ASSUME NEW s \in Schemes, BeginHandler(s) PROVE HandlerInv'
  BY <1>1, BeginHandlerKeeps
<1>2. CASE \/ HttpStep \/ CloseBegins \/ CloseReturns \/ UNCHANGED all
           \/ \E s \in Schemes : CheckHealth(s)
           \/ \E v \in Machine : MachineStep(v)
           \/ \E c \in Call : InvocationStep(c)
  <2>1. Handlers' \subseteq Handlers /\ UNCHANGED via
    BY <1>2, HandlersEnd
  <2>2. \A s \in Schemes : HandlersOf(s)' \subseteq HandlersOf(s)
    BY <2>1 DEF HandlersOf
  <2>3. HttpStep \/ UNCHANGED active
    BY <1>2 DEF CloseBegins, BeginClose, CloseReturns, Exit, CheckHealth, MachineStep,
       InvocationStep, all, vars, serveVars
  <2>4. ASSUME NEW s \in Schemes PROVE Cardinality(HandlersOf(s)) <= active'[s]
    BY <2>3 DEF HttpStep, HandlerInv
  <2>5. ASSUME NEW s \in Schemes
        PROVE  IsFiniteSet(HandlersOf(s)') /\ Cardinality(HandlersOf(s)') <= active'[s]
    <3>1. IsFiniteSet(HandlersOf(s)) /\ Cardinality(HandlersOf(s)) <= active'[s]
      BY <2>4 DEF HandlerInv
    <3>2. IsFiniteSet(HandlersOf(s)') /\ Cardinality(HandlersOf(s)') <= Cardinality(HandlersOf(s))
      BY <2>2, <3>1, FS_Subset
    <3>3. Cardinality(HandlersOf(s)') \in Nat /\ Cardinality(HandlersOf(s)) \in Nat
      BY <3>1, <3>2, FS_CardinalityType
    <3>4. active'[s] \in Nat
      BY ServerAssumption DEF TypeOK
    <3> QED
      BY <3>1, <3>2, <3>3, <3>4
  <2> QED
    BY <2>1, <2>5 DEF HandlerInv
<1> QED
  BY <1>1, <1>2 DEF FireboxNext

LEMMA HandlerInit == FireboxInit => HandlerInv
<1> SUFFICES ASSUME FireboxInit PROVE HandlerInv
  OBVIOUS
<1>1. Handlers = {}
  BY DEF FireboxInit, InvokeInit, FleetInit, Handlers, Invoking
<1>2. \A s \in Schemes : HandlersOf(s) = {} /\ active[s] = 0
  BY <1>1 DEF HandlersOf, FireboxInit, Init
<1> QED
  BY <1>1, <1>2, FS_EmptySet DEF HandlerInv, FireboxInit

\* A request that begins, be it for a handler or for the health endpoints, needs
\* a connection.
LEMMA NeedsConnection ==
  ASSUME TypeOK, HandlerInv, NEW s \in Schemes, Cardinality(HandlersOf(s)) < active[s]
  PROVE  active[s] \in Nat /\ active[s] > 0
BY FS_CardinalityType, ServerAssumption DEF HandlerInv, TypeOK

-------------------------------------------------------------------------------
(* The shutdown of the process. *)

\* Serve returned with success: every server is quiet, so no handler is left.
LEMMA NoHandlerLeft ==
  ASSUME Inv, DoneInv, HandlerInv, main \in {"close", "exited"}, success
  PROVE  Handlers = {}
<1>1. Undelivered = {}
  BY DEF DoneInv, Inv, LoopInv
<1>2. \A s \in Schemes : active[s] = 0
  BY <1>1 DEF Undelivered, Inv, LoopInv, Quiet
<1>3. \A s \in Schemes : HandlersOf(s) = {}
  <2> SUFFICES ASSUME NEW s \in Schemes PROVE HandlersOf(s) = {}
    OBVIOUS
  <2>1. IsFiniteSet(HandlersOf(s)) /\ Cardinality(HandlersOf(s)) \in Nat
    BY FS_CardinalityType DEF HandlerInv
  <2>2. Cardinality(HandlersOf(s)) = 0
    BY <1>2, <2>1 DEF HandlerInv
  <2> QED
    BY <2>1, <2>2, FS_EmptySet
<1> QED
  BY <1>3 DEF HandlersOf, HandlerInv

\* While Close runs, and when it has returned.
ExitInv == /\ exit = "clean" => main = "exited"
           /\ main = "exited" => ~Running
           /\ main \in {"close", "exited"} /\ success => table \subseteq toClose
           /\ main = "exited" => toClose = {}

\* No machine is requested before main has opened every listener.
RequestInv == main \in {"status", "listen"} => \A v \in Machine : request[v] = "none"

\* What the client of the health endpoints was told last.
ToldInv == /\ told = "not ready" => ~ready /\ main # "status"
           /\ told # "unhealthy"

ServerInv == Inv /\ EarlyInv /\ DoneInv

LEMMA ExitStep ==
  IInv /\ ServerInv /\ HandlerInv /\ ExitInv /\ [FireboxNext]_all => ExitInv'
<1> SUFFICES ASSUME IInv, ServerInv, HandlerInv, ExitInv, [FireboxNext]_all PROVE ExitInv'
  OBVIOUS
<1>0. main \in {"close", "exited"} /\ success => Handlers = {}
  BY NoHandlerLeft DEF ServerInv
<1>1. ASSUME NEW s \in Schemes, BeginHandler(s) \/ CheckHealth(s) PROVE ExitInv'
  <2>1. UNCHANGED <<vars, table, toClose>>
    BY <1>1 DEF BeginHandler, CheckHealth, RequestVM, Handle, fleetVars
  <2> QED
    BY <2>1 DEF ExitInv, Running, vars, stopVars
<1>2. ASSUME NEW c \in Call, InvocationStep(c) PROVE ExitInv'
  <2>1. UNCHANGED <<vars, table, toClose>>
    BY <1>2 DEF InvocationStep, InvokeStep, GetServiceIP, NoneReady, Connect, Answer, InvokeFails,
       fleetVars
  <2> QED
    BY <2>1 DEF ExitInv, Running, vars, stopVars
<1>3. ASSUME NEW v \in Machine, MachineStep(v) PROVE ExitInv'
  <2>1. UNCHANGED vars /\ main # "exited"
    BY <1>3 DEF MachineStep, ExitInv
  <2>2. main = "close" /\ success => ~List(v)
    BY <1>0 DEF List, Handlers
  <2>3. \/ table' \subseteq table /\ UNCHANGED toClose
        \/ List(v)
        \/ table' = table \ {v} /\ toClose' = toClose \ {v}
    BY <1>3 DEF MachineStep, Boot, Refuse, Mark, End, Free, Unlist, Drop
  <2> QED
    BY <2>1, <2>2, <2>3 DEF ExitInv, Running, vars, stopVars
<1>4. CASE HttpStep
  <2>1. UNCHANGED <<table, toClose>> /\ Next
    BY <1>4 DEF HttpStep, fleetVars
  <2>2. main' \in {"close", "exited"} => main' = main
    BY <1>4 DEF HttpStep
  <2>3. main # "exited"
    BY <2>1 DEF ExitInv, Next, SetStatus, ListenFails, Notify, TLSFails, StartStopper, BeginClose,
       Exit, Listen, StartServer, Serve, ServeReturns, AcceptFails, Accept, Request, Respond,
       ShutdownServer, ShutdownPolls, Signal, HandleInterrupt, BeginGrace, GraceExpires,
       SpawnShutters, Collect, FinishStopper
  <2>4. success' => success
    BY <2>1, WhoMoves DEF ServerInv, Inv
  <2>5. exit' = exit \/ exit' = "fatal"
    <3>1. ~Exit
      BY <2>2, <2>3 DEF Exit
    <3>2. \/ SetStatus \/ Notify \/ StartStopper \/ BeginClose \/ HandleInterrupt \/ BeginGrace
          \/ GraceExpires \/ SpawnShutters \/ Collect \/ FinishStopper
          => UNCHANGED exit
      BY DEF SetStatus, Notify, StartStopper, BeginClose, HandleInterrupt, BeginGrace,
         GraceExpires, SpawnShutters, Collect, FinishStopper
    <3>3. ListenFails \/ TLSFails \/ Signal => UNCHANGED exit \/ exit' = "fatal"
      BY DEF ListenFails, TLSFails, Signal, Fatalf
    <3>4. ASSUME NEW s \in Schemes,
                 \/ Listen(s) \/ StartServer(s) \/ Serve(s) \/ ServeReturns(s) \/ AcceptFails(s)
                 \/ Accept(s) \/ Request(s) \/ Respond(s) \/ ShutdownServer(s) \/ ShutdownPolls(s)
          PROVE  UNCHANGED exit \/ exit' = "fatal"
      BY <3>4 DEF Listen, StartServer, Serve, ServeReturns, AcceptFails, Accept, Request, Respond,
         ShutdownServer, ShutdownPolls, Fatalf
    <3> QED
      BY <2>1, <3>1, <3>2, <3>3, <3>4 DEF Next
  <2> QED
    BY <2>1, <2>2, <2>3, <2>4, <2>5 DEF ExitInv, Running
<1>5. CASE CloseBegins
  <2>1. main' = "close" /\ toClose' = table /\ table' = table /\ exit' = exit /\ Running
    BY <1>5 DEF CloseBegins, BeginClose, BeginClosing
  <2> QED
    BY <2>1 DEF ExitInv, Running
<1>6. CASE CloseReturns
  <2>1. /\ main = "close" /\ main' = "exited" /\ exit' = "clean"
        /\ toClose = {} /\ UNCHANGED <<table, toClose, success>>
    BY <1>6 DEF CloseReturns, Exit, EndClosing, stopVars
  <2> QED
    BY <2>1 DEF ExitInv, Running
<1>7. CASE UNCHANGED all
  BY <1>7 DEF all, vars, fleetVars, stopVars, ExitInv, Running
<1> QED
  BY <1>1, <1>2, <1>3, <1>4, <1>5, <1>6, <1>7 DEF FireboxNext

LEMMA RequestStep ==
  IInv /\ ServerInv /\ HandlerInv /\ RequestInv /\ [FireboxNext]_all => RequestInv'
<1> SUFFICES ASSUME IInv, ServerInv, HandlerInv, RequestInv, [FireboxNext]_all,
                    main' \in {"status", "listen"}
             PROVE  \A v \in Machine : request'[v] = "none"
  BY DEF RequestInv
<1>1. TypeOK /\ [Next]_vars
  BY ServesStep DEF ServerInv, Inv
<1>2. main \in {"status", "listen"}
  BY <1>1, WhoMoves DEF SetStatus, Notify, StartStopper, BeginClose, Exit
<1>3. \A v \in Machine : request[v] = "none"
  BY <1>2 DEF RequestInv
<1>4. ASSUME NEW s \in Schemes PROVE ~BeginHandler(s)
  <2>1. active[s] = 0
    BY <1>2 DEF ServerInv, EarlyInv
  <2> QED
    BY <1>1, <2>1, NeedsConnection DEF BeginHandler
<1>5. ASSUME NEW v \in Machine, MachineStep(v) PROVE UNCHANGED request
  BY <1>3, <1>5 DEF MachineStep, Boot, List, Refuse, Mark, End, Free, Unlist, Drop
<1>6. ASSUME NEW s \in Schemes, CheckHealth(s) PROVE UNCHANGED request
  BY <1>6 DEF CheckHealth, fleetVars
<1>7. ASSUME NEW c \in Call, InvocationStep(c) PROVE UNCHANGED request
  BY <1>7 DEF InvocationStep, InvokeStep, GetServiceIP, NoneReady, Connect, Answer, InvokeFails,
     fleetVars
<1>8. HttpStep \/ CloseBegins \/ CloseReturns \/ UNCHANGED all => UNCHANGED request
  BY DEF HttpStep, CloseBegins, CloseReturns, BeginClosing, EndClosing, all, fleetVars
<1> QED
  BY <1>3, <1>4, <1>5, <1>6, <1>7, <1>8 DEF FireboxNext

LEMMA ToldStep ==
  ASSUME ServerInv, HandlerInv, ToldInv, [FireboxNext]_all
  PROVE  /\ ToldInv'
         /\ told = "not ready" => told' # "ready"
<1>1. TypeOK /\ [Next]_vars
  BY ServesStep DEF ServerInv, Inv
<1>2. CASE UNCHANGED told
  <2>1. ~ready /\ main # "status" => ~ready' /\ main' # "status"
    BY <1>1, WhoMoves DEF SetStatus, Notify, StartStopper, BeginClose, Exit
  <2> QED
    BY <1>2, <2>1 DEF ToldInv
<1>3. ASSUME NEW s \in Schemes, CheckHealth(s)
      PROVE  ToldInv' /\ (told = "not ready" => told' # "ready")
  <2>1. UNCHANGED <<main, ready>> /\ active[s] > 0
    BY <1>1, <1>3, NeedsConnection DEF CheckHealth, vars, statusVars
  <2>2. main # "status"
    BY <2>1 DEF ServerInv, EarlyInv
  <2>3. healthy
    BY <2>1, <2>2 DEF ServerInv, Inv, LoopInv, Undelivered, Quiet
  <2>4. told' = told \/ (ready /\ told' = "ready") \/ (~ready /\ told' = "not ready")
    BY <1>3, <2>3 DEF CheckHealth, HealthyAnswer, ReadyAnswer
  <2> QED
    BY <2>1, <2>2, <2>4 DEF ToldInv
<1>4. ASSUME NEW s \in Schemes, BeginHandler(s) PROVE UNCHANGED told
  BY <1>4 DEF BeginHandler
<1>5. ASSUME NEW v \in Machine, MachineStep(v) PROVE UNCHANGED told
  BY <1>5 DEF MachineStep
<1>6. ASSUME NEW c \in Call, InvocationStep(c) PROVE UNCHANGED told
  BY <1>6 DEF InvocationStep
<1>7. HttpStep \/ CloseBegins \/ CloseReturns \/ UNCHANGED all => UNCHANGED told
  BY DEF HttpStep, CloseBegins, CloseReturns, all
<1>8. UNCHANGED told => ToldInv' /\ (told = "not ready" => told' # "ready")
  BY <1>2
<1> QED
  BY <1>3, <1>4, <1>5, <1>6, <1>7, <1>8 DEF FireboxNext

FireboxInv == HandlerInv /\ ExitInv /\ RequestInv /\ ToldInv

LEMMA FireboxInitial == FireboxInit => FireboxInv /\ EarlyInv /\ DoneInv
<1> SUFFICES ASSUME FireboxInit PROVE FireboxInv /\ EarlyInv /\ DoneInv
  OBVIOUS
<1>1. EarlyInv /\ DoneInv
  BY DEF FireboxInit, Init, EarlyInv, DoneInv
<1>2. ExitInv /\ RequestInv /\ ToldInv
  BY DEF FireboxInit, Init, InvokeInit, FleetInit, ExitInv, RequestInv, ToldInv
<1> QED
  BY <1>1, <1>2, HandlerInit DEF FireboxInv

LEMMA FireboxInvariant == FireboxSpec => [](ServerInv /\ FireboxInv)
<1>1. FireboxSpec => []IInv
  BY FireboxInvokes, InvokeInvariant, PTL
<1>2. FireboxSpec => []Inv
  BY FireboxServes, Invariance, PTL
<1>3. IInv /\ Inv /\ Inv' /\ EarlyInv /\ DoneInv /\ FireboxInv /\ [FireboxNext]_all
        => (EarlyInv /\ DoneInv /\ FireboxInv)'
  <2> SUFFICES ASSUME IInv, Inv, Inv', EarlyInv, DoneInv, FireboxInv, [FireboxNext]_all
               PROVE  (EarlyInv /\ DoneInv /\ FireboxInv)'
    OBVIOUS
  <2>1. TypeOK /\ TypeOK' /\ [Next]_vars /\ ServerInv
    BY ServesStep DEF Inv, ServerInv
  <2>2. EarlyInv' /\ DoneInv'
    BY <2>1, EarlyStep, DoneStep
  <2>3. HandlerInv' /\ ExitInv' /\ RequestInv' /\ ToldInv'
    BY <2>1, HandlerStep, ExitStep, RequestStep, ToldStep DEF FireboxInv
  <2> QED
    BY <2>2, <2>3 DEF FireboxInv
<1> QED
  BY <1>1, <1>2, <1>3, FireboxInitial, PTL DEF FireboxSpec, ServerInv, all

\* Close stops the machines and main returns only under requests that the
\* graceful timeout, or the failure of a server, has given up (server.go:441,
\* cmd/server.go): the result that handleShutdown collects speaks of every
\* request, although invocations have no timeout of their own.
THEOREM HandlersEndFirst == FireboxSpec => []HandlersOutlived
<1>1. ServerInv /\ FireboxInv => HandlersOutlived
  BY NoHandlerLeft DEF ServerInv, FireboxInv, HandlersOutlived, Drained
<1> QED
  BY <1>1, FireboxInvariant, PTL

\* Between the snapshot of Close (manager.go:88) and the exit of a process that
\* has shut down gracefully no machine enters the table, so none is left there.
THEOREM NoneLeftListed == FireboxSpec => []NoMachineLeftListed
<1>1. ServerInv /\ FireboxInv => NoMachineLeftListed
  BY DEF FireboxInv, ExitInv, NoMachineLeftListed, Drained
<1> QED
  BY <1>1, FireboxInvariant, PTL

\* log.Fatalf of a listener that cannot be opened (cmd/server.go) leaves no
\* machine behind: no machine is requested before the last listener is open.
THEOREM ListenFirst == FireboxSpec => []ListenBeforeMachines
<1>1. ServerInv /\ FireboxInv => ListenBeforeMachines
  BY DEF FireboxInv, RequestInv, ListenBeforeMachines
<1> QED
  BY <1>1, FireboxInvariant, PTL

\* The health endpoints, which read the flags of the status probe without its
\* mutex (prober/local/http.go), never take back that the server is not ready and
\* never tell anybody that it is unhealthy.
THEOREM HealthNotTakenBack == FireboxSpec => HealthTold
<1>1. (ServerInv /\ FireboxInv) /\ [FireboxNext]_all
        => [told = "not ready" => told' # "ready"]_told
  BY ToldStep DEF FireboxInv
<1>2. ServerInv /\ FireboxInv => told # "unhealthy"
  BY DEF FireboxInv, ToldInv
<1> QED
  BY <1>1, <1>2, FireboxInvariant, PTL DEF FireboxSpec, HealthTold, all

===============================================================================
