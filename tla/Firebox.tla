-------------------------------- MODULE Firebox --------------------------------
(***************************************************************************)
(* The server process as a whole: the http servers and the shutdown of     *)
(* HttpServer, the machines of Fleet (which VMMManager implements) and the *)
(* invocations of ServiceInvoke.  They are joined where the code joins     *)
(* them (cmd/server.go): handlers run in requests of the http servers,     *)
(* Close is among the deferred functions that run once Serve has returned, *)
(* and everything stops with the process.                                  *)
(***************************************************************************)
EXTENDS HttpServer, ServiceInvoke

CONSTANT NoScheme  \* of a handler that has not begun

ASSUME FireboxAssumption == NoScheme \notin Schemes

VARIABLES
  via,  \* the http server a handler answers to
  told  \* what the health endpoints have told their client last

FireboxTypeOK == /\ TypeOK
                 /\ InvokeTypeOK
                 /\ via \in [Machine \cup Call -> Schemes \cup {NoScheme}]
                 /\ told \in {"nothing", "ready", "not ready", "unhealthy"}

FireboxInit == /\ Init
               /\ InvokeInit
               /\ via = [h \in Machine \cup Call |-> NoScheme]
               /\ told = "nothing"

\* The handlers of POST /vm/run and POST /invoke that have not returned.
Handlers == {v \in Machine : request[v] = "open"} \cup {c \in Call : Invoking(c)}

HandlersOf(s) == {h \in Handlers : via[h] = s}

\* A request that reaches one of the two handlers.
BeginHandler(s) ==
  /\ Running
  /\ Cardinality(HandlersOf(s)) < active[s]
  /\ \/ \E v \in Machine : /\ RequestVM(v)
                           /\ via' = [via EXCEPT ![v] = s]
                           /\ UNCHANGED invokeVars
     \/ \E c \in Call : /\ Handle(c)
                        /\ via' = [via EXCEPT ![c] = s]
  /\ UNCHANGED <<vars, told>>

\* A step of the http servers or of main; a response needs its handler to return.
HttpStep ==
  /\ Next
  /\ main' = main \/ main' \notin {"close", "exited"}
  /\ \A s \in Schemes : Cardinality(HandlersOf(s)) <= active'[s]
  /\ UNCHANGED <<fleetVars, invokeVars, via, told>>

\* httpReadyHandler and httpHealthyHandler read the flags that the StatusProber
\* sets, without its mutex.
ReadyAnswer == ready

HealthyAnswer == healthy

\* GET /-/healthy or GET /-/ready in a request of a server.
CheckHealth(s) ==
  /\ Running
  /\ Cardinality(HandlersOf(s)) < active[s]
  /\ \/ told' = IF HealthyAnswer THEN told ELSE "unhealthy"
     \/ told' = IF ReadyAnswer THEN "ready" ELSE "not ready"
  /\ UNCHANGED <<vars, fleetVars, invokeVars, via>>

MachineStep(v) ==
  /\ Running
  /\ \/ Boot(v) \/ List(v) \/ Refuse(v) \/ Mark(v) \/ End(v) \/ Free(v) \/ Unlist(v)
     \/ Drop(v)
  /\ UNCHANGED <<vars, invokeVars, via, told>>

InvocationStep(c) == Running /\ InvokeStep(c) /\ UNCHANGED <<vars, via, told>>

\* runServer: once Serve has returned without an error the deferred functions
\* run, the Close that instantiateAPI has added among them.
CloseBegins == BeginClose /\ BeginClosing /\ UNCHANGED <<invokeVars, via, told>>

MutCloseReturns == Exit /\ UNCHANGED <<fleetVars, invokeVars, via, told>>

\* The process ends when Close has returned.
CloseReturns == Exit /\ EndClosing /\ UNCHANGED <<invokeVars, via, told>>

FireboxNext ==
  \/ \E s \in Schemes : BeginHandler(s) \/ CheckHealth(s)
  \/ HttpStep
  \/ \E v \in Machine : MachineStep(v)
  \/ \E c \in Call : InvocationStep(c)
  \/ CloseBegins \/ CloseReturns

FireboxSpec ==
  FireboxInit /\ [][FireboxNext]_<<vars, fleetVars, invokeVars, via, told>>

-------------------------------------------------------------------------------

\* The graceful shutdown was graceful.
Drained == success /\ grace # "expired"

\* An invocation has no timeout of its own (manager.go:144) and StartVMM takes up
\* to 30 s, twice the graceful timeout; Close stops the machines and the process
\* ends under their feet only if that timeout has passed or a server has failed
\* to shut down.
HandlersOutlived == main \in {"close", "exited"} /\ Drained => Handlers = {}

\* No machine the table lists survives such a shutdown: none is added between the
\* snapshot of Close and the exit, whichever server its request came by.
NoMachineLeftListed == exit = "clean" /\ Drained => table = {}

\* Listen may fail for one scheme after it has opened another one, and log.Fatalf
\* skips Close.  It leaves no machine behind: none is requested until every
\* listener is open.
ListenBeforeMachines ==
  main \in {"status", "listen"} => \A v \in Machine : request[v] = "none"

\* What the health endpoints tell is never taken back: a client that learns that
\* the server is not ready will not be told otherwise, and nobody is told that it
\* is unhealthy, since the status is set before the first listener opens and
\* withdrawn step by step, the second time when no request is left.  An answer is
\* what the flag is when it is given: two that cross on the wire are not looked at.
HealthTold ==
  /\ [][told = "not ready" => told' # "ready"]_told
  /\ [](told # "unhealthy")

===============================================================================
