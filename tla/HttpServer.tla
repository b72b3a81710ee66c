------------------------------ MODULE HttpServer ------------------------------
(***************************************************************************)
(* The life of the server process: runServer (cmd/server.go) and the       *)
(* Server that go-swagger generates (api/server/server.go) with the hooks  *)
(* of configure_firebox.go.                                                *)
(*                                                                         *)
(* Four kinds of goroutines: main, one http.Server per scheme,             *)
(* handleInterrupt, and handleShutdown with one goroutine per http.Server  *)
(* that shuts it down.  They meet in the channels shutdown, interrupt and  *)
(* shutdownChan, in a WaitGroup, and in the status that the health         *)
(* endpoints report.                                                       *)
(***************************************************************************)
EXTENDS Naturals, FiniteSets

CONSTANTS Schemes,        \* EnabledListeners
          MaxConnections  \* bound: connections of one server

AllSchemes == {"unix", "http", "https"}

ASSUME ServerAssumption == Schemes \subseteq AllSchemes /\ MaxConnections \in Nat

VARIABLES
  main,        \* where runServer is
  listening,   \* schemes whose listener has been opened
  server,      \* http.Server: its goroutine, from go func to wg.Done
  inShutdown,  \* http.Server: Shutdown has been called
  active,      \* connections of an http.Server with a request in progress or due
  idle,        \* its connections that are kept alive
  notified,    \* signal.Notify has been called
  interrupt,   \* the channel of capacity one holds a signal
  interrupted, \* Server.interrupted
  shutdown,    \* the channel shutdown is closed
  stopper,     \* where handleShutdown is
  shutter,     \* its goroutine per http.Server
  pending,     \* turns of the loop over shutdownChan that are left
  success,     \* the conjunction of the results received so far
  grace,       \* the context with the graceful timeout
  ready,       \* what GET /-/ready reports
  healthy,     \* what GET /-/healthy reports
  exit         \* how the process has ended

serveVars  == <<listening, server, inShutdown, active, idle>>
signalVars == <<notified, interrupt, interrupted, shutdown>>
stopVars   == <<stopper, shutter, pending, success, grace>>
statusVars == <<ready, healthy>>
vars == <<main, serveVars, signalVars, stopVars, statusVars, exit>>

TypeOK ==
  /\ main \in {"status", "listen", "start", "wait", "close", "exited"}
  /\ listening \subseteq Schemes
  /\ server \in [Schemes -> {"none", "starting", "serving", "returned"}]
  /\ inShutdown \in [Schemes -> BOOLEAN]
  /\ active \in [Schemes -> 0..MaxConnections]
  /\ idle \in [Schemes -> 0..MaxConnections]
  /\ notified \in BOOLEAN /\ interrupt \in BOOLEAN
  /\ interrupted \in BOOLEAN /\ shutdown \in BOOLEAN
  /\ stopper \in {"none", "await", "hook", "collect", "finished"}
  /\ shutter \in [Schemes -> {"none", "spawned", "draining", "ok", "failed", "delivered"}]
  /\ pending \in 0..Cardinality(Schemes)
  /\ success \in BOOLEAN
  /\ grace \in {"off", "running", "expired"}
  /\ ready \in BOOLEAN /\ healthy \in BOOLEAN
  /\ exit \in {"no", "clean", "fatal"}

Init ==
  /\ main = "status"
  /\ listening = {}
  /\ server = [s \in Schemes |-> "none"]
  /\ inShutdown = [s \in Schemes |-> FALSE]
  /\ active = [s \in Schemes |-> 0]
  /\ idle = [s \in Schemes |-> 0]
  /\ notified = FALSE /\ interrupt = FALSE
  /\ interrupted = FALSE /\ shutdown = FALSE
  /\ stopper = "none"
  /\ shutter = [s \in Schemes |-> "none"]
  /\ pending = 0
  /\ success = TRUE
  /\ grace = "off"
  /\ ready = FALSE /\ healthy = FALSE
  /\ exit = "no"

Running == exit = "no"

-------------------------------------------------------------------------------
(* main. *)

\* runServer: SetHealthy and SetReady, before anything listens.
SetStatus ==
  /\ Running
  /\ main = "status"
  /\ main' = "listen"
  /\ healthy' = TRUE
  /\ ready' = TRUE
  /\ UNCHANGED <<serveVars, signalVars, stopVars, exit>>

\* Both loops over the schemes go in this order.
Before(s) == CASE s = "unix" -> {} [] s = "http" -> {"unix"} [] s = "https" -> {"unix", "http"}

\* Listen opens the listener of the next scheme.
Listen(s) ==
  /\ Running
  /\ main = "listen"
  /\ s \notin listening
  /\ Before(s) \cap Schemes \subseteq listening
  /\ listening' = listening \cup {s}
  /\ UNCHANGED <<main, server, inShutdown, active, idle, signalVars, stopVars, statusVars, exit>>

\* log.Fatalf or Server.Fatalf: the process ends where it is, without the
\* deferred functions.
Fatalf ==
  /\ exit' = "fatal"
  /\ UNCHANGED <<main, serveVars, signalVars, stopVars, statusVars>>

ListenFails == Running /\ main = "listen" /\ listening # Schemes /\ Fatalf

\* Serve installs the signal handler and starts handleInterrupt.
Notify ==
  /\ Running
  /\ main = "listen"
  /\ listening = Schemes
  /\ main' = "start"
  /\ notified' = TRUE
  /\ UNCHANGED <<serveVars, interrupt, interrupted, shutdown, stopVars, statusVars, exit>>

MutStartServer(s) ==
  /\ Running
  /\ main = "listen" /\ s \in listening
  /\ server[s] = "none"
  /\ server' = [server EXCEPT ![s] = "starting"]
  /\ UNCHANGED <<main, listening, inShutdown, active, idle, signalVars, stopVars, statusVars, exit>>

\* Serve: go Serve of the next scheme.
StartServer(s) ==
  /\ Running
  /\ main = "start"
  /\ server[s] = "none"
  /\ \A t \in Before(s) \cap Schemes : server[t] # "none"
  /\ server' = [server EXCEPT ![s] = "starting"]
  /\ UNCHANGED <<main, listening, inShutdown, active, idle, signalVars, stopVars, statusVars, exit>>

\* The certificates of the https server are wrong or missing: Serve returns an
\* error, which runServer answers with Fatalf, or calls Fatalf itself.
TLSFails == /\ Running
            /\ main = "start"
            /\ "https" \in Schemes
            /\ server["https"] = "none"
            /\ \A t \in Schemes \ {"https"} : server[t] # "none"
            /\ Fatalf

\* Serve: go handleShutdown, then wg.Wait.
StartStopper ==
  /\ Running
  /\ main = "start"
  /\ \A s \in Schemes : server[s] # "none"
  /\ main' = "wait"
  /\ stopper' = "await"
  /\ UNCHANGED <<serveVars, signalVars, shutter, pending, success, grace, statusVars, exit>>

MutWaitGroup == stopper = "finished"

\* The counter of the WaitGroup is zero.
WaitGroup == stopper = "finished" /\ \A s \in Schemes : server[s] = "returned"

\* Serve returns and main runs the deferred functions, VMMManager.Close first.
BeginClose ==
  /\ Running
  /\ main = "wait"
  /\ WaitGroup
  /\ main' = "close"
  /\ UNCHANGED <<serveVars, signalVars, stopVars, statusVars, exit>>

\* Close returns, and the deferred srv.Shutdown finds shuttingDown set.
Exit ==
  /\ Running
  /\ main = "close"
  /\ main' = "exited"
  /\ exit' = "clean"
  /\ UNCHANGED <<serveVars, signalVars, stopVars, statusVars>>

-------------------------------------------------------------------------------
(* The http.Servers (net/http). *)

\* Serve on a server that has been shut down returns at once.
Serve(s) ==
  /\ Running
  /\ server[s] = "starting"
  /\ server' = [server EXCEPT ![s] = IF inShutdown[s] THEN "returned" ELSE "serving"]
  /\ UNCHANGED <<main, listening, inShutdown, active, idle, signalVars, stopVars, statusVars, exit>>

\* A new connection; its first request is due.
Accept(s) ==
  /\ Running
  /\ server[s] = "serving"
  /\ ~inShutdown[s]
  /\ active[s] + idle[s] < MaxConnections
  /\ active' = [active EXCEPT ![s] = @ + 1]
  /\ UNCHANGED <<main, listening, server, inShutdown, idle, signalVars, stopVars, statusVars, exit>>

\* The next request on a connection that was kept alive.
Request(s) ==
  /\ Running
  /\ idle[s] > 0
  /\ active[s] < MaxConnections
  /\ idle' = [idle EXCEPT ![s] = @ - 1]
  /\ active' = [active EXCEPT ![s] = @ + 1]
  /\ UNCHANGED <<main, listening, server, inShutdown, signalVars, stopVars, statusVars, exit>>

\* The request ends; once Shutdown has been called connections are not kept alive.
Respond(s) ==
  /\ Running
  /\ active[s] > 0
  /\ active' = [active EXCEPT ![s] = @ - 1]
  /\ \/ UNCHANGED idle
     \/ /\ ~inShutdown[s]
        /\ idle[s] < MaxConnections
        /\ idle' = [idle EXCEPT ![s] = @ + 1]
  /\ UNCHANGED <<main, listening, server, inShutdown, signalVars, stopVars, statusVars, exit>>

\* Shutdown has closed the listeners, so Accept fails and Serve returns
\* ErrServerClosed.
ServeReturns(s) ==
  /\ Running
  /\ server[s] = "serving"
  /\ inShutdown[s]
  /\ server' = [server EXCEPT ![s] = "returned"]
  /\ UNCHANGED <<main, listening, inShutdown, active, idle, signalVars, stopVars, statusVars, exit>>

\* Accept fails for a reason of its own.
AcceptFails(s) == Running /\ server[s] = "serving" /\ ~inShutdown[s] /\ Fatalf

-------------------------------------------------------------------------------
(* Signals. *)

\* SIGINT or SIGTERM: kills a process that has not asked for it, is dropped when
\* the channel is full.
Signal ==
  /\ Running
  /\ IF notified THEN interrupt' = TRUE /\ UNCHANGED exit
                 ELSE exit' = "fatal" /\ UNCHANGED interrupt
  /\ UNCHANGED <<main, serveVars, notified, interrupted, shutdown, stopVars, statusVars>>

HandleInterrupt ==
  /\ Running
  /\ interrupt
  /\ interrupt' = FALSE
  /\ interrupted' = TRUE
  /\ shutdown' = (shutdown \/ ~interrupted)
  /\ UNCHANGED <<main, serveVars, notified, stopVars, statusVars, exit>>

-------------------------------------------------------------------------------
(* handleShutdown. *)

BeginGrace ==
  /\ Running
  /\ stopper = "await"
  /\ shutdown
  /\ stopper' = "hook"
  /\ grace' = "running"
  /\ UNCHANGED <<main, serveVars, signalVars, shutter, pending, success, statusVars, exit>>

GraceExpires ==
  /\ Running
  /\ grace = "running"
  /\ grace' = "expired"
  /\ UNCHANGED <<main, serveVars, signalVars, stopper, shutter, pending, success, statusVars, exit>>

MutPreServerShutdown == ready' = ready

PreServerShutdown == ready' = FALSE

MutTurns == Cardinality(Schemes) + 1

\* for range servers
Turns == Cardinality(Schemes)

\* The hook, then one goroutine for each server.
SpawnShutters ==
  /\ Running
  /\ stopper = "hook"
  /\ stopper' = "collect"
  /\ PreServerShutdown
  /\ shutter' = [s \in Schemes |-> "spawned"]
  /\ pending' = Turns
  /\ UNCHANGED <<main, serveVars, signalVars, success, grace, healthy, exit>>

\* server.Shutdown begins.
ShutdownServer(s) ==
  /\ Running
  /\ shutter[s] = "spawned"
  /\ shutter' = [shutter EXCEPT ![s] = "draining"]
  /\ inShutdown' = [inShutdown EXCEPT ![s] = TRUE]
  /\ UNCHANGED <<main, listening, server, active, idle, signalVars, stopper, pending, success,
                 grace, statusVars, exit>>

MutClosesAtOnce(s) == {"ok", "failed"}

MutShutdownOutcome(s) ==
  IF active[s] = 0 THEN {"ok", "failed"} ELSE {"draining"}

\* The context of the Shutdown calls ends with the graceful timeout, and with the
\* deferred cancel when handleShutdown returns.
ContextDone == grace = "expired" \/ stopper = "finished"

\* It returns nil, or the error of closing the listeners, once no connection is
\* active, and an error when its context is done.
ShutdownOutcome(s) ==
  IF active[s] = 0 THEN {"ok", "failed"}
                   ELSE {"draining"} \cup (IF ContextDone THEN {"failed"} ELSE {})

\* server.Shutdown closes the connections that are idle and looks at the others,
\* again and again until it returns.
ShutdownPolls(s) ==
  /\ Running
  /\ shutter[s] = "draining"
  /\ \E outcome \in ShutdownOutcome(s) : shutter' = [shutter EXCEPT ![s] = outcome]
  /\ idle' = [idle EXCEPT ![s] = 0]
  /\ UNCHANGED <<main, listening, server, inShutdown, active, signalVars, stopper, pending,
                 success, grace, statusVars, exit>>

\* success && <-shutdownChan, when it does receive.
Received(s) == success /\ shutter[s] = "ok"

\* One turn of the loop: receives from a goroutine that sends, or nothing once
\* success is FALSE.
Collect ==
  /\ Running
  /\ stopper = "collect"
  /\ pending > 0
  /\ pending' = pending - 1
  /\ \/ \E s \in Schemes : /\ success
                           /\ shutter[s] \in {"ok", "failed"}
                           /\ success' = Received(s)
                           /\ shutter' = [shutter EXCEPT ![s] = "delivered"]
     \/ ~success /\ UNCHANGED <<success, shutter>>
  /\ UNCHANGED <<main, serveVars, signalVars, stopper, grace, statusVars, exit>>

MutServerShutdown == healthy' = FALSE

\* The hook ServerShutdown runs only if every server has shut down.
ServerShutdown == healthy' = IF success THEN FALSE ELSE healthy

\* The loop is over: the deferred cancel, which ContextDone reads, and wg.Done.
FinishStopper ==
  /\ Running
  /\ stopper = "collect"
  /\ pending = 0
  /\ ServerShutdown
  /\ stopper' = "finished"
  /\ UNCHANGED <<main, serveVars, signalVars, shutter, pending, success, grace, ready, exit>>

-------------------------------------------------------------------------------

Next ==
  \/ SetStatus \/ ListenFails \/ Notify \/ TLSFails \/ StartStopper \/ BeginClose \/ Exit
  \/ \E s \in Schemes : \/ Listen(s) \/ StartServer(s)
                        \/ Serve(s) \/ ServeReturns(s) \/ AcceptFails(s)
                        \/ Accept(s) \/ Request(s) \/ Respond(s)
                        \/ ShutdownServer(s) \/ ShutdownPolls(s)
  \/ Signal \/ HandleInterrupt
  \/ BeginGrace \/ GraceExpires \/ SpawnShutters \/ Collect \/ FinishStopper

Spec == Init /\ [][Next]_vars

(***************************************************************************)
(* Goroutines that can run do, and the graceful timeout passes.  No request *)
(* need ever end and no signal need arrive.                                *)
(***************************************************************************)
Fairness ==
  /\ WF_vars(Notify) /\ WF_vars(StartStopper) /\ WF_vars(BeginClose) /\ WF_vars(Exit)
  /\ \A s \in Schemes : /\ WF_vars(StartServer(s)) /\ WF_vars(Serve(s)) /\ WF_vars(ServeReturns(s))
                        /\ WF_vars(ShutdownServer(s)) /\ WF_vars(ShutdownPolls(s))
  /\ WF_vars(HandleInterrupt) /\ WF_vars(BeginGrace) /\ WF_vars(GraceExpires)
  /\ WF_vars(SpawnShutters) /\ WF_vars(Collect) /\ WF_vars(FinishStopper)

FairSpec == Spec /\ Fairness

-------------------------------------------------------------------------------

\* The hook PreServerShutdown comes before every Shutdown: no listener is closing
\* while /-/ready reports that the process is ready.  A client that was told so just
\* before may still find the listener closed.
ReadyWithdrawnFirst == \A s \in Schemes : inShutdown[s] => ~ready

\* Serve waits for every server (server.go:330): once VMMManager.Close has begun no
\* client can connect any more, so what starts a machine that Close has not seen is
\* a request on a connection that the graceful timeout gave up.
NoConnectionDuringClose ==
  [][main = "close" => \A s \in Schemes : active'[s] + idle'[s] <= active[s] + idle[s]]_vars

\* swagger.yaml:62: /-/healthy "returns a 200 status code when the HTTP server is
\* up running", and server.go:441: "Wait until all listeners have successfully shut
\* down before calling ServerShutdown".  The process is not unhealthy, nor the
\* context of its requests cancelled, while any server has a request in progress
\* or may get one, whatever the order in which the servers go down.
UnhealthyMeansDown ==
  \A s \in Schemes : main # "status" /\ ~healthy
    => inShutdown[s] /\ shutter[s] = "delivered" /\ active[s] = 0 /\ idle[s] = 0

\* A signal ends the process although requests may never end, and whenever it
\* comes: between Notify and StartStopper, twice, or during the shutdown.
SignalStops == interrupt ~> ~Running

\* server.go:75, graceful-timeout: "grace period for which to wait before shutting
\* down the server".  Serve returns with requests in progress only when that
\* period has passed.
GraceRespected ==
  main = "close" /\ (\E s \in Schemes : active[s] > 0) => grace = "expired"

===============================================================================
