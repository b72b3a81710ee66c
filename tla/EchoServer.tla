------------------------------ MODULE EchoServer ------------------------------
(***************************************************************************)
(* firebox echo (cmd/echo.go), the service that runs inside a machine: the *)
(* goroutine of main, one that waits for a signal and one that listens and *)
(* serves, which shares the result err with serveEcho.                     *)
(***************************************************************************)
EXTENDS Naturals

CONSTANT MaxRequests  \* bound: requests in progress

ASSUME EchoAssumption == MaxRequests \in Nat

VARIABLES
  echo,      \* where serveEcho is
  signalled, \* stopChannel holds a signal
  ctxDone,   \* cancel has been called
  listener,  \* the goroutine of ListenAndServe
  down,      \* srv.Shutdown has been called
  requests,  \* requests in progress
  expired,   \* the second of ctxShutDown has passed
  err        \* the named result that both goroutines write

echoVars == <<echo, signalled, ctxDone, listener, down, requests, expired, err>>

EchoTypeOK ==
  /\ echo \in {"none", "serving", "draining", "drained", "returning", "exited", "fatal"}
  /\ listener \in {"none", "spawned", "serving", "returned"}
  /\ {signalled, ctxDone, down, expired} \subseteq BOOLEAN
  /\ requests \in 0..MaxRequests
  /\ err \in {"nil", "ErrServerClosed"}

EchoInit ==
  /\ echo = "none" /\ listener = "none" /\ err = "nil"
  /\ signalled = FALSE /\ ctxDone = FALSE /\ down = FALSE /\ expired = FALSE
  /\ requests = 0

Alive == echo \notin {"none", "exited", "fatal"}

\* runEcho has called Notify, and serveEcho starts the goroutine.
ServeEcho ==
  /\ echo = "none"
  /\ echo' = "serving"
  /\ listener' = "spawned"
  /\ UNCHANGED <<signalled, ctxDone, down, requests, expired, err>>

\* ListenAndServe returns at once if Shutdown was faster, and Fatalf answers an
\* error of its own.
ListenAndServe ==
  /\ Alive
  /\ listener = "spawned"
  /\ IF down THEN listener' = "returned" /\ err' = "ErrServerClosed" /\ UNCHANGED echo
     ELSE \/ listener' = "serving" /\ UNCHANGED <<echo, err>>
          \/ echo' = "fatal" /\ UNCHANGED <<listener, err>>
  /\ UNCHANGED <<signalled, ctxDone, down, requests, expired>>

\* Shutdown has closed the listener.
ListenerReturns ==
  /\ Alive
  /\ listener = "serving"
  /\ down
  /\ listener' = "returned"
  /\ err' = "ErrServerClosed"
  /\ UNCHANGED <<echo, signalled, ctxDone, down, requests, expired>>

EchoRequest ==
  /\ Alive
  /\ listener = "serving" /\ ~down
  /\ requests < MaxRequests
  /\ requests' = requests + 1
  /\ UNCHANGED <<echo, signalled, ctxDone, listener, down, expired, err>>

\* echoHandlerFunc has read the body and answers 200, or 500 if it could not.
EchoAnswer ==
  /\ Alive
  /\ requests > 0
  /\ requests' = requests - 1
  /\ UNCHANGED <<echo, signalled, ctxDone, listener, down, expired, err>>

EchoSignal ==
  /\ Alive
  /\ signalled' = TRUE
  /\ UNCHANGED <<echo, ctxDone, listener, down, requests, expired, err>>

EchoCancel ==
  /\ Alive
  /\ signalled
  /\ ctxDone' = TRUE
  /\ UNCHANGED <<echo, signalled, listener, down, requests, expired, err>>

EchoShutdown ==
  /\ echo = "serving"
  /\ ctxDone
  /\ echo' = "draining"
  /\ down' = TRUE
  /\ UNCHANGED <<signalled, ctxDone, listener, requests, expired, err>>

ShutdownExpires ==
  /\ echo = "draining"
  /\ expired' = TRUE
  /\ UNCHANGED <<echo, signalled, ctxDone, listener, down, requests, err>>

MutDrained == listener # "spawned"

MutWaits == requests = 0

\* Shutdown returns when no request is in progress, or with the error of its
\* context, which serveEcho assigns to an err of its own.
Drained == requests = 0 \/ expired

ShutdownReturned ==
  /\ echo = "draining"
  /\ Drained
  /\ echo' = "drained"
  /\ UNCHANGED <<signalled, ctxDone, listener, down, requests, expired, err>>

\* The comparison with ErrServerClosed; the other goroutine may write err before
\* it, after it, or when main has exited.
ForgetClosed ==
  /\ echo = "drained"
  /\ echo' = "returning"
  /\ err' = "nil"
  /\ UNCHANGED <<signalled, ctxDone, listener, down, requests, expired>>

EchoReturns ==
  /\ echo = "returning"
  /\ echo' = "exited"
  /\ UNCHANGED <<signalled, ctxDone, listener, down, requests, expired, err>>

EchoNext ==
  \/ ServeEcho \/ ListenAndServe \/ ListenerReturns \/ EchoRequest \/ EchoAnswer
  \/ EchoSignal \/ EchoCancel
  \/ EchoShutdown \/ ShutdownExpires \/ ShutdownReturned \/ ForgetClosed \/ EchoReturns

\* Goroutines run and the second passes; no request need end.
EchoFairness ==
  /\ WF_echoVars(EchoCancel) /\ WF_echoVars(EchoShutdown) /\ WF_echoVars(ShutdownExpires)
  /\ WF_echoVars(ShutdownReturned) /\ WF_echoVars(ForgetClosed) /\ WF_echoVars(EchoReturns)

-------------------------------------------------------------------------------

\* A service that is told to stop answers what it is asked: a request is cut only
\* if it takes longer than the second that Shutdown is given, wherever the
\* goroutine of ListenAndServe is when the signal comes.
EchoDrains == echo = "exited" /\ requests > 0 => expired

\* A signal ends the service, before it listens and while requests do not end.
EchoEnds == signalled ~> ~Alive

===============================================================================
