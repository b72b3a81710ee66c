-------------------------------- MODULE RestApi --------------------------------
(***************************************************************************)
(* The path of a request through the generated REST layer (api/server/     *)
(* restapi) to the handlers of cmd/handlers and back: it is routed, bound, *)
(* handled by the manager and answered.  A request that reaches the        *)
(* handler of POST /vm/run stands for the machine it asks for, one that    *)
(* reaches that of POST /invoke is an invocation of ServiceInvoke.         *)
(***************************************************************************)
EXTENDS ServiceInvoke, HttpConversion

CONSTANTS Data,      \* what a body of POST /invoke holds, models.HTTPRequest
          Response   \* what the service in a machine answers

\* A body that is not the JSON of an HTTPRequest is an error of binding.
ASSUME DataAssumption == \A d \in Data : IsHTTPRequest(d)

\* http.Header is a map to lists of strings.
ASSUME ResponseAssumption ==
  \A response \in Response : response.header \in [DOMAIN response.header -> Seq(STRING)]

VARIABLES
  stage,     \* where ServeHTTP of the request is
  route,     \* the operation the router has matched
  code,      \* the status that was written, 0 before; 400 stands for any 4xx
  data,      \* InvokeParams.Data, one or nil
  received,  \* the requests the service got, one or none
  answer     \* its answer and what became of it, one or none

restVars == <<stage, route, code, data, received, answer>>

Requests == Machine \cup Call

\* The operations of the swagger specification and the statuses it gives them.
Responses == [postVmRun |-> {200, 500},
              invoke    |-> {200, 500, 503},
              isHealthy |-> {200, 500, 503},
              isReady   |-> {200, 500, 503}]

Operation == DOMAIN Responses

RestTypeOK ==
  /\ InvokeTypeOK
  /\ stage \in [Requests -> {"none", "bound", "handling", "answered", "aborted"}]
  /\ route \in [Requests -> Operation \cup {"none", "other"}]
  /\ code \in [Requests -> {0, 200, 400, 500, 503}]
  /\ \A c \in Call : /\ Len(data[c]) <= 1
                     /\ Range(data[c]) \subseteq Data
                     /\ Len(received[c]) <= 1
                     /\ Len(answer[c]) <= 1

RestInit ==
  /\ InvokeInit
  /\ stage = [r \in Requests |-> "none"]
  /\ route = [r \in Requests |-> "none"]
  /\ code = [r \in Requests |-> 0]
  /\ data = [c \in Call |-> <<>>]
  /\ received = [c \in Call |-> <<>>]
  /\ answer = [c \in Call |-> <<>>]

\* The handler cache.
Handlers == [POST |-> [path \in {"/vm/run", "/invoke"} |->
                         IF path = "/vm/run" THEN "postVmRun" ELSE "invoke"],
             GET  |-> [path \in {"/-/healthy", "/-/ready"} |->
                         IF path = "/-/ready" THEN "isReady" ELSE "isHealthy"]]

\* A request stands for the machine, or the invocation, of its operation.
Fits(r, op) == (op = "postVmRun") <=> (r \in Machine)

\* The pages of UseSwaggerUI; a path that is not known, a method that its path
\* does not have.
Unrouted(r) ==
  /\ stage[r] = "none"
  /\ office # "closed"
  /\ \E status \in {200, 400} : code' = [code EXCEPT ![r] = status]
  /\ route' = [route EXCEPT ![r] = "other"]
  /\ stage' = [stage EXCEPT ![r] = "answered"]
  /\ UNCHANGED <<fleetVars, invokeVars, data, received, answer>>

MutAfterBindError == "bound"

\* ServeHTTP responds with the error and returns.
AfterBindError == "answered"

\* InvokeParams.BindRequest; no other operation reads a body.
BindRequest(r, op) == IF op = "invoke" THEN \E d \in Data : data' = [data EXCEPT ![r] = <<d>>]
                                       ELSE UNCHANGED data

\* HandlerFor finds the handler of the operation that the router has matched, and
\* ServeHTTP binds its parameters.  The body of POST /invoke may be missing or not
\* be the JSON of an HTTPRequest; the media types may be wrong for any operation.
Bind(r) ==
  /\ stage[r] = "none"
  /\ office # "closed"
  /\ \E method \in DOMAIN Handlers : \E path \in DOMAIN Handlers[method] :
       LET op == Handlers[method][path]
       IN  /\ Fits(r, op)
           /\ route' = [route EXCEPT ![r] = op]
           /\ \/ /\ BindRequest(r, op)
                 /\ stage' = [stage EXCEPT ![r] = "bound"]
                 /\ UNCHANGED code
              \/ /\ code' = [code EXCEPT ![r] = 400]
                 /\ stage' = [stage EXCEPT ![r] = AfterBindError]
                 /\ UNCHANGED data
  /\ UNCHANGED <<fleetVars, invokeVars, received, answer>>

\* Handler.Handle calls the manager, or reads a flag.
BeginHandling(r) ==
  /\ stage[r] = "bound"
  /\ stage' = [stage EXCEPT ![r] = "handling"]
  /\ CASE route[r] = "postVmRun" -> RequestVM(r) /\ UNCHANGED invokeVars
       [] route[r] = "invoke" -> Handle(r)
       [] OTHER -> office # "closed" /\ UNCHANGED <<fleetVars, invokeVars>>
  /\ UNCHANGED <<route, code, data, received, answer>>

\* invokeService: the request of toHttpRequest goes to whom Connect chooses.
SendRequest(c) ==
  /\ Connect(c)
  /\ \E sent \in ToHttpRequest(data[c][1]) : received' = [received EXCEPT ![c] = <<sent>>]
  /\ UNCHANGED <<stage, route, code, data, answer>>

\* The body of the answer has been read, and toHttpResponse keeps the rest.
ReceiveAnswer(c) ==
  /\ Answer(c)
  /\ \E response \in Response :
       answer' = [answer EXCEPT ![c] =
                    <<[response |-> response, result |-> ToHttpResponse(response)]>>]
  /\ UNCHANGED <<stage, route, code, data, received>>

\* The handler has returned from the manager.
Returned(r) == \/ r \in Machine /\ request[r] \in {"listed", "refused"}
               \/ r \in Call /\ call[r] \in {"ok", "unavailable", "error"}
               \/ route[r] \in {"isHealthy", "isReady"}

MutPostVMRunStatuses(r) == {200}

\* PostVMRunOK with the machine, or the error of StartVMM.
PostVMRunStatuses(r) == {IF request[r] = "listed" THEN 200 ELSE 500}

\* InvokeOK, or InvokeServiceUnavailable for whatever went wrong.
InvokeStatuses(r) == {IF call[r] = "ok" THEN 200 ELSE 503}

\* The flag is that of Firebox.
IsHealthyStatuses == {200, 503}

IsReadyStatuses == {200, 503}

\* The responder that a handler makes of a result or an error.
Statuses(r) == CASE route[r] = "postVmRun" -> PostVMRunStatuses(r)
                 [] route[r] = "invoke" -> InvokeStatuses(r)
                 [] route[r] = "isHealthy" -> IsHealthyStatuses
                 [] route[r] = "isReady" -> IsReadyStatuses

\* Nobody holds what the handler has worked with.
Forget(of, r) == [c \in Call |-> IF c = r THEN <<>> ELSE of[c]]

\* WriteResponse.  It panics if the client does not take the payload: net/http
\* recovers and drops the connection.
Respond(r) ==
  /\ stage[r] = "handling"
  /\ office # "closed"
  /\ Returned(r)
  /\ \/ /\ stage' = [stage EXCEPT ![r] = "answered"]
        /\ \E status \in Statuses(r) : code' = [code EXCEPT ![r] = status]
     \/ /\ stage' = [stage EXCEPT ![r] = "aborted"]
        /\ UNCHANGED code
  /\ data' = Forget(data, r) /\ received' = Forget(received, r) /\ answer' = Forget(answer, r)
  /\ UNCHANGED <<fleetVars, invokeVars, route>>

RestNext ==
  \/ \E r \in Requests : \/ Unrouted(r) \/ Bind(r)
                         \/ BeginHandling(r) \/ Respond(r)
  \/ \E c \in Call : \/ SendRequest(c) \/ ReceiveAnswer(c)
                     \/ (GetServiceIP(c) \/ NoneReady(c) \/ InvokeFails(c)) /\ UNCHANGED restVars
  \/ \E v \in Machine : /\ \/ Boot(v) \/ List(v) \/ Refuse(v) \/ Mark(v)
                           \/ End(v) \/ Free(v) \/ Unlist(v) \/ Drop(v)
                        /\ UNCHANGED <<invokeVars, restVars>>
  \/ (BeginClosing \/ EndClosing) /\ UNCHANGED <<invokeVars, restVars>>

RestSpec == RestInit /\ [][RestNext]_<<fleetVars, invokeVars, restVars>>

-------------------------------------------------------------------------------

\* A client gets one answer: no step writes a status over another one, whether it
\* comes from the router, from binding or from a handler.
AnsweredOnce == [][\A r \in Requests : code[r] # 0 => code'[r] = code[r]]_code

\* The status tells what has happened.  An error of the client has started no
\* machine and called no service; 200 means that the machine was listed, or that
\* the service answered; 500 and 503 that they were not, or did not.  No handler
\* gives a status that the specification of its operation does not have.
AnswerTellsOutcome ==
  \A r \in Requests : code[r] # 0 =>
    /\ route[r] \in Operation => code[r] \in Responses[route[r]] \cup {400}
    /\ CASE route[r] = "postVmRun" -> \/ code[r] = 200 /\ request[r] = "listed"
                                      \/ code[r] = 500 /\ request[r] = "refused"
                                      \/ code[r] = 400 /\ request[r] = "none"
         [] route[r] = "invoke" -> \/ code[r] = 200 /\ peer[r] # NoMachine
                                   \/ code[r] = 503 /\ call[r] \in {"unavailable", "error"}
                                   \/ code[r] = 400 /\ call[r] = "none"
         [] OTHER -> r \in Machine => request[r] = "none"

\* What reaches a service, whichever machine it is in, is what the client of
\* POST /invoke asked for: every header in any of three places, whatever the order
\* in which maps are visited and however its key is spelled.
RequestConveyed ==
  \A c \in Call : received[c] # <<>> => Conveys(data[c][1], received[c][1])

\* No header of the answer of a service is lost or made up on the way back.
ResponseConveyed ==
  \A c \in Call : answer[c] # <<>> => Recovers(answer[c][1].response, answer[c][1].result)

\* swagger.yaml:158: rawPath is an "encoded path hint (see EscapedPath method)",
\* so a path that is encoded already reaches the service as it is.
EncodedPathKept ==
  \A c \in Call : received[c] # <<>> /\ data[c][1].rawPath = "escaped"
    => received[c][1].path = "escaped"

===============================================================================
