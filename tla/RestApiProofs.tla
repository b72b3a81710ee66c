----------------------------- MODULE RestApiProofs -----------------------------
(***************************************************************************)
(* Whatever the REST layer makes of a request, and whatever it does with   *)
(* the answer, invocations arrive where ServiceInvoke says; statuses tell  *)
(* what has happened; and what is sent on either way is what was given.    *)
(***************************************************************************)
EXTENDS RestApi, ServiceInvokeProofs, HttpConversionProofs

\* A request is only routed to the operation it stands for.
Routed == /\ route \in [Requests -> Operation \cup {"none", "other"}]
          /\ \A r \in Requests :
               /\ route[r] = "postVmRun" => r \in Machine
               /\ route[r] = "invoke" => r \in Call
               /\ route[r] \in Operation \ {"postVmRun"} => r \notin Machine

restAll == <<fleetVars, invokeVars, restVars>>

LEMMA RestRouted == RestSpec => []Routed
<1>1. RestInit => Routed
  BY DEF RestInit, Routed, Operation, Responses
<1>2. ASSUME Routed, [RestNext]_restAll PROVE Routed'
  <2>1. ASSUME NEW r \in Requests, Bind(r) PROVE Routed'
    <3>1. PICK method \in DOMAIN Handlers : \E path \in DOMAIN Handlers[method] :
            LET op == Handlers[method][path]
            IN  /\ Fits(r, op)
                /\ route' = [route EXCEPT ![r] = op]
                /\ \/ /\ BindRequest(r, op)
                      /\ stage' = [stage EXCEPT ![r] = "bound"]
                      /\ UNCHANGED code
                   \/ /\ code' = [code EXCEPT ![r] = 400]
                      /\ stage' = [stage EXCEPT ![r] = AfterBindError]
                      /\ UNCHANGED data
      BY <2>1 DEF Bind
    <3>2. PICK path \in DOMAIN Handlers[method] :
            LET op == Handlers[method][path]
            IN  /\ Fits(r, op)
                /\ route' = [route EXCEPT ![r] = op]
                /\ \/ /\ BindRequest(r, op)
                      /\ stage' = [stage EXCEPT ![r] = "bound"]
                      /\ UNCHANGED code
                   \/ /\ code' = [code EXCEPT ![r] = 400]
                      /\ stage' = [stage EXCEPT ![r] = AfterBindError]
                      /\ UNCHANGED data
      BY <3>1
    <3> DEFINE op == Handlers[method][path]
    <3>3. op \in Operation
      BY <3>1, <3>2 DEF Handlers, Operation, Responses
    <3>4. op = "postVmRun" => r \in Machine
      BY <3>2 DEF Fits
    <3>5. op = "invoke" => r \in Call
      BY <3>2 DEF Fits, Requests
    <3>6. op # "postVmRun" => r \notin Machine
      BY <3>2 DEF Fits
    <3>7. route' = [route EXCEPT ![r] = op]
      BY <3>2
    <3> HIDE DEF op
    <3> QED
      BY <1>2, <3>3, <3>4, <3>5, <3>6, <3>7 DEF Routed
  <2>2. ASSUME NEW r \in Requests, Unrouted(r) PROVE Routed'
    BY <1>2, <2>2 DEF Unrouted, Routed, Operation, Responses
  <2>3. ASSUME NEW r \in Requests, BeginHandling(r) \/ Respond(r) PROVE UNCHANGED route
    BY <2>3 DEF BeginHandling, Respond
  <2>4. ASSUME NEW c \in Call, SendRequest(c) \/ ReceiveAnswer(c) PROVE UNCHANGED route
    BY <2>4 DEF SendRequest, ReceiveAnswer
  <2>5. UNCHANGED restVars => UNCHANGED route
    BY DEF restVars
  <2>6. UNCHANGED route => Routed'
    BY <1>2 DEF Routed
  <2> QED
    BY <1>2, <2>1, <2>2, <2>3, <2>4, <2>5, <2>6 DEF RestNext, restAll
<1> QED
  BY <1>1, <1>2, PTL DEF RestSpec, restAll

\* Routing, binding and answering leave the machines and the invocations as they
\* are; a handler, and what it calls, does what ServiceInvoke allows.
THEOREM RestInvokes == RestSpec => InvokeSpec
<1>1. RestInit => InvokeInit
  BY DEF RestInit
<1>2. ASSUME Routed, [RestNext]_restAll PROVE [InvokeNext]_<<fleetVars, invokeVars>>
  <2>1. ASSUME NEW r \in Requests, Unrouted(r) \/ Bind(r) \/ Respond(r)
        PROVE  UNCHANGED <<fleetVars, invokeVars>>
    BY <2>1 DEF Unrouted, Bind, Respond
  <2>2. ASSUME NEW r \in Requests, BeginHandling(r) PROVE [InvokeNext]_<<fleetVars, invokeVars>>
    <3>1. CASE route[r] = "postVmRun"
      <4>1. RequestVM(r) /\ UNCHANGED invokeVars /\ r \in Machine
        BY <1>2, <2>2, <3>1 DEF BeginHandling, Routed
      <4> QED
        BY <4>1 DEF InvokeNext, FleetNext
    <3>2. CASE route[r] = "invoke"
      <4>1. Handle(r) /\ r \in Call
        BY <1>2, <2>2, <3>2 DEF BeginHandling, Routed
      <4> QED
        BY <4>1 DEF InvokeNext
    <3>3. CASE route[r] \notin {"postVmRun", "invoke"}
      BY <2>2, <3>3 DEF BeginHandling
    <3> QED
      BY <3>1, <3>2, <3>3
  <2>3. ASSUME NEW c \in Call, SendRequest(c) \/ ReceiveAnswer(c) PROVE InvokeNext
    BY <2>3 DEF SendRequest, ReceiveAnswer, InvokeNext, InvokeStep
  <2>4. ASSUME NEW c \in Call, GetServiceIP(c) \/ NoneReady(c) \/ InvokeFails(c) PROVE InvokeNext
    BY <2>4 DEF InvokeNext, InvokeStep
  <2>5. ASSUME NEW v \in Machine,
               Boot(v) \/ List(v) \/ Refuse(v) \/ Mark(v) \/ End(v) \/ Free(v) \/ Unlist(v) \/ Drop(v),
               UNCHANGED invokeVars
        PROVE  InvokeNext
    BY <2>5 DEF InvokeNext, FleetNext
  <2>6. ASSUME BeginClosing \/ EndClosing, UNCHANGED invokeVars PROVE InvokeNext
    BY <2>6 DEF InvokeNext, FleetNext
  <2>7. CASE UNCHANGED restAll
    BY <2>7 DEF restAll
  <2> QED
    BY <1>2, <2>1, <2>2, <2>3, <2>4, <2>5, <2>6, <2>7 DEF RestNext
<1> QED
  BY <1>1, <1>2, RestRouted, PTL DEF RestSpec, InvokeSpec, restAll

\* A request that a machine gets although another one was chosen for it comes
\* after the end of that one, at its address, whichever way through routing,
\* binding and the handlers.
THEOREM RestAstray == RestSpec => []AstrayOnlyAfterFree
  BY RestInvokes, AstrayAfterFree, PTL

\* POST /invoke reaches only machines that were given to a client of POST /vm/run.
THEOREM RestChosen == RestSpec => []ChosenWasGiven
  BY RestInvokes, ChosenGiven, PTL

-------------------------------------------------------------------------------
(* What a request is answered, and what it carries. *)

\* What a status says of a request that is over.
Settled(r) ==
  /\ route[r] = "postVmRun" => \/ code[r] = 200 /\ request[r] = "listed"
                               \/ code[r] = 500 /\ request[r] = "refused"
                               \/ code[r] = 400 /\ request[r] = "none"
  /\ route[r] = "invoke" => \/ code[r] = 200 /\ call[r] = "ok"
                            \/ code[r] = 503 /\ call[r] \in {"unavailable", "error"}
                            \/ code[r] = 400 /\ call[r] = "none"
  /\ route[r] \in {"isHealthy", "isReady"} => code[r] \in {200, 400, 503}

\* A status is written at the end, and machines and invocations begin in a handler.
Answered == \A r \in Requests :
  /\ code[r] # 0 <=> stage[r] = "answered"
  /\ stage[r] \in {"bound", "handling"} => route[r] \in Operation
  /\ stage[r] = "answered" => Settled(r)
  /\ r \in Machine /\ request[r] # "none" =>
       route[r] = "postVmRun" /\ stage[r] \in {"handling", "answered", "aborted"}
  /\ r \in Call /\ call[r] # "none" =>
       route[r] = "invoke" /\ stage[r] \in {"handling", "answered", "aborted"}

\* Only a machine that took the connection can answer.
Connected == \A c \in Call : call[c] \in {"sent", "ok"} => peer[c] # NoMachine

RestTypes ==
  /\ stage \in [Requests -> {"none", "bound", "handling", "answered", "aborted"}]
  /\ code \in [Requests -> {0, 200, 400, 500, 503}]

\* What a handler holds: one body at most, and an answer with what toHttpResponse
\* has made of it.
Carried ==
  /\ DOMAIN data = Call /\ DOMAIN received = Call /\ DOMAIN answer = Call
  /\ \A c \in Call :
       /\ data[c] = <<>> \/ \E d \in Data : data[c] = <<d>>
       /\ received[c] = <<>> \/ \E sent : received[c] = <<sent>>
       /\ \/ answer[c] = <<>>
          \/ \E response \in Response :
               answer[c] = <<[response |-> response, result |-> ToHttpResponse(response)]>>

RestInv == RestTypes /\ Answered /\ Connected /\ Carried

LEMMA RestInitial == RestInit => RestInv
<1> SUFFICES ASSUME RestInit PROVE RestInv
  OBVIOUS
<1>1. RestTypes /\ Connected
  BY DEF RestInit, InvokeInit, RestTypes, Connected
<1>2. Answered
  BY DEF RestInit, InvokeInit, FleetInit, Answered
<1>3. Carried
  BY DEF RestInit, Carried
<1> QED
  BY <1>1, <1>2, <1>3 DEF RestInv

\* What the router and binding make of a request for an operation, or for none.
RoutedTo(r, op) ==
  /\ route' = [route EXCEPT ![r] = op]
  /\ op = "invoke" => r \in Call
  /\ op = "postVmRun" => r \in Machine
  /\ \/ /\ BindRequest(r, op) /\ op # "other"
        /\ stage' = [stage EXCEPT ![r] = "bound"]
        /\ UNCHANGED code
     \/ /\ stage' = [stage EXCEPT ![r] = "answered"]
        /\ \E status \in {200, 400} :
             code' = [code EXCEPT ![r] = status] /\ (op # "other" => status = 400)
        /\ UNCHANGED data

\* A request that the router or binding answers, or that is bound.
LEMMA RoutingKeeps ==
  ASSUME IInv, Routed, RestInv, NEW r \in Requests, Unrouted(r) \/ Bind(r)
  PROVE  RestInv'
<1>1. /\ stage[r] = "none" /\ code[r] = 0
      /\ UNCHANGED <<fleetVars, invokeVars, received, answer>>
  BY DEF Unrouted, Bind, RestInv, Answered, RestTypes
<1>2. UNCHANGED <<request, call, peer>>
  BY <1>1 DEF fleetVars, invokeVars
<1>3. /\ r \in Machine => request[r] = "none"
      /\ r \in Call => call[r] = "none"
  BY <1>1 DEF RestInv, Answered
<1>4. \E op \in Operation \cup {"other"} : RoutedTo(r, op)
  <2>1. CASE Unrouted(r)
    <3>1. /\ \E status \in {200, 400} : code' = [code EXCEPT ![r] = status]
          /\ route' = [route EXCEPT ![r] = "other"]
          /\ stage' = [stage EXCEPT ![r] = "answered"]
          /\ UNCHANGED data
      BY <2>1 DEF Unrouted
    <3>2. RoutedTo(r, "other")
      BY <3>1 DEF RoutedTo
    <3> QED
      BY <3>2
  <2>2. CASE Bind(r)
    <3>1. PICK method \in DOMAIN Handlers : \E path \in DOMAIN Handlers[method] :
            LET op == Handlers[method][path]
            IN  /\ Fits(r, op) /\ route' = [route EXCEPT ![r] = op]
                /\ \/ /\ BindRequest(r, op)
                      /\ stage' = [stage EXCEPT ![r] = "bound"]
                      /\ UNCHANGED code
                   \/ /\ code' = [code EXCEPT ![r] = 400]
                      /\ stage' = [stage EXCEPT ![r] = AfterBindError]
                      /\ UNCHANGED data
      BY <2>2 DEF Bind
    <3>2. PICK path \in DOMAIN Handlers[method] :
            LET op == Handlers[method][path]
            IN  /\ Fits(r, op) /\ route' = [route EXCEPT ![r] = op]
                /\ \/ /\ BindRequest(r, op)
                      /\ stage' = [stage EXCEPT ![r] = "bound"]
                      /\ UNCHANGED code
                   \/ /\ code' = [code EXCEPT ![r] = 400]
                      /\ stage' = [stage EXCEPT ![r] = AfterBindError]
                      /\ UNCHANGED data
      BY <3>1
    <3> DEFINE op == Handlers[method][path]
    <3>3. op \in Operation /\ op # "other"
      BY DEF Handlers, Operation, Responses
    <3>4. /\ Fits(r, op) /\ route' = [route EXCEPT ![r] = op]
          /\ \/ /\ BindRequest(r, op)
                /\ stage' = [stage EXCEPT ![r] = "bound"]
                /\ UNCHANGED code
             \/ /\ code' = [code EXCEPT ![r] = 400]
                /\ stage' = [stage EXCEPT ![r] = "answered"]
                /\ UNCHANGED data
      BY <3>2 DEF AfterBindError
    <3> HIDE DEF op
    <3>5. (op = "invoke" => r \in Call) /\ (op = "postVmRun" => r \in Machine)
      BY <3>4 DEF Fits, Requests
    <3>6. RoutedTo(r, op)
      BY <3>3, <3>4, <3>5 DEF RoutedTo
    <3> QED
      BY <3>3, <3>6
  <2> QED
    BY <2>1, <2>2
<1>5. PICK op \in Operation \cup {"other"} : RoutedTo(r, op)
  BY <1>4
<1> USE DEF RoutedTo
<1>6. RestTypes' /\ Connected'
  <2>1. RestTypes'
    BY <1>5 DEF RestInv, RestTypes
  <2>2. Connected'
    BY <1>2 DEF RestInv, Connected
  <2> QED
    BY <2>1, <2>2
<1>7. Answered'
  <2>1. CASE stage' = [stage EXCEPT ![r] = "bound"] /\ UNCHANGED code /\ op # "other"
    BY <1>1, <1>2, <1>3, <1>5, <2>1 DEF RestInv, RestTypes, Routed, Answered, Settled
  <2>2. CASE /\ stage' = [stage EXCEPT ![r] = "answered"]
             /\ \E status \in {200, 400} :
                  code' = [code EXCEPT ![r] = status] /\ (op # "other" => status = 400)
    <3>1. PICK status \in {200, 400} :
            code' = [code EXCEPT ![r] = status] /\ (op # "other" => status = 400)
      BY <2>2
    <3>2. Settled(r)'
      BY <1>2, <1>3, <1>5, <3>1 DEF RestInv, RestTypes, Routed, Settled
    <3>3. \A q \in Requests \ {r} : Settled(q) => Settled(q)'
      BY <1>2, <1>5, <3>1 DEF RestInv, RestTypes, Routed, Settled
    <3> QED
      BY <1>1, <1>2, <1>3, <1>5, <2>2, <3>1, <3>2, <3>3 DEF RestInv, RestTypes, Routed, Answered
  <2> QED
    BY <1>5, <2>1, <2>2
<1>8. Carried'
  <2>1. \/ UNCHANGED data
        \/ r \in Call /\ \E d \in Data : data' = [data EXCEPT ![r] = <<d>>]
    <3>1. CASE BindRequest(r, op) /\ op = "invoke"
      BY <1>5, <3>1 DEF BindRequest
    <3>2. CASE BindRequest(r, op) /\ op # "invoke"
      BY <3>2 DEF BindRequest
    <3> QED
      BY <1>5, <3>1, <3>2
  <2> QED
    BY <1>1, <2>1 DEF RestInv, Carried
<1> QED
  BY <1>6, <1>7, <1>8 DEF RestInv

\* A handler begins and responds.
LEMMA HandlingKeeps ==
  ASSUME IInv, Routed, RestInv, NEW r \in Requests, BeginHandling(r) \/ Respond(r)
  PROVE  RestInv'
<1>1. UNCHANGED route /\ code[r] = 0
  BY DEF BeginHandling, Respond, RestInv, Answered, RestTypes
<1>2. CASE BeginHandling(r)
  <2>1. /\ stage[r] = "bound" /\ stage' = [stage EXCEPT ![r] = "handling"]
        /\ UNCHANGED <<code, data, received, answer>>
    BY <1>2 DEF BeginHandling
  <2>2. \/ /\ route[r] = "postVmRun" /\ r \in Machine
           /\ request' = [request EXCEPT ![r] = "open"] /\ UNCHANGED <<call, peer>>
        \/ /\ route[r] = "invoke" /\ r \in Call
           /\ call' = [call EXCEPT ![r] = "open"] /\ UNCHANGED <<request, peer>>
        \/ UNCHANGED <<request, call, peer>>
    <3>1. CASE route[r] = "postVmRun"
      <4>1. RequestVM(r) /\ UNCHANGED invokeVars
        BY <1>2, <3>1 DEF BeginHandling
      <4> QED
        BY <3>1, <4>1 DEF RequestVM, invokeVars, Routed
    <3>2. CASE route[r] = "invoke"
      <4>1. Handle(r)
        BY <1>2, <3>2 DEF BeginHandling
      <4> QED
        BY <3>2, <4>1 DEF Handle, fleetVars, Routed
    <3>3. CASE route[r] \notin {"postVmRun", "invoke"}
      <4>1. UNCHANGED <<fleetVars, invokeVars>>
        BY <1>2, <3>3 DEF BeginHandling
      <4> QED
        BY <4>1 DEF fleetVars, invokeVars
    <3> QED
      BY <3>1, <3>2, <3>3
  <2>3. RestTypes' /\ Carried'
    BY <2>1 DEF RestInv, RestTypes, Carried
  <2>4. Connected'
    BY <2>2 DEF RestInv, Connected, IInv, InvokeTypeOK
  <2>5. \A q \in Requests \ {r} : Settled(q) => Settled(q)'
    BY <1>1, <2>1, <2>2 DEF Settled, Routed, IInv, InvokeTypeOK, FleetTypeOK
  <2>6. Answered'
    BY <1>1, <2>1, <2>2, <2>5
    DEF RestInv, RestTypes, Answered, Routed, IInv, InvokeTypeOK, FleetTypeOK
  <2> QED
    BY <2>3, <2>4, <2>6 DEF RestInv
<1>3. CASE Respond(r)
  <2>1. /\ stage[r] = "handling" /\ Returned(r)
        /\ UNCHANGED <<fleetVars, invokeVars, route>>
        /\ data' = Forget(data, r) /\ received' = Forget(received, r) /\ answer' = Forget(answer, r)
    BY <1>3 DEF Respond
  <2>2. UNCHANGED <<request, call, peer>>
    BY <2>1 DEF fleetVars, invokeVars
  <2>3. Carried'
    BY <2>1 DEF RestInv, Carried, Forget
  <2>4. Connected'
    BY <2>2 DEF RestInv, Connected
  <2>5. CASE stage' = [stage EXCEPT ![r] = "aborted"] /\ UNCHANGED code
    <3>1. RestTypes'
      BY <2>5 DEF RestInv, RestTypes
    <3>2. Answered'
      BY <1>1, <2>1, <2>2, <2>5 DEF RestInv, RestTypes, Answered, Settled
    <3> QED
      BY <2>3, <2>4, <3>1, <3>2 DEF RestInv
  <2>6. CASE /\ stage' = [stage EXCEPT ![r] = "answered"]
             /\ \E status \in Statuses(r) : code' = [code EXCEPT ![r] = status]
    <3>1. PICK status \in Statuses(r) : code' = [code EXCEPT ![r] = status]
      BY <2>6
    <3>2. route[r] \in {"postVmRun", "invoke", "isHealthy", "isReady"}
      BY <2>1 DEF RestInv, Answered, Operation, Responses
    <3>3. /\ status \in {200, 500, 503}
          /\ route[r] = "postVmRun" => \/ status = 200 /\ request[r] = "listed"
                                       \/ status = 500 /\ request[r] = "refused"
          /\ route[r] = "invoke" => \/ status = 200 /\ call[r] = "ok"
                                    \/ status = 503 /\ call[r] \in {"unavailable", "error"}
          /\ route[r] \in {"isHealthy", "isReady"} => status \in {200, 503}
      <4>1. CASE route[r] = "postVmRun"
        <5>1. status = IF request[r] = "listed" THEN 200 ELSE 500
          BY <3>1, <4>1 DEF Statuses, PostVMRunStatuses
        <5>2. r \in Call => call[r] = "none"
          BY <4>1 DEF RestInv, Answered
        <5>3. request[r] \in {"listed", "refused"}
          BY <2>1, <4>1, <5>2 DEF Returned
        <5> QED
          BY <4>1, <5>1, <5>3
      <4>2. CASE route[r] = "invoke"
        <5>1. status = IF call[r] = "ok" THEN 200 ELSE 503
          BY <3>1, <4>2 DEF Statuses, InvokeStatuses
        <5>2. call[r] \in {"ok", "unavailable", "error"}
          BY <2>1, <4>2 DEF Returned, Routed, Operation, Responses
        <5> QED
          BY <4>2, <5>1, <5>2
      <4>3. CASE route[r] = "isHealthy"
        BY <3>1, <4>3 DEF Statuses, IsHealthyStatuses
      <4>4. CASE route[r] = "isReady"
        BY <3>1, <4>4 DEF Statuses, IsReadyStatuses
      <4> QED
        BY <3>2, <4>1, <4>2, <4>3, <4>4
    <3>4. RestTypes'
      BY <2>6, <3>1, <3>3 DEF RestInv, RestTypes
    <3>5. code'[r] = status /\ \A q \in Requests \ {r} : code'[q] = code[q] /\ stage'[q] = stage[q]
      BY <2>6, <3>1 DEF RestInv, RestTypes
    <3>6. Settled(r)'
      BY <2>1, <2>2, <3>3, <3>5 DEF Settled
    <3>7. \A q \in Requests \ {r} : Settled(q) => Settled(q)'
      BY <2>1, <2>2, <3>5 DEF Settled
    <3>8. stage'[r] = "answered" /\ code'[r] # 0
      BY <2>6, <3>3, <3>5 DEF RestInv, RestTypes
    <3>9. Answered'
      BY <2>1, <2>2, <3>5, <3>6, <3>7, <3>8 DEF RestInv, Answered
    <3> QED
      BY <2>3, <2>4, <3>4, <3>9 DEF RestInv
  <2> QED
    BY <1>3, <2>5, <2>6 DEF Respond
<1> QED
  BY <1>2, <1>3

\* The machines and the invocations go on by themselves: what has begun in a
\* handler, and what a status tells, is over or stays begun.
LEMMA ManagerKeeps ==
  ASSUME IInv, Routed, RestInv, UNCHANGED <<stage, route, code>>, Carried',
         \/ \E c \in Call : InvokeStep(c)
         \/ /\ \E v \in Machine : \/ Boot(v) \/ List(v) \/ Refuse(v) \/ Mark(v)
                                  \/ End(v) \/ Free(v) \/ Unlist(v) \/ Drop(v)
            /\ UNCHANGED invokeVars
         \/ (BeginClosing \/ EndClosing) /\ UNCHANGED invokeVars
         \/ UNCHANGED <<fleetVars, invokeVars>>
  PROVE  RestInv'
<1>1. RestTypes'
  BY DEF RestInv, RestTypes
<1>2. /\ request \in [Machine -> {"none", "open", "listed", "refused"}]
      /\ call \in [Call -> {"none", "open", "sending", "sent", "ok", "unavailable", "error"}]
      /\ peer \in [Call -> Machine \cup {NoMachine}]
  BY DEF IInv, InvokeTypeOK, FleetTypeOK
<1>3. /\ \A v \in Machine :
           request[v] \in {"none", "listed", "refused"} => request'[v] = request[v]
      /\ \A c \in Call :
           call[c] \in {"none", "ok", "unavailable", "error"} => call'[c] = call[c]
      /\ Connected'
  <2>1. CASE \E c \in Call : InvokeStep(c)
    <3>1. PICK c \in Call : InvokeStep(c)
      BY <2>1
    <3>2. UNCHANGED request
      BY <3>1 DEF InvokeStep, GetServiceIP, NoneReady, Connect, Answer, InvokeFails, fleetVars
    <3>3. CASE Connect(c)
      BY <1>2, <3>2, <3>3, InvokeAssumption DEF Connect, RestInv, Connected
    <3>4. CASE GetServiceIP(c) \/ NoneReady(c) \/ Answer(c) \/ InvokeFails(c)
      BY <1>2, <3>2, <3>4 DEF GetServiceIP, NoneReady, Answer, InvokeFails, RestInv, Connected
    <3> QED
      BY <3>1, <3>3, <3>4 DEF InvokeStep
  <2>2. CASE UNCHANGED invokeVars /\ \E v \in Machine :
               Boot(v) \/ List(v) \/ Refuse(v) \/ Mark(v) \/ End(v) \/ Free(v) \/ Unlist(v) \/ Drop(v)
    <3>1. UNCHANGED <<call, peer>>
      BY <2>2 DEF invokeVars
    <3>2. PICK v \in Machine :
            Boot(v) \/ List(v) \/ Refuse(v) \/ Mark(v) \/ End(v) \/ Free(v) \/ Unlist(v) \/ Drop(v)
      BY <2>2
    <3>3. CASE List(v) \/ Refuse(v)
      BY <1>2, <3>1, <3>3 DEF List, Refuse, RestInv, Connected
    <3>4. CASE Boot(v) \/ Mark(v) \/ End(v) \/ Free(v) \/ Unlist(v) \/ Drop(v)
      BY <1>2, <3>1, <3>4 DEF Boot, Mark, End, Free, Unlist, Drop, RestInv, Connected
    <3> QED
      BY <3>2, <3>3, <3>4
  <2>3. CASE UNCHANGED <<request, call, peer>>
    BY <1>2, <2>3 DEF RestInv, Connected
  <2> QED
    BY <2>1, <2>2, <2>3 DEF BeginClosing, EndClosing, invokeVars, fleetVars
<1>4. ASSUME NEW r \in Requests, Settled(r) PROVE Settled(r)'
  <2>1. CASE route[r] = "postVmRun"
    <3>1. r \in Machine
      BY <2>1 DEF Routed
    <3>2. request[r] \in {"none", "listed", "refused"}
      BY <1>4, <2>1 DEF Settled
    <3>3. request'[r] = request[r]
      BY <1>3, <3>1, <3>2
    <3> QED
      BY <1>4, <2>1, <3>3 DEF Settled
  <2>2. CASE route[r] = "invoke"
    <3>1. r \in Call
      BY <2>2 DEF Routed
    <3>2. call[r] \in {"none", "ok", "unavailable", "error"}
      BY <1>4, <2>2 DEF Settled
    <3>3. call'[r] = call[r]
      BY <1>3, <3>1, <3>2
    <3> QED
      BY <1>4, <2>2, <3>3 DEF Settled
  <2>3. CASE route[r] \notin {"postVmRun", "invoke"}
    BY <1>4, <2>3 DEF Settled
  <2> QED
    BY <2>1, <2>2, <2>3
<1>5. Answered'
  <2>1. ASSUME NEW r \in Requests
        PROVE  /\ r \in Machine /\ request'[r] # "none" => request[r] # "none"
               /\ r \in Call /\ call'[r] # "none" => call[r] # "none"
    BY <1>2, <1>3
  <2> QED
    BY <1>4, <2>1 DEF RestInv, Answered
<1> QED
  BY <1>1, <1>3, <1>5 DEF RestInv

LEMMA RestInvariant == RestSpec => [](IInv /\ Routed /\ RestInv)
<1>1. ASSUME IInv, Routed, RestInv, [RestNext]_restAll PROVE RestInv'
  <2>1. ASSUME NEW r \in Requests, Unrouted(r) \/ Bind(r) \/ BeginHandling(r) \/ Respond(r)
        PROVE  RestInv'
    BY <1>1, <2>1, RoutingKeeps, HandlingKeeps
  <2>2. ASSUME NEW c \in Call, SendRequest(c) \/ ReceiveAnswer(c) PROVE RestInv'
    <3>1. UNCHANGED <<stage, route, code>> /\ InvokeStep(c)
      BY <2>2 DEF SendRequest, ReceiveAnswer, InvokeStep
    <3>2. Carried'
      BY <1>1, <2>2 DEF SendRequest, ReceiveAnswer, RestInv, Carried
    <3> QED
      BY <1>1, <3>1, <3>2, ManagerKeeps
  <2>3. ASSUME UNCHANGED restVars PROVE UNCHANGED <<stage, route, code>> /\ Carried'
    BY <1>1, <2>3 DEF restVars, RestInv, Carried
  <2>4. ASSUME NEW c \in Call, GetServiceIP(c) \/ NoneReady(c) \/ InvokeFails(c),
               UNCHANGED restVars
        PROVE  RestInv'
    BY <1>1, <2>3, <2>4, ManagerKeeps DEF InvokeStep
  <2>5. ASSUME NEW v \in Machine,
               Boot(v) \/ List(v) \/ Refuse(v) \/ Mark(v) \/ End(v) \/ Free(v) \/ Unlist(v) \/ Drop(v),
               UNCHANGED <<invokeVars, restVars>>
        PROVE  RestInv'
    BY <1>1, <2>3, <2>5, ManagerKeeps
  <2>6. ASSUME BeginClosing \/ EndClosing, UNCHANGED <<invokeVars, restVars>> PROVE RestInv'
    BY <1>1, <2>3, <2>6, ManagerKeeps
  <2>7. CASE UNCHANGED restAll
    <3>1. UNCHANGED <<fleetVars, invokeVars>> /\ UNCHANGED restVars
      BY <2>7 DEF restAll
    <3> QED
      BY <1>1, <2>3, <3>1, ManagerKeeps
  <2> QED
    BY <1>1, <2>1, <2>2, <2>4, <2>5, <2>6, <2>7 DEF RestNext
<1>2. RestSpec => []IInv
  BY RestInvokes, InvokeInvariant, PTL
<1>3. IInv /\ Routed /\ RestInv /\ [RestNext]_restAll => RestInv'
  BY <1>1
<1> QED
  BY <1>2, <1>3, RestRouted, RestInitial, PTL DEF RestSpec, restAll

\* The state of the REST layer keeps its type: a handler holds one body, one request
\* and one answer at most.
THEOREM RestTyped == RestSpec => []RestTypeOK
<1>1. IInv /\ Routed /\ RestInv => RestTypeOK
  <2> SUFFICES ASSUME IInv, Routed, RestInv PROVE RestTypeOK
    OBVIOUS
  <2>1. ASSUME NEW c \in Call
        PROVE  /\ Len(data[c]) <= 1 /\ Range(data[c]) \subseteq Data
               /\ Len(received[c]) <= 1 /\ Len(answer[c]) <= 1
    <3>1. Len(received[c]) <= 1 /\ Len(answer[c]) <= 1
      <4>1. received[c] = <<>> \/ \E sent : received[c] = <<sent>>
        BY DEF RestInv, Carried
      <4>2. answer[c] = <<>> \/ \E given : answer[c] = <<given>>
        BY DEF RestInv, Carried
      <4>3. ASSUME NEW q, q = <<>> \/ \E x : q = <<x>> PROVE Len(q) <= 1
        <5>1. CASE q = <<>>
          BY <5>1
        <5>2. CASE \E x : q = <<x>>
          BY <5>2
        <5> QED
          BY <4>3, <5>1, <5>2
      <4> QED
        BY <4>1, <4>2, <4>3
    <3>2. CASE data[c] = <<>>
      <4>1. Len(data[c]) = 0 /\ DOMAIN data[c] = {}
        BY <3>2
      <4> QED
        BY <3>1, <4>1 DEF Range
    <3>3. CASE \E d \in Data : data[c] = <<d>>
      <4>1. PICK d \in Data : data[c] = <<d>>
        BY <3>3
      <4>2. Len(data[c]) = 1 /\ DOMAIN data[c] = {1} /\ data[c][1] = d
        BY <4>1
      <4> QED
        BY <3>1, <4>2 DEF Range
    <3> QED
      BY <3>2, <3>3 DEF RestInv, Carried
  <2> QED
    BY <2>1 DEF IInv, Routed, RestInv, RestTypes, RestTypeOK
<1> QED
  BY <1>1, RestInvariant, PTL

\* The status of a request is true: 200 only for a machine that was listed or a
\* service that answered, an error of the client only where nothing was begun.
THEOREM StatusTellsOutcome == RestSpec => []AnswerTellsOutcome
<1>1. IInv /\ Routed /\ RestInv => AnswerTellsOutcome
  <2> SUFFICES ASSUME IInv, Routed, RestInv, NEW r \in Requests, code[r] # 0
               PROVE  /\ route[r] \in Operation => code[r] \in Responses[route[r]] \cup {400}
                      /\ CASE route[r] = "postVmRun" -> \/ code[r] = 200 /\ request[r] = "listed"
                                                        \/ code[r] = 500 /\ request[r] = "refused"
                                                        \/ code[r] = 400 /\ request[r] = "none"
                           [] route[r] = "invoke" -> \/ code[r] = 200 /\ peer[r] # NoMachine
                                                     \/ code[r] = 503 /\ call[r] \in {"unavailable", "error"}
                                                     \/ code[r] = 400 /\ call[r] = "none"
                           [] OTHER -> r \in Machine => request[r] = "none"
    BY DEF AnswerTellsOutcome
  <2>1. Settled(r)
    BY DEF RestInv, Answered
  <2>2. CASE route[r] = "postVmRun"
    BY <2>1, <2>2 DEF Settled, Responses
  <2>3. CASE route[r] = "invoke"
    <3>1. r \in Call
      BY <2>3 DEF Routed
    <3>2. call[r] = "ok" => peer[r] # NoMachine
      BY <3>1 DEF RestInv, Connected
    <3> QED
      BY <2>1, <2>3, <3>2 DEF Settled, Responses
  <2>4. CASE route[r] \in {"isHealthy", "isReady"}
    <3>1. r \notin Machine
      BY <2>4 DEF Routed, Operation, Responses
    <3> QED
      BY <2>1, <2>4, <3>1 DEF Settled, Responses
  <2>5. CASE route[r] \in {"none", "other"}
    <3>1. route[r] \notin Operation
      BY <2>5 DEF Operation, Responses
    <3>2. r \in Machine => request[r] = "none"
      BY <2>5 DEF RestInv, Answered
    <3> QED
      BY <2>5, <3>1, <3>2
  <2>6. route[r] \in {"postVmRun", "invoke", "isHealthy", "isReady", "none", "other"}
    BY DEF Routed, Operation, Responses
  <2> QED
    BY <2>2, <2>3, <2>4, <2>5, <2>6
<1> QED
  BY <1>1, RestInvariant, PTL

\* No status is written over another one: a request that has one is over, and its
\* handler does not begin again.
THEOREM AnswersAreFinal == RestSpec => AnsweredOnce
<1>1. ASSUME RestInv, RestNext PROVE \A r \in Requests : code[r] # 0 => code'[r] = code[r]
  <2> SUFFICES ASSUME NEW r \in Requests, code[r] # 0 PROVE code'[r] = code[r]
    OBVIOUS
  <2>1. stage[r] = "answered"
    BY <1>1 DEF RestInv, Answered
  <2>2. ASSUME NEW q \in Requests, Unrouted(q) PROVE code'[r] = code[r]
    BY <1>1, <2>1, <2>2 DEF Unrouted, RestInv, RestTypes
  <2>3. ASSUME NEW q \in Requests, Bind(q) PROVE code'[r] = code[r]
    <3>1. stage[q] = "none" /\ (UNCHANGED code \/ code' = [code EXCEPT ![q] = 400])
      BY <2>3 DEF Bind
    <3> QED
      BY <1>1, <2>1, <3>1 DEF RestInv, RestTypes
  <2>4. ASSUME NEW q \in Requests, BeginHandling(q) \/ Respond(q) PROVE code'[r] = code[r]
    BY <1>1, <2>1, <2>4 DEF BeginHandling, Respond, RestInv, RestTypes
  <2>5. ASSUME NEW c \in Call, SendRequest(c) \/ ReceiveAnswer(c) PROVE code'[r] = code[r]
    BY <2>5 DEF SendRequest, ReceiveAnswer
  <2>6. UNCHANGED restVars => code'[r] = code[r]
    BY DEF restVars
  <2> QED
    BY <1>1, <2>2, <2>3, <2>4, <2>5, <2>6 DEF RestNext
<1>2. RestInv /\ [RestNext]_restAll => [\A r \in Requests : code[r] # 0 => code'[r] = code[r]]_code
  <2>1. UNCHANGED restAll => UNCHANGED code
    BY DEF restAll, restVars
  <2> QED
    BY <1>1, <2>1
<1> QED
  BY <1>2, RestInvariant, PTL DEF RestSpec, restAll, AnsweredOnce

-------------------------------------------------------------------------------
(* What reaches a service, and what comes back. *)

\* The handler of an invocation has bound its body before the manager is called, and
\* until it responds it keeps it: what was sent was made of it.
Held == \A c \in Call :
  /\ received[c] # <<>> =>
       /\ stage[c] = "handling"
       /\ \E d \in Data : /\ data[c] = <<d>>
                          /\ \E sent \in ToHttpRequest(d) : received[c] = <<sent>>
  /\ route[c] = "invoke" /\ stage[c] \in {"bound", "handling"} => data[c] # <<>>
  /\ Invoking(c) => stage[c] = "handling"

\* Binding gives a request its body when nothing has been sent for it.
LEMMA RoutingHolds ==
  ASSUME Routed, RestInv, Held, NEW r \in Requests, Unrouted(r) \/ Bind(r)
  PROVE  Held'
<1>1. /\ stage[r] = "none" /\ UNCHANGED <<call, received>>
      /\ r \in Call => received[r] = <<>> /\ ~Invoking(r)
  BY DEF Unrouted, Bind, invokeVars, Held
<1>2. /\ \A q \in Requests \ {r} : stage'[q] = stage[q] /\ route'[q] = route[q]
      /\ \A c \in Call \ {r} : data'[c] = data[c]
      /\ r \in Call /\ route'[r] = "invoke" /\ stage'[r] \in {"bound", "handling"} =>
           data'[r] # <<>>
  <2>1. CASE Unrouted(r)
    BY <2>1 DEF Unrouted, RestInv, RestTypes, Routed
  <2>2. CASE Bind(r)
    <3>1. PICK op : /\ route' = [route EXCEPT ![r] = op]
                    /\ \/ BindRequest(r, op) /\ stage' = [stage EXCEPT ![r] = "bound"]
                       \/ stage' = [stage EXCEPT ![r] = "answered"] /\ UNCHANGED data
      BY <2>2 DEF Bind, AfterBindError
    <3>2. /\ route'[r] = op
          /\ \A q \in Requests \ {r} : stage'[q] = stage[q] /\ route'[q] = route[q]
      BY <3>1 DEF RestInv, RestTypes, Routed
    <3>3. CASE BindRequest(r, op) /\ op = "invoke"
      <4>1. \E d \in Data : data' = [data EXCEPT ![r] = <<d>>]
        BY <3>3 DEF BindRequest
      <4> QED
        BY <3>2, <4>1 DEF RestInv, Carried
    <3>4. CASE BindRequest(r, op) /\ op # "invoke"
      BY <3>2, <3>4 DEF BindRequest
    <3>5. CASE stage' = [stage EXCEPT ![r] = "answered"] /\ UNCHANGED data
      BY <3>2, <3>5 DEF RestInv, RestTypes
    <3> QED
      BY <3>1, <3>3, <3>4, <3>5
  <2> QED
    BY <2>1, <2>2
<1> QED
  BY <1>1, <1>2 DEF Held, Requests, Invoking

\* A handler begins with what was bound and forgets it when it responds, and it does
\* not respond under an invocation.
LEMMA HandlingHolds ==
  ASSUME IInv, Routed, RestInv, Held, NEW r \in Requests, BeginHandling(r) \/ Respond(r)
  PROVE  Held'
<1>1. CASE BeginHandling(r)
  <2>1. /\ stage[r] = "bound" /\ stage' = [stage EXCEPT ![r] = "handling"]
        /\ UNCHANGED <<route, data, received>>
    BY <1>1 DEF BeginHandling
  <2>2. \A c \in Call \ {r} : call'[c] = call[c]
    <3>1. CASE route[r] = "postVmRun"
      <4>1. UNCHANGED invokeVars
        BY <1>1, <3>1 DEF BeginHandling
      <4> QED
        BY <4>1 DEF invokeVars
    <3>2. CASE route[r] = "invoke"
      <4>1. Handle(r)
        BY <1>1, <3>2 DEF BeginHandling
      <4> QED
        BY <4>1 DEF Handle, IInv, InvokeTypeOK
    <3>3. CASE route[r] \notin {"postVmRun", "invoke"}
      <4>1. UNCHANGED <<fleetVars, invokeVars>>
        BY <1>1, <3>3 DEF BeginHandling
      <4> QED
        BY <4>1 DEF invokeVars
    <3> QED
      BY <3>1, <3>2, <3>3
  <2>3. stage'[r] = "handling" /\ \A q \in Requests \ {r} : stage'[q] = stage[q]
    BY <2>1 DEF RestInv, RestTypes
  <2> QED
    BY <2>1, <2>2, <2>3 DEF Held, Requests, Invoking
<1>2. CASE Respond(r)
  <2>1. /\ stage[r] = "handling" /\ Returned(r)
        /\ UNCHANGED <<invokeVars, route>>
        /\ data' = Forget(data, r) /\ received' = Forget(received, r)
        /\ \E over \in {"answered", "aborted"} : stage' = [stage EXCEPT ![r] = over]
    BY <1>2 DEF Respond
  <2>2. UNCHANGED call
    BY <2>1 DEF invokeVars
  <2>3. /\ stage'[r] \in {"answered", "aborted"}
        /\ \A q \in Requests \ {r} : stage'[q] = stage[q]
    BY <2>1 DEF RestInv, RestTypes
  <2>4. /\ \A c \in Call \ {r} : data'[c] = data[c] /\ received'[c] = received[c]
        /\ r \in Call => received'[r] = <<>>
    BY <2>1 DEF Forget
  <2>5. r \in Call => ~Invoking(r)
    <3> SUFFICES ASSUME r \in Call, Invoking(r) PROVE FALSE
      OBVIOUS
    <3>1. route[r] = "invoke"
      BY DEF Invoking, RestInv, Answered
    <3>2. r \in Machine /\ request[r] # "none"
      BY <2>1, <3>1 DEF Returned, Invoking
    <3> QED
      BY <3>1, <3>2 DEF RestInv, Answered
  <2> QED
    BY <2>1, <2>2, <2>3, <2>4, <2>5 DEF Held, Requests, Invoking
<1> QED
  BY <1>1, <1>2

\* An invocation that goes on was under way, in a handler.
LEMMA StillInvoking ==
  ASSUME IInv, NEW c \in Call, InvokeStep(c)
  PROVE  /\ Invoking(c)
         /\ \A d \in Call \ {c} : call'[d] = call[d]
<1>1. call \in [Call -> {"none", "open", "sending", "sent", "ok", "unavailable", "error"}]
  BY DEF IInv, InvokeTypeOK
<1> QED
  BY <1>1 DEF InvokeStep, GetServiceIP, NoneReady, Connect, Answer, InvokeFails, Invoking

\* SendRequest makes its request of the body that was bound.
LEMMA SendingHolds ==
  ASSUME IInv, Routed, RestInv, Held, NEW c \in Call, SendRequest(c)
  PROVE  Held'
<1>1. /\ UNCHANGED <<stage, route, data>> /\ InvokeStep(c)
      /\ \E sent \in ToHttpRequest(data[c][1]) : received' = [received EXCEPT ![c] = <<sent>>]
  BY DEF SendRequest, InvokeStep
<1>2. Invoking(c) /\ stage[c] = "handling" /\ \A d \in Call \ {c} : call'[d] = call[d]
  BY <1>1, StillInvoking DEF Held
<1>3. data[c] # <<>>
  <2>1. route[c] = "invoke"
    BY <1>2 DEF Invoking, RestInv, Answered, Requests
  <2> QED
    BY <1>2, <2>1 DEF Held
<1>4. PICK d \in Data : data[c] = <<d>>
  BY <1>3 DEF RestInv, Carried
<1>5. data[c][1] = d
  BY <1>4
<1>6. PICK sent \in ToHttpRequest(d) : received' = [received EXCEPT ![c] = <<sent>>]
  BY <1>1, <1>5
<1>7. received'[c] = <<sent>> /\ \A e \in Call \ {c} : received'[e] = received[e]
  BY <1>6 DEF RestInv, Carried
<1> QED
  BY <1>1, <1>2, <1>3, <1>4, <1>6, <1>7 DEF Held, Invoking

LEMMA BodiesHeld == RestSpec => []Held
<1>1. RestInit => Held
  BY DEF RestInit, InvokeInit, Held, Invoking
<1>2. ASSUME IInv, Routed, RestInv, Held, [RestNext]_restAll PROVE Held'
  <2>1. ASSUME NEW r \in Requests, Unrouted(r) \/ Bind(r) \/ BeginHandling(r) \/ Respond(r)
        PROVE  Held'
    BY <1>2, <2>1, RoutingHolds, HandlingHolds
  <2>2. ASSUME NEW c \in Call, SendRequest(c) PROVE Held'
    BY <1>2, <2>2, SendingHolds
  <2>3. ASSUME UNCHANGED <<stage, route, data, received>>,
               UNCHANGED call \/ \E c \in Call : InvokeStep(c)
        PROVE  Held'
    <3>1. \A d \in Call : Invoking(d)' => Invoking(d)
      BY <1>2, <2>3, StillInvoking DEF Invoking
    <3> QED
      BY <1>2, <2>3, <3>1 DEF Held
  <2>4. ASSUME NEW c \in Call, ReceiveAnswer(c) PROVE Held'
    BY <2>3, <2>4 DEF ReceiveAnswer, InvokeStep
  <2>5. ASSUME NEW c \in Call, GetServiceIP(c) \/ NoneReady(c) \/ InvokeFails(c),
               UNCHANGED restVars
        PROVE  Held'
    BY <2>3, <2>5 DEF InvokeStep, restVars
  <2>6. ASSUME UNCHANGED <<invokeVars, restVars>> PROVE Held'
    BY <2>3, <2>6 DEF invokeVars, restVars
  <2>7. CASE UNCHANGED restAll
    BY <2>6, <2>7 DEF restAll
  <2> QED
    BY <1>2, <2>1, <2>2, <2>4, <2>5, <2>6, <2>7 DEF RestNext
<1>3. IInv /\ Routed /\ RestInv /\ Held /\ [RestNext]_restAll => Held'
  BY <1>2
<1> QED
  BY <1>1, <1>3, RestInvariant, PTL DEF RestSpec, restAll

\* What reaches a service is what the client asked for, for every body of POST /invoke,
\* whatever the order in which toHttpRequest visits its maps.
THEOREM RequestsConveyed == RestSpec => []RequestConveyed
<1>1. Held => RequestConveyed
  <2> SUFFICES ASSUME Held, NEW c \in Call, received[c] # <<>>
               PROVE  Conveys(data[c][1], received[c][1])
    BY DEF RequestConveyed
  <2>1. PICK d \in Data : /\ data[c] = <<d>>
                          /\ \E sent \in ToHttpRequest(d) : received[c] = <<sent>>
    BY DEF Held
  <2>2. PICK sent \in ToHttpRequest(d) : received[c] = <<sent>>
    BY <2>1
  <2>3. data[c][1] = d /\ received[c][1] = sent
    BY <2>1, <2>2
  <2>4. Conveys(d, sent)
    BY DataAssumption, HeadersConveyed
  <2> QED
    BY <2>3, <2>4
<1> QED
  BY <1>1, BodiesHeld, PTL

\* No header of a service's answer is lost or made up, whatever it holds.
THEOREM AnswersConveyed == RestSpec => []ResponseConveyed
<1>1. RestInv => ResponseConveyed
  <2> SUFFICES ASSUME RestInv, NEW c \in Call, answer[c] # <<>>
               PROVE  Recovers(answer[c][1].response, answer[c][1].result)
    BY DEF ResponseConveyed
  <2>1. PICK response \in Response :
          answer[c] = <<[response |-> response, result |-> ToHttpResponse(response)]>>
    BY DEF RestInv, Carried
  <2>2. answer[c][1].response = response /\ answer[c][1].result = ToHttpResponse(response)
    BY <2>1
  <2>3. Recovers(response, ToHttpResponse(response))
    BY ResponseAssumption, HeadersRecovered
  <2> QED
    BY <2>2, <2>3
<1> QED
  BY <1>1, RestInvariant, PTL

===============================================================================
