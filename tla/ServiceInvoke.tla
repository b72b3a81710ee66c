----------------------------- MODULE ServiceInvoke -----------------------------
(***************************************************************************)
(* POST /invoke (cmd/handlers/handle_service_invoke.go, InvokeHTTP of      *)
(* pkg/actors/manager/manager.go): an invocation picks an address from a   *)
(* copy of the table and sends its request there, however long that takes  *)
(* and whatever becomes of the machine.  The machines are those of Fleet.  *)
(* toHttpRequest and toHttpResponse are in HttpConversion.                 *)
(***************************************************************************)
EXTENDS Fleet

CONSTANTS Call,       \* invocations
          NoMachine   \* no machine yet

ASSUME InvokeAssumption == NoMachine \notin Machine

VARIABLES
  call,    \* the goroutine of the handler
  chosen,  \* the machine whose entry it has picked
  dest,    \* the ip of that entry
  peer     \* the machine that took the connection

invokeVars == <<call, chosen, dest, peer>>

InvokeTypeOK ==
  /\ FleetTypeOK
  /\ call \in [Call -> {"none", "open", "sending", "sent", "ok", "unavailable", "error"}]
  /\ chosen \in [Call -> Machine \cup {NoMachine}]
  /\ dest \in [Call -> Address \cup {NoAddress}]
  /\ peer \in [Call -> Machine \cup {NoMachine}]

InvokeInit ==
  /\ FleetInit
  /\ call = [c \in Call |-> "none"]
  /\ chosen = [c \in Call |-> NoMachine]
  /\ dest = [c \in Call |-> NoAddress]
  /\ peer = [c \in Call |-> NoMachine]

\* The handler has not answered.
Invoking(c) == call[c] \in {"open", "sending", "sent"}

Handle(c) ==
  /\ office # "closed"
  /\ call[c] = "none"
  /\ call' = [call EXCEPT ![c] = "open"]
  /\ UNCHANGED <<fleetVars, chosen, dest, peer>>

MutVmidOf(v) == {v}

MutIpOf(v) == {ip[w] : w \in table}

\* The ip of an entry is that of its machine.
IpOf(v) == {ip[v]}

MutReadyEntries == {v \in Machine : machine[v] # "none"}

ReadyEntries == eligible

\* A copy of the entries under the lock, then one of those that are ready.
GetServiceIP(c) ==
  /\ office # "closed"
  /\ call[c] = "open"
  /\ \E v \in ReadyEntries :
       /\ chosen' = [chosen EXCEPT ![c] = v]
       /\ \E a \in IpOf(v) : dest' = [dest EXCEPT ![c] = a]
  /\ call' = [call EXCEPT ![c] = "sending"]
  /\ UNCHANGED <<fleetVars, peer>>

\* "No READY machine found": 503.
NoneReady(c) ==
  /\ office # "closed"
  /\ call[c] = "open"
  /\ ReadyEntries = {}
  /\ call' = [call EXCEPT ![c] = "unavailable"]
  /\ UNCHANGED <<fleetVars, chosen, dest, peer>>

\* Whatever machine is up at the address takes the connection.
Connect(c) ==
  /\ office # "closed"
  /\ call[c] = "sending"
  /\ \E w \in Machine : /\ machine[w] = "up"
                        /\ ip[w] = dest[c]
                        /\ peer' = [peer EXCEPT ![c] = w]
  /\ call' = [call EXCEPT ![c] = "sent"]
  /\ UNCHANGED <<fleetVars, chosen, dest>>

\* The service answers in its own time: the default client has no timeout.
Answer(c) ==
  /\ office # "closed"
  /\ call[c] = "sent"
  /\ machine[peer[c]] = "up"
  /\ call' = [call EXCEPT ![c] = "ok"]
  /\ UNCHANGED <<fleetVars, chosen, dest, peer>>

\* toHttpRequest refuses the request, the dial fails, the connection breaks, or
\* the answer cannot be read: 503 as well.
InvokeFails(c) ==
  /\ office # "closed"
  /\ call[c] \in {"sending", "sent"}
  /\ call' = [call EXCEPT ![c] = "error"]
  /\ UNCHANGED <<fleetVars, chosen, dest, peer>>

InvokeStep(c) == \/ GetServiceIP(c) \/ NoneReady(c) \/ Connect(c)
                 \/ Answer(c) \/ InvokeFails(c)

InvokeNext == \/ FleetNext /\ UNCHANGED invokeVars
              \/ \E c \in Call : Handle(c) \/ InvokeStep(c)

InvokeSpec == InvokeInit /\ [][InvokeNext]_<<fleetVars, invokeVars>>

-------------------------------------------------------------------------------

\* The table may have changed since its copy was made, the machine be stopped and
\* its address be handed out again.  Nothing else sends an invocation astray: it
\* reaches the machine it has chosen, or the two have had the same address one
\* after the other, and until Close because the chosen one has ended.
AstrayOnlyAfterFree ==
  \A c \in Call : peer[c] # NoMachine /\ peer[c] # chosen[c] =>
    /\ ip[chosen[c]] = ip[peer[c]]
    /\ {chosen[c], peer[c]} \cap freed # {}
    /\ office = "open" => machine[chosen[c]] = "ended"

\* No invocation reaches a machine behind the back of POST /vm/run: where it
\* arrives, or whose place that machine has taken, is a machine whose request was
\* answered with success (an orphan of a timeout is never chosen, although its
\* probe reports it as ready).
ChosenWasGiven == \A c \in Call : chosen[c] # NoMachine => request[chosen[c]] = "listed"

===============================================================================
