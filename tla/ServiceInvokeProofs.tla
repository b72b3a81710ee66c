-------------------------- MODULE ServiceInvokeProofs --------------------------
(***************************************************************************)
(* Where an invocation may arrive, for any number of machines, addresses   *)
(* and invocations.  An address is never taken from a machine that has     *)
(* started, so an entry that was picked keeps naming the address of its    *)
(* machine; and of two machines that have had the same address one has     *)
(* given it back, after its end as long as the server has not begun to     *)
(* close.                                                                  *)
(***************************************************************************)
EXTENDS ServiceInvoke, TLAPS

\* What is listed was given to the client of POST /vm/run and has started.
Listed == \A v \in table : request[v] = "listed" /\ machine[v] # "none"

\* An address goes to a second machine when the first one has given it back.
Distinct == \A v, w \in Machine :
  machine[v] # "none" /\ machine[w] # "none" /\ v # w /\ ip[v] = ip[w] => v \in freed \/ w \in freed

\* Before Close a machine gives its address back when it has ended.
FreedEnded == \A v \in freed :
  machine[v] # "none" /\ (office = "open" => machine[v] = "ended")

\* An invocation that has picked an entry goes to the ip of its machine.
Picked == \A c \in Call :
  /\ call[c] \in {"none", "open"} => chosen[c] = NoMachine
  /\ call[c] \in {"sending", "sent"} => chosen[c] # NoMachine
  /\ chosen[c] = NoMachine => peer[c] = NoMachine
  /\ chosen[c] # NoMachine => /\ request[chosen[c]] = "listed"
                              /\ machine[chosen[c]] # "none"
                              /\ dest[c] = ip[chosen[c]]

\* A machine that was reached is at that address, and if it is another one the
\* address has changed hands.
Reached == \A c \in Call :
  peer[c] # NoMachine => /\ machine[peer[c]] # "none"
                         /\ ip[peer[c]] = dest[c]
                         /\ \/ peer[c] = chosen[c]
                            \/ /\ chosen[c] \in freed \/ peer[c] \in freed
                               /\ office = "open" => machine[chosen[c]] = "ended"

IInv == InvokeTypeOK /\ Listed /\ Distinct /\ FreedEnded /\ Picked /\ Reached

LEMMA InvokeInitial == InvokeInit => IInv
  BY InvokeAssumption
  DEF InvokeInit, FleetInit, IInv, InvokeTypeOK, FleetTypeOK, Listed, Distinct, FreedEnded, Picked, Reached

\* The machines live on while the invocations do nothing.
LEMMA FleetKeeps == ASSUME IInv, FleetNext, UNCHANGED invokeVars PROVE IInv'
<1> USE InvokeAssumption DEF IInv, invokeVars
<1>1. ASSUME NEW v \in Machine, RequestVM(v) PROVE IInv'
  <2> USE <1>1 DEF RequestVM, InvokeTypeOK, FleetTypeOK
  <2>1. InvokeTypeOK' OBVIOUS
  <2>2. Listed' BY DEF Listed
  <2>3. Distinct' /\ FreedEnded' BY DEF Distinct, FreedEnded
  <2>4. Picked' /\ Reached' BY DEF Picked, Reached
  <2> QED BY <2>1, <2>2, <2>3, <2>4
<1>2. ASSUME NEW v \in Machine, Boot(v) PROVE IInv'
  <2> USE <1>2 DEF Boot, InvokeTypeOK, FleetTypeOK
  <2>1. InvokeTypeOK' OBVIOUS
  <2>2. Listed' BY DEF Listed
  <2>3. Distinct' /\ FreedEnded' BY DEF Distinct, FreedEnded
  <2>4. Picked' BY DEF Picked
  <2>5. Reached' BY DEF Reached, Picked
  <2> QED BY <2>1, <2>2, <2>3, <2>4, <2>5
<1>3. ASSUME NEW v \in Machine, List(v) \/ Refuse(v) PROVE IInv'
  <2> USE <1>3 DEF List, Refuse, InvokeTypeOK, FleetTypeOK
  <2>1. InvokeTypeOK' OBVIOUS
  <2>2. Listed' BY DEF Listed
  <2>3. Distinct' /\ FreedEnded' BY DEF Distinct, FreedEnded
  <2>4. Picked' /\ Reached' BY DEF Picked, Reached
  <2> QED BY <2>1, <2>2, <2>3, <2>4
<1>4. ASSUME NEW v \in Machine, Mark(v) \/ Unlist(v) \/ Drop(v) PROVE IInv'
  <2> USE <1>4 DEF Mark, Unlist, Drop, InvokeTypeOK, FleetTypeOK
  <2>1. InvokeTypeOK' OBVIOUS
  <2>2. Listed' BY DEF Listed
  <2>3. Distinct' /\ FreedEnded' BY DEF Distinct, FreedEnded
  <2>4. Picked' /\ Reached' BY DEF Picked, Reached
  <2> QED BY <2>1, <2>2, <2>3, <2>4
<1>5. ASSUME NEW v \in Machine, End(v) PROVE IInv'
  <2> USE <1>5 DEF End, InvokeTypeOK, FleetTypeOK
  <2>1. InvokeTypeOK' OBVIOUS
  <2>2. Listed' BY DEF Listed
  <2>3. Distinct' /\ FreedEnded' BY DEF Distinct, FreedEnded
  <2>4. Picked' BY DEF Picked
  <2>5. Reached' BY DEF Reached, Picked
  <2> QED BY <2>1, <2>2, <2>3, <2>4, <2>5
<1>6. ASSUME NEW v \in Machine, Free(v) PROVE IInv'
  <2> USE <1>6 DEF Free, InvokeTypeOK, FleetTypeOK
  <2>1. InvokeTypeOK' OBVIOUS
  <2>2. Listed' BY DEF Listed
  <2>3. Distinct' /\ FreedEnded' BY DEF Distinct, FreedEnded
  <2>4. Picked' BY DEF Picked
  <2>5. Reached' BY DEF Reached, Picked
  <2> QED BY <2>1, <2>2, <2>3, <2>4, <2>5
<1>7. CASE BeginClosing \/ EndClosing
  BY <1>7 DEF BeginClosing, EndClosing, InvokeTypeOK, FleetTypeOK, Listed, Distinct, FreedEnded, Picked, Reached
<1> QED BY <1>1, <1>2, <1>3, <1>4, <1>5, <1>6, <1>7 DEF FleetNext

\* A step of one invocation.
LEMMA InvocationKeeps == ASSUME IInv, NEW c \in Call, Handle(c) \/ InvokeStep(c) PROVE IInv'
<1> USE InvokeAssumption DEF IInv, fleetVars, InvokeTypeOK
<1>1. CASE Handle(c) \/ NoneReady(c) \/ Answer(c) \/ InvokeFails(c)
  <2> USE <1>1 DEF Handle, NoneReady, Answer, InvokeFails, FleetTypeOK
  <2>1. InvokeTypeOK' OBVIOUS
  <2>2. Listed' /\ Distinct' /\ FreedEnded' BY DEF Listed, Distinct, FreedEnded
  <2>3. Picked' /\ Reached' BY DEF Picked, Reached
  <2> QED BY <2>1, <2>2, <2>3
<1>2. CASE GetServiceIP(c)
  <2> USE <1>2 DEF GetServiceIP, IpOf, ReadyEntries, FleetTypeOK
  <2>1. InvokeTypeOK' OBVIOUS
  <2>2. Listed' /\ Distinct' /\ FreedEnded' BY DEF Listed, Distinct, FreedEnded
  <2>3. Picked' BY DEF Picked, Listed
  <2>4. Reached' BY DEF Reached, Picked
  <2> QED BY <2>1, <2>2, <2>3, <2>4
<1>3. CASE Connect(c)
  <2> USE <1>3 DEF Connect, FleetTypeOK
  <2>1. InvokeTypeOK' OBVIOUS
  <2>2. Listed' /\ Distinct' /\ FreedEnded' BY DEF Listed, Distinct, FreedEnded
  <2>3. Picked' BY DEF Picked
  <2>4. Reached' BY DEF Reached, Picked, Distinct, FreedEnded
  <2> QED BY <2>1, <2>2, <2>3, <2>4
<1> QED BY <1>1, <1>2, <1>3 DEF InvokeStep

LEMMA InvokeInvariant == InvokeSpec => []IInv
<1>1. IInv /\ [InvokeNext]_<<fleetVars, invokeVars>> => IInv'
  <2>1. ASSUME IInv, UNCHANGED <<fleetVars, invokeVars>> PROVE IInv'
    BY <2>1 DEF IInv, InvokeTypeOK, FleetTypeOK, Listed, Distinct, FreedEnded, Picked, Reached, fleetVars, invokeVars
  <2> QED BY <2>1, FleetKeeps, InvocationKeeps DEF InvokeNext
<1> QED BY <1>1, InvokeInitial, PTL DEF InvokeSpec

\* An invocation reaches the machine it has chosen, or one that has had the address
\* of that machine before or after it, and as long as the server has not begun to
\* close, after its end (getServiceIP works on a copy of the table, and nothing
\* tells it that a machine has gone).
THEOREM AstrayAfterFree == InvokeSpec => []AstrayOnlyAfterFree
<1>1. IInv => AstrayOnlyAfterFree
  BY DEF IInv, Picked, Reached, AstrayOnlyAfterFree, InvokeTypeOK
<1> QED BY <1>1, InvokeInvariant, PTL

\* An invocation only ever chooses a machine whose request was answered with
\* success, also after a StartVMM that has timed out left one running.
THEOREM ChosenGiven == InvokeSpec => []ChosenWasGiven
<1>1. IInv => ChosenWasGiven
  BY DEF IInv, Picked, ChosenWasGiven
<1> QED BY <1>1, InvokeInvariant, PTL

===============================================================================
