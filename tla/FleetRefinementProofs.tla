------------------------- MODULE FleetRefinementProofs -------------------------
(***************************************************************************)
(* Proof that VMMManager implements Fleet, for any number of machines and  *)
(* addresses and any thresholds.                                           *)
(***************************************************************************)
EXTENDS FleetRefinement, VMMManagerProofs

-------------------------------------------------------------------------------
(* What Fleet sees of a call, a machine and the process. *)

LEMMA RequestSeenIs ==
  /\ RequestSeen("idle") = "none"
  /\ RequestSeen("waiting") = "open" /\ RequestSeen("started") = "open"
  /\ RequestSeen("ok") = "listed"
  /\ RequestSeen("failed") = "refused" /\ RequestSeen("timeout") = "refused"
BY Zenon DEF RequestSeen

LEMMA MachineSeenIs ==
  /\ MachineSeen("off") = "none" /\ MachineSeen("up") = "up"
  /\ MachineSeen("down") = "ended" /\ MachineSeen("reaped") = "ended"
BY Zenon DEF MachineSeen

LEMMA OfficeSeenIs ==
  /\ OfficeSeen("serving") = "open" /\ OfficeSeen("draining") = "open"
  /\ OfficeSeen("closing") = "closing" /\ OfficeSeen("exited") = "closed"
BY Zenon DEF OfficeSeen

LEMMA InitFleet == Init => F!FleetInit
<1> SUFFICES ASSUME Init PROVE F!FleetInit
  OBVIOUS
<1>1. requestOf = [v \in Machine |-> "none"] /\ machineOf = [v \in Machine |-> "none"]
  BY RequestSeenIs, MachineSeenIs DEF Init, requestOf, machineOf
<1>2. DOMAIN db = {} /\ readyOf = {} /\ freedOf = {}
  BY DEF Init, EmptyDB, readyOf, freedOf
<1>3. officeOf = "open"
  BY OfficeSeenIs DEF Init, officeOf
<1> QED
  BY <1>1, <1>2, <1>3 DEF Init, F!FleetInit, toCloseOf

LEMMA RequestChanges ==
  ASSUME TypeInv, NEW v \in Machine, NEW c, call' = [call EXCEPT ![v] = c]
  PROVE  requestOf' = [requestOf EXCEPT ![v] = RequestSeen(c)]
<1>1. call \in [Machine -> {"idle", "waiting", "started", "ok", "failed", "timeout"}]
  BY DEF TypeInv, TypeOK
<1> QED
  BY <1>1 DEF requestOf

LEMMA MachineChanges ==
  ASSUME TypeInv, NEW v \in Machine, NEW m, vm' = [vm EXCEPT ![v] = m]
  PROVE  machineOf' = [machineOf EXCEPT ![v] = MachineSeen(m)]
<1>1. vm \in [Machine -> {"off", "up", "down", "reaped"}]
  BY DEF TypeInv, TypeOK
<1> QED
  BY <1>1 DEF machineOf

\* What Fleet sees of a machine tells what it is.
LEMMA MachineIs ==
  ASSUME TypeInv, NEW v \in Machine
  PROVE  /\ machineOf[v] = "up" <=> vm[v] = "up"
         /\ machineOf[v] = "none" <=> vm[v] = "off"
         /\ machineOf[v] = "ended" <=> vm[v] \in {"down", "reaped"}
<1>1. vm[v] \in {"off", "up", "down", "reaped"}
  BY DEF TypeInv, TypeOK
<1>2. machineOf[v] = MachineSeen(vm[v])
  BY DEF machineOf
<1> QED
  BY <1>1, <1>2, MachineSeenIs

LEMMA OfficeIs ==
  ASSUME TypeInv
  PROVE  /\ officeOf = "closed" <=> ~Running
         /\ officeOf = "closing" <=> phase = "closing"
         /\ officeOf = "open" <=> phase \in {"serving", "draining"}
<1>1. phase \in {"serving", "draining", "closing", "exited"}
  BY DEF TypeInv, TypeOK
<1> QED
  BY <1>1, OfficeSeenIs DEF officeOf, Running

LEMMA SeenSame ==
  /\ UNCHANGED call => UNCHANGED requestOf
  /\ UNCHANGED vm => UNCHANGED machineOf
  /\ UNCHANGED net => UNCHANGED freedOf
  /\ UNCHANGED db => UNCHANGED <<DOMAIN db, readyOf>>
  /\ UNCHANGED phase => UNCHANGED officeOf
  /\ UNCHANGED <<toStop, asked>> => UNCHANGED toCloseOf
BY DEF requestOf, machineOf, freedOf, readyOf, officeOf, toCloseOf

\* The operations of the table, as Fleet sees them.
LEMMA AddSeen ==
  ASSUME NEW v \in Machine, NEW a, v \notin DOMAIN db, db' = Add(db, v, a)
  PROVE  DOMAIN db' = DOMAIN db \cup {v} /\ UNCHANGED readyOf
<1>1. DOMAIN db' = DOMAIN db \cup {v}
  BY DEF Add
<1>2. db'[v].ready = FALSE /\ \A w \in DOMAIN db : db'[w] = db[w]
  BY DEF Add
<1> QED
  BY <1>1, <1>2 DEF readyOf

LEMMA DelSeen ==
  ASSUME NEW v, db' = Del(db, v)
  PROVE  DOMAIN db' = DOMAIN db \ {v} /\ readyOf' = readyOf \ {v}
BY DEF Del, readyOf

LEMMA SetReadySeen ==
  ASSUME TypeInv, NEW v, NEW r \in BOOLEAN, db' = SetReady(db, v, r)
  PROVE  /\ DOMAIN db' = DOMAIN db
         /\ v \in DOMAIN db => readyOf' \in {readyOf \cup {v}, readyOf \ {v}}
         /\ v \notin DOMAIN db => UNCHANGED readyOf
<1>0. db \in Table
  BY DEF TypeInv, TypeOK
<1>1. CASE v \in DOMAIN db
  <2>1. db'[v].ready = r
    BY <1>0, <1>1, SetReadyMarks
  <2>2. DOMAIN db' = DOMAIN db /\ \A w \in DOMAIN db : w # v => db'[w] = db[w]
    BY <1>1 DEF SetReady
  <2>3. r = TRUE => readyOf' = readyOf \cup {v}
    BY <1>1, <2>1, <2>2 DEF readyOf
  <2>4. r = FALSE => readyOf' = readyOf \ {v}
    BY <1>1, <2>1, <2>2 DEF readyOf
  <2> QED
    BY <1>1, <2>2, <2>3, <2>4
<1>2. CASE v \notin DOMAIN db
  BY <1>2 DEF SetReady, readyOf
<1> QED
  BY <1>1, <1>2

-------------------------------------------------------------------------------
(* One lemma per action of VMMManager that Fleet sees.                     *)

FleetInv == TypeInv /\ StopInv /\ LifeInv /\ CloseInv /\ AddressInv

LEMMA StartVMMSeen ==
  ASSUME FleetInv, NEW v \in Machine, StartVMM(v)
  PROVE  F!RequestVM(v)
<1>1. /\ Running /\ call[v] = "idle" /\ call' = [call EXCEPT ![v] = "waiting"]
      /\ UNCHANGED <<vm, addr, net, db, phase, toStop, asked>>
  BY DEF StartVMM, serverVars, closeVars, vmVars
<1>2. requestOf' = [requestOf EXCEPT ![v] = RequestSeen("waiting")]
  BY <1>1, RequestChanges DEF FleetInv
<1>3. requestOf[v] = "none"
  BY <1>1, RequestSeenIs DEF requestOf
<1> QED
  BY <1>1, <1>2, <1>3, RequestSeenIs, SeenSame, OfficeIs DEF FleetInv, F!RequestVM

LEMMA GivenUpSeen ==
  ASSUME FleetInv, NEW v \in Machine, Running, call[v] = "waiting",
         NEW c \in {"failed", "timeout"}, call' = [call EXCEPT ![v] = c],
         UNCHANGED <<vm, addr, net, db, phase, toStop, asked>>
  PROVE  F!Refuse(v)
<1>1. requestOf' = [requestOf EXCEPT ![v] = RequestSeen(c)]
  BY RequestChanges DEF FleetInv
<1>2. requestOf[v] = "open"
  BY RequestSeenIs DEF requestOf
<1> QED
  BY <1>1, <1>2, RequestSeenIs, SeenSame, OfficeIs DEF FleetInv, F!Refuse

LEMMA AddEntrySeen ==
  ASSUME FleetInv, NEW v \in Machine, AddEntry(v)
  PROVE  F!List(v)
<1>1. v \notin DOMAIN db /\ vm[v] # "off"
  BY DEF AddEntry, FleetInv, LifeInv, StartInv, ListInv
<1>2. /\ Running /\ call[v] = "started" /\ call' = [call EXCEPT ![v] = "ok"]
      /\ db' = Add(db, v, Metadata(v))
      /\ UNCHANGED <<vm, addr, net, phase, toStop, asked>>
  BY <1>1 DEF AddEntry, serverVars, closeVars, vmVars
<1>3. requestOf' = [requestOf EXCEPT ![v] = RequestSeen("ok")]
  BY <1>2, RequestChanges DEF FleetInv
<1>4. requestOf[v] = "open"
  BY <1>2, RequestSeenIs DEF requestOf
<1>5. machineOf[v] # "none"
  BY <1>1, MachineIs DEF FleetInv
<1> QED
  BY <1>1, <1>2, <1>3, <1>4, <1>5, RequestSeenIs, AddSeen, SeenSame, OfficeIs DEF FleetInv, F!List

LEMMA ReceiveStartSeen ==
  ASSUME FleetInv, NEW v \in Machine, ReceiveStart(v)
  PROVE  F!Boot(v) \/ F!Refuse(v) \/ UNCHANGED F!fleetVars
<1>1. Pending(v, "Start") /\ Running
  BY InboxTaken DEF ReceiveStart, Takes, FleetInv
<1>2. vm[v] = "off" /\ call[v] \in {"waiting", "timeout"}
  BY <1>1 DEF FleetInv, LifeInv, StartInv
<1>3. UNCHANGED <<db, phase, toStop, asked>>
  BY DEF ReceiveStart, serverVars, closeVars
<1>4. ASSUME NEW a \in FreeAddress, addr' = [addr EXCEPT ![v] = a],
             vm' = [vm EXCEPT ![v] = "up"], net' = [net EXCEPT ![v] = "held"],
             Respond(v, "started")
      PROVE  F!Boot(v)
  <2>0. net \in [Machine -> {"none", "held", "released", "leaked"}]
    BY DEF FleetInv, TypeInv, TypeOK
  <2>1. a \in Address /\ \A w \in Machine : addr[w] = a => w \in freedOf
    BY <2>0, ManagerAssumption DEF FreeAddress, FleetInv, AddressInv, freedOf
  <2>2. requestOf[v] # "none"
    BY <1>2, RequestSeenIs DEF requestOf
  <2>3. UNCHANGED requestOf
    <3>1. CASE call[v] = "waiting"
      <4>1. call' = [call EXCEPT ![v] = "started"]
        BY <1>4, <3>1 DEF Respond
      <4>2. requestOf' = [requestOf EXCEPT ![v] = RequestSeen("started")]
        BY <4>1, RequestChanges DEF FleetInv
      <4>3. requestOf[v] = "open"
        BY <3>1, RequestSeenIs DEF requestOf
      <4> QED
        BY <4>2, <4>3, RequestSeenIs DEF requestOf
    <3>2. CASE call[v] # "waiting"
      BY <1>4, <3>2, SeenSame DEF Respond
    <3> QED
      BY <3>1, <3>2
  <2>4. machineOf' = [machineOf EXCEPT ![v] = MachineSeen("up")]
    BY <1>4, MachineChanges DEF FleetInv
  <2>5. machineOf[v] = "none"
    BY <1>2, MachineIs DEF FleetInv
  <2>6. UNCHANGED freedOf
    <3>1. net[v] # "released"
      BY <1>2 DEF FleetInv, AddressInv
    <3>2. net'[v] = "held" /\ \A w \in Machine : w # v => net'[w] = net[w]
      BY <1>4, <2>0
    <3> QED
      BY <3>1, <3>2 DEF freedOf
  <2> QED
    BY <1>1, <1>3, <1>4, <2>1, <2>2, <2>3, <2>4, <2>5, <2>6, MachineSeenIs, SeenSame, OfficeIs DEF FleetInv, F!Boot
<1>5. ASSUME Respond(v, "failed"), UNCHANGED vmVars
      PROVE  F!Refuse(v) \/ UNCHANGED F!fleetVars
  <2>1. UNCHANGED <<vm, addr, net>>
    BY <1>5 DEF vmVars
  <2>2. CASE call[v] = "waiting"
    BY <1>1, <1>3, <1>5, <2>1, <2>2, GivenUpSeen DEF Respond
  <2>3. CASE call[v] # "waiting"
    BY <1>3, <1>5, <2>1, <2>3, SeenSame DEF Respond, F!fleetVars
  <2> QED
    BY <2>2, <2>3
<1> QED
  BY <1>4, <1>5 DEF ReceiveStart

LEMMA EndSeen ==
  ASSUME FleetInv, NEW v \in Machine, MachineExit(v) \/ WaitFinished(v)
  PROVE  F!End(v) \/ UNCHANGED F!fleetVars
<1>1. UNCHANGED <<call, addr, net, db, phase, toStop, asked>> /\ Running
  BY DEF MachineExit, WaitFinished, serverVars, closeVars
<1>2. CASE MachineExit(v)
  <2>1. machineOf[v] = "up"
    BY <1>2, MachineIs DEF FleetInv, MachineExit
  <2>2. machineOf' = [machineOf EXCEPT ![v] = MachineSeen("down")]
    BY <1>2, MachineChanges DEF FleetInv, MachineExit
  <2> QED
    BY <1>1, <2>1, <2>2, MachineSeenIs, SeenSame, OfficeIs DEF FleetInv, F!End
<1>3. CASE WaitFinished(v)
  <2>1. machineOf[v] = "ended"
    BY <1>3, MachineIs DEF FleetInv, WaitFinished
  <2>2. machineOf' = [machineOf EXCEPT ![v] = MachineSeen("reaped")]
    BY <1>3, MachineChanges DEF FleetInv, WaitFinished
  <2>3. UNCHANGED machineOf
    BY <2>1, <2>2, MachineSeenIs DEF machineOf
  <2> QED
    BY <1>1, <2>3, SeenSame DEF F!fleetVars
<1> QED
  BY <1>2, <1>3

\* The end of stopVMM gives the address back, or loses it.
LEMMA FinishStopSeen ==
  ASSUME FleetInv, NEW v \in Machine, FinishStop(v)
  PROVE  F!Free(v) \/ F!End(v) \/ UNCHANGED F!fleetVars
<1>1. UNCHANGED <<call, addr, db, phase, toStop, asked>> /\ Running /\ doing[v] # "idle"
  BY DEF FinishStop, StopVMM, serverVars
<1>2. \/ UNCHANGED machineOf
      \/ machineOf[v] = "up" /\ machineOf' = [machineOf EXCEPT ![v] = "ended"]
  <2>1. CASE UNCHANGED vm
    BY <2>1, SeenSame
  <2>2. CASE vm[v] = "up" /\ vm' = [vm EXCEPT ![v] = "down"]
    <3>1. machineOf[v] = "up"
      BY <2>2, MachineIs DEF FleetInv
    <3>2. machineOf' = [machineOf EXCEPT ![v] = MachineSeen("down")]
      BY <2>2, MachineChanges DEF FleetInv
    <3> QED
      BY <3>1, <3>2, MachineSeenIs
  <2> QED
    BY <2>1, <2>2 DEF FinishStop, StopVMM
<1>3. \/ UNCHANGED freedOf
      \/ freedOf' = freedOf \cup {v}
  <2>1. net \in [Machine -> {"none", "held", "released", "leaked"}] /\ net[v] = "held"
    BY <1>1 DEF FleetInv, TypeInv, TypeOK, StopInv
  <2> QED
    BY <2>1 DEF FinishStop, StopVMM, freedOf
<1>4. \/ machineOf[v] = "ended"
      \/ /\ machineOf[v] = "up" /\ officeOf = "closing" /\ requestOf[v] = "listed"
         /\ v \in toCloseOf \/ v \notin DOMAIN db
  <2>1. CASE doing[v] = "Stopping"
    BY <2>1, MachineIs DEF FleetInv, LifeInv, EndInv, Ended
  <2>2. CASE doing[v] = "Stop"
    <3>1. Dismissed(v)
      BY <2>2 DEF FleetInv, CloseInv, AskedToStop
    <3>2. vm[v] \in {"up", "down", "reaped"}
      BY <3>1 DEF Dismissed, FleetInv, TypeInv, TypeOK, LifeInv, StartInv
    <3>3. requestOf[v] = "listed"
      BY <3>1, RequestSeenIs DEF Dismissed, requestOf
    <3>4. v \in toCloseOf \/ v \notin DOMAIN db
      BY <3>1, ManagerAssumption DEF Dismissed, toCloseOf
    <3>5. officeOf = "closing"
      BY <1>1, <3>1, OfficeIs DEF FleetInv, Dismissed, Running
    <3> QED
      BY <3>2, <3>3, <3>4, <3>5, MachineIs DEF FleetInv
  <2> QED
    BY <1>1, <2>1, <2>2 DEF FleetInv, TypeInv, TypeOK
<1>5. machineOf \in [Machine -> {"none", "up", "ended"}]
  BY MachineIs, MachineSeenIs DEF FleetInv, TypeInv, TypeOK, machineOf
<1>6. CASE UNCHANGED freedOf
  BY <1>1, <1>2, <1>6, SeenSame, OfficeIs DEF FleetInv, F!End, F!fleetVars
<1>7. CASE freedOf' = freedOf \cup {v}
  BY <1>1, <1>2, <1>4, <1>5, <1>7, SeenSame, OfficeIs DEF FleetInv, F!Free
<1> QED
  BY <1>3, <1>6, <1>7

LEMMA ManagerReceiveSeen ==
  ASSUME FleetInv, ManagerReceive
  PROVE  \/ \E v \in Machine : F!Mark(v) \/ F!Unlist(v)
         \/ UNCHANGED F!fleetVars
<1> DEFINE message == Head(mailbox)
           v == message.id
<1>1. message \in Message /\ 1 \in DOMAIN mailbox /\ mailbox[1] = message
  BY DEF ManagerReceive, FleetInv, TypeInv, TypeOK
<1>2. v \in Machine
  BY <1>1 DEF Message
<1>3. /\ UNCHANGED <<call, vm, addr, net, phase, toStop, asked>> /\ Running
      /\ db' = AfterMessage(db, message)
  BY DEF ManagerReceive, serverVars, closeVars, vmVars
<1>4. CASE message.type = "Stopped"
  <2>1. machineOf[v] = "ended"
    BY <1>1, <1>2, <1>4, MachineIs DEF FleetInv, LifeInv, EndInv
  <2>2. DOMAIN db' = DOMAIN db \ {v} /\ readyOf' = readyOf \ {v}
    BY <1>3, <1>4, DelSeen DEF AfterMessage
  <2>3. CASE v \in DOMAIN db
    BY <1>2, <1>3, <2>1, <2>2, <2>3, SeenSame, OfficeIs DEF FleetInv, F!Unlist
  <2>4. CASE v \notin DOMAIN db
    BY <1>3, <2>2, <2>4, SeenSame DEF F!fleetVars, readyOf
  <2> QED
    BY <2>3, <2>4
<1>5. CASE message.type # "Stopped"
  <2>1. (message.type = "Ready") \in BOOLEAN /\ db' = SetReady(db, v, message.type = "Ready")
    BY <1>3, <1>5 DEF AfterMessage
  <2>2. /\ DOMAIN db' = DOMAIN db
        /\ v \in DOMAIN db => readyOf' \in {readyOf \cup {v}, readyOf \ {v}}
        /\ v \notin DOMAIN db => UNCHANGED readyOf
    BY <2>1, SetReadySeen DEF FleetInv
  <2>3. CASE v \in DOMAIN db
    BY <1>2, <1>3, <2>2, <2>3, SeenSame, OfficeIs DEF FleetInv, F!Mark
  <2>4. CASE v \notin DOMAIN db
    BY <1>3, <2>2, <2>4, SeenSame DEF F!fleetVars
  <2> QED
    BY <2>3, <2>4
<1> QED
  BY <1>4, <1>5

LEMMA BeginCloseSeen ==
  ASSUME FleetInv, BeginClose
  PROVE  F!BeginClosing
<1>1. /\ phase = "draining" /\ phase' = "closing" /\ toStop' = DOMAIN db
      /\ UNCHANGED <<call, vm, addr, net, db, asked>>
  BY DEF BeginClose, Entries, vmVars
<1>2. asked = NoMachine
  BY <1>1 DEF FleetInv, LifeInv, ListInv
<1>3. officeOf = "open" /\ officeOf' = "closing"
  BY <1>1, OfficeSeenIs DEF officeOf
<1>4. toCloseOf' = DOMAIN db
  BY <1>1, <1>2 DEF toCloseOf
<1> QED
  BY <1>1, <1>3, <1>4, SeenSame DEF F!BeginClosing

LEMMA CloseRequestSeen ==
  ASSUME FleetInv, NEW v \in Machine, CloseRequest(v)
  PROVE  UNCHANGED F!fleetVars
<1>1. /\ asked = NoMachine /\ v \in toStop /\ toStop' = toStop \ {v} /\ asked' = v
      /\ UNCHANGED <<call, vm, addr, net, db, phase>>
  BY DEF CloseRequest, serverVars, vmVars
<1>2. UNCHANGED toCloseOf
  BY <1>1, ManagerAssumption DEF toCloseOf
<1> QED
  BY <1>1, <1>2, SeenSame DEF F!fleetVars

LEMMA CloseResultSeen ==
  ASSUME FleetInv, CloseResult
  PROVE  F!Drop(asked) /\ asked \in Machine
<1>1. /\ phase = "closing" /\ asked # NoMachine /\ asked' = NoMachine /\ db' = Del(db, asked)
      /\ UNCHANGED <<call, vm, addr, net, phase, toStop>>
  BY DEF CloseResult, serverVars, vmVars
<1>2. asked \in Machine /\ asked \notin toStop
  BY <1>1 DEF FleetInv, TypeInv, TypeOK, LifeInv, ListInv
<1>3. asked \in toCloseOf /\ toCloseOf' = toCloseOf \ {asked}
  BY <1>1, <1>2 DEF toCloseOf
<1>4. DOMAIN db' = DOMAIN db \ {asked} /\ readyOf' = readyOf \ {asked}
  BY <1>1, DelSeen
<1>5. officeOf = "closing"
  BY <1>1, OfficeIs DEF FleetInv
<1> QED
  BY <1>1, <1>2, <1>3, <1>4, <1>5, SeenSame DEF F!Drop

LEMMA ExitSeen ==
  ASSUME FleetInv, Exit
  PROVE  F!EndClosing
<1>1. /\ phase = "closing" /\ phase' = "exited" /\ asked = NoMachine /\ toStop = {}
      /\ UNCHANGED <<call, vm, addr, net, db, toStop, asked>>
  BY DEF Exit, closeVars, vmVars
<1>2. officeOf = "closing" /\ officeOf' = "closed"
  BY <1>1, OfficeSeenIs DEF officeOf
<1>3. toCloseOf = {}
  BY <1>1 DEF toCloseOf
<1> QED
  BY <1>1, <1>2, <1>3, SeenSame DEF F!EndClosing

LEMMA StepFleet ==
  ASSUME FleetInv, [Next]_vars
  PROVE  [F!FleetNext]_(F!fleetVars)
<1>1. ASSUME NEW v \in Machine, StartVMM(v) PROVE F!FleetNext
  BY <1>1, StartVMMSeen DEF F!FleetNext
<1>2. ASSUME NEW v \in Machine, StartTimeout(v) PROVE F!FleetNext
  <2>1. F!Refuse(v)
    BY <1>2, GivenUpSeen DEF StartTimeout, serverVars, closeVars, vmVars
  <2> QED
    BY <2>1 DEF F!FleetNext
<1>3. ASSUME NEW v \in Machine, AddEntry(v) PROVE F!FleetNext
  BY <1>3, AddEntrySeen DEF F!FleetNext
<1>4. ASSUME NEW v \in Machine, ReceiveStart(v) PROVE [F!FleetNext]_(F!fleetVars)
  BY <1>4, ReceiveStartSeen DEF F!FleetNext
<1>5. ASSUME NEW v \in Machine, FinishStop(v) \/ MachineExit(v) \/ WaitFinished(v)
      PROVE  [F!FleetNext]_(F!fleetVars)
  BY <1>5, EndSeen, FinishStopSeen DEF F!FleetNext
<1>6. ASSUME NEW v \in Machine, CloseRequest(v) PROVE UNCHANGED F!fleetVars
  BY <1>6, CloseRequestSeen
<1>7. CASE ManagerReceive
  BY <1>7, ManagerReceiveSeen DEF F!FleetNext
<1>8. CASE BeginClose
  BY <1>8, BeginCloseSeen DEF F!FleetNext
<1>9. CASE CloseResult
  BY <1>9, CloseResultSeen DEF F!FleetNext
<1>10. CASE Exit
  BY <1>10, ExitSeen DEF F!FleetNext
<1>11. CASE BeginShutdown
  <2>1. UNCHANGED officeOf
    BY <1>11, OfficeSeenIs DEF BeginShutdown, officeOf
  <2>2. UNCHANGED <<call, vm, addr, net, db, toStop, asked>>
    BY <1>11 DEF BeginShutdown, closeVars, vmVars
  <2> QED
    BY <2>1, <2>2, SeenSame DEF F!fleetVars
<1>12. ASSUME NEW v \in Machine,
              \/ ReceiveStop(v) \/ ReceiveFinished(v) \/ ReceiveStopping(v) \/ Terminate(v)
              \/ TickerFunc(v) \/ ReadinessReceive(v)
       PROVE  UNCHANGED <<call, vm, addr, net, db, phase, toStop, asked>>
  BY <1>12 DEF ReceiveStop, ReceiveFinished, ReceiveStopping, Terminate, TickerFunc,
     ReadinessReceive, serverVars, closeVars, vmVars
<1>13. UNCHANGED vars => UNCHANGED <<call, vm, addr, net, db, phase, toStop, asked>>
  BY DEF vars, serverVars, closeVars, vmVars
<1>14. UNCHANGED <<call, vm, addr, net, db, phase, toStop, asked>> => UNCHANGED F!fleetVars
  BY SeenSame DEF F!fleetVars
<1> QED
  BY <1>1, <1>2, <1>3, <1>4, <1>5, <1>6, <1>7, <1>8, <1>9, <1>10, <1>11, <1>12, <1>13, <1>14
     DEF Next, Actor

\* The promise of Fleet, that the rest of the server and its models rest on: a
\* request ends once, a machine is listed once and until it has ended or Close drops
\* it, and an address goes to a second machine only after it was given back, which
\* happens while the first one runs only if Close has asked it to stop.  It is kept
\* by the actors, the goroutines of POST /vm/run and Close together.
THEOREM ManagerImplementsFleet == Spec => ImplementsFleet
<1>1. Init => F!FleetInit
  BY InitFleet
<1>2. /\ TypeInv /\ StopInv /\ LifeInv
      /\ CloseInv /\ AddressInv
      /\ [Next]_vars
      => [F!FleetNext]_(F!fleetVars)
  BY StepFleet DEF FleetInv
<1> QED
  BY StopInvariant, LifeInvariant, AddressInvariant, <1>1, <1>2, PTL
     DEF Spec, ImplementsFleet, F!FleetSpec

===============================================================================
