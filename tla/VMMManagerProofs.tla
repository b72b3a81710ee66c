--------------------------- MODULE VMMManagerProofs ---------------------------
(***************************************************************************)
(* Proofs about VMMManager, for any number of machines and addresses, any  *)
(* thresholds and any bound on the reports in flight.                      *)
(***************************************************************************)
EXTENDS VMMManager, TLAPS

-------------------------------------------------------------------------------
(* The table and the readiness rules keep their types. *)

LEMMA InTable ==
  ASSUME NEW d, DOMAIN d \subseteq Machine, d \in [DOMAIN d -> Entry]
  PROVE  d \in Table
BY DEF Table

LEMMA TableFunctions ==
  ASSUME NEW d \in Table
  PROVE  DOMAIN d \subseteq Machine /\ d \in [DOMAIN d -> Entry]
BY DEF Table

LEMMA AddTyped ==
  ASSUME NEW d \in Table, NEW v \in Machine, NEW a \in Address
  PROVE  Add(d, v, a) \in Table
<1>1. DOMAIN d \subseteq Machine /\ \A w \in DOMAIN d : d[w] \in Entry
  BY TableFunctions
<1>2. DOMAIN Add(d, v, a) \subseteq Machine
  BY <1>1 DEF Add
<1>3. Add(d, v, a) \in [DOMAIN Add(d, v, a) -> Entry]
  BY <1>1 DEF Add, Entry
<1> QED
  BY <1>2, <1>3, InTable

LEMMA DelTyped ==
  ASSUME NEW d \in Table, NEW v
  PROVE  Del(d, v) \in Table
<1>1. DOMAIN d \subseteq Machine /\ \A w \in DOMAIN d : d[w] \in Entry
  BY TableFunctions
<1>2. DOMAIN Del(d, v) \subseteq Machine
  BY <1>1 DEF Del
<1>3. Del(d, v) \in [DOMAIN Del(d, v) -> Entry]
  BY <1>1 DEF Del
<1> QED
  BY <1>2, <1>3, InTable

LEMMA SetReadyTyped ==
  ASSUME NEW d \in Table, NEW v, NEW r \in BOOLEAN
  PROVE  SetReady(d, v, r) \in Table
<1>1. DOMAIN d \subseteq Machine /\ d \in [DOMAIN d -> Entry]
  BY TableFunctions
<1>2. CASE v \in DOMAIN d
  <2>1. [d[v] EXCEPT !.ready = r] \in Entry
    BY <1>1, <1>2 DEF Entry
  <2>2. SetReady(d, v, r) \in [DOMAIN d -> Entry]
    BY <1>1, <1>2, <2>1 DEF SetReady
  <2> QED
    BY <1>1, <2>2, InTable
<1> QED
  BY <1>2 DEF SetReady

LEMMA SetReadyMarks ==
  ASSUME NEW d \in Table, NEW v \in DOMAIN d, NEW r \in BOOLEAN
  PROVE  SetReady(d, v, r)[v].ready = r
<1>1. d \in [DOMAIN d -> Entry]
  BY TableFunctions
<1>2. [d[v] EXCEPT !.ready = r].ready = r
  BY <1>1 DEF Entry
<1> QED
  BY <1>1, <1>2 DEF SetReady

LEMMA AfterMessageTyped ==
  ASSUME NEW d \in Table, NEW m \in Message
  PROVE  AfterMessage(d, m) \in Table
<1>1. (m.type = "Ready") \in BOOLEAN
  OBVIOUS
<1> QED
  BY <1>1, DelTyped, SetReadyTyped DEF AfterMessage

LEMMA AfterResultTyped ==
  ASSUME NEW s \in Readiness, NEW r \in Result
  PROVE  AfterResult(s, r) \in Readiness
BY DEF AfterResult, Readiness, Result

LEMMA AppendTyped ==
  ASSUME NEW S, NEW s \in Seq(S), NEW e \in S
  PROVE  Append(s, e) \in Seq(S)
OBVIOUS

-------------------------------------------------------------------------------
(* Type correctness. *)

\* The goroutine of StartVMM enters an address in the table, so the answer
\* Started must not come before the machine has one.
StartedHasAddress == \A v \in Machine : call[v] = "started" => addr[v] # NoAddress

TypeInv == TypeOK /\ StartedHasAddress

LEMMA InitTyped == Init => TypeInv
<1> SUFFICES ASSUME Init PROVE TypeInv
  OBVIOUS
<1>1. db \in Table
  BY InTable DEF Init, EmptyDB
<1>2. /\ mailbox \in Seq(Message)
      /\ inbox \in [Machine -> Seq({"Start", "Stop", "finished"})]
      /\ results \in [Machine -> Seq(Result)]
  BY DEF Init
<1>3. readiness \in [Machine -> Readiness]
  BY DEF Init, NewReadiness, Readiness, Result
<1> QED
  BY <1>1, <1>2, <1>3 DEF Init, TypeInv, TypeOK, StartedHasAddress

LEMMA StepTyped == TypeInv /\ [Next]_vars => TypeInv'
<1> SUFFICES ASSUME TypeInv, [Next]_vars PROVE TypeInv'
  OBVIOUS
<1> USE ManagerAssumption DEF TypeInv, TypeOK, StartedHasAddress
<1>1. ASSUME NEW v \in Machine, StartVMM(v) PROVE TypeInv'
  BY <1>1 DEF StartVMM, serverVars, closeVars, vmVars, probeVars
<1>2. ASSUME NEW v \in Machine, StartTimeout(v) PROVE TypeInv'
  BY <1>2 DEF StartTimeout, serverVars, closeVars, actorVars, vmVars, probeVars
<1>3. ASSUME NEW v \in Machine, AddEntry(v) PROVE TypeInv'
  <2>1. Metadata(v) \in Address
    BY <1>3 DEF AddEntry, Metadata
  <2>2. db' \in Table
    BY <1>3, <2>1, AddTyped DEF AddEntry
  <2> QED
    BY <1>3, <2>2 DEF AddEntry, serverVars, closeVars, actorVars, vmVars, probeVars
<1>4. ASSUME NEW v \in Machine, ReceiveStart(v) PROVE TypeInv'
  <2>1. inbox' \in [Machine -> Seq({"Start", "Stop", "finished"})]
    BY <1>4 DEF ReceiveStart, Takes
  <2>2. ASSUME NEW a \in FreeAddress, addr' = [addr EXCEPT ![v] = a],
               vm' = [vm EXCEPT ![v] = "up"], net' = [net EXCEPT ![v] = "held"],
               behavior' = [behavior EXCEPT ![v] = "Started"], Respond(v, "started")
        PROVE  TypeInv'
    <3>1. a \in Address /\ a # NoAddress
      BY DEF FreeAddress
    <3>2. call' \in [Machine -> {"idle", "waiting", "started", "ok", "failed", "timeout"}]
      BY <2>2 DEF Respond
    <3>3. StartedHasAddress'
      BY <2>2, <3>1 DEF Respond
    <3> QED
      BY <1>4, <2>1, <2>2, <3>1, <3>2, <3>3 DEF ReceiveStart, serverVars, closeVars, probeVars
  <2>3. ASSUME Respond(v, "failed"), UNCHANGED <<vmVars, behavior>>
        PROVE  TypeInv'
    BY <1>4, <2>1, <2>3 DEF ReceiveStart, Respond, serverVars, closeVars, vmVars, probeVars
  <2> QED
    BY <1>4, <2>2, <2>3 DEF ReceiveStart
<1>5. ASSUME NEW v \in Machine, ReceiveStop(v) PROVE TypeInv'
  BY <1>5 DEF ReceiveStop, Takes, serverVars, closeVars, vmVars, probeVars
<1>6. ASSUME NEW v \in Machine, ReceiveFinished(v) PROVE TypeInv'
  <2>1. [type |-> "Stopped", id |-> v] \in Message
    BY DEF Message
  <2>2. mailbox' \in Seq(Message)
    <3>1. mailbox' = mailbox \/ mailbox' = Append(mailbox, [type |-> "Stopped", id |-> v])
      BY <1>6 DEF ReceiveFinished
    <3>2. Append(mailbox, [type |-> "Stopped", id |-> v]) \in Seq(Message)
      BY <2>1, AppendTyped
    <3> QED
      BY <3>1, <3>2
  <2>3. inbox' \in [Machine -> Seq({"Start", "Stop", "finished"})]
    BY <1>6 DEF ReceiveFinished, Takes
  <2>4. life' \in [Machine -> {"none", "alive", "stopRequested", "stopping", "dead"}]
    BY <1>6 DEF ReceiveFinished, AfterFinished
  <2> QED
    BY <1>6, <2>2, <2>3, <2>4 DEF ReceiveFinished, serverVars, closeVars, vmVars, probeVars
<1>7. ASSUME NEW v \in Machine, ReceiveStopping(v) PROVE TypeInv'
  BY <1>7 DEF ReceiveStopping, serverVars, closeVars, vmVars, probeVars
<1>8. ASSUME NEW v \in Machine, FinishStop(v) PROVE TypeInv'
  <2>1. /\ vm' \in [Machine -> {"off", "up", "down", "reaped"}]
        /\ net' \in [Machine -> {"none", "held", "released", "leaked"}]
    <3>1. /\ vm' = vm \/ vm' = [vm EXCEPT ![v] = "down"]
          /\ net' = [net EXCEPT ![v] = "released"] \/ net' = [net EXCEPT ![v] = "leaked"]
      BY <1>8 DEF FinishStop, StopVMM
    <3>2. /\ vm \in [Machine -> {"off", "up", "down", "reaped"}]
          /\ net \in [Machine -> {"none", "held", "released", "leaked"}]
      OBVIOUS
    <3> HIDE DEF TypeInv, TypeOK
    <3> QED
      BY <3>1, <3>2
  <2>2. /\ answered' \in BOOLEAN
        /\ behavior' \in [Machine -> {"Stopped", "Started"}]
        /\ life' \in [Machine -> {"none", "alive", "stopRequested", "stopping", "dead"}]
        /\ doing' \in [Machine -> {"idle", "Stop", "Stopping"}]
    BY <1>8 DEF FinishStop, AfterStopVMM
  <2> QED
    BY <1>8, <2>1, <2>2 DEF FinishStop, serverVars, probeVars
<1>9. ASSUME NEW v \in Machine, Terminate(v) PROVE TypeInv'
  BY <1>9 DEF Terminate, serverVars, closeVars, vmVars
<1>10. ASSUME NEW v \in Machine, MachineExit(v) PROVE TypeInv'
  BY <1>10 DEF MachineExit, serverVars, closeVars, actorVars, probeVars
<1>11. ASSUME NEW v \in Machine, WaitFinished(v) PROVE TypeInv'
  BY <1>11 DEF WaitFinished, serverVars, closeVars, probeVars
<1>12. ASSUME NEW v \in Machine, TickerFunc(v) PROVE TypeInv'
  BY <1>12 DEF TickerFunc, serverVars, closeVars, actorVars, vmVars
<1>13. ASSUME NEW v \in Machine, ReadinessReceive(v) PROVE TypeInv'
  <2>1. Head(results[v]) \in Result /\ Tail(results[v]) \in Seq(Result)
    BY <1>13 DEF ReadinessReceive
  <2>2. readiness' \in [Machine -> Readiness]
    BY <1>13, <2>1, AfterResultTyped DEF ReadinessReceive
  <2>3. mailbox' \in Seq(Message)
    <3>1. [type |-> Head(results[v]), id |-> v] \in Message
      BY <2>1 DEF Message
    <3> QED
      BY <1>13, <3>1 DEF ReadinessReceive
  <2>4. results' \in [Machine -> Seq(Result)]
    BY <1>13, <2>1 DEF ReadinessReceive
  <2> QED
    BY <1>13, <2>2, <2>3, <2>4 DEF ReadinessReceive, serverVars, closeVars, actorVars, vmVars
<1>14. ASSUME NEW v \in Machine, CloseRequest(v) PROVE TypeInv'
  <2>1. inbox' \in [Machine -> Seq({"Start", "Stop", "finished"})]
    BY <1>14 DEF CloseRequest
  <2> QED
    BY <1>14, <2>1 DEF CloseRequest, serverVars, vmVars, probeVars
<1>15. CASE ManagerReceive
  <2>1. Head(mailbox) \in Message /\ mailbox' \in Seq(Message)
    BY <1>15 DEF ManagerReceive
  <2>2. db' \in Table
    BY <1>15, <2>1, AfterMessageTyped DEF ManagerReceive
  <2> QED
    BY <1>15, <2>1, <2>2 DEF ManagerReceive, serverVars, closeVars, actorVars, vmVars, probeVars
<1>16. CASE BeginShutdown
  BY <1>16 DEF BeginShutdown, closeVars, actorVars, vmVars, probeVars
<1>17. CASE BeginClose
  <2>1. toStop' \subseteq Machine
    BY <1>17, TableFunctions DEF BeginClose, Entries
  <2> QED
    BY <1>17, <2>1 DEF BeginClose, actorVars, vmVars, probeVars
<1>18. CASE CloseResult
  <2>1. db' \in Table
    BY <1>18, DelTyped DEF CloseResult
  <2> QED
    BY <1>18, <2>1 DEF CloseResult, serverVars, actorVars, vmVars, probeVars
<1>19. CASE Exit
  BY <1>19 DEF Exit, closeVars, actorVars, vmVars, probeVars
<1>20. CASE UNCHANGED vars
  BY <1>20 DEF vars, serverVars, closeVars, actorVars, vmVars, probeVars
<1> QED
  BY <1>1, <1>2, <1>3, <1>4, <1>5, <1>6, <1>7, <1>8, <1>9, <1>10, <1>11, <1>12,
     <1>13, <1>14, <1>15, <1>16, <1>17, <1>18, <1>19, <1>20 DEF Next, Actor

\* Every variable keeps its type in every behaviour; in particular an entry of
\* the table (db.add) always has the address of a machine that has started.
THEOREM TypeCorrect == Spec => []TypeOK
<1>1. TypeInv => TypeOK
  BY DEF TypeInv
<1> QED
  BY InitTyped, StepTyped, <1>1, PTL DEF Spec

-------------------------------------------------------------------------------
(* A machine is stopped once. *)

\* The behaviour Started is left when stopVMM returns and never entered again,
\* so it stands for the network that stopVMM has yet to delete.
StopInv ==
  \A v \in Machine : /\ behavior[v] = "Started" => net[v] = "held"
                     /\ doing[v] # "idle" => behavior[v] = "Started"

LEMMA StepStopInv == TypeInv /\ StopInv /\ [Next]_vars => StopInv'
<1> SUFFICES ASSUME TypeInv, StopInv, [Next]_vars PROVE StopInv'
  OBVIOUS
<1>0. /\ behavior \in [Machine -> {"Stopped", "Started"}]
      /\ doing \in [Machine -> {"idle", "Stop", "Stopping"}]
      /\ net \in [Machine -> {"none", "held", "released", "leaked"}]
  BY DEF TypeInv, TypeOK
<1>1. ASSUME NEW v \in Machine, ReceiveStart(v) PROVE StopInv'
  BY <1>0, <1>1 DEF ReceiveStart, StopInv, Takes, vmVars
<1>2. ASSUME NEW v \in Machine, ReceiveStop(v) PROVE StopInv'
  BY <1>0, <1>2 DEF ReceiveStop, StopInv, vmVars
<1>3. ASSUME NEW v \in Machine, ReceiveStopping(v) PROVE StopInv'
  BY <1>0, <1>3 DEF ReceiveStopping, StopInv, vmVars
<1>4. ASSUME NEW v \in Machine, FinishStop(v) PROVE StopInv'
  <2>1. /\ behavior' = [behavior EXCEPT ![v] = "Stopped"]
        /\ doing' = [doing EXCEPT ![v] = "idle"]
        /\ \A w \in Machine : w # v => net'[w] = net[w]
    BY <1>0, <1>4 DEF FinishStop, StopVMM, AfterStopVMM
  <2> QED
    BY <1>0, <2>1 DEF StopInv
<1>5. CASE UNCHANGED <<behavior, doing, net>>
  BY <1>5 DEF StopInv
<1>6. ASSUME NEW v \in Machine,
             \/ StartVMM(v) \/ StartTimeout(v) \/ AddEntry(v) \/ ReceiveFinished(v)
             \/ Terminate(v) \/ MachineExit(v) \/ WaitFinished(v) \/ TickerFunc(v)
             \/ ReadinessReceive(v) \/ CloseRequest(v)
      PROVE  UNCHANGED <<behavior, doing, net>>
  BY <1>6 DEF StartVMM, StartTimeout, AddEntry, ReceiveFinished, Terminate, MachineExit,
     WaitFinished, TickerFunc, ReadinessReceive, CloseRequest, actorVars, vmVars
<1>7. ManagerReceive \/ BeginShutdown \/ BeginClose \/ CloseResult \/ Exit \/ UNCHANGED vars
      => UNCHANGED <<behavior, doing, net>>
  BY DEF ManagerReceive, BeginShutdown, BeginClose, CloseResult, Exit, vars, actorVars, vmVars
<1> QED
  BY <1>1, <1>2, <1>3, <1>4, <1>5, <1>6, <1>7 DEF Next, Actor

LEMMA StopInvariant == Spec => [](TypeInv /\ StopInv)
<1>1. Init => TypeInv /\ StopInv
  BY InitTyped DEF Init, StopInv
<1>2. (TypeInv /\ StopInv) /\ [Next]_vars => (TypeInv /\ StopInv)'
  BY StepTyped, StepStopInv
<1> QED
  BY <1>1, <1>2, PTL DEF Spec

\* The handlers of *Stop and *actor.Stopping (vmm.go:84, 87) race with the end
\* of the machine, and still stopVMM only ever runs for a machine whose network
\* has not been deleted.
THEOREM StopsOnce == Spec => []StoppedOnce
<1>1. StopInv => StoppedOnce
  BY DEF StopInv, StoppedOnce
<1> QED
  BY StopInvariant, <1>1, PTL

-------------------------------------------------------------------------------
(* The table never says that a machine is ready which is known not to be.  *)

\* The reports of one ReadinessActor reach the manager in the order of its
\* changes: a *Ready of an actor that is Unready again is followed by the
\* *Unready that takes it back.
ReportsInOrder ==
  \A v \in Machine : \A i \in Reports(v) :
    mailbox[i].type = "Ready" /\ readiness[v].behavior = "Unready"
      => \E j \in Reports(v) : j > i /\ mailbox[j].type = "Unready"

ReadyInv == NeverFalselyReady /\ ReportsInOrder

LEMMA SameReports ==
  ASSUME ReadyInv, UNCHANGED <<db, mailbox, readiness>>
  PROVE  ReadyInv'
BY DEF ReadyInv, NeverFalselyReady, ReportsInOrder, Reports

\* An entry that is added is not ready, and one that is deleted is no entry.
LEMMA EntriesOnlyLose ==
  ASSUME ReadyInv, UNCHANGED <<mailbox, readiness>>,
         \A v \in DOMAIN db' : db'[v].ready => v \in DOMAIN db /\ db[v].ready
  PROVE  ReadyInv'
BY DEF ReadyInv, NeverFalselyReady, ReportsInOrder, Reports

LEMMA StoppedKeepsReports ==
  ASSUME TypeInv, ReadyInv, UNCHANGED <<db, readiness>>, NEW v \in Machine,
         mailbox' = Append(mailbox, [type |-> "Stopped", id |-> v])
  PROVE  ReadyInv'
<1>1. mailbox \in Seq(Message)
  BY DEF TypeInv, TypeOK
<1>2. /\ \A i \in DOMAIN mailbox : i \in DOMAIN mailbox' /\ mailbox'[i] = mailbox[i]
      /\ \A i \in DOMAIN mailbox' : i \notin DOMAIN mailbox => mailbox'[i].type = "Stopped"
  BY <1>1
<1>3. \A w : Reports(w)' = Reports(w)
  BY <1>2 DEF Reports, Result
<1>4. \A w : \A i \in Reports(w) : mailbox'[i] = mailbox[i]
  BY <1>2 DEF Reports
<1>5. NeverFalselyReady'
  BY <1>3, <1>4 DEF ReadyInv, NeverFalselyReady
<1>6. ReportsInOrder'
  <2>1. ASSUME NEW w \in Machine, NEW i \in Reports(w)',
               mailbox'[i].type = "Ready", readiness'[w].behavior = "Unready"
        PROVE  \E j \in Reports(w)' : j > i /\ mailbox'[j].type = "Unready"
    <3>1. i \in Reports(w) /\ mailbox[i].type = "Ready" /\ readiness[w].behavior = "Unready"
      BY <1>3, <1>4, <2>1
    <3>2. PICK j \in Reports(w) : j > i /\ mailbox[j].type = "Unready"
      BY <3>1 DEF ReadyInv, ReportsInOrder
    <3> QED
      BY <1>3, <1>4, <3>2
  <2> QED
    BY <2>1 DEF ReportsInOrder
<1> QED
  BY <1>5, <1>6 DEF ReadyInv

LEMMA ReadinessReceiveReady ==
  ASSUME TypeInv, ReadyInv, NEW v \in Machine, ReadinessReceive(v)
  PROVE  ReadyInv'
<1> DEFINE result == Head(results[v])
           report == [type |-> result, id |-> v]
<1>0. /\ mailbox \in Seq(Message)
      /\ readiness \in [Machine -> Readiness]
      /\ result \in Result
      /\ DOMAIN db \subseteq Machine
  BY TableFunctions DEF TypeInv, TypeOK, ReadinessReceive
<1>1. UNCHANGED db
  BY DEF ReadinessReceive
<1>2. readiness' = [readiness EXCEPT ![v] = AfterResult(@, result)]
  BY DEF ReadinessReceive
<1>3. CASE Flips(readiness[v], result)
  <2>1. mailbox' = Append(mailbox, report)
    BY <1>3 DEF ReadinessReceive
  <2>2. readiness'[v].behavior = result
    BY <1>0, <1>2, <1>3 DEF AfterResult
  <2>3. \A w \in Machine : w # v => readiness'[w] = readiness[w]
    BY <1>0, <1>2
  <2>4. /\ Len(mailbox) + 1 \in DOMAIN mailbox'
        /\ mailbox'[Len(mailbox) + 1] = report
        /\ \A i \in DOMAIN mailbox : i \in DOMAIN mailbox' /\ mailbox'[i] = mailbox[i]
        /\ \A i \in DOMAIN mailbox' : i \notin DOMAIN mailbox => i = Len(mailbox) + 1
        /\ \A i \in DOMAIN mailbox : i \in Nat /\ i < Len(mailbox) + 1
        /\ Len(mailbox) \in Nat
    BY <1>0, <2>1
  <2>5. \A w \in Machine : w # v => Reports(w)' = Reports(w)
    BY <2>4 DEF Reports
  <2>6. \A w : \A i \in Reports(w) : mailbox'[i] = mailbox[i]
    BY <2>4 DEF Reports
  <2>7. /\ Len(mailbox) + 1 \in Reports(v)'
        /\ \A i \in Reports(v)' : i \in DOMAIN mailbox \/ i = Len(mailbox) + 1
    BY <1>0, <2>4 DEF Reports
  <2>8. NeverFalselyReady'
    <3>1. ASSUME NEW w \in Machine, w # v, w \in DOMAIN db, db[w].ready,
                 readiness'[w].behavior = "Unready"
          PROVE  \E i \in Reports(w)' : mailbox'[i].type = "Unready"
      BY <2>3, <2>5, <2>6, <3>1 DEF ReadyInv, NeverFalselyReady
    <3>2. readiness'[v].behavior = "Unready"
            => \E i \in Reports(v)' : mailbox'[i].type = "Unready"
      BY <2>2, <2>4, <2>7
    <3> QED
      BY <1>0, <1>1, <3>1, <3>2 DEF NeverFalselyReady
  <2>9. ReportsInOrder'
    <3>1. ASSUME NEW w \in Machine, w # v, NEW i \in Reports(w)',
                 mailbox'[i].type = "Ready", readiness'[w].behavior = "Unready"
          PROVE  \E j \in Reports(w)' : j > i /\ mailbox'[j].type = "Unready"
      BY <2>3, <2>5, <2>6, <3>1 DEF ReadyInv, ReportsInOrder
    <3>2. ASSUME NEW i \in Reports(v)',
                 mailbox'[i].type = "Ready", readiness'[v].behavior = "Unready"
          PROVE  \E j \in Reports(v)' : j > i /\ mailbox'[j].type = "Unready"
      <4>1. i # Len(mailbox) + 1
        BY <2>2, <2>4, <3>2
      <4>2. Len(mailbox) + 1 > i
        BY <2>4, <2>7, <4>1
      <4> QED
        BY <2>2, <2>4, <2>7, <3>2, <4>2
    <3> QED
      BY <3>1, <3>2 DEF ReportsInOrder
  <2> QED
    BY <2>8, <2>9 DEF ReadyInv
<1>4. CASE ~Flips(readiness[v], result)
  <2>1. mailbox' = mailbox
    BY <1>4 DEF ReadinessReceive
  <2>2. \A w \in Machine : readiness'[w].behavior = readiness[w].behavior
    BY <1>0, <1>2, <1>4 DEF AfterResult, Readiness
  <2>3. \A w : Reports(w)' = Reports(w)
    BY <2>1 DEF Reports
  <2>4. NeverFalselyReady'
    BY <1>0, <1>1, <2>1, <2>2, <2>3 DEF ReadyInv, NeverFalselyReady
  <2>5. ReportsInOrder'
    BY <2>1, <2>2, <2>3 DEF ReadyInv, ReportsInOrder
  <2> QED
    BY <2>4, <2>5 DEF ReadyInv
<1> QED
  BY <1>3, <1>4

LEMMA ManagerReceiveReady ==
  ASSUME TypeInv, ReadyInv, ManagerReceive
  PROVE  ReadyInv'
<1> DEFINE message == Head(mailbox)
<1>0. /\ mailbox \in Seq(Message) /\ mailbox # <<>>
      /\ db \in Table /\ DOMAIN db \subseteq Machine
  BY TableFunctions DEF TypeInv, TypeOK, ManagerReceive
<1>1. UNCHANGED readiness /\ mailbox' = Tail(mailbox) /\ db' = AfterMessage(db, message)
  BY DEF ManagerReceive, probeVars
<1>2. /\ \A i \in DOMAIN mailbox : i \in Nat /\ (i = 1 \/ i - 1 \in DOMAIN mailbox')
      /\ \A i \in DOMAIN mailbox' : /\ i \in Nat /\ i + 1 \in DOMAIN mailbox
                                    /\ mailbox'[i] = mailbox[i + 1]
      /\ \A i \in DOMAIN mailbox : i # 1 => mailbox'[i - 1] = mailbox[i]
      /\ 1 \in DOMAIN mailbox /\ mailbox[1] = message
      /\ \A i \in DOMAIN mailbox' : i + 1 > 1
  BY <1>0, <1>1
<1>3. \A w : /\ \A i \in Reports(w)' : i + 1 \in Reports(w)
             /\ \A i \in Reports(w) : i # 1 => i - 1 \in Reports(w)'
  BY <1>2 DEF Reports
<1>4. ReportsInOrder'
  <2> SUFFICES ASSUME NEW v \in Machine, NEW i \in Reports(v)',
                      mailbox'[i].type = "Ready", readiness[v].behavior = "Unready"
               PROVE  \E j \in Reports(v)' : j > i /\ mailbox'[j].type = "Unready"
    BY <1>1 DEF ReportsInOrder
  <2>1. i \in Nat /\ i + 1 \in Reports(v) /\ mailbox[i + 1].type = "Ready"
    BY <1>2, <1>3 DEF Reports
  <2>2. PICK j \in Reports(v) : j > i + 1 /\ mailbox[j].type = "Unready"
    BY <2>1 DEF ReadyInv, ReportsInOrder
  <2>3. j \in Nat /\ j # 1 /\ j - 1 > i /\ j \in DOMAIN mailbox
    BY <1>2, <2>1, <2>2 DEF Reports
  <2> QED
    BY <1>2, <1>3, <2>2, <2>3
<1>5. NeverFalselyReady'
  <2> SUFFICES ASSUME NEW v \in DOMAIN db', db'[v].ready, readiness[v].behavior = "Unready"
               PROVE  \E i \in Reports(v)' : mailbox'[i].type = "Unready"
    BY <1>1 DEF NeverFalselyReady
  <2>1. v \in DOMAIN db
    BY <1>1 DEF AfterMessage, Del, SetReady
  <2>2. CASE message.id = v /\ message.type = "Ready"
    <3>1. 1 \in Reports(v)
      BY <1>2, <2>2 DEF Reports, Result
    <3>2. PICK j \in Reports(v) : j > 1 /\ mailbox[j].type = "Unready"
      BY <1>0, <1>2, <2>1, <2>2, <3>1 DEF ReadyInv, ReportsInOrder
    <3>3. j # 1 /\ j \in DOMAIN mailbox
      BY <1>2, <3>2 DEF Reports
    <3> QED
      BY <1>2, <1>3, <3>2, <3>3
  <2>3. CASE message.id = v /\ message.type # "Ready"
    <3>1. message.type # "Stopped"
      BY <1>1, <2>1, <2>3 DEF AfterMessage, Del
    <3>2. /\ db' = SetReady(db, v, message.type = "Ready")
          /\ (message.type = "Ready") = FALSE
      BY <1>1, <2>3, <3>1 DEF AfterMessage
    <3>3. db'[v].ready = FALSE
      BY <1>0, <2>1, <3>2, SetReadyMarks
    <3> QED
      BY <3>3
  <2>4. CASE message.id # v
    <3>1. db'[v] = db[v]
      BY <1>0, <1>1, <2>1, <2>4, TableFunctions DEF AfterMessage, SetReady, Del
    <3>2. PICK i \in Reports(v) : mailbox[i].type = "Unready"
      BY <2>1, <3>1 DEF ReadyInv, NeverFalselyReady
    <3>3. i # 1 /\ i \in DOMAIN mailbox
      BY <1>2, <2>4, <3>2 DEF Reports
    <3> QED
      BY <1>2, <1>3, <3>2, <3>3
  <2> QED
    BY <2>2, <2>3, <2>4
<1> QED
  BY <1>4, <1>5 DEF ReadyInv

LEMMA StepReadyInv == TypeInv /\ ReadyInv /\ [Next]_vars => ReadyInv'
<1> SUFFICES ASSUME TypeInv, ReadyInv, [Next]_vars PROVE ReadyInv'
  OBVIOUS
<1>1. ASSUME NEW v \in Machine, AddEntry(v) PROVE ReadyInv'
  <2>1. \A w \in DOMAIN db' : db'[w].ready => w \in DOMAIN db /\ db[w].ready
    BY <1>1 DEF AddEntry, Add
  <2> QED
    BY <1>1, <2>1, EntriesOnlyLose DEF AddEntry, probeVars
<1>2. ASSUME NEW v \in Machine, ReceiveFinished(v) PROVE ReadyInv'
  <2>1. UNCHANGED <<db, readiness>>
    BY <1>2 DEF ReceiveFinished, probeVars
  <2>2. mailbox' = mailbox \/ mailbox' = Append(mailbox, [type |-> "Stopped", id |-> v])
    BY <1>2 DEF ReceiveFinished
  <2> QED
    BY <2>1, <2>2, StoppedKeepsReports, SameReports
<1>3. ASSUME NEW v \in Machine, ReadinessReceive(v) PROVE ReadyInv'
  BY <1>3, ReadinessReceiveReady
<1>4. CASE ManagerReceive
  BY <1>4, ManagerReceiveReady
<1>5. CASE CloseResult
  <2>1. \A w \in DOMAIN db' : db'[w].ready => w \in DOMAIN db /\ db[w].ready
    BY <1>5 DEF CloseResult, Del
  <2> QED
    BY <1>5, <2>1, EntriesOnlyLose DEF CloseResult, probeVars
<1>6. CASE UNCHANGED <<db, mailbox, readiness>>
  BY <1>6, SameReports
<1>7. ASSUME NEW v \in Machine,
             \/ StartVMM(v) \/ StartTimeout(v) \/ ReceiveStart(v) \/ ReceiveStop(v)
             \/ ReceiveStopping(v) \/ FinishStop(v) \/ Terminate(v) \/ MachineExit(v)
             \/ WaitFinished(v) \/ TickerFunc(v) \/ CloseRequest(v)
      PROVE  UNCHANGED <<db, mailbox, readiness>>
  BY <1>7 DEF StartVMM, StartTimeout, ReceiveStart, ReceiveStop, ReceiveStopping, FinishStop,
     Terminate, MachineExit, WaitFinished, TickerFunc, CloseRequest, probeVars
<1>8. BeginShutdown \/ BeginClose \/ Exit \/ UNCHANGED vars
      => UNCHANGED <<db, mailbox, readiness>>
  BY DEF BeginShutdown, BeginClose, Exit, vars, probeVars
<1> QED
  BY <1>1, <1>2, <1>3, <1>4, <1>5, <1>6, <1>7, <1>8 DEF Next, Actor

\* getServiceIP (manager.go:119) takes a machine for ready that its probe has
\* given up only while the *Unready is still on its way, whatever the
\* interleaving of the probes, the goroutines that add entries and Close.
THEOREM ReadyIsCurrent == Spec => []NeverFalselyReady
<1>1. Init => ReadyInv
  BY DEF Init, EmptyDB, ReadyInv, NeverFalselyReady, ReportsInOrder, Reports
<1>2. ReadyInv => NeverFalselyReady
  BY DEF ReadyInv
<1> QED
  BY InitTyped, StepTyped, StepReadyInv, <1>1, <1>2, PTL DEF Spec

-------------------------------------------------------------------------------
(* The life of a machine, its actor and its entry.                         *)

Has(messages, message) == \E i \in DOMAIN messages : messages[i] = message

LEMMA HasAppended ==
  ASSUME NEW S, NEW s \in Seq(S), NEW e \in S, NEW m
  PROVE  Has(Append(s, e), m) <=> Has(s, m) \/ m = e
<1>1. /\ \A i \in DOMAIN s : i \in DOMAIN Append(s, e) /\ Append(s, e)[i] = s[i]
      /\ \A i \in DOMAIN Append(s, e) : i \in DOMAIN s \/ i = Len(s) + 1
      /\ Len(s) + 1 \in DOMAIN Append(s, e) /\ Append(s, e)[Len(s) + 1] = e
  OBVIOUS
<1> QED
  BY <1>1 DEF Has

LEMMA HasTaken ==
  ASSUME NEW S, NEW s \in Seq(S), s # <<>>, NEW m
  PROVE  /\ Has(Tail(s), m) => Has(s, m)
         /\ Has(s, m) /\ Head(s) # m => Has(Tail(s), m)
<1>1. /\ \A i \in DOMAIN Tail(s) : i + 1 \in DOMAIN s /\ Tail(s)[i] = s[i + 1]
      /\ \A i \in DOMAIN s : i # 1 => i - 1 \in DOMAIN Tail(s) /\ Tail(s)[i - 1] = s[i]
      /\ s[1] = Head(s)
  OBVIOUS
<1> QED
  BY <1>1 DEF Has

LEMMA HasEmpty == ASSUME NEW m PROVE ~Has(<<>>, m)
BY DEF Has

LEMMA HasOne ==
  ASSUME NEW e, NEW m
  PROVE  /\ Has(<<e>>, m) <=> m = e
         /\ Head(<<e>>) = e
         /\ Tail(<<e>>) = <<>>
BY DEF Has

Pending(v, message) == Has(inbox[v], message)

\* A machine is up only after *Start was received, and *Start is the first and
\* the only message that the actor holds until then.
StartInv ==
  \A v \in Machine :
    /\ call[v] \in {"idle", "waiting", "failed"} => vm[v] = "off"
    /\ call[v] \in {"started", "ok"} => vm[v] # "off"
    /\ Pending(v, "Start") =>
         /\ inbox[v] = <<"Start">>
         /\ vm[v] = "off"
         /\ call[v] \in {"waiting", "timeout"}

\* The actor of v has been told that its machine has ended, or is past that.
Ended(v) == \/ Pending(v, "finished")
            \/ doing[v] = "Stopping"
            \/ life[v] \in {"stopRequested", "stopping", "dead"}

\* What follows the end of a machine begins when WaitFinished has returned.
EndInv ==
  /\ \A v \in Machine : Ended(v) => vm[v] = "reaped"
  /\ \A i \in DOMAIN mailbox :
       mailbox[i].type = "Stopped" => vm[mailbox[i].id] = "reaped"

\* Who is in the table, and in the snapshot of Close.
ListInv ==
  /\ \A v \in Machine : v \in DOMAIN db \cup toStop => call[v] = "ok"
  /\ \A v \in Machine :
       phase \in {"serving", "draining"} /\ call[v] = "ok" /\ vm[v] = "up" => v \in DOMAIN db
  /\ asked # NoMachine => phase = "closing" /\ asked \notin toStop

LifeInv == StartInv /\ EndInv /\ ListInv

\* Only the handlers take from an inbox, and only WaitFinished, Close and the
\* request put something into it.
LEMMA InboxTaken ==
  ASSUME TypeInv, NEW v \in Machine, NEW message, Takes(v, message),
         inbox' = [inbox EXCEPT ![v] = Tail(@)]
  PROVE  /\ \A w \in Machine : w # v => inbox'[w] = inbox[w]
         /\ Pending(v, message)
         /\ inbox[v] = <<"Start">> => message = "Start" /\ inbox'[v] = <<>>
         /\ \A m : Pending(v, m)' => Pending(v, m)
         /\ \A m : Pending(v, m) /\ m # message => Pending(v, m)'
<1>1. /\ inbox \in [Machine -> Seq({"Start", "Stop", "finished"})]
      /\ inbox[v] # <<>> /\ Head(inbox[v]) = message
  BY DEF TypeInv, TypeOK, Takes
<1>2. inbox'[v] = Tail(inbox[v]) /\ \A w \in Machine : w # v => inbox'[w] = inbox[w]
  BY <1>1
<1>3. Pending(v, message)
  <2>1. 1 \in DOMAIN inbox[v] /\ inbox[v][1] = message
    BY <1>1
  <2> QED
    BY <2>1 DEF Pending, Has
<1>4. inbox[v] = <<"Start">> => message = "Start" /\ inbox'[v] = <<>>
  BY <1>1, <1>2, HasOne
<1>5. \A m : /\ Has(Tail(inbox[v]), m) => Has(inbox[v], m)
             /\ Has(inbox[v], m) /\ m # message => Has(Tail(inbox[v]), m)
  BY <1>1, HasTaken
<1> QED
  BY <1>2, <1>3, <1>4, <1>5 DEF Pending

LEMMA InboxGiven ==
  ASSUME TypeInv, NEW v \in Machine, NEW message \in {"Start", "Stop", "finished"},
         inbox' = [inbox EXCEPT ![v] = Append(@, message)]
  PROVE  /\ \A w \in Machine : w # v => inbox'[w] = inbox[w]
         /\ \A m : Pending(v, m)' <=> Pending(v, m) \/ m = message
<1>1. inbox \in [Machine -> Seq({"Start", "Stop", "finished"})]
  BY DEF TypeInv, TypeOK
<1>2. inbox'[v] = Append(inbox[v], message) /\ \A w \in Machine : w # v => inbox'[w] = inbox[w]
  BY <1>1
<1>3. \A m : Has(Append(inbox[v], message), m) <=> Has(inbox[v], m) \/ m = message
  BY <1>1, HasAppended
<1> QED
  BY <1>2, <1>3 DEF Pending

LEMMA StepStartInv == TypeInv /\ LifeInv /\ [Next]_vars => StartInv'
<1> SUFFICES ASSUME TypeInv, LifeInv, [Next]_vars PROVE StartInv'
  OBVIOUS
<1>0. /\ call \in [Machine -> {"idle", "waiting", "started", "ok", "failed", "timeout"}]
      /\ inbox \in [Machine -> Seq({"Start", "Stop", "finished"})]
      /\ vm \in [Machine -> {"off", "up", "down", "reaped"}]
  BY DEF TypeInv, TypeOK
<1>1. ASSUME NEW v \in Machine, StartVMM(v) PROVE StartInv'
  <2>1. /\ inbox'[v] = <<"Start">> /\ call[v] = "idle" /\ call'[v] = "waiting"
        /\ \A w \in Machine : w # v => inbox'[w] = inbox[w] /\ call'[w] = call[w]
        /\ UNCHANGED vm
    BY <1>0, <1>1 DEF StartVMM, vmVars
  <2>2. \A w \in Machine : w # v => \A m : Pending(w, m)' <=> Pending(w, m)
    BY <2>1 DEF Pending
  <2> QED
    BY <2>1, <2>2 DEF LifeInv, StartInv
<1>2. ASSUME NEW v \in Machine, StartTimeout(v) PROVE StartInv'
  <2>1. UNCHANGED <<inbox, vm>> /\ call[v] = "waiting" /\ call' = [call EXCEPT ![v] = "timeout"]
    BY <1>2 DEF StartTimeout, actorVars, vmVars
  <2> QED
    BY <1>0, <2>1 DEF LifeInv, StartInv, Pending
<1>3. ASSUME NEW v \in Machine, AddEntry(v) PROVE StartInv'
  <2>1. v \notin DOMAIN db
    BY <1>3 DEF AddEntry, LifeInv, ListInv
  <2>2. UNCHANGED <<inbox, vm>> /\ call[v] = "started" /\ call' = [call EXCEPT ![v] = "ok"]
    BY <1>3, <2>1 DEF AddEntry, actorVars, vmVars
  <2> QED
    BY <1>0, <2>2 DEF LifeInv, StartInv, Pending
<1>4. ASSUME NEW v \in Machine, ReceiveStart(v) PROVE StartInv'
  <2>1. /\ Pending(v, "Start")
        /\ \A w \in Machine : w # v => inbox'[w] = inbox[w]
        /\ inbox[v] = <<"Start">> => inbox'[v] = <<>>
    BY <1>4, InboxTaken DEF ReceiveStart
  <2>2. /\ inbox'[v] = <<>> /\ vm[v] = "off" /\ call[v] \in {"waiting", "timeout"}
    BY <2>1 DEF LifeInv, StartInv
  <2>3. ~Pending(v, "Start")'
    BY <2>2, HasEmpty DEF Pending
  <2>4. \A w \in Machine : w # v => /\ call'[w] = call[w]
                                    /\ vm'[w] = vm[w]
                                    /\ \A m : Pending(w, m)' <=> Pending(w, m)
    BY <1>0, <1>4, <2>1 DEF ReceiveStart, Respond, vmVars, Pending
  <2>5. \/ call'[v] \in {"started", "timeout"} /\ vm'[v] = "up"
        \/ call'[v] \in {"failed", "timeout"} /\ vm'[v] = "off"
    BY <1>0, <1>4, <2>2 DEF ReceiveStart, Respond, vmVars
  <2> QED
    BY <2>1, <2>3, <2>4, <2>5 DEF LifeInv, StartInv
<1>5. ASSUME NEW v \in Machine, NEW m, Takes(v, m), m # "Start",
             inbox' = [inbox EXCEPT ![v] = Tail(@)], UNCHANGED <<call, vm>>
      PROVE  StartInv'
  <2>1. /\ \A w \in Machine : w # v => inbox'[w] = inbox[w]
        /\ inbox[v] # <<"Start">>
        /\ \A n : Pending(v, n)' => Pending(v, n)
    BY <1>5, InboxTaken
  <2>2. ~Pending(v, "Start")'
    BY <2>1 DEF LifeInv, StartInv
  <2> QED
    BY <1>5, <2>1, <2>2 DEF LifeInv, StartInv, Pending
<1>6. ASSUME NEW v \in Machine, UNCHANGED <<call, inbox>>,
             vm[v] \in {"up", "down"}, vm' = vm \/ vm' = [vm EXCEPT ![v] = "down"]
      PROVE  StartInv'
  BY <1>0, <1>6 DEF LifeInv, StartInv, Pending
<1>7. ASSUME NEW v \in Machine, Terminate(v) PROVE StartInv'
  <2>1. inbox'[v] = <<>> /\ \A w \in Machine : w # v => inbox'[w] = inbox[w]
    BY <1>0, <1>7 DEF Terminate
  <2>2. ~Pending(v, "Start")'
    BY <2>1, HasEmpty DEF Pending
  <2>3. UNCHANGED <<call, vm>>
    BY <1>7 DEF Terminate, vmVars
  <2> QED
    BY <2>1, <2>2, <2>3 DEF LifeInv, StartInv, Pending
<1>8. ASSUME NEW v \in Machine, NEW m \in {"Stop", "finished"}, vm[v] # "off",
             UNCHANGED call, vm' = vm \/ vm' = [vm EXCEPT ![v] = "reaped"],
             inbox' = inbox \/ inbox' = [inbox EXCEPT ![v] = Append(@, m)]
      PROVE  StartInv'
  <2>1. /\ \A w \in Machine : w # v => inbox'[w] = inbox[w]
        /\ \A n : Pending(v, n)' => Pending(v, n) \/ n = m
    BY <1>8, InboxGiven DEF Pending
  <2>2. ~Pending(v, "Start")'
    BY <1>8, <2>1 DEF LifeInv, StartInv
  <2> QED
    BY <1>0, <1>8, <2>1, <2>2 DEF LifeInv, StartInv, Pending
<1>9. CASE UNCHANGED <<call, inbox, vm>>
  BY <1>9 DEF LifeInv, StartInv, Pending
<1>10. ASSUME NEW v \in Machine, ReceiveStop(v) \/ ReceiveFinished(v) PROVE StartInv'
  <2>1. PICK m \in {"Stop", "finished"} : Takes(v, m)
    BY <1>10 DEF ReceiveStop, ReceiveFinished
  <2>2. inbox' = [inbox EXCEPT ![v] = Tail(@)] /\ UNCHANGED <<call, vm>>
    BY <1>10 DEF ReceiveStop, ReceiveFinished, vmVars
  <2> QED
    BY <1>5, <2>1, <2>2
<1>11. ASSUME NEW v \in Machine, MachineExit(v) \/ FinishStop(v) PROVE StartInv'
  <2>1. UNCHANGED <<call, inbox>>
    BY <1>11 DEF MachineExit, FinishStop, actorVars
  <2>2. vm' = vm \/ (vm[v] = "up" /\ vm' = [vm EXCEPT ![v] = "down"])
    BY <1>11 DEF MachineExit, FinishStop, StopVMM
  <2> QED
    BY <1>6, <1>9, <2>1, <2>2
<1>12. ASSUME NEW v \in Machine, WaitFinished(v) PROVE StartInv'
  BY <1>8, <1>12 DEF WaitFinished
<1>13. ASSUME NEW v \in Machine, CloseRequest(v) PROVE StartInv'
  <2>1. vm[v] # "off"
    BY <1>13 DEF CloseRequest, LifeInv, ListInv, StartInv
  <2> QED
    BY <1>8, <1>13, <2>1 DEF CloseRequest, vmVars
<1>14. ASSUME NEW v \in Machine, ReceiveStopping(v) \/ TickerFunc(v) \/ ReadinessReceive(v)
       PROVE  UNCHANGED <<call, inbox, vm>>
  BY <1>14 DEF ReceiveStopping, TickerFunc, ReadinessReceive, actorVars, vmVars
<1>15. ManagerReceive \/ BeginShutdown \/ BeginClose \/ CloseResult \/ Exit \/ UNCHANGED vars
       => UNCHANGED <<call, inbox, vm>>
  BY DEF ManagerReceive, BeginShutdown, BeginClose, CloseResult, Exit, vars, actorVars, vmVars
<1> QED
  BY <1>1, <1>2, <1>3, <1>4, <1>7, <1>9, <1>10, <1>11, <1>12, <1>13, <1>14, <1>15
     DEF Next, Actor

LEMMA ReapedStays ==
  ASSUME TypeInv, LifeInv, [Next]_vars, NEW w \in Machine, vm[w] = "reaped"
  PROVE  vm'[w] = "reaped"
<1>0. vm \in [Machine -> {"off", "up", "down", "reaped"}]
  BY DEF TypeInv, TypeOK
<1>1. ASSUME NEW v \in Machine, ReceiveStart(v) PROVE vm'[w] = "reaped"
  <2>1. Pending(v, "Start")
    BY <1>1, InboxTaken DEF ReceiveStart
  <2>2. vm[v] = "off"
    BY <2>1 DEF LifeInv, StartInv
  <2> QED
    BY <1>0, <1>1, <2>2 DEF ReceiveStart, vmVars
<1>2. ASSUME NEW v \in Machine, FinishStop(v) \/ MachineExit(v) \/ WaitFinished(v)
      PROVE  vm'[w] = "reaped"
  BY <1>0, <1>2 DEF FinishStop, StopVMM, MachineExit, WaitFinished
<1>3. ASSUME NEW v \in Machine,
             \/ StartVMM(v) \/ StartTimeout(v) \/ AddEntry(v) \/ ReceiveStop(v)
             \/ ReceiveFinished(v) \/ ReceiveStopping(v) \/ Terminate(v)
             \/ TickerFunc(v) \/ ReadinessReceive(v) \/ CloseRequest(v)
      PROVE  UNCHANGED vm
  BY <1>3 DEF StartVMM, StartTimeout, AddEntry, ReceiveStop, ReceiveFinished, ReceiveStopping,
     Terminate, TickerFunc, ReadinessReceive, CloseRequest, vmVars
<1>4. ManagerReceive \/ BeginShutdown \/ BeginClose \/ CloseResult \/ Exit \/ UNCHANGED vars
      => UNCHANGED vm
  BY DEF ManagerReceive, BeginShutdown, BeginClose, CloseResult, Exit, vars, vmVars
<1> QED
  BY <1>1, <1>2, <1>3, <1>4 DEF Next, Actor

LEMMA MailboxAppended ==
  ASSUME TypeInv, LifeInv, [Next]_vars, NEW v \in Machine, NEW r,
         mailbox' = Append(mailbox, [type |-> r, id |-> v]),
         r = "Stopped" => vm[v] = "reaped"
  PROVE  \A i \in DOMAIN mailbox' :
           mailbox'[i].type = "Stopped" => vm'[mailbox'[i].id] = "reaped"
<1>1. mailbox \in Seq(Message)
  BY DEF TypeInv, TypeOK
<1>2. \A i \in DOMAIN mailbox' :
        \/ i \in DOMAIN mailbox /\ mailbox'[i] = mailbox[i] /\ mailbox[i] \in Message
        \/ mailbox'[i] = [type |-> r, id |-> v]
  BY <1>1
<1>3. \A i \in DOMAIN mailbox :
        mailbox[i].type = "Stopped" => vm[mailbox[i].id] = "reaped"
  BY DEF LifeInv, EndInv
<1>4. \A i \in DOMAIN mailbox' :
        mailbox'[i].type = "Stopped"
          => mailbox'[i].id \in Machine /\ vm[mailbox'[i].id] = "reaped"
  BY <1>2, <1>3 DEF Message
<1> QED
  BY <1>4, ReapedStays

LEMMA MailboxTaken ==
  ASSUME TypeInv, LifeInv, [Next]_vars,
         mailbox' = mailbox \/ (mailbox # <<>> /\ mailbox' = Tail(mailbox))
  PROVE  \A i \in DOMAIN mailbox' :
           mailbox'[i].type = "Stopped" => vm'[mailbox'[i].id] = "reaped"
<1>1. mailbox \in Seq(Message)
  BY DEF TypeInv, TypeOK
<1>2. \A i \in DOMAIN mailbox' :
        \E j \in DOMAIN mailbox : mailbox'[i] = mailbox[j] /\ mailbox[j] \in Message
  <2>1. CASE mailbox' = mailbox
    BY <1>1, <2>1
  <2>2. CASE mailbox # <<>> /\ mailbox' = Tail(mailbox)
    <3>1. \A i \in DOMAIN mailbox' : /\ i + 1 \in DOMAIN mailbox
                                     /\ mailbox'[i] = mailbox[i + 1]
                                     /\ mailbox[i + 1] \in Message
      BY <1>1, <2>2
    <3> QED
      BY <3>1
  <2> QED
    BY <2>1, <2>2
<1>3. \A j \in DOMAIN mailbox :
        mailbox[j].type = "Stopped" => vm[mailbox[j].id] = "reaped"
  BY DEF LifeInv, EndInv
<1>4. \A i \in DOMAIN mailbox' :
        mailbox'[i].type = "Stopped"
          => mailbox'[i].id \in Machine /\ vm[mailbox'[i].id] = "reaped"
  BY <1>2, <1>3 DEF Message
<1> QED
  BY <1>4, ReapedStays

LEMMA StepMailbox ==
  ASSUME TypeInv, LifeInv, [Next]_vars
  PROVE  \A i \in DOMAIN mailbox' :
           mailbox'[i].type = "Stopped" => vm'[mailbox'[i].id] = "reaped"
<1>1. ASSUME NEW v \in Machine, ReceiveFinished(v)
      PROVE  \/ mailbox' = mailbox
             \/ /\ vm[v] = "reaped"
                /\ mailbox' = Append(mailbox, [type |-> "Stopped", id |-> v])
  <2>1. Pending(v, "finished")
    BY <1>1, InboxTaken DEF ReceiveFinished
  <2> QED
    BY <1>1, <2>1 DEF ReceiveFinished, LifeInv, EndInv, Ended
<1>2. ASSUME NEW v \in Machine, ReadinessReceive(v)
      PROVE  \/ mailbox' = mailbox
             \/ \E r \in Result : mailbox' = Append(mailbox, [type |-> r, id |-> v])
  <2>1. Head(results[v]) \in Result
    BY <1>2 DEF ReadinessReceive, TypeInv, TypeOK
  <2> QED
    BY <1>2, <2>1 DEF ReadinessReceive
<1>3. ManagerReceive => mailbox # <<>> /\ mailbox' = Tail(mailbox)
  BY DEF ManagerReceive
<1>4. ASSUME NEW v \in Machine,
             \/ StartVMM(v) \/ StartTimeout(v) \/ AddEntry(v) \/ ReceiveStart(v)
             \/ ReceiveStop(v) \/ ReceiveStopping(v) \/ FinishStop(v) \/ Terminate(v)
             \/ MachineExit(v) \/ WaitFinished(v) \/ TickerFunc(v) \/ CloseRequest(v)
      PROVE  UNCHANGED mailbox
  BY <1>4 DEF StartVMM, StartTimeout, AddEntry, ReceiveStart, ReceiveStop, ReceiveStopping,
     FinishStop, Terminate, MachineExit, WaitFinished, TickerFunc, CloseRequest
<1>5. BeginShutdown \/ BeginClose \/ CloseResult \/ Exit \/ UNCHANGED vars => UNCHANGED mailbox
  BY DEF BeginShutdown, BeginClose, CloseResult, Exit, vars
<1>6. \/ mailbox' = mailbox \/ (mailbox # <<>> /\ mailbox' = Tail(mailbox))
      \/ \E v \in Machine : \/ /\ vm[v] = "reaped"
                               /\ mailbox' = Append(mailbox, [type |-> "Stopped", id |-> v])
                            \/ \E r \in Result : mailbox' = Append(mailbox, [type |-> r, id |-> v])
  BY <1>1, <1>2, <1>3, <1>4, <1>5 DEF Next, Actor
<1>7. "Stopped" \notin Result
  BY DEF Result
<1> QED
  BY <1>6, <1>7, MailboxTaken, MailboxAppended

LEMMA StepEnded ==
  ASSUME TypeInv, LifeInv, [Next]_vars, NEW w \in Machine, Ended(w)'
  PROVE  Ended(w) \/ vm'[w] = "reaped"
<1>0. /\ inbox \in [Machine -> Seq({"Start", "Stop", "finished"})]
      /\ vm \in [Machine -> {"off", "up", "down", "reaped"}]
      /\ life \in [Machine -> {"none", "alive", "stopRequested", "stopping", "dead"}]
      /\ doing \in [Machine -> {"idle", "Stop", "Stopping"}]
  BY DEF TypeInv, TypeOK
<1>1. ASSUME NEW v \in Machine, StartVMM(v) PROVE Ended(w)
  <2>1. /\ inbox'[v] = <<"Start">> /\ life'[v] = "alive" /\ doing' = doing
        /\ v # w => inbox'[w] = inbox[w] /\ life'[w] = life[w]
    BY <1>0, <1>1 DEF StartVMM
  <2>2. v = w => ~Pending(w, "finished")'
    BY <2>1, HasOne DEF Pending
  <2> QED
    BY <2>1, <2>2 DEF Ended, Pending
<1>2. ASSUME NEW v \in Machine, NEW m, Takes(v, m), inbox' = [inbox EXCEPT ![v] = Tail(@)]
      PROVE  Pending(w, "finished")' => Pending(w, "finished")
  BY <1>2, InboxTaken DEF Pending
<1>3. ASSUME NEW v \in Machine, ReceiveStart(v) \/ ReceiveStop(v) PROVE Ended(w)
  <2>1. UNCHANGED life /\ (doing'[w] = "Stopping" => doing[w] = "Stopping")
    BY <1>0, <1>3 DEF ReceiveStart, ReceiveStop
  <2>2. \E m : Takes(v, m) /\ inbox' = [inbox EXCEPT ![v] = Tail(@)]
    BY <1>3 DEF ReceiveStart, ReceiveStop
  <2> QED
    BY <1>2, <2>1, <2>2 DEF Ended
<1>4. ASSUME NEW v \in Machine, ReceiveFinished(v) PROVE Ended(w)
  <2>1. Pending(v, "finished")
    BY <1>4, InboxTaken DEF ReceiveFinished
  <2>2. UNCHANGED doing /\ (w # v => life'[w] = life[w])
    BY <1>0, <1>4 DEF ReceiveFinished, AfterFinished
  <2>3. Pending(w, "finished")' => Pending(w, "finished")
    BY <1>2, <1>4 DEF ReceiveFinished
  <2> QED
    BY <2>1, <2>2, <2>3 DEF Ended
<1>5. ASSUME NEW v \in Machine, ReceiveStopping(v) PROVE Ended(w)
  BY <1>0, <1>5 DEF ReceiveStopping, Ended, Pending
<1>6. ASSUME NEW v \in Machine, FinishStop(v) PROVE Ended(w)
  <2>1. UNCHANGED inbox /\ doing' = [doing EXCEPT ![v] = "idle"] /\ doing[v] # "idle"
    BY <1>6 DEF FinishStop, StopVMM
  <2>2. \/ life' = life
        \/ doing[v] = "Stopping" /\ life' = [life EXCEPT ![v] = "stopping"]
    BY <1>0, <1>6, <2>1 DEF FinishStop
  <2> QED
    BY <1>0, <2>1, <2>2 DEF Ended, Pending
<1>7. ASSUME NEW v \in Machine, Terminate(v) PROVE Ended(w)
  <2>1. inbox'[v] = <<>> /\ UNCHANGED doing /\ life[v] = "stopping"
    BY <1>0, <1>7 DEF Terminate
  <2>2. w # v => inbox'[w] = inbox[w] /\ life'[w] = life[w]
    BY <1>0, <1>7 DEF Terminate
  <2> QED
    BY <2>1, <2>2 DEF Ended, Pending
<1>8. ASSUME NEW v \in Machine, WaitFinished(v) PROVE Ended(w) \/ vm'[w] = "reaped"
  <2>1. vm'[v] = "reaped" /\ UNCHANGED <<life, doing>> /\ (w # v => inbox'[w] = inbox[w])
    BY <1>0, <1>8 DEF WaitFinished
  <2> QED
    BY <2>1 DEF Ended, Pending
<1>9. ASSUME NEW v \in Machine, CloseRequest(v) PROVE Ended(w)
  <2>1. UNCHANGED <<life, doing>>
    BY <1>9 DEF CloseRequest
  <2>2. Pending(w, "finished")' => Pending(w, "finished")
    BY <1>9, InboxGiven DEF CloseRequest, Pending
  <2> QED
    BY <2>1, <2>2 DEF Ended
<1>10. ASSUME NEW v \in Machine,
              \/ StartTimeout(v) \/ AddEntry(v) \/ MachineExit(v) \/ TickerFunc(v)
              \/ ReadinessReceive(v)
       PROVE  UNCHANGED <<inbox, life, doing>>
  BY <1>10 DEF StartTimeout, AddEntry, MachineExit, TickerFunc, ReadinessReceive, actorVars
<1>11. ManagerReceive \/ BeginShutdown \/ BeginClose \/ CloseResult \/ Exit \/ UNCHANGED vars
       => UNCHANGED <<inbox, life, doing>>
  BY DEF ManagerReceive, BeginShutdown, BeginClose, CloseResult, Exit, vars, actorVars
<1>12. UNCHANGED <<inbox, life, doing>> => Ended(w)
  BY DEF Ended, Pending
<1> QED
  BY <1>1, <1>3, <1>4, <1>5, <1>6, <1>7, <1>8, <1>9, <1>10, <1>11, <1>12 DEF Next, Actor

LEMMA StepEndInv == TypeInv /\ LifeInv /\ [Next]_vars => EndInv'
<1> SUFFICES ASSUME TypeInv, LifeInv, [Next]_vars PROVE EndInv'
  OBVIOUS
<1>1. \A w \in Machine : Ended(w)' => vm'[w] = "reaped"
  BY StepEnded, ReapedStays DEF LifeInv, EndInv
<1> QED
  BY <1>1, StepMailbox DEF EndInv

LEMMA StepListInv == TypeInv /\ LifeInv /\ [Next]_vars => ListInv'
<1> SUFFICES ASSUME TypeInv, LifeInv, [Next]_vars PROVE ListInv'
  OBVIOUS
<1>0. /\ call \in [Machine -> {"idle", "waiting", "started", "ok", "failed", "timeout"}]
      /\ vm \in [Machine -> {"off", "up", "down", "reaped"}]
      /\ DOMAIN db \subseteq Machine
  BY TableFunctions DEF TypeInv, TypeOK
<1>1. ASSUME NEW v \in Machine, AddEntry(v) PROVE ListInv'
  <2>1. v \notin DOMAIN db
    BY <1>1 DEF AddEntry, LifeInv, ListInv
  <2>2. /\ call'[v] = "ok" /\ \A w \in Machine : w # v => call'[w] = call[w]
        /\ DOMAIN db' = DOMAIN db \cup {v}
        /\ UNCHANGED <<phase, toStop, asked, vm>>
    BY <1>0, <1>1, <2>1 DEF AddEntry, Add, serverVars, closeVars, vmVars
  <2> QED
    BY <2>2 DEF LifeInv, ListInv
<1>2. ASSUME NEW v \in Machine, call[v] # "ok", UNCHANGED <<phase, db, toStop, asked>>,
             \A w \in Machine : w # v => vm'[w] = vm[w] /\ call'[w] = call[w],
             call'[v] # "ok"
      PROVE  ListInv'
  BY <1>2 DEF LifeInv, ListInv
<1>3. ASSUME NEW v \in Machine, StartVMM(v) \/ StartTimeout(v) PROVE ListInv'
  <2>1. /\ call[v] # "ok" /\ call'[v] # "ok"
        /\ \A w \in Machine : w # v => call'[w] = call[w]
        /\ UNCHANGED <<phase, db, toStop, asked, vm>>
    BY <1>0, <1>3 DEF StartVMM, StartTimeout, serverVars, closeVars, vmVars
  <2> QED
    BY <1>2, <2>1
<1>4. ASSUME NEW v \in Machine, ReceiveStart(v) PROVE ListInv'
  <2>1. Pending(v, "Start")
    BY <1>4, InboxTaken DEF ReceiveStart
  <2>2. call[v] \in {"waiting", "timeout"}
    BY <2>1 DEF LifeInv, StartInv
  <2>3. call'[v] # "ok" /\ \A w \in Machine : w # v => call'[w] = call[w] /\ vm'[w] = vm[w]
    BY <1>0, <1>4, <2>2 DEF ReceiveStart, Respond, vmVars
  <2>4. UNCHANGED <<phase, db, toStop, asked>>
    BY <1>4 DEF ReceiveStart, serverVars, closeVars
  <2> QED
    BY <1>2, <2>2, <2>3, <2>4
<1>5. ASSUME UNCHANGED <<phase, db, toStop, asked, call>>,
             \A w \in Machine : vm'[w] = "up" => vm[w] = "up"
      PROVE  ListInv'
  BY <1>5 DEF LifeInv, ListInv
<1>6. ASSUME NEW v \in Machine, FinishStop(v) \/ MachineExit(v) \/ WaitFinished(v)
      PROVE  ListInv'
  <2>1. UNCHANGED <<phase, db, toStop, asked, call>>
    BY <1>6 DEF FinishStop, MachineExit, WaitFinished, serverVars, closeVars
  <2>2. \A w \in Machine : vm'[w] = "up" => vm[w] = "up"
    BY <1>0, <1>6 DEF FinishStop, StopVMM, MachineExit, WaitFinished
  <2> QED
    BY <1>5, <2>1, <2>2
<1>7. ASSUME NEW v \in Machine,
             \/ ReceiveStop(v) \/ ReceiveFinished(v) \/ ReceiveStopping(v) \/ Terminate(v)
             \/ TickerFunc(v) \/ ReadinessReceive(v)
      PROVE  UNCHANGED <<phase, db, toStop, asked, call, vm>>
  BY <1>7 DEF ReceiveStop, ReceiveFinished, ReceiveStopping, Terminate, TickerFunc,
     ReadinessReceive, serverVars, closeVars, vmVars
<1>8. ASSUME NEW v \in Machine, CloseRequest(v) PROVE ListInv'
  <2>1. /\ toStop' = toStop \ {v} /\ asked' = v /\ phase = "closing"
        /\ UNCHANGED <<phase, db, call, vm>>
    BY <1>8 DEF CloseRequest, serverVars, vmVars
  <2> QED
    BY <2>1 DEF LifeInv, ListInv
<1>9. CASE ManagerReceive
  <2>1. Head(mailbox) \in Message /\ 1 \in DOMAIN mailbox /\ Head(mailbox) = mailbox[1]
    BY <1>9 DEF ManagerReceive, TypeInv, TypeOK
  <2>2. \/ DOMAIN db' = DOMAIN db
        \/ /\ Head(mailbox).type = "Stopped"
           /\ DOMAIN db' = DOMAIN db \ {Head(mailbox).id}
    BY <1>9 DEF ManagerReceive, AfterMessage, Del, SetReady
  <2>3. Head(mailbox).type = "Stopped" => vm[Head(mailbox).id] = "reaped"
    BY <2>1 DEF LifeInv, EndInv
  <2>4. UNCHANGED <<phase, toStop, asked, call, vm>>
    BY <1>9 DEF ManagerReceive, serverVars, closeVars, vmVars
  <2> QED
    BY <2>2, <2>3, <2>4 DEF LifeInv, ListInv
<1>10. CASE BeginShutdown
  <2>1. phase = "serving" /\ phase' = "draining" /\ UNCHANGED <<db, toStop, asked, call, vm>>
    BY <1>10 DEF BeginShutdown, closeVars, vmVars
  <2> QED
    BY <2>1 DEF LifeInv, ListInv
<1>11. CASE BeginClose
  <2>1. /\ phase = "draining" /\ phase' = "closing" /\ toStop' = DOMAIN db
        /\ UNCHANGED <<db, asked, call, vm>>
    BY <1>11 DEF BeginClose, Entries, vmVars
  <2> QED
    BY <2>1 DEF LifeInv, ListInv
<1>12. CASE CloseResult
  <2>1. /\ phase = "closing" /\ asked' = NoMachine /\ DOMAIN db' = DOMAIN db \ {asked}
        /\ UNCHANGED <<phase, toStop, call, vm>>
    BY <1>12 DEF CloseResult, Del, serverVars, vmVars
  <2> QED
    BY <2>1 DEF LifeInv, ListInv
<1>13. CASE Exit
  <2>1. /\ phase = "closing" /\ phase' = "exited" /\ asked = NoMachine
        /\ UNCHANGED <<db, toStop, asked, call, vm>>
    BY <1>13 DEF Exit, closeVars, vmVars
  <2> QED
    BY <2>1 DEF LifeInv, ListInv
<1>14. CASE UNCHANGED <<phase, db, toStop, asked, call, vm>>
  BY <1>5, <1>14
<1>15. UNCHANGED vars => UNCHANGED <<phase, db, toStop, asked, call, vm>>
  BY DEF vars, serverVars, closeVars, vmVars
<1> QED
  BY <1>1, <1>3, <1>4, <1>6, <1>7, <1>8, <1>9, <1>10, <1>11, <1>12, <1>13, <1>14, <1>15
     DEF Next, Actor

LEMMA InitLifeInv == Init => LifeInv
<1> SUFFICES ASSUME Init PROVE LifeInv
  OBVIOUS
<1>1. \A v \in Machine : \A m : ~Pending(v, m)
  BY HasEmpty DEF Init, Pending
<1>2. DOMAIN db = {}
  BY DEF Init, EmptyDB
<1>3. StartInv
  BY <1>1 DEF Init, StartInv
<1>4. EndInv
  BY <1>1 DEF Init, EndInv, Ended
<1>5. ListInv
  BY <1>2 DEF Init, ListInv
<1> QED
  BY <1>3, <1>4, <1>5 DEF LifeInv

LEMMA LifeInvariant == Spec => [](TypeInv /\ LifeInv)
<1>1. Init => TypeInv /\ LifeInv
  BY InitTyped, InitLifeInv
<1>2. (TypeInv /\ LifeInv) /\ [Next]_vars => (TypeInv /\ LifeInv)'
  BY StepTyped, StepStartInv, StepEndInv, StepListInv DEF LifeInv
<1> QED
  BY <1>1, <1>2, PTL DEF Spec

\* Of the machines that run, the server can lose only those whose StartVMM timed
\* out (manager.go:73): any other is in the table, or its goroutine is about to
\* enter it, until Close.
THEOREM OrphansTimedOut == Spec => []OrphanOnlyAfterTimeout
<1>1. TypeInv /\ LifeInv => OrphanOnlyAfterTimeout
  BY DEF TypeInv, TypeOK, LifeInv, StartInv, ListInv, OrphanOnlyAfterTimeout
<1> QED
  BY LifeInvariant, <1>1, PTL

\* No step of the manager or of a request takes a machine that is up out of the
\* table before Close: when *Stopped reaches the manager (manager.go:130), its
\* machine has been reaped.
THEOREM LiveEntriesStay == Spec => LiveEntryKept
<1>1. TypeInv /\ LifeInv /\ [Next]_vars
        => [\A v \in DOMAIN db : vm[v] = "up" /\ phase # "closing" => v \in DOMAIN db']_vars
  <2> SUFFICES ASSUME TypeInv, LifeInv, Next,
                      NEW v \in DOMAIN db, vm[v] = "up", phase # "closing"
               PROVE  v \in DOMAIN db'
    OBVIOUS
  <2>1. ASSUME NEW w \in Machine, AddEntry(w) PROVE v \in DOMAIN db'
    BY <2>1 DEF AddEntry, Add
  <2>2. CASE ManagerReceive
    <3>1. Head(mailbox) \in Message /\ 1 \in DOMAIN mailbox /\ Head(mailbox) = mailbox[1]
      BY <2>2 DEF ManagerReceive, TypeInv, TypeOK
    <3>2. Head(mailbox).type = "Stopped" => Head(mailbox).id # v
      BY <3>1 DEF LifeInv, EndInv
    <3> QED
      BY <2>2, <3>2 DEF ManagerReceive, AfterMessage, Del, SetReady
  <2>3. ASSUME NEW w \in Machine,
               \/ StartVMM(w) \/ StartTimeout(w) \/ Actor(w) \/ MachineExit(w)
               \/ WaitFinished(w) \/ TickerFunc(w) \/ ReadinessReceive(w) \/ CloseRequest(w)
        PROVE  UNCHANGED db
    BY <2>3 DEF StartVMM, StartTimeout, Actor, ReceiveStart, ReceiveStop, ReceiveFinished,
       ReceiveStopping, FinishStop, Terminate, MachineExit, WaitFinished, TickerFunc,
       ReadinessReceive, CloseRequest
  <2>4. BeginShutdown \/ BeginClose \/ Exit => UNCHANGED db
    BY DEF BeginShutdown, BeginClose, Exit
  <2>5. ~CloseResult
    BY DEF CloseResult
  <2> QED
    BY <2>1, <2>2, <2>3, <2>4, <2>5 DEF Next
<1> QED
  BY LifeInvariant, <1>1, PTL DEF Spec, LiveEntryKept

-------------------------------------------------------------------------------
(* The addresses of the machines.                                          *)

AskedToStop(v) == doing[v] = "Stop" \/ Pending(v, "Stop")

\* Only Close sends *Stop.
CloseInv == \A v \in Machine : AskedToStop(v) => Dismissed(v)

\* The address is the network's until cleanupCNINetwork has deleted it, and only a
\* machine that Close has asked to stop may run on after that.
AddressInv ==
  /\ \A v \in Machine : /\ vm[v] = "off" => net[v] = "none"
                        /\ vm[v] = "up" => net[v] = "held" \/ Dismissed(v)
  /\ \A v \in Machine : net[v] = "none" <=> addr[v] = NoAddress
  /\ \A v, w \in Machine :
       net[v] \in {"held", "leaked"} /\ net[w] \in {"held", "leaked"} /\ addr[v] = addr[w]
         => v = w

\* Nothing enters a machine in the table, or in the snapshot, that Close has asked.
LEMMA DismissedStays ==
  ASSUME TypeInv, LifeInv, [Next]_vars, NEW v \in Machine, Dismissed(v)
  PROVE  Dismissed(v)'
<1>0. /\ call \in [Machine -> {"idle", "waiting", "started", "ok", "failed", "timeout"}]
      /\ phase \in {"closing", "exited"} /\ call[v] = "ok" /\ v \notin toStop
      /\ v = asked \/ v \notin DOMAIN db
      /\ NoMachine \notin Machine
  BY ManagerAssumption DEF TypeInv, TypeOK, Dismissed
<1>1. ASSUME NEW w \in Machine, AddEntry(w) PROVE Dismissed(v)'
  <2>1. w # v /\ call'[v] = call[v]
    BY <1>0, <1>1 DEF AddEntry
  <2>2. DOMAIN db' \subseteq DOMAIN db \cup {w}
    BY <1>1 DEF AddEntry, Add
  <2>3. UNCHANGED <<phase, toStop, asked>>
    BY <1>1 DEF AddEntry, serverVars, closeVars
  <2> QED
    BY <1>0, <2>1, <2>2, <2>3 DEF Dismissed
<1>2. ASSUME NEW w \in Machine, StartVMM(w) \/ StartTimeout(w) \/ ReceiveStart(w)
      PROVE  Dismissed(v)'
  <2>1. call'[v] = "ok"
    BY <1>0, <1>2 DEF StartVMM, StartTimeout, ReceiveStart, Respond
  <2>2. UNCHANGED <<phase, toStop, asked, db>>
    BY <1>2 DEF StartVMM, StartTimeout, ReceiveStart, serverVars, closeVars
  <2> QED
    BY <1>0, <2>1, <2>2 DEF Dismissed
<1>3. ASSUME NEW w \in Machine, CloseRequest(w) PROVE Dismissed(v)'
  <2>1. /\ asked = NoMachine /\ asked' = w /\ toStop' = toStop \ {w}
        /\ UNCHANGED <<phase, db, call>>
    BY <1>3 DEF CloseRequest, serverVars
  <2> QED
    BY <1>0, <2>1 DEF Dismissed
<1>4. CASE CloseResult
  <2>1. DOMAIN db' = DOMAIN db \ {asked} /\ UNCHANGED <<phase, toStop, call>>
    BY <1>4 DEF CloseResult, Del, serverVars
  <2> QED
    BY <1>0, <2>1 DEF Dismissed
<1>5. CASE ManagerReceive
  <2>1. DOMAIN db' \subseteq DOMAIN db
    BY <1>5 DEF ManagerReceive, AfterMessage, Del, SetReady
  <2>2. UNCHANGED <<phase, toStop, asked, call>>
    BY <1>5 DEF ManagerReceive, serverVars, closeVars
  <2> QED
    BY <1>0, <2>1, <2>2 DEF Dismissed
<1>6. CASE Exit
  BY <1>0, <1>6 DEF Exit, closeVars, Dismissed
<1>7. ~BeginShutdown /\ ~BeginClose
  BY <1>0 DEF BeginShutdown, BeginClose
<1>8. CASE UNCHANGED <<phase, toStop, asked, db, call>>
  BY <1>0, <1>8 DEF Dismissed
<1>9. ASSUME NEW w \in Machine,
             \/ ReceiveStop(w) \/ ReceiveFinished(w) \/ ReceiveStopping(w) \/ Terminate(w)
             \/ MachineExit(w) \/ WaitFinished(w) \/ TickerFunc(w) \/ ReadinessReceive(w)
      PROVE  UNCHANGED <<phase, toStop, asked, db, call>>
  BY <1>9 DEF ReceiveStop, ReceiveFinished, ReceiveStopping, Terminate, MachineExit,
     WaitFinished, TickerFunc, ReadinessReceive, serverVars, closeVars
<1>10. ASSUME NEW w \in Machine, FinishStop(w) PROVE UNCHANGED <<phase, toStop, asked, db, call>>
  BY <1>10 DEF FinishStop, serverVars
<1>11. UNCHANGED vars => UNCHANGED <<phase, toStop, asked, db, call>>
  BY DEF vars, serverVars, closeVars
<1> QED
  BY <1>1, <1>2, <1>3, <1>4, <1>5, <1>6, <1>7, <1>8, <1>9, <1>10, <1>11 DEF Next, Actor

LEMMA StepCloseInv == TypeInv /\ LifeInv /\ CloseInv /\ [Next]_vars => CloseInv'
<1> SUFFICES ASSUME TypeInv, LifeInv, CloseInv, [Next]_vars, NEW v \in Machine, AskedToStop(v)'
             PROVE  Dismissed(v)'
  BY DEF CloseInv
<1>0. /\ inbox \in [Machine -> Seq({"Start", "Stop", "finished"})]
      /\ doing \in [Machine -> {"idle", "Stop", "Stopping"}]
  BY DEF TypeInv, TypeOK
<1>1. CASE AskedToStop(v)
  BY <1>1, DismissedStays DEF CloseInv
<1>2. ASSUME NEW w \in Machine, StartVMM(w) PROVE AskedToStop(v)
  <2>1. inbox'[w] = <<"Start">> /\ UNCHANGED doing /\ (w # v => inbox'[v] = inbox[v])
    BY <1>0, <1>2 DEF StartVMM
  <2>2. ~Has(<<"Start">>, "Stop")
    BY HasOne
  <2> QED
    BY <2>1, <2>2 DEF AskedToStop, Pending
<1>3. ASSUME NEW w \in Machine, NEW m, Takes(w, m), inbox' = [inbox EXCEPT ![w] = Tail(@)]
      PROVE  Pending(v, "Stop")' => Pending(v, "Stop")
  BY <1>3, InboxTaken DEF Pending
<1>4. ASSUME NEW w \in Machine, ReceiveStart(w) \/ ReceiveFinished(w) PROVE AskedToStop(v)
  <2>1. UNCHANGED doing
    BY <1>4 DEF ReceiveStart, ReceiveFinished
  <2> QED
    BY <1>3, <1>4, <2>1 DEF ReceiveStart, ReceiveFinished, AskedToStop
<1>5. ASSUME NEW w \in Machine, ReceiveStop(w) PROVE AskedToStop(v)
  <2>1. Pending(w, "Stop")
    BY <1>5, InboxTaken DEF ReceiveStop
  <2>2. v # w => doing'[v] = doing[v]
    BY <1>0, <1>5 DEF ReceiveStop
  <2> QED
    BY <1>3, <1>5, <2>1, <2>2 DEF ReceiveStop, AskedToStop
<1>6. ASSUME NEW w \in Machine, ReceiveStopping(w) \/ FinishStop(w) PROVE AskedToStop(v)
  <2>1. UNCHANGED inbox /\ (doing'[v] = "Stop" => doing[v] = "Stop")
    BY <1>0, <1>6 DEF ReceiveStopping, FinishStop
  <2> QED
    BY <2>1 DEF AskedToStop, Pending
<1>7. ASSUME NEW w \in Machine, Terminate(w) PROVE AskedToStop(v)
  <2>1. inbox'[w] = <<>> /\ UNCHANGED doing /\ (w # v => inbox'[v] = inbox[v])
    BY <1>0, <1>7 DEF Terminate
  <2> QED
    BY <2>1, HasEmpty DEF AskedToStop, Pending
<1>8. ASSUME NEW w \in Machine, WaitFinished(w) PROVE AskedToStop(v)
  <2>1. UNCHANGED doing /\ (Pending(v, "Stop")' => Pending(v, "Stop"))
    BY <1>8, InboxGiven DEF WaitFinished, Pending
  <2> QED
    BY <2>1 DEF AskedToStop
<1>9. ASSUME NEW w \in Machine, CloseRequest(w) PROVE AskedToStop(v) \/ Dismissed(v)'
  <2>1. /\ phase = "closing" /\ w \in toStop /\ toStop' = toStop \ {w} /\ asked' = w
        /\ UNCHANGED <<phase, call, doing>>
    BY <1>9 DEF CloseRequest, serverVars
  <2>2. call[w] = "ok"
    BY <2>1 DEF LifeInv, ListInv
  <2>3. v # w => (Pending(v, "Stop")' => Pending(v, "Stop"))
    BY <1>9, InboxGiven DEF CloseRequest, Pending
  <2> QED
    BY <2>1, <2>2, <2>3 DEF AskedToStop, Dismissed
<1>10. ASSUME NEW w \in Machine,
              \/ StartTimeout(w) \/ AddEntry(w) \/ MachineExit(w) \/ TickerFunc(w)
              \/ ReadinessReceive(w)
       PROVE  UNCHANGED <<inbox, doing>>
  BY <1>10 DEF StartTimeout, AddEntry, MachineExit, TickerFunc, ReadinessReceive, actorVars
<1>11. ManagerReceive \/ BeginShutdown \/ BeginClose \/ CloseResult \/ Exit \/ UNCHANGED vars
       => UNCHANGED <<inbox, doing>>
  BY DEF ManagerReceive, BeginShutdown, BeginClose, CloseResult, Exit, vars, actorVars
<1>12. UNCHANGED <<inbox, doing>> => AskedToStop(v)
  BY DEF AskedToStop, Pending
<1> QED
  BY <1>1, <1>2, <1>4, <1>5, <1>6, <1>7, <1>8, <1>9, <1>10, <1>11, <1>12 DEF Next, Actor

LEMMA StepAddressInv ==
  TypeInv /\ StopInv /\ LifeInv /\ CloseInv /\ AddressInv /\ [Next]_vars => AddressInv'
<1> SUFFICES ASSUME TypeInv, StopInv, LifeInv, CloseInv, AddressInv, [Next]_vars
             PROVE  AddressInv'
  OBVIOUS
<1>0. /\ vm \in [Machine -> {"off", "up", "down", "reaped"}]
      /\ addr \in [Machine -> Address \cup {NoAddress}]
      /\ net \in [Machine -> {"none", "held", "released", "leaked"}]
      /\ doing \in [Machine -> {"idle", "Stop", "Stopping"}]
      /\ \A w \in Machine : Dismissed(w) => Dismissed(w)'
  BY DismissedStays DEF TypeInv, TypeOK
<1>1. ASSUME NEW v \in Machine, ReceiveStart(v) PROVE AddressInv'
  <2>1. ASSUME NEW a \in FreeAddress, addr' = [addr EXCEPT ![v] = a],
               vm' = [vm EXCEPT ![v] = "up"], net' = [net EXCEPT ![v] = "held"]
        PROVE  AddressInv'
    <3>1. a # NoAddress /\ \A w \in Machine : net[w] \in {"held", "leaked"} => addr[w] # a
      BY ManagerAssumption DEF FreeAddress
    <3> QED
      BY <1>0, <2>1, <3>1 DEF AddressInv
  <2>2. CASE UNCHANGED vmVars
    BY <1>0, <2>2 DEF AddressInv, vmVars
  <2> QED
    BY <1>1, <2>1, <2>2 DEF ReceiveStart
<1>2. ASSUME NEW v \in Machine, FinishStop(v) PROVE AddressInv'
  <2>1. net[v] = "held" /\ net'[v] \in {"released", "leaked"} /\ doing[v] # "idle"
    BY <1>0, <1>2 DEF FinishStop, StopVMM, StopInv
  <2>2. UNCHANGED addr /\ \A w \in Machine : w # v => vm'[w] = vm[w] /\ net'[w] = net[w]
    BY <1>0, <1>2 DEF FinishStop, StopVMM
  <2>3. vm'[v] # "off"
    <3>1. vm[v] # "off"
      BY <2>1 DEF AddressInv
    <3> QED
      BY <1>0, <1>2, <3>1 DEF FinishStop, StopVMM
  <2>4. doing[v] = "Stopping" => vm'[v] # "up"
    <3>1. doing[v] = "Stopping" => vm[v] = "reaped"
      BY DEF LifeInv, EndInv, Ended
    <3> QED
      BY <1>0, <1>2, <3>1 DEF FinishStop, StopVMM
  <2>5. doing[v] = "Stop" => Dismissed(v)
    BY DEF CloseInv, AskedToStop
  <2> QED
    BY <1>0, <2>1, <2>2, <2>3, <2>4, <2>5 DEF AddressInv
<1>3. ASSUME NEW v \in Machine, MachineExit(v) \/ WaitFinished(v) PROVE AddressInv'
  <2>1. /\ UNCHANGED <<addr, net>>
        /\ \A w \in Machine : vm'[w] \in {"off", "up"} => vm'[w] = vm[w]
    BY <1>0, <1>3 DEF MachineExit, WaitFinished
  <2> QED
    BY <1>0, <2>1 DEF AddressInv
<1>4. CASE UNCHANGED vmVars
  BY <1>0, <1>4 DEF AddressInv, vmVars
<1>5. ASSUME NEW v \in Machine,
             \/ StartVMM(v) \/ StartTimeout(v) \/ AddEntry(v) \/ ReceiveStop(v)
             \/ ReceiveFinished(v) \/ ReceiveStopping(v) \/ Terminate(v)
             \/ TickerFunc(v) \/ ReadinessReceive(v) \/ CloseRequest(v)
      PROVE  UNCHANGED vmVars
  BY <1>5 DEF StartVMM, StartTimeout, AddEntry, ReceiveStop, ReceiveFinished, ReceiveStopping,
     Terminate, TickerFunc, ReadinessReceive, CloseRequest
<1>6. ManagerReceive \/ BeginShutdown \/ BeginClose \/ CloseResult \/ Exit \/ UNCHANGED vars
      => UNCHANGED vmVars
  BY DEF ManagerReceive, BeginShutdown, BeginClose, CloseResult, Exit, vars
<1> QED
  BY <1>1, <1>2, <1>3, <1>4, <1>5, <1>6 DEF Next, Actor

LEMMA AddressInvariant == Spec => [](CloseInv /\ AddressInv)
<1>1. Init => CloseInv /\ AddressInv
  BY HasEmpty DEF Init, CloseInv, AskedToStop, Pending, AddressInv
<1>2. TypeInv /\ StopInv /\ LifeInv /\ CloseInv /\ AddressInv /\ [Next]_vars
        => CloseInv' /\ AddressInv'
  BY StepCloseInv, StepAddressInv
<1> QED
  BY StopInvariant, LifeInvariant, <1>1, <1>2, PTL DEF Spec

\* stopVMM (vmm.go:157-191) never frees the network of a machine that runs on, nor
\* the address of one for another, unless Close has asked for the stop and the
\* machine has ignored Ctrl-Alt-Del.
THEOREM AddressesKept == Spec => []AddressKept
<1>1. TypeInv /\ AddressInv => AddressKept
  <2> SUFFICES ASSUME TypeInv, AddressInv, NEW v \in Machine, vm[v] = "up", ~Dismissed(v),
                      NEW w \in Machine \ {v}, addr[w] = addr[v]
               PROVE  net[v] = "held" /\ net[w] = "released"
    BY DEF AddressKept, AddressInv
  <2>1. net[w] \in {"none", "held", "released", "leaked"}
    BY DEF TypeInv, TypeOK
  <2>2. net[v] = "held"
    BY DEF AddressInv
  <2>3. addr[v] # NoAddress
    BY <2>2 DEF AddressInv
  <2> QED
    BY <2>1, <2>2, <2>3 DEF AddressInv
<1> QED
  BY LifeInvariant, AddressInvariant, <1>1, PTL

-------------------------------------------------------------------------------
(* What a graceful shutdown leaves behind.                                 *)

\* The other half of StopInv: only stopVMM lets go of a network.
HeldInv == \A v \in Machine : net[v] = "held" => behavior[v] = "Started"

\* Close has still to ask v, or it is being stopped or about to be.
AboutToStop(v) == v \in toStop \/ doing[v] = "Stop" \/ Pending(v, "Stop")

\* Once the server has drained no request can add a machine, and Close has a
\* hand on every machine that one has added.
DrainInv ==
  /\ phase \in {"serving", "draining"} => ~drained
  /\ phase = "exited" => toStop = {}
  /\ drained => \A v \in Machine :
       /\ ~InProgress(v)
       /\ call[v] = "ok" /\ vm[v] = "up" /\ net[v] = "held" => AboutToStop(v)

LEMMA StepHeldInv == TypeInv /\ HeldInv /\ [Next]_vars => HeldInv'
<1> SUFFICES ASSUME TypeInv, HeldInv, [Next]_vars PROVE HeldInv'
  OBVIOUS
<1>0. /\ behavior \in [Machine -> {"Stopped", "Started"}]
      /\ net \in [Machine -> {"none", "held", "released", "leaked"}]
  BY DEF TypeInv, TypeOK
<1>1. ASSUME NEW v \in Machine, ReceiveStart(v) PROVE HeldInv'
  BY <1>0, <1>1 DEF ReceiveStart, HeldInv, vmVars
<1>2. ASSUME NEW v \in Machine, FinishStop(v) PROVE HeldInv'
  <2>1. net'[v] # "held" /\ \A w \in Machine : w # v => net'[w] = net[w] /\ behavior'[w] = behavior[w]
    BY <1>0, <1>2 DEF FinishStop, StopVMM, AfterStopVMM
  <2> QED
    BY <2>1 DEF HeldInv
<1>3. ASSUME NEW v \in Machine,
             \/ StartVMM(v) \/ StartTimeout(v) \/ AddEntry(v) \/ ReceiveStop(v)
             \/ ReceiveFinished(v) \/ ReceiveStopping(v) \/ Terminate(v) \/ MachineExit(v)
             \/ WaitFinished(v) \/ TickerFunc(v) \/ ReadinessReceive(v) \/ CloseRequest(v)
      PROVE  UNCHANGED <<behavior, net>>
  BY <1>3 DEF StartVMM, StartTimeout, AddEntry, ReceiveStop, ReceiveFinished, ReceiveStopping,
     Terminate, MachineExit, WaitFinished, TickerFunc, ReadinessReceive, CloseRequest,
     actorVars, vmVars
<1>4. ManagerReceive \/ BeginShutdown \/ BeginClose \/ CloseResult \/ Exit \/ UNCHANGED vars
      => UNCHANGED <<behavior, net>>
  BY DEF ManagerReceive, BeginShutdown, BeginClose, CloseResult, Exit, vars, actorVars, vmVars
<1>5. UNCHANGED <<behavior, net>> => HeldInv'
  BY DEF HeldInv
<1> QED
  BY <1>1, <1>2, <1>3, <1>4, <1>5 DEF Next, Actor

LEMMA StepDrainInv ==
  TypeInv /\ StopInv /\ HeldInv /\ LifeInv /\ DrainInv /\ [Next]_vars => DrainInv'
<1> SUFFICES ASSUME TypeInv, StopInv, HeldInv, LifeInv, DrainInv, [Next]_vars PROVE DrainInv'
  OBVIOUS
<1>0. /\ call \in [Machine -> {"idle", "waiting", "started", "ok", "failed", "timeout"}]
      /\ vm \in [Machine -> {"off", "up", "down", "reaped"}]
      /\ net \in [Machine -> {"none", "held", "released", "leaked"}]
      /\ inbox \in [Machine -> Seq({"Start", "Stop", "finished"})]
      /\ doing \in [Machine -> {"idle", "Stop", "Stopping"}]
      /\ drained \in BOOLEAN
  BY DEF TypeInv, TypeOK
<1>1. ASSUME UNCHANGED <<phase, drained, toStop>>, NEW v \in Machine,
             \A w \in Machine : w # v =>
               /\ call'[w] = call[w] /\ vm'[w] = vm[w] /\ net'[w] = net[w]
               /\ doing'[w] = doing[w] /\ inbox'[w] = inbox[w],
             drained => /\ call'[v] \notin {"waiting", "started"}
                        /\ call'[v] = "ok" /\ vm'[v] = "up" /\ net'[v] = "held" => AboutToStop(v)'
      PROVE  DrainInv'
  <2>1. \A w \in Machine : w # v => (AboutToStop(w)' <=> AboutToStop(w))
    BY <1>1 DEF AboutToStop, Pending
  <2>2. ASSUME NEW w \in Machine, drained
        PROVE  /\ call'[w] \notin {"waiting", "started"}
               /\ call'[w] = "ok" /\ vm'[w] = "up" /\ net'[w] = "held" => AboutToStop(w)'
    <3>1. CASE w = v
      BY <1>1, <2>2, <3>1
    <3>2. CASE w # v
      BY <1>1, <2>1, <2>2, <3>2 DEF DrainInv, InProgress
    <3> QED
      BY <3>1, <3>2
  <2> QED
    BY <1>1, <2>2 DEF DrainInv, InProgress
<1>2. ASSUME NEW v \in Machine, drained
      PROVE  /\ call[v] \notin {"waiting", "started"}
             /\ call[v] = "ok" /\ vm[v] = "up" /\ net[v] = "held" => AboutToStop(v)
  BY <1>2 DEF DrainInv, InProgress
<1>3. ASSUME NEW v \in Machine, StartVMM(v) \/ StartTimeout(v) \/ AddEntry(v) PROVE DrainInv'
  <2>1. ~drained
    BY <1>2, <1>3 DEF StartVMM, StartTimeout, AddEntry
  <2>2. UNCHANGED <<phase, drained, toStop>>
    BY <1>3 DEF StartVMM, StartTimeout, AddEntry, serverVars, closeVars
  <2> QED
    BY <2>1, <2>2 DEF DrainInv
<1>4. ASSUME NEW v \in Machine, ReceiveStart(v) PROVE DrainInv'
  <2>1. Pending(v, "Start") /\ \A w \in Machine : w # v => inbox'[w] = inbox[w]
    BY <1>4, InboxTaken DEF ReceiveStart
  <2>2. call[v] \in {"waiting", "timeout"}
    BY <2>1 DEF LifeInv, StartInv
  <2>3. drained => call'[v] = "timeout"
    BY <1>0, <1>2, <1>4, <2>2 DEF ReceiveStart, Respond
  <2>4. \A w \in Machine : w # v =>
          call'[w] = call[w] /\ vm'[w] = vm[w] /\ net'[w] = net[w] /\ doing'[w] = doing[w]
    BY <1>0, <1>4 DEF ReceiveStart, Respond, vmVars
  <2>5. UNCHANGED <<phase, drained, toStop>>
    BY <1>4 DEF ReceiveStart, serverVars, closeVars
  <2> QED
    BY <1>1, <2>1, <2>3, <2>4, <2>5
<1>5. ASSUME NEW v \in Machine, ReceiveStop(v) PROVE DrainInv'
  <2>1. /\ \A w \in Machine : w # v => inbox'[w] = inbox[w] /\ doing'[w] = doing[w]
        /\ UNCHANGED <<phase, drained, toStop, call, vm, net>>
    BY <1>0, <1>5, InboxTaken DEF ReceiveStop, serverVars, closeVars, vmVars
  <2>2. net[v] = "held" => doing'[v] = "Stop"
    BY <1>0, <1>5 DEF ReceiveStop, HeldInv
  <2> QED
    BY <1>1, <1>2, <2>1, <2>2 DEF AboutToStop
<1>6. ASSUME NEW v \in Machine, ReceiveFinished(v) PROVE DrainInv'
  <2>1. /\ \A w \in Machine : w # v => inbox'[w] = inbox[w]
        /\ Pending(v, "finished")
        /\ UNCHANGED <<phase, drained, toStop, call, vm, net, doing>>
    BY <1>6, InboxTaken DEF ReceiveFinished, serverVars, closeVars, vmVars
  <2>2. vm[v] = "reaped"
    BY <2>1 DEF LifeInv, EndInv, Ended
  <2> QED
    BY <1>1, <1>2, <2>1, <2>2
<1>7. ASSUME NEW v \in Machine, ReceiveStopping(v) \/ Terminate(v) PROVE DrainInv'
  <2>1. /\ \A w \in Machine : w # v => inbox'[w] = inbox[w] /\ doing'[w] = doing[w]
        /\ UNCHANGED <<phase, drained, toStop, call, vm, net>>
    BY <1>0, <1>7 DEF ReceiveStopping, Terminate, serverVars, closeVars, vmVars
  <2>2. vm[v] = "reaped"
    BY <1>7 DEF ReceiveStopping, Terminate, LifeInv, EndInv, Ended
  <2> QED
    BY <1>1, <1>2, <2>1, <2>2
<1>8. ASSUME NEW v \in Machine, FinishStop(v) PROVE DrainInv'
  <2>1. /\ net'[v] # "held"
        /\ \A w \in Machine : w # v => /\ vm'[w] = vm[w] /\ net'[w] = net[w]
                                       /\ doing'[w] = doing[w]
    BY <1>0, <1>8 DEF FinishStop, StopVMM
  <2>2. UNCHANGED <<phase, drained, toStop, call, inbox>>
    BY <1>8 DEF FinishStop, serverVars
  <2> QED
    BY <1>1, <1>2, <2>1, <2>2
<1>9. ASSUME NEW v \in Machine, MachineExit(v) \/ WaitFinished(v) PROVE DrainInv'
  <2>1. /\ vm'[v] # "up"
        /\ \A w \in Machine : w # v => vm'[w] = vm[w] /\ inbox'[w] = inbox[w]
        /\ UNCHANGED <<phase, drained, toStop, call, net, doing>>
    BY <1>0, <1>9 DEF MachineExit, WaitFinished, serverVars, closeVars, actorVars
  <2> QED
    BY <1>1, <1>2, <2>1
<1>10. ASSUME NEW v \in Machine, CloseRequest(v) PROVE DrainInv'
  <2>1. /\ toStop' = toStop \ {v} /\ phase = "closing"
        /\ UNCHANGED <<phase, drained, call, vm, net, doing>>
    BY <1>10 DEF CloseRequest, serverVars, vmVars
  <2>2. \/ life[v] = "dead" /\ inbox' = inbox
        \/ inbox' = [inbox EXCEPT ![v] = Append(@, "Stop")]
    BY <1>10 DEF CloseRequest
  <2>3. vm[v] = "up" => Pending(v, "Stop")'
    BY <2>2, InboxGiven DEF LifeInv, EndInv, Ended
  <2>4. \A w \in Machine : w # v => inbox'[w] = inbox[w]
    BY <2>2, InboxGiven
  <2>5. ASSUME NEW w \in Machine, call[w] = "ok", vm[w] = "up", net[w] = "held", AboutToStop(w)
        PROVE  AboutToStop(w)'
    <3>1. CASE w = v
      BY <2>3, <2>5, <3>1 DEF AboutToStop
    <3>2. CASE w # v
      BY <2>1, <2>4, <2>5, <3>2 DEF AboutToStop, Pending
    <3> QED
      BY <3>1, <3>2
  <2> QED
    BY <2>1, <2>5 DEF DrainInv, InProgress
<1>11. CASE BeginClose
  <2>1. /\ phase = "draining" /\ phase' = "closing" /\ toStop' = DOMAIN db
        /\ drained' => \A v \in Machine : ~InProgress(v)
        /\ UNCHANGED <<call, vm, net>>
    BY <1>11 DEF BeginClose, Entries, vmVars
  <2>2. \A v \in Machine : call[v] = "ok" /\ vm[v] = "up" => v \in toStop'
    BY <2>1 DEF LifeInv, ListInv
  <2> QED
    BY <2>1, <2>2 DEF DrainInv, InProgress, AboutToStop
<1>12. CASE BeginShutdown
  <2>1. phase = "serving" /\ phase' = "draining" /\ UNCHANGED drained
    BY <1>12 DEF BeginShutdown
  <2> QED
    BY <2>1 DEF DrainInv
<1>13. CASE Exit
  <2>1. /\ phase = "closing" /\ phase' = "exited" /\ toStop = {}
        /\ UNCHANGED <<drained, toStop, call, vm, net, doing, inbox>>
    BY <1>13 DEF Exit, closeVars, actorVars, vmVars
  <2> QED
    BY <2>1 DEF DrainInv, InProgress, AboutToStop, Pending
<1>14. CASE UNCHANGED <<phase, drained, toStop, call, vm, net, doing, inbox>>
  BY <1>14 DEF DrainInv, InProgress, AboutToStop, Pending
<1>15. ASSUME NEW v \in Machine, TickerFunc(v) \/ ReadinessReceive(v)
       PROVE  UNCHANGED <<phase, drained, toStop, call, vm, net, doing, inbox>>
  BY <1>15 DEF TickerFunc, ReadinessReceive, serverVars, closeVars, actorVars, vmVars
<1>16. ManagerReceive \/ CloseResult \/ UNCHANGED vars
       => UNCHANGED <<phase, drained, toStop, call, vm, net, doing, inbox>>
  BY DEF ManagerReceive, CloseResult, vars, serverVars, closeVars, actorVars, vmVars
<1> QED
  BY <1>3, <1>4, <1>5, <1>6, <1>7, <1>8, <1>9, <1>10, <1>11, <1>12, <1>13, <1>14, <1>15, <1>16
     DEF Next, Actor

\* A process that drained before Close (manager.go:88) leaves behind, with their
\* network, only machines whose StartVMM timed out and machines whose actor has
\* not finished with the Stop that Close sent.
THEOREM DrainedExitLeaves == Spec => []DrainedExit
<1>1. Init => HeldInv /\ DrainInv
  BY DEF Init, HeldInv, DrainInv
<1>2. TypeInv /\ StopInv /\ LifeInv /\ HeldInv /\ DrainInv /\ [Next]_vars => (HeldInv /\ DrainInv)'
  BY StepHeldInv, StepDrainInv
<1>3. TypeInv /\ LifeInv /\ DrainInv => DrainedExit
  <2> SUFFICES ASSUME TypeInv, LifeInv, DrainInv, NEW v \in Machine,
                      phase = "exited", drained, vm[v] = "up", net[v] = "held"
               PROVE  \/ call[v] = "timeout"
                      \/ doing[v] = "Stop"
                      \/ \E i \in DOMAIN inbox[v] : inbox[v][i] = "Stop"
    BY DEF DrainedExit
  <2>1. call[v] \in {"idle", "waiting", "started", "ok", "failed", "timeout"}
    BY DEF TypeInv, TypeOK
  <2>2. call[v] \in {"ok", "timeout"}
    BY <2>1 DEF LifeInv, StartInv, DrainInv, InProgress
  <2>3. call[v] = "ok" => doing[v] = "Stop" \/ Pending(v, "Stop")
    BY DEF DrainInv, AboutToStop
  <2> QED
    BY <2>2, <2>3 DEF Pending, Has
<1> QED
  BY StopInvariant, LifeInvariant, <1>1, <1>2, <1>3, PTL DEF Spec

===============================================================================
