------------------------------ MODULE VMMManager ------------------------------
(***************************************************************************)
(* The machines of a firebox server from the request that creates one to   *)
(* the exit of the process: the VMMManager actor and its table             *)
(* (pkg/actors/manager), the goroutines of POST /vm/run that call StartVMM,*)
(* one VMMActor per machine with its probe and its ReadinessActor          *)
(* (pkg/actors/vmm), the firecracker process behind each VMMActor, and the *)
(* shutdown of the server with VMMManager.Close (cmd/server.go).           *)
(*                                                                         *)
(* All of them run concurrently and meet in two places: the mailboxes of   *)
(* the actors, and the table, which the HTTP goroutines fill while the     *)
(* manager's Receive and Close change it.                                  *)
(***************************************************************************)
EXTENDS MachineDB, ReadinessRules, Sequences, FiniteSets

CONSTANTS NoAddress,            \* GetIP() before the machine has started
          NoMachine,            \* Close has no request outstanding
          MaxInFlight           \* bound: results of one probe on their way to the manager

ASSUME ManagerAssumption == /\ NoAddress \notin Address
                            /\ NoMachine \notin Machine
                            /\ MaxInFlight \in Nat

VARIABLES
  phase,      \* of the process: Serve, its graceful shutdown, Close, exit
  drained,    \* the graceful shutdown ended with no request in progress
  db,         \* VMMManager.db
  mailbox,    \* of the VMMManager actor
  toStop,     \* Close: machines of its snapshot it has not asked yet
  asked,      \* Close: the machine whose answer to Stop it awaits
  answered,   \* Close: that machine has answered
  call,       \* the StartVMM call that creates the machine
  inbox,      \* user messages of the VMMActor
  behavior,   \* of the VMMActor: Stopped or Started
  life,       \* of the VMMActor, as the actor system sees it
  doing,      \* the message whose handler is inside stopVMM, if any
  vm,         \* the firecracker process, and the goroutine in WaitFinished
  addr,       \* GetIP() of the machine
  net,        \* the CNI network of the machine
  readiness,  \* the ReadinessActor's behaviour and counter
  results     \* mailbox of the ReadinessActor

serverVars == <<phase, drained>>
closeVars  == <<toStop, asked, answered>>
actorVars  == <<inbox, behavior, life, doing>>
vmVars     == <<vm, addr, net>>
probeVars  == <<readiness, results>>
vars == <<serverVars, db, mailbox, closeVars, call, actorVars, vmVars, probeVars>>

Message == [type : Result \cup {"Stopped"}, id : Machine]

TypeOK ==
  /\ phase \in {"serving", "draining", "closing", "exited"}
  /\ drained \in BOOLEAN
  /\ db \in Table
  /\ mailbox \in Seq(Message)
  /\ toStop \subseteq Machine
  /\ asked \in Machine \cup {NoMachine}
  /\ answered \in BOOLEAN
  /\ call \in [Machine -> {"idle", "waiting", "started", "ok", "failed", "timeout"}]
  /\ inbox \in [Machine -> Seq({"Start", "Stop", "finished"})]
  /\ behavior \in [Machine -> {"Stopped", "Started"}]
  /\ life \in [Machine -> {"none", "alive", "stopRequested", "stopping", "dead"}]
  /\ doing \in [Machine -> {"idle", "Stop", "Stopping"}]
  /\ vm \in [Machine -> {"off", "up", "down", "reaped"}]
  /\ addr \in [Machine -> Address \cup {NoAddress}]
  /\ net \in [Machine -> {"none", "held", "released", "leaked"}]
  /\ readiness \in [Machine -> Readiness]
  /\ results \in [Machine -> Seq(Result)]

Init ==
  /\ phase = "serving"
  /\ drained = FALSE
  /\ db = EmptyDB
  /\ mailbox = <<>>
  /\ toStop = {}
  /\ asked = NoMachine
  /\ answered = FALSE
  /\ call = [v \in Machine |-> "idle"]
  /\ inbox = [v \in Machine |-> <<>>]
  /\ behavior = [v \in Machine |-> "Stopped"]
  /\ life = [v \in Machine |-> "none"]
  /\ doing = [v \in Machine |-> "idle"]
  /\ vm = [v \in Machine |-> "off"]
  /\ addr = [v \in Machine |-> NoAddress]
  /\ net = [v \in Machine |-> "none"]
  /\ readiness = [v \in Machine |-> NewReadiness]
  /\ results = [v \in Machine |-> <<>>]

\* Goroutines and actors run until main returns; machines outlive the process.
Running == phase # "exited"

-------------------------------------------------------------------------------
(* The goroutines of POST /vm/run. *)

\* StartVMM spawns the VMMActor and requests Start.  A request may begin as
\* long as the HTTP server has not shut down with every connection idle.
StartVMM(v) ==
  /\ Running
  /\ ~drained
  /\ call[v] = "idle"
  /\ call' = [call EXCEPT ![v] = "waiting"]
  /\ life' = [life EXCEPT ![v] = "alive"]
  /\ inbox' = [inbox EXCEPT ![v] = <<"Start">>]
  /\ UNCHANGED <<serverVars, db, mailbox, closeVars, behavior, doing, vmVars, probeVars>>

\* The future of the request expires first: StartVMM returns an error and the
\* actor goes on as if nothing had happened.
StartTimeout(v) ==
  /\ Running
  /\ call[v] = "waiting"
  /\ call' = [call EXCEPT ![v] = "timeout"]
  /\ UNCHANGED <<serverVars, db, mailbox, closeVars, actorVars, vmVars, probeVars>>

MutMetadata(v) == NoAddress

\* The address that *Started carries: GetIP() after machine.Start.
Metadata(v) == addr[v]

\* The future holds *Started: the goroutine enters the machine in the table.
\* add refuses a vmid that is in the table.
AddEntry(v) ==
  /\ Running
  /\ call[v] = "started"
  /\ call' = [call EXCEPT ![v] = IF v \in DOMAIN db THEN "failed" ELSE "ok"]
  /\ db' = Add(db, v, Metadata(v))
  /\ UNCHANGED <<serverVars, mailbox, closeVars, actorVars, vmVars, probeVars>>

-------------------------------------------------------------------------------
(* The VMMActor.  System messages come before the inbox, and a handler     *)
(* that is inside stopVMM holds the actor.                                 *)

Takes(v, message) ==
  /\ Running
  /\ life[v] \in {"alive", "stopping"}
  /\ doing[v] = "idle"
  /\ inbox[v] # <<>>
  /\ Head(inbox[v]) = message

\* context.Respond reaches the future only while the call still waits on it.
Respond(v, outcome) ==
  call' = IF call[v] = "waiting" THEN [call EXCEPT ![v] = outcome] ELSE call

FreeAddress == {a \in Address : \A w \in Machine : net[w] \in {"held", "leaked"} => addr[w] # a}

\* *Start: machine.Start gives the machine an address that no other machine
\* holds, or fails; the probe, its ReadinessActor and the goroutine in
\* WaitFinished exist from here on.
ReceiveStart(v) ==
  /\ Takes(v, "Start")
  /\ inbox' = [inbox EXCEPT ![v] = Tail(@)]
  /\ \/ /\ \E a \in FreeAddress : addr' = [addr EXCEPT ![v] = a]
        /\ vm' = [vm EXCEPT ![v] = "up"]
        /\ net' = [net EXCEPT ![v] = "held"]
        /\ behavior' = [behavior EXCEPT ![v] = "Started"]
        /\ Respond(v, "started")
     \/ /\ Respond(v, "failed")
        /\ UNCHANGED <<vmVars, behavior>>
  /\ UNCHANGED <<serverVars, db, mailbox, closeVars, life, doing, probeVars>>

\* *Stop in Started: stopVMM begins.  Any other behaviour ignores the message.
ReceiveStop(v) ==
  /\ Takes(v, "Stop")
  /\ inbox' = [inbox EXCEPT ![v] = Tail(@)]
  /\ doing' = IF behavior[v] = "Started" THEN [doing EXCEPT ![v] = "Stop"] ELSE doing
  /\ UNCHANGED <<serverVars, db, mailbox, closeVars, call, behavior, life, vmVars, probeVars>>

MutAfterFinished(v) == UNCHANGED life

\* context.Stop(context.Self())
AfterFinished(v) == life' = [life EXCEPT ![v] = "stopRequested"]

\* *finished in Started: the manager is told, and context.Stop(Self) queues the
\* system message Stop.
ReceiveFinished(v) ==
  /\ Takes(v, "finished")
  /\ inbox' = [inbox EXCEPT ![v] = Tail(@)]
  /\ IF behavior[v] = "Started"
       THEN /\ mailbox' = Append(mailbox, [type |-> "Stopped", id |-> v])
            /\ AfterFinished(v)
       ELSE UNCHANGED <<mailbox, life>>
  /\ UNCHANGED <<serverVars, db, closeVars, call, behavior, doing, vmVars, probeVars>>

\* The system message Stop: the lifecycle invokes *actor.Stopping.  No user
\* message has come in between, so the behaviour is still Started and its
\* handler begins stopVMM.
ReceiveStopping(v) ==
  /\ Running
  /\ life[v] = "stopRequested"
  /\ doing[v] = "idle"
  /\ behavior[v] = "Started"
  /\ doing' = [doing EXCEPT ![v] = "Stopping"]
  /\ UNCHANGED <<serverVars, db, mailbox, closeVars, call, inbox, behavior, life, vmVars, probeVars>>

MutStopVMM(v) ==
  /\ doing[v] # "idle"
  /\ UNCHANGED vm
  /\ net' = [w \in Machine |-> IF net[w] = "held" THEN "released" ELSE net[w]]

\* The rest of stopVMM.  Shutdown returns nil when it has sent Ctrl-Alt-Del, and
\* the machine may run on; or it returns an error or the shutdown timeout ends it,
\* and StopVMM kills the machine unless that fails.  Whether the machine is down or
\* not, the CNI network is deleted, which may fail.
StopVMM(v) ==
  /\ doing[v] # "idle"
  /\ \/ UNCHANGED vm
     \/ vm[v] = "up" /\ vm' = [vm EXCEPT ![v] = "down"]
  /\ \E outcome \in {"released", "leaked"} : net' = [net EXCEPT ![v] = outcome]

MutAfterStopVMM(v) == behavior' = behavior

\* Both handlers that call stopVMM then become Stopped.
AfterStopVMM(v) == behavior' = [behavior EXCEPT ![v] = "Stopped"]

\* stopVMM returns: *Stop answers the request, *actor.Stopping lets the actor
\* system stop the children.
FinishStop(v) ==
  /\ Running
  /\ StopVMM(v)
  /\ AfterStopVMM(v)
  /\ doing' = [doing EXCEPT ![v] = "idle"]
  /\ IF doing[v] = "Stop"
       THEN /\ answered' = IF asked = v THEN TRUE ELSE answered
            /\ UNCHANGED life
       ELSE /\ life' = [life EXCEPT ![v] = "stopping"]
            /\ UNCHANGED answered
  /\ UNCHANGED <<serverVars, db, mailbox, toStop, asked, call, inbox, addr, probeVars>>

\* The probe and the ReadinessActor have stopped, and the VMMActor with them.
Terminate(v) ==
  /\ Running
  /\ life[v] = "stopping"
  /\ life' = [life EXCEPT ![v] = "dead"]
  /\ inbox' = [inbox EXCEPT ![v] = <<>>]
  /\ results' = [results EXCEPT ![v] = <<>>]
  /\ UNCHANGED <<serverVars, db, mailbox, closeVars, call, behavior, doing, vmVars, readiness>>

-------------------------------------------------------------------------------
(* The machine, the goroutine that waits for it, its probe.                *)

\* The firecracker process ends, for whatever reason and at any time.
MachineExit(v) ==
  /\ Running
  /\ vm[v] = "up"
  /\ vm' = [vm EXCEPT ![v] = "down"]
  /\ UNCHANGED <<serverVars, db, mailbox, closeVars, call, actorVars, addr, net, probeVars>>

\* WaitFinished returns and the goroutine sends finished to the actor.
WaitFinished(v) ==
  /\ Running
  /\ vm[v] = "down"
  /\ vm' = [vm EXCEPT ![v] = "reaped"]
  /\ inbox' = IF life[v] = "dead" THEN inbox ELSE [inbox EXCEPT ![v] = Append(@, "finished")]
  /\ UNCHANGED <<serverVars, db, mailbox, closeVars, call, behavior, life, doing, addr, net, probeVars>>

Children(v) == life[v] \in {"alive", "stopRequested", "stopping"} /\ addr[v] # NoAddress

Reports(v) == {i \in DOMAIN mailbox : mailbox[i].id = v /\ mailbox[i].type \in Result}

InFlight(v) == Len(results[v]) + Cardinality(Reports(v))

\* One tick: GET /health at the address of the machine, which succeeds only if
\* some machine is up at that address.
TickerFunc(v) ==
  /\ Running
  /\ Children(v)
  /\ InFlight(v) < MaxInFlight
  /\ \E result \in Result :
       /\ result = "Ready" => \E w \in Machine : vm[w] = "up" /\ addr[w] = addr[v]
       /\ results' = [results EXCEPT ![v] = Append(@, result)]
  /\ UNCHANGED <<serverVars, db, mailbox, closeVars, call, actorVars, vmVars, readiness>>

\* The ReadinessActor receives one result and forwards it to the manager when
\* it changes its behaviour.
ReadinessReceive(v) ==
  /\ Running
  /\ Children(v)
  /\ results[v] # <<>>
  /\ LET result == Head(results[v]) IN
       /\ readiness' = [readiness EXCEPT ![v] = AfterResult(@, result)]
       /\ mailbox' = IF Flips(readiness[v], result)
                       THEN Append(mailbox, [type |-> result, id |-> v])
                       ELSE mailbox
  /\ results' = [results EXCEPT ![v] = Tail(@)]
  /\ UNCHANGED <<serverVars, db, closeVars, call, actorVars, vmVars>>

-------------------------------------------------------------------------------
(* The manager actor. *)

MutKeepsStopped(d, message) ==
  IF message.type = "Stopped" THEN d
  ELSE SetReady(d, message.id, message.type = "Ready")

MutIgnoresUnready(d, message) ==
  IF message.type = "Stopped" THEN Del(d, message.id)
  ELSE IF message.type = "Ready" THEN SetReady(d, message.id, TRUE) ELSE d

MutDropsUnready(d, message) ==
  IF message.type \in {"Stopped", "Unready"} THEN Del(d, message.id)
  ELSE SetReady(d, message.id, TRUE)

AfterMessage(d, message) ==
  IF message.type = "Stopped" THEN Del(d, message.id)
  ELSE SetReady(d, message.id, message.type = "Ready")

ManagerReceive ==
  /\ Running
  /\ mailbox # <<>>
  /\ db' = AfterMessage(db, Head(mailbox))
  /\ mailbox' = Tail(mailbox)
  /\ UNCHANGED <<serverVars, closeVars, call, actorVars, vmVars, probeVars>>

-------------------------------------------------------------------------------
(* The shutdown of the server and VMMManager.Close. *)

\* A signal closes the shutdown channel and the HTTP server begins to drain.
BeginShutdown ==
  /\ phase = "serving"
  /\ phase' = "draining"
  /\ UNCHANGED <<drained, db, mailbox, closeVars, call, actorVars, vmVars, probeVars>>

InProgress(v) == call[v] \in {"waiting", "started"}

\* Serve returns, with every connection idle or because the graceful timeout
\* has passed, and the deferred Close takes its snapshot of the table.
BeginClose ==
  /\ phase = "draining"
  /\ phase' = "closing"
  /\ \/ /\ \A v \in Machine : ~InProgress(v)
        /\ drained' = TRUE
     \/ drained' = FALSE
  /\ toStop' = Entries(db)
  /\ UNCHANGED <<db, mailbox, asked, answered, call, actorVars, vmVars, probeVars>>

\* Close requests Stop from the next machine; a dead actor takes no message.
CloseRequest(v) ==
  /\ phase = "closing"
  /\ asked = NoMachine
  /\ v \in toStop
  /\ toStop' = toStop \ {v}
  /\ asked' = v
  /\ answered' = FALSE
  /\ inbox' = IF life[v] = "dead" THEN inbox ELSE [inbox EXCEPT ![v] = Append(@, "Stop")]
  /\ UNCHANGED <<serverVars, db, mailbox, call, behavior, life, doing, vmVars, probeVars>>

MutCloseOutcome == answered

\* The request has been answered, or its timeout of one second has passed.
CloseOutcome == answered \/ ~answered

\* Either way Close drops the entry and goes on.
CloseResult ==
  /\ phase = "closing"
  /\ asked # NoMachine
  /\ CloseOutcome
  /\ db' = Del(db, asked)
  /\ asked' = NoMachine
  /\ answered' = FALSE
  /\ UNCHANGED <<serverVars, mailbox, toStop, call, actorVars, vmVars, probeVars>>

\* Close has asked every machine of its snapshot: main returns.
Exit ==
  /\ phase = "closing"
  /\ asked = NoMachine
  /\ toStop = {}
  /\ phase' = "exited"
  /\ UNCHANGED <<drained, db, mailbox, closeVars, call, actorVars, vmVars, probeVars>>

-------------------------------------------------------------------------------

Actor(v) == \/ ReceiveStart(v) \/ ReceiveStop(v) \/ ReceiveFinished(v)
            \/ ReceiveStopping(v) \/ FinishStop(v) \/ Terminate(v)

Next ==
  \/ \E v \in Machine : \/ StartVMM(v) \/ StartTimeout(v) \/ AddEntry(v)
                        \/ Actor(v)
                        \/ MachineExit(v) \/ WaitFinished(v)
                        \/ TickerFunc(v) \/ ReadinessReceive(v)
                        \/ CloseRequest(v)
  \/ ManagerReceive
  \/ BeginShutdown \/ BeginClose \/ CloseResult \/ Exit

Spec == Init /\ [][Next]_vars

(***************************************************************************)
(* Goroutines and actors are scheduled, and every wait of these steps has  *)
(* a bound in the code: the futures of StartVMM and Close time out, and    *)
(* so does Shutdown.  Nothing makes a request arrive, a machine start or   *)
(* end, a probe answer, or an operator stop the server.                    *)
(***************************************************************************)
Fairness ==
  /\ \A v \in Machine : /\ WF_vars(AddEntry(v))
                         /\ WF_vars(ReceiveStop(v)) /\ WF_vars(ReceiveFinished(v))
                         /\ WF_vars(ReceiveStopping(v)) /\ WF_vars(FinishStop(v))
                         /\ WF_vars(Terminate(v)) /\ WF_vars(WaitFinished(v))
                         /\ WF_vars(CloseRequest(v))
  /\ WF_vars(ManagerReceive) /\ WF_vars(CloseResult) /\ WF_vars(Exit)

FairSpec == Spec /\ Fairness

-------------------------------------------------------------------------------
(* Safety. *)

\* The load balancer (getServiceIP) may believe that a machine is ready which
\* its ReadinessActor has given up only while the *Unready that corrects it is
\* in the manager's mailbox.
NeverFalselyReady ==
  \A v \in DOMAIN db :
    db[v].ready /\ readiness[v].behavior = "Unready"
      => \E i \in Reports(v) : mailbox[i].type = "Unready"

\* manager.go:73: "timeout can leave orphan (not referenced) VMM".  Until Close,
\* nothing else does: a machine that is up is in the table, or about to be
\* entered, or its StartVMM timed out.
OrphanOnlyAfterTimeout ==
  \A v \in Machine :
    /\ phase \in {"serving", "draining"}
    /\ vm[v] = "up"
    /\ v \notin DOMAIN db
    => call[v] \in {"started", "timeout"}

\* Both *Stop and *actor.Stopping end in stopVMM, and they race with finished:
\* still no machine is stopped, and its network deleted, a second time.
StoppedOnce == \A v \in Machine : doing[v] # "idle" => net[v] = "held"

\* Close has asked v to stop.
Dismissed(v) == /\ phase \in {"closing", "exited"}
                /\ call[v] = "ok"
                /\ v \notin toStop
                /\ v = asked \/ v \notin DOMAIN db

\* No race of *Stop, finished and *actor.Stopping deletes the network of a machine
\* that runs, and a machine that has its network is the only one at its address.
\* The exception is Close: stopVMM takes a nil of Shutdown for the end of the
\* machine (vmm.go:171), so one that ignores Ctrl-Alt-Del runs on while its address
\* goes to a machine that a late request starts.
AddressKept ==
  \A v \in Machine : vm[v] = "up" =>
    \/ /\ net[v] = "held"
       /\ \A w \in Machine \ {v} : addr[w] = addr[v] => net[w] = "released"
    \/ Dismissed(v)

\* When the server drained before Close, the only machines that survive the
\* process with their network are orphans of a timeout and machines whose actor
\* had not finished with the Stop it got from Close.
DrainedExit ==
  \A v \in Machine :
    phase = "exited" /\ drained /\ vm[v] = "up" /\ net[v] = "held"
      => \/ call[v] = "timeout"
         \/ doing[v] = "Stop"
         \/ \E i \in DOMAIN inbox[v] : inbox[v][i] = "Stop"

\* As long as the server serves, a machine that is up is never taken out of the
\* table: a late *Stopped cannot hit a live machine.
LiveEntryKept ==
  [][\A v \in DOMAIN db : vm[v] = "up" /\ phase # "closing" => v \in DOMAIN db']_vars

-------------------------------------------------------------------------------
(* Liveness, under FairSpec. *)

\* A machine that dies after it was entered in the table leaves the table.
DeadMachineLeaves ==
  \A v \in Machine :
    (v \in DOMAIN db /\ vm[v] = "down") ~> (v \notin DOMAIN db \/ ~Running)

\* The network of every machine that has ended is deleted, whatever became of
\* the StartVMM that created it and whatever raced with the end.
NetworkCleaned ==
  \A v \in Machine : (net[v] = "held" /\ vm[v] # "up") ~> (net[v] # "held" \/ ~Running)

\* Close returns although an actor may be dead or busy and never answer.
CloseTerminates == (phase = "closing") ~> (phase = "exited")

-------------------------------------------------------------------------------
(* What the repository says and the code does not do. *)

\* cmd/flags.go:16: "Shutdown timeout before VMM is stopped forcefully".  So
\* a machine whose shutdown has begun is not left running by the process.
ForcedBeforeExit ==
  \A v \in Machine : phase = "exited" /\ doing[v] # "idle" => vm[v] # "up"

\* README.md:65: "Simple LB and probing to echo server".  Once every result of
\* its probe has been delivered, a machine in the table that its ReadinessActor
\* has announced as READY is one the load balancer can find.
ReadyMachineIsServed ==
  \A v \in DOMAIN db :
    /\ readiness[v].behavior = "Ready"
    /\ Reports(v) = {}
    => db[v].ready

===============================================================================
