-------------------------------- MODULE Firectl --------------------------------
(***************************************************************************)
(* firebox firectl (cmd/firectl.go): one machine under a run.Group of two  *)
(* actors, one that waits for a signal and one that starts the machine and *)
(* waits for its end.  The first that returns makes the group interrupt    *)
(* both, in order, and then wait for the other.  The machine is that of    *)
(* MachineResources.                                                       *)
(***************************************************************************)
EXTENDS MachineResources

CONSTANT Single  \* the machine of firectl

ASSUME FirectlAssumption == Single \in Machine

VARIABLES
  group,      \* where g.Run is
  waiter,     \* the actor of waitForSignal
  runner,     \* the actor of the machine
  notified,   \* signal.Notify has been called
  quit,       \* the channel quit holds a signal
  cancelled,  \* shutdownCtx is done
  assigned,   \* f.machine is not nil
  missed      \* history: Stop found f.machine nil while Start was running

firectlVars == <<group, waiter, runner, notified, quit, cancelled, assigned, missed>>

FirectlTypeOK ==
  /\ group \in {"none", "run", "interrupt", "stop", "stopping", "collect", "exited", "killed"}
  /\ waiter \in {"none", "spawned", "waiting", "returned"}
  /\ runner \in {"none", "start", "wait", "returned"}
  /\ {notified, quit, cancelled, assigned, missed} \subseteq BOOLEAN

FirectlInit ==
  /\ group = "none" /\ waiter = "none" /\ runner = "none"
  /\ notified = FALSE /\ quit = FALSE /\ cancelled = FALSE
  /\ assigned = FALSE /\ missed = FALSE

\* NewVMM in firectlRun, then g.Run starts the actors.
GroupRun ==
  /\ group = "none"
  /\ NewVMM(Single)
  /\ group' = "run"
  /\ waiter' = "spawned"
  /\ runner' = "start"
  /\ UNCHANGED <<notified, quit, cancelled, assigned, missed>>

InstallSignal ==
  /\ waiter = "spawned"
  /\ group # "killed"
  /\ waiter' = "waiting"
  /\ notified' = TRUE
  /\ UNCHANGED <<vars, group, runner, quit, cancelled, assigned, missed>>

\* Before Notify a signal kills the process, until Start has installed the
\* handler of the SDK, which passes signals on to the machine.
SignalArrives ==
  /\ group \notin {"exited", "killed"}
  /\ IF notified THEN quit' = TRUE /\ UNCHANGED group
     ELSE /\ process[Single] = "none"
          /\ group' = "killed"
          /\ UNCHANGED quit
  /\ UNCHANGED <<vars, waiter, runner, notified, cancelled, assigned, missed>>

WaiterReturns ==
  /\ waiter = "waiting"
  /\ quit \/ cancelled
  /\ waiter' = "returned"
  /\ UNCHANGED <<vars, group, runner, notified, quit, cancelled, assigned, missed>>

\* The steps of control.Start before f.machine is assigned.
RunnerStarts ==
  /\ runner = "start"
  /\ group # "killed"
  /\ RunVMM(Single) \/ StartMachine(Single)
  /\ UNCHANGED firectlVars

StartReturns ==
  /\ runner = "start"
  /\ group # "killed"
  /\ \/ /\ stage[Single] = "failed"
        /\ runner' = "returned"
        /\ UNCHANGED assigned
     \/ /\ stage[Single] = "started"
        /\ runner' = "wait"
        /\ assigned' = TRUE
  /\ UNCHANGED <<vars, group, waiter, notified, quit, cancelled, missed>>

MutFinished == process[Single] # "none"

\* machine.Wait returns when the process has ended.
Finished == process[Single] = "down"

WaitReturns ==
  /\ runner = "wait"
  /\ Finished
  /\ runner' = "returned"
  /\ UNCHANGED <<vars, group, waiter, notified, quit, cancelled, assigned, missed>>

\* The first error of an actor.
FirstReturns ==
  /\ group = "run"
  /\ "returned" \in {waiter, runner}
  /\ group' = "interrupt"
  /\ UNCHANGED <<vars, waiter, runner, notified, quit, cancelled, assigned, missed>>

\* The interrupt of the first actor: shutdownFunc.
InterruptWaiter ==
  /\ group = "interrupt"
  /\ group' = "stop"
  /\ cancelled' = TRUE
  /\ UNCHANGED <<vars, waiter, runner, notified, quit, assigned, missed>>

MutStopsMachine == assigned /\ runner = "returned"

StopsMachine == assigned

\* The interrupt of the second actor: control.Stop reads f.machine while Start may
\* be about to assign it, and does nothing if it is nil.
InterruptRunner ==
  /\ group = "stop"
  /\ IF StopsMachine THEN /\ StopVMM(Single)
                          /\ group' = "stopping"
                          /\ UNCHANGED missed
                     ELSE /\ group' = "collect"
                          /\ missed' = (~assigned /\ runner = "start")
                          /\ UNCHANGED vars
  /\ UNCHANGED <<waiter, runner, notified, quit, cancelled, assigned>>

StopReturned ==
  /\ group = "stopping"
  /\ stage[Single] = "stopped"
  /\ group' = "collect"
  /\ UNCHANGED <<vars, waiter, runner, notified, quit, cancelled, assigned, missed>>

\* g.Run has the errors of both actors, and firectlRun returns.
GroupReturns ==
  /\ group = "collect"
  /\ waiter = "returned" /\ runner = "returned"
  /\ group' = "exited"
  /\ UNCHANGED <<vars, waiter, runner, notified, quit, cancelled, assigned, missed>>

\* The machine, and the steps of control.Stop with their goroutine.
MachineSteps ==
  /\ \/ MachineExit(Single)
     \/ ShutdownReturns(Single) \/ SendStopped(Single) \/ ShutdownTimeout(Single)
     \/ SelectStopped(Single) \/ SelectTimeout(Single)
     \/ CleanupCNINetwork(Single) \/ CleanupJail(Single)
  /\ UNCHANGED firectlVars

FirectlNext ==
  \/ GroupRun \/ InstallSignal \/ SignalArrives \/ WaiterReturns
  \/ RunnerStarts \/ StartReturns \/ WaitReturns
  \/ FirstReturns \/ InterruptWaiter \/ InterruptRunner \/ StopReturned \/ GroupReturns
  \/ MachineSteps

(***************************************************************************)
(* Goroutines run.  Start may hang, the machine need not end by itself and *)
(* no signal need arrive; stopVMM is fair as in MachineResources.          *)
(***************************************************************************)
allVars == <<vars, firectlVars>>

FirectlFairness ==
  /\ WF_allVars(InstallSignal) /\ WF_allVars(WaiterReturns) /\ WF_allVars(StartReturns)
  /\ WF_allVars(WaitReturns) /\ WF_allVars(FirstReturns)
  /\ WF_allVars(InterruptWaiter) /\ WF_allVars(InterruptRunner)
  /\ WF_allVars(StopReturned) /\ WF_allVars(GroupReturns)

-------------------------------------------------------------------------------

\* firectl never leaves its machine behind: when it returns the machine is down,
\* and was cleaned up after unless the signal came while Start was running, when
\* control.Stop does nothing and the machine starts after its stop.
NothingLeft ==
  group = "exited" => /\ process[Single] # "up"
                      /\ stage[Single] = "started" => missed

\* The machine runs although its stop is over: it ignores Ctrl-Alt-Del, or could
\* not be stopped forcefully.
Unstopped == /\ Past(Single) /\ process[Single] = "up"
             /\ shutdown[Single] = "asked" \/ "force" \in failed[Single]

\* The end of its machine ends firectl, and so does a signal: after one it waits for
\* ever only for a machine that never reacts to its stop, or whose stop was missed
\* because it came during Start.
FirectlEnds ==
  LET ended == group \in {"exited", "killed"}
  IN  /\ (quit ~> (ended \/ missed)) \/ <>[]Unstopped
      /\ (runner = "returned") ~> ended

===============================================================================
