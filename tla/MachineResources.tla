--------------------------- MODULE MachineResources ---------------------------
(***************************************************************************)
(* What a machine takes from the host and gives back (pkg/vmm/vmm.go):     *)
(* NewVMM names its socket and its jail, runVMM creates them with the CNI  *)
(* network, and stopVMM shuts the machine down in a goroutine, races that  *)
(* with a timeout and then cleans up step by step, where every step may    *)
(* fail.  The machines of a server share one configuration.                *)
(*                                                                         *)
(* VMMManager keeps of this the address, the network and the end of the    *)
(* machine; a machine is stopped at most once there (StoppedOnce), as here.*)
(***************************************************************************)
EXTENDS Naturals, FiniteSets, Sequences

CONSTANTS Machine,     \* vmids, drawn by NewVMM
          SocketName,  \* the file names getSocketPath draws from, a thousand per process
          Jailed       \* --jailer-enable, TRUE or FALSE or both

FixedName == "given"   \* --jailer-vm-id

ASSUME ResourceAssumption == /\ {FixedName, "none"} \cap Machine = {}
                             /\ "jail" \notin SocketName
                             /\ Jailed \subseteq BOOLEAN

VARIABLES
  config,     \* VMMConfig: the jailer is used, its id is given, its base is below /srv
  stage,      \* where NewVMM, Start and Stop of a machine are
  process,    \* its firecracker process
  socket,     \* fcConfig.SocketPath
  jail,       \* fcConfig.JailerCfg.ID
  sockets,    \* socket files that exist
  networks,   \* machines that have a CNI network
  ifaceDirs,  \* machines that have a directory in the CNI cache
  chroots,    \* chroot directories that exist
  shutdown,   \* the goroutine that calls machine.Shutdown, in the end with its result
  stopped,    \* chanStopped
  deadline,   \* shutdownCtx is done
  failed      \* history: the steps of stopVMM that failed

names == <<socket, jail>>
host  == <<sockets, networks, ifaceDirs, chroots>>
stop  == <<shutdown, stopped, deadline>>
vars  == <<config, stage, process, names, host, stop, failed>>

Capacity == 1  \* of chanStopped

Step == {"force", "network", "directory", "chroot"}

Config == {c \in [jailer : BOOLEAN, given : BOOLEAN, srv : BOOLEAN] :
             c.given \/ c.srv => c.jailer}

TypeOK ==
  /\ config \in Config
  /\ stage \in [Machine -> {"new", "named", "starting", "failed", "started",
                            "select", "cleanup", "unjail", "stopped"}]
  /\ process \in [Machine -> {"none", "up", "down"}]
  /\ socket \in [Machine -> SocketName \cup {"none", "jail"}]
  /\ jail \in [Machine -> Machine \cup {"none", FixedName}]
  /\ sockets \subseteq SocketName
  /\ networks \subseteq Machine
  /\ ifaceDirs \subseteq networks \cup {v \in Machine : "directory" \in failed[v]}
  /\ chroots \subseteq Machine \cup {FixedName}
  /\ shutdown \in [Machine -> {"none", "called", "ok", "error", "asked", "refused"}]
  /\ stopped \in [Machine -> Seq({"ok", "error"})]
  /\ deadline \in [Machine -> BOOLEAN]
  /\ failed \in [Machine -> SUBSET Step]

Init ==
  /\ config \in {c \in Config : c.jailer \in Jailed}
  /\ stage = [v \in Machine |-> "new"]
  /\ process = [v \in Machine |-> "none"]
  /\ socket = [v \in Machine |-> "none"]
  /\ jail = [v \in Machine |-> "none"]
  /\ sockets = {} /\ networks = {} /\ ifaceDirs = {} /\ chroots = {}
  /\ shutdown = [v \in Machine |-> "none"]
  /\ stopped = [v \in Machine |-> <<>>]
  /\ deadline = [v \in Machine |-> FALSE]
  /\ failed = [v \in Machine |-> {}]

-------------------------------------------------------------------------------
(* NewVMM and Start. *)

\* The jailer gives the path; otherwise one of the names is drawn, used or not.
SocketPath == IF config.jailer THEN {"jail"} ELSE SocketName

MutJailID(v) == IF config.jailer THEN FixedName ELSE "none"

\* Without --jailer-vm-id every machine has an id of its own.
JailID(v) == CASE ~config.jailer -> "none"
               [] config.given -> FixedName
               [] OTHER -> v

NewVMM(v) ==
  /\ stage[v] = "new"
  /\ stage' = [stage EXCEPT ![v] = "named"]
  /\ \E path \in SocketPath : socket' = [socket EXCEPT ![v] = path]
  /\ jail' = [jail EXCEPT ![v] = JailID(v)]
  /\ UNCHANGED <<config, process, host, stop, failed>>

\* runVMM: NewMachine, a second time with the debug client, then the length of
\* the path; the SDK refuses a socket that exists.
RunVMM(v) ==
  /\ stage[v] = "named"
  /\ \/ /\ socket[v] \notin sockets
        /\ stage' = [stage EXCEPT ![v] = "starting"]
     \/ stage' = [stage EXCEPT ![v] = "failed"]
  /\ UNCHANGED <<config, process, names, host, stop, failed>>

MutNetworkInterfaces(v) == {socket[v]}

\* getNetworkInterfaces always asks for a CNI network ("TODO: check if cni is
\* enabled").
NetworkInterfaces(v) == {v}

\* machine.Start: a failure leaves nothing behind.
StartMachine(v) ==
  /\ stage[v] = "starting"
  /\ \/ /\ socket[v] \notin sockets
        /\ stage' = [stage EXCEPT ![v] = "started"]
        /\ process' = [process EXCEPT ![v] = "up"]
        /\ sockets' = sockets \cup ({socket[v]} \cap SocketName)
        /\ chroots' = chroots \cup ({jail[v]} \ {"none"})
        /\ networks' = networks \cup NetworkInterfaces(v)
        /\ ifaceDirs' = ifaceDirs \cup NetworkInterfaces(v)
     \/ /\ stage' = [stage EXCEPT ![v] = "failed"]
        /\ UNCHANGED <<process, host>>
  /\ UNCHANGED <<config, names, stop, failed>>

\* The process is gone and the SDK removes its socket.
Ends(v) ==
  /\ process' = [process EXCEPT ![v] = "down"]
  /\ sockets' = sockets \ {socket[v]}

MachineExit(v) ==
  /\ process[v] = "up"
  /\ Ends(v)
  /\ UNCHANGED <<config, stage, names, networks, ifaceDirs, chroots, stop, failed>>

-------------------------------------------------------------------------------
(* Stop. *)

StopVMM(v) ==
  /\ stage[v] = "started"
  /\ stage' = [stage EXCEPT ![v] = "select"]
  /\ shutdown' = [shutdown EXCEPT ![v] = "called"]
  /\ UNCHANGED <<config, process, names, host, stopped, deadline, failed>>

\* machine.Shutdown returns nil when the machine has been sent Ctrl-Alt-Del, before
\* that has any effect, or an error; or never.
ShutdownReturns(v) ==
  /\ shutdown[v] = "called"
  /\ \/ process[v] = "up" /\ shutdown' = [shutdown EXCEPT ![v] = "ok"]
     \/ shutdown' = [shutdown EXCEPT ![v] = "error"]
  /\ UNCHANGED <<config, stage, process, names, host, stopped, deadline, failed>>

\* The channel has room for the result, whether anybody still wants it or not.
Send(v) == Len(stopped[v]) < Capacity

SendStopped(v) ==
  /\ shutdown[v] \in {"ok", "error"}
  /\ Send(v)
  /\ stopped' = [stopped EXCEPT ![v] = Append(@, shutdown[v])]
  /\ shutdown' = [shutdown EXCEPT ![v] = IF @ = "ok" THEN "asked" ELSE "refused"]
  /\ UNCHANGED <<config, stage, process, names, host, deadline, failed>>

ShutdownTimeout(v) ==
  /\ stage[v] = "select"
  /\ ~deadline[v]
  /\ deadline' = [deadline EXCEPT ![v] = TRUE]
  /\ UNCHANGED <<config, stage, process, names, host, shutdown, stopped, failed>>

Goto(v, next) == stage' = [stage EXCEPT ![v] = next]

\* machine.StopVMM, whose error is only logged.
ForceStop(v) ==
  \/ /\ process[v] = "up"
     /\ Ends(v)
     /\ UNCHANGED failed
  \/ /\ process[v] = "up"
     /\ failed' = [failed EXCEPT ![v] = @ \cup {"force"}]
     /\ UNCHANGED <<process, sockets>>
  \/ process[v] = "down" /\ UNCHANGED <<process, sockets, failed>>

MutAfterError(v) == UNCHANGED <<process, sockets, failed>>

AfterError(v) == ForceStop(v)

\* The first case of the select: Shutdown has returned.
SelectStopped(v) ==
  /\ stage[v] = "select"
  /\ stopped[v] # <<>>
  /\ IF Head(stopped[v]) = "error" THEN AfterError(v)
                                   ELSE UNCHANGED <<process, sockets, failed>>
  /\ stopped' = [stopped EXCEPT ![v] = Tail(@)]
  /\ Goto(v, "cleanup")
  /\ UNCHANGED <<config, names, networks, ifaceDirs, chroots, shutdown, deadline>>

MutDone(v) == deadline[v] /\ shutdown[v] \in {"asked", "refused"}

Done(v) == deadline[v]

\* The second case: the timeout has passed.
SelectTimeout(v) ==
  /\ stage[v] = "select"
  /\ Done(v)
  /\ ForceStop(v)
  /\ Goto(v, "cleanup")
  /\ UNCHANGED <<config, names, networks, ifaceDirs, chroots, stop>>

MutAfterNetworkError(v) == "stopped"

\* An error is logged, and the jail comes next.
AfterNetworkError(v) == "unjail"

\* cleanupCNINetwork: the network, then its directory in the cache, which it
\* also leaves, without an error, if it is not a directory.
CleanupCNINetwork(v) ==
  /\ stage[v] = "cleanup"
  /\ \/ /\ networks' = networks \ {v}
        /\ ifaceDirs' = ifaceDirs \ {v}
        /\ Goto(v, "unjail")
        /\ UNCHANGED failed
     \/ /\ networks' = networks \ {v}
        /\ failed' = [failed EXCEPT ![v] = @ \cup {"directory"}]
        /\ Goto(v, AfterNetworkError(v))
        /\ UNCHANGED ifaceDirs
     \/ /\ failed' = [failed EXCEPT ![v] = @ \cup {"network"}]
        /\ Goto(v, AfterNetworkError(v))
        /\ UNCHANGED <<networks, ifaceDirs>>
  /\ UNCHANGED <<config, process, names, sockets, chroots, stop>>

\* cleanupJailerChrootBaseDir deletes below /srv only.
CleanupJail(v) ==
  /\ stage[v] = "unjail"
  /\ Goto(v, "stopped")
  /\ \/ /\ config.jailer => config.srv
        /\ chroots' = chroots \ {jail[v]}
        /\ UNCHANGED failed
     \/ /\ config.jailer
        /\ failed' = [failed EXCEPT ![v] = @ \cup {"chroot"}]
        /\ UNCHANGED chroots
  /\ UNCHANGED <<config, process, names, sockets, networks, ifaceDirs, stop>>

-------------------------------------------------------------------------------

Next == \E v \in Machine :
  \/ NewVMM(v) \/ RunVMM(v) \/ StartMachine(v) \/ MachineExit(v)
  \/ StopVMM(v) \/ ShutdownReturns(v) \/ SendStopped(v) \/ ShutdownTimeout(v)
  \/ SelectStopped(v) \/ SelectTimeout(v)
  \/ CleanupCNINetwork(v) \/ CleanupJail(v)

Spec == Init /\ [][Next]_vars

(***************************************************************************)
(* The goroutines run and the timeout of the context passes; Shutdown need *)
(* not return.                                                             *)
(***************************************************************************)
Fairness == \A v \in Machine :
  /\ WF_vars(SendStopped(v)) /\ WF_vars(ShutdownTimeout(v))
  /\ WF_vars(SelectStopped(v) \/ SelectTimeout(v))
  /\ WF_vars(CleanupCNINetwork(v)) /\ WF_vars(CleanupJail(v))

-------------------------------------------------------------------------------

\* stopVMM is past its select and has begun to clean up.
Past(v) == stage[v] \in {"cleanup", "unjail", "stopped"}

\* Whatever comes first, the result of Shutdown or the timeout, a machine that runs
\* is cleaned up after only if it has been sent Ctrl-Alt-Del, or the forced stop has
\* failed: an error of Shutdown, a timeout and a result that nobody receives any
\* more are all followed by force.
AskedOrForced ==
  \A v \in Machine :
    Past(v) /\ process[v] = "up" => shutdown[v] = "asked" \/ "force" \in failed[v]

\* A step of the cleanup that fails does not keep the next from being made: what
\* is left of a machine that was stopped is what could not be deleted itself, or
\* the directory it shares with a machine that is not stopped, or not cleaned up.
LeaksOnlyWhatFailed ==
  \A v \in Machine : stage[v] = "stopped" =>
    /\ v \in networks => "network" \in failed[v]
    /\ v \in ifaceDirs => failed[v] \cap {"network", "directory"} # {}
    /\ jail[v] \in chroots =>
         \E w \in Machine : /\ jail[w] = jail[v]
                            /\ process[w] # "none"
                            /\ stage[w] # "stopped" \/ "chroot" \in failed[w]

\* A machine that has not been asked to stop keeps its chroot directory while
\* other machines of the same configuration stop and delete theirs.  Only with
\* --jailer-vm-id it does not: they all have the same one.
ChrootIntact ==
  config.jailer /\ ~config.given =>
    \A v \in Machine : stage[v] = "started" => jail[v] \in chroots

\* stopVMM returns although Shutdown may never do so, and the goroutine that called
\* Shutdown ends when that returns, even if the timeout came first and nobody
\* receives its result.
StopReturns ==
  \A v \in Machine : /\ (stage[v] = "select") ~> (stage[v] = "stopped")
                     /\ (shutdown[v] \in {"ok", "error"}) ~> (shutdown[v] \in {"asked", "refused"})

-------------------------------------------------------------------------------
(* What the repository says and the code does not do.                      *)

\* cmd/flags.go:16: "Shutdown timeout before VMM is stopped forcefully", and
\* vmm.go:171: "VMM stopped gracefully".  So a machine is down when stopVMM begins
\* to clean up after it, one way or the other, unless the forced stop has failed.
GracefulOrForced ==
  \A v \in Machine : Past(v) /\ process[v] = "up" => "force" \in failed[v]

===============================================================================
