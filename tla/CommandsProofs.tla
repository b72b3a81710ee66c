---------------------------- MODULE CommandsProofs ----------------------------
(***************************************************************************)
(* What machines take from the host and give back, for any number of       *)
(* machines and socket names, and what the commands of firebox do with     *)
(* that: the server, which starts and stops each machine in a goroutine of *)
(* its own, firectl with its single machine, and echo.                     *)
(***************************************************************************)
EXTENDS Commands, TLAPS

\* A machine has a process once Start has returned it.
HasProcess == \A v \in Machine :
  process[v] # "none" <=> stage[v] \in {"started", "select", "cleanup", "unjail", "stopped"}

\* Shutdown is called after Start, once, and nothing comes out of the channel before.
CalledOnce == \A v \in Machine :
  stage[v] \in {"new", "named", "starting", "failed", "started"} =>
    shutdown[v] = "none" /\ stopped[v] = <<>>

\* The channel reports success only of a machine that has been sent Ctrl-Alt-Del.
OkMeansAsked == \A v \in Machine : \A i \in DOMAIN stopped[v] :
  stopped[v][i] = "ok" => shutdown[v] = "asked"

\* The ids of jails: none before NewVMM, and one's own unless it is given.
JailIds == \A v \in Machine :
  /\ stage[v] = "new" => jail[v] = "none"
  /\ stage[v] # "new" => jail[v] = JailID(v)

\* What cleanupCNINetwork has left of a machine it has not deleted.
NetworkLeft == \A v \in Machine : stage[v] \in {"unjail", "stopped"} =>
  /\ v \in networks => "network" \in failed[v]
  /\ v \in ifaceDirs => failed[v] \cap {"network", "directory"} # {}

\* The machine a chroot directory is there for: it has not been stopped yet, or its
\* cleanup has failed.
Owns(w, id) == /\ jail[w] = id
               /\ process[w] # "none"
               /\ stage[w] # "stopped" \/ "chroot" \in failed[w]

ChrootOwned == \A id \in chroots : \E w \in Machine : Owns(w, id)

IInv == /\ TypeOK /\ HasProcess /\ CalledOnce /\ OkMeansAsked /\ AskedOrForced
        /\ JailIds /\ ChrootIntact /\ NetworkLeft /\ ChrootOwned

LEMMA ResourcesInitial == Init => IInv
  BY ResourceAssumption
  DEF Init, IInv, TypeOK, Config, HasProcess, CalledOnce, OkMeansAsked, AskedOrForced, Past, JailIds,
      ChrootIntact, NetworkLeft, ChrootOwned

\* What a machine is named and what it takes.
LEMMA StartKeeps == ASSUME IInv, NEW v \in Machine, NewVMM(v) \/ RunVMM(v) \/ StartMachine(v)
                    PROVE  IInv'
<1> USE ResourceAssumption DEF IInv
<1>1. CASE NewVMM(v)
  <2> USE <1>1 DEF NewVMM, host, stop
  <2>1. JailID(v) \in Machine \cup {"none", FixedName}
    BY DEF JailID
  <2>2. TypeOK'
    BY <2>1 DEF TypeOK, SocketPath
  <2>3. HasProcess' /\ CalledOnce' /\ OkMeansAsked' /\ AskedOrForced'
    BY DEF TypeOK, HasProcess, CalledOnce, OkMeansAsked, AskedOrForced, Past
  <2>4. JailIds' /\ ChrootIntact' /\ NetworkLeft'
    BY DEF TypeOK, JailIds, JailID, ChrootIntact, NetworkLeft
  <2>5. ChrootOwned'
    <3> SUFFICES ASSUME NEW id \in chroots PROVE \E w \in Machine : Owns(w, id)'
      BY DEF ChrootOwned
    <3>1. PICK w \in Machine : Owns(w, id)
      BY DEF ChrootOwned
    <3>2. w # v
      BY <3>1 DEF Owns, HasProcess
    <3> QED
      BY <3>1, <3>2 DEF Owns, TypeOK
  <2> QED
    BY <2>2, <2>3, <2>4, <2>5
<1>2. CASE RunVMM(v)
  <2> USE <1>2 DEF RunVMM, names, host, stop
  <2>1. TypeOK'
    BY DEF TypeOK
  <2>2. HasProcess' /\ CalledOnce' /\ OkMeansAsked'
    <3>1. HasProcess'
      BY DEF TypeOK, HasProcess
    <3>2. CalledOnce'
      BY DEF TypeOK, CalledOnce
    <3>3. OkMeansAsked'
      BY DEF OkMeansAsked
    <3> QED
      BY <3>1, <3>2, <3>3
  <2>3. AskedOrForced'
    BY DEF TypeOK, AskedOrForced, Past
  <2>4. JailIds' /\ ChrootIntact' /\ NetworkLeft'
    BY DEF TypeOK, JailIds, JailID, ChrootIntact, NetworkLeft
  <2>5. ChrootOwned'
    BY DEF TypeOK, ChrootOwned, Owns
  <2> QED
    BY <2>1, <2>2, <2>3, <2>4, <2>5
<1>3. CASE /\ StartMachine(v) /\ process' = [process EXCEPT ![v] = "up"]
           /\ stage' = [stage EXCEPT ![v] = "started"]
           /\ sockets' = sockets \cup ({socket[v]} \cap SocketName)
           /\ chroots' = chroots \cup ({jail[v]} \ {"none"})
           /\ networks' = networks \cup {v} /\ ifaceDirs' = ifaceDirs \cup {v}
  <2>1. /\ stage[v] = "starting"
        /\ UNCHANGED <<config, socket, jail, shutdown, stopped, deadline, failed>>
    BY <1>3 DEF StartMachine, names, stop
  <2>2. process[v] = "none" /\ jail[v] = JailID(v)
    BY <2>1 DEF HasProcess, JailIds, TypeOK
  <2> HIDE DEF IInv
  <2>3. TypeOK'
    BY <1>3, <2>1 DEF TypeOK, IInv
  <2>4. HasProcess'
    BY <1>3, <2>1 DEF TypeOK, HasProcess, IInv
  <2>5. CalledOnce' /\ OkMeansAsked'
    BY <1>3, <2>1 DEF TypeOK, CalledOnce, OkMeansAsked, IInv
  <2>6. AskedOrForced'
    BY <1>3, <2>1 DEF TypeOK, AskedOrForced, Past, IInv
  <2>7. JailIds'
    BY <1>3, <2>1 DEF TypeOK, JailIds, JailID, IInv
  <2>8. NetworkLeft'
    BY <1>3, <2>1 DEF TypeOK, NetworkLeft, IInv
  <2>9. ChrootIntact'
    BY <1>3, <2>1, <2>2 DEF TypeOK, ChrootIntact, JailID, IInv
  <2>10. ChrootOwned'
    <3> SUFFICES ASSUME NEW id \in chroots' PROVE \E w \in Machine : Owns(w, id)'
      BY DEF ChrootOwned
    <3>1. CASE id = jail[v]
      BY <1>3, <2>1, <3>1 DEF Owns, TypeOK, IInv
    <3>2. CASE id \in chroots
      <4>1. PICK w \in Machine : Owns(w, id)
        BY <3>2 DEF ChrootOwned, IInv
      <4>2. w # v
        BY <2>2, <4>1 DEF Owns
      <4> QED
        BY <1>3, <2>1, <4>1, <4>2 DEF Owns, TypeOK, IInv
    <3> QED
      BY <1>3, <3>1, <3>2
  <2> QED
    BY <2>3, <2>4, <2>5, <2>6, <2>7, <2>8, <2>9, <2>10 DEF IInv
<1>4. CASE /\ StartMachine(v) /\ stage' = [stage EXCEPT ![v] = "failed"]
           /\ UNCHANGED <<process, host>>
  <2>1. /\ stage[v] = "starting"
        /\ UNCHANGED <<config, socket, jail, shutdown, stopped, deadline, failed>>
        /\ UNCHANGED <<process, sockets, networks, ifaceDirs, chroots>>
    BY <1>4 DEF StartMachine, names, stop, host
  <2>2. TypeOK'
    BY <1>4, <2>1 DEF TypeOK
  <2>3. HasProcess' /\ CalledOnce' /\ OkMeansAsked' /\ AskedOrForced'
    BY <1>4, <2>1 DEF TypeOK, HasProcess, CalledOnce, OkMeansAsked, AskedOrForced, Past
  <2>4. JailIds' /\ ChrootIntact' /\ NetworkLeft'
    BY <1>4, <2>1 DEF TypeOK, JailIds, JailID, ChrootIntact, NetworkLeft
  <2>5. ChrootOwned'
    BY <1>4, <2>1 DEF TypeOK, ChrootOwned, Owns
  <2> QED
    BY <2>2, <2>3, <2>4, <2>5
<1>5. StartMachine(v) =>
        \/ /\ process' = [process EXCEPT ![v] = "up"]
           /\ stage' = [stage EXCEPT ![v] = "started"]
           /\ sockets' = sockets \cup ({socket[v]} \cap SocketName)
           /\ chroots' = chroots \cup ({jail[v]} \ {"none"})
           /\ networks' = networks \cup {v} /\ ifaceDirs' = ifaceDirs \cup {v}
        \/ stage' = [stage EXCEPT ![v] = "failed"] /\ UNCHANGED <<process, host>>
  BY DEF StartMachine, NetworkInterfaces
<1> QED
  BY <1>1, <1>2, <1>3, <1>4, <1>5

\* The end of a process, by itself, and the steps of stopVMM before the cleanup.
LEMMA StopKeeps ==
  ASSUME IInv, NEW v \in Machine,
         \/ MachineExit(v) \/ StopVMM(v) \/ ShutdownReturns(v) \/ SendStopped(v)
         \/ ShutdownTimeout(v) \/ SelectStopped(v) \/ SelectTimeout(v)
  PROVE  IInv'
<1> USE ResourceAssumption DEF IInv
<1>1. CASE MachineExit(v)
  <2> USE <1>1 DEF MachineExit, Ends, names, host, stop
  <2>1. TypeOK'
    BY DEF TypeOK
  <2>2. HasProcess' /\ CalledOnce' /\ OkMeansAsked' /\ AskedOrForced'
    BY DEF TypeOK, HasProcess, CalledOnce, OkMeansAsked, AskedOrForced, Past
  <2>3. JailIds' /\ ChrootIntact' /\ NetworkLeft'
    BY DEF TypeOK, JailIds, JailID, ChrootIntact, NetworkLeft
  <2>4. ChrootOwned'
    BY DEF TypeOK, ChrootOwned, Owns
  <2> QED
    BY <2>1, <2>2, <2>3, <2>4
<1>2. CASE StopVMM(v) \/ ShutdownReturns(v) \/ ShutdownTimeout(v)
  <2> USE <1>2 DEF StopVMM, ShutdownReturns, ShutdownTimeout, names, host, stop
  <2>1. TypeOK'
    BY DEF TypeOK
  <2>2. HasProcess'
    BY DEF TypeOK, HasProcess
  <2>3. CalledOnce'
    BY DEF TypeOK, CalledOnce
  <2>4. \A w \in Machine : shutdown[w] = "asked" => shutdown'[w] = "asked"
    BY DEF TypeOK, CalledOnce
  <2>5. OkMeansAsked'
    BY <2>4 DEF OkMeansAsked
  <2>6. AskedOrForced'
    <3>1. \A w \in Machine : Past(w)' => Past(w)
      BY DEF TypeOK, Past
    <3> QED
      BY <2>4, <3>1 DEF AskedOrForced
  <2>7. JailIds' /\ ChrootIntact' /\ NetworkLeft'
    BY DEF TypeOK, JailIds, JailID, ChrootIntact, NetworkLeft
  <2>8. ChrootOwned'
    BY DEF TypeOK, ChrootOwned, Owns
  <2> QED
    BY <2>1, <2>2, <2>3, <2>5, <2>6, <2>7, <2>8
<1>3. CASE SendStopped(v)
  <2> USE <1>3 DEF SendStopped, names, host, stop
  <2>1. stopped[v] \in Seq({"ok", "error"}) /\ shutdown[v] \in {"ok", "error"}
    BY DEF TypeOK
  <2>2. stopped' = [stopped EXCEPT ![v] = Append(stopped[v], shutdown[v])]
    OBVIOUS
  <2>3. TypeOK'
    BY <2>1, <2>2 DEF TypeOK
  <2>4. CalledOnce' /\ OkMeansAsked'
    BY <2>1, <2>2 DEF TypeOK, CalledOnce, OkMeansAsked
  <2>5. HasProcess' /\ AskedOrForced'
    BY DEF TypeOK, HasProcess, AskedOrForced, Past
  <2>6. JailIds' /\ ChrootIntact' /\ NetworkLeft'
    BY DEF TypeOK, JailIds, JailID, ChrootIntact, NetworkLeft
  <2>7. ChrootOwned'
    BY DEF TypeOK, ChrootOwned, Owns
  <2> QED
    BY <2>3, <2>4, <2>5, <2>6, <2>7
<1>4. CASE SelectStopped(v) \/ SelectTimeout(v)
  <2>0. /\ stage' = [stage EXCEPT ![v] = "cleanup"] /\ stage[v] = "select"
        /\ UNCHANGED <<config, socket, jail, networks, ifaceDirs, chroots, shutdown>>
        /\ deadline' = deadline
    BY <1>4 DEF SelectStopped, SelectTimeout, Goto, names, stop
  <2>1. process[v] \in {"up", "down"}
    BY <2>0 DEF TypeOK, HasProcess
  <2>2. \/ stopped' = stopped
        \/ /\ stopped[v] # <<>>
           /\ stopped' = [stopped EXCEPT ![v] = Tail(stopped[v])]
    BY <1>4 DEF SelectStopped, SelectTimeout, stop
  <2>3. /\ process' \in {process, [process EXCEPT ![v] = "down"]}
        /\ sockets' \subseteq sockets
        /\ failed' \in {failed, [failed EXCEPT ![v] = failed[v] \cup {"force"}]}
        /\ process'[v] = "down" \/ "force" \in failed'[v] \/ shutdown[v] = "asked"
    <3>1. CASE ForceStop(v)
      <4>1. CASE Ends(v) /\ UNCHANGED failed
        <5>1. process'[v] = "down"
          BY <4>1 DEF Ends, TypeOK
        <5> QED
          BY <4>1, <5>1 DEF Ends
      <4>2. CASE /\ failed' = [failed EXCEPT ![v] = failed[v] \cup {"force"}]
                 /\ UNCHANGED <<process, sockets>>
        <5>1. failed'[v] = failed[v] \cup {"force"}
          BY <4>2 DEF TypeOK
        <5> QED
          BY <4>2, <5>1
      <4>3. CASE process[v] = "down" /\ UNCHANGED <<process, sockets, failed>>
        BY <4>3
      <4> QED
        BY <3>1, <4>1, <4>2, <4>3 DEF ForceStop
    <3>2. CASE /\ stopped[v] # <<>> /\ Head(stopped[v]) # "error"
               /\ UNCHANGED <<process, sockets, failed>>
      <4>1. stopped[v] \in Seq({"ok", "error"})
        BY DEF TypeOK
      <4>2. 1 \in DOMAIN stopped[v] /\ stopped[v][1] = "ok"
        BY <3>2, <4>1
      <4> QED
        BY <3>2, <4>2 DEF OkMeansAsked
    <3> QED
      BY <1>4, <3>1, <3>2 DEF SelectStopped, SelectTimeout, AfterError
  <2>5. TypeOK'
    <3>1. stopped' \in [Machine -> Seq({"ok", "error"})]
      <4>1. stopped[v] \in Seq({"ok", "error"}) /\ stopped \in [Machine -> Seq({"ok", "error"})]
        BY DEF TypeOK
      <4>2. stopped[v] # <<>> => Tail(stopped[v]) \in Seq({"ok", "error"})
        BY <4>1
      <4> QED
        BY <2>2, <4>1, <4>2
    <3>2. process' \in [Machine -> {"none", "up", "down"}]
      BY <2>3 DEF TypeOK
    <3>3. /\ failed' \in [Machine -> SUBSET Step]
          /\ \A w \in Machine : "directory" \in failed[w] => "directory" \in failed'[w]
      <4>1. CASE failed' = failed
        BY <4>1 DEF TypeOK
      <4>2. CASE failed' = [failed EXCEPT ![v] = failed[v] \cup {"force"}]
        BY <4>2 DEF TypeOK, Step
      <4> QED
        BY <2>3, <4>1, <4>2
    <3>4. ifaceDirs' \subseteq networks' \cup {w \in Machine : "directory" \in failed'[w]}
      BY <2>0, <3>3 DEF TypeOK
    <3>5. /\ sockets' \subseteq SocketName /\ networks' \subseteq Machine
          /\ chroots' \subseteq Machine \cup {FixedName}
      BY <2>3, <2>0 DEF TypeOK
    <3> QED
      BY <2>0, <3>1, <3>2, <3>3, <3>4, <3>5 DEF TypeOK
  <2>6. HasProcess' /\ AskedOrForced'
    BY <2>1, <2>3, <2>0 DEF TypeOK, HasProcess, AskedOrForced, Past
  <2>7. \A w \in Machine : \A k \in DOMAIN stopped'[w] :
          \E i \in DOMAIN stopped[w] : stopped'[w][k] = stopped[w][i]
    <3> SUFFICES ASSUME NEW w \in Machine, NEW k \in DOMAIN stopped'[w]
                 PROVE  \E i \in DOMAIN stopped[w] : stopped'[w][k] = stopped[w][i]
      OBVIOUS
    <3>1. CASE stopped' = [stopped EXCEPT ![v] = Tail(stopped[v])] /\ stopped[v] # <<>> /\ w = v
      <4>1. k + 1 \in DOMAIN stopped[v] /\ stopped'[v][k] = stopped[v][k + 1]
        BY <3>1 DEF TypeOK
      <4> QED
        BY <3>1, <4>1
    <3>2. CASE stopped'[w] = stopped[w]
      BY <3>2
    <3> QED
      BY <2>2, <3>1, <3>2 DEF TypeOK
  <2>9. CalledOnce' /\ OkMeansAsked'
    BY <2>0, <2>2, <2>7 DEF TypeOK, CalledOnce, OkMeansAsked
  <2>10. JailIds' /\ ChrootIntact' /\ NetworkLeft'
    BY <2>3, <2>0 DEF TypeOK, JailIds, JailID, ChrootIntact, NetworkLeft
  <2>11. ChrootOwned'
    BY <2>3, <2>0 DEF TypeOK, ChrootOwned, Owns
  <2> QED
    BY <2>5, <2>6, <2>9, <2>10, <2>11
<1> QED
  BY <1>1, <1>2, <1>3, <1>4

LEMMA NetworkCleanupKeeps == ASSUME IInv, NEW v \in Machine, CleanupCNINetwork(v) PROVE IInv'
<1> USE DEF IInv
<1>1. /\ stage[v] = "cleanup" /\ stage' = [stage EXCEPT ![v] = "unjail"]
      /\ UNCHANGED <<config, process, socket, jail, sockets, chroots, shutdown, stopped, deadline>>
  BY DEF CleanupCNINetwork, AfterNetworkError, Goto, names, stop
<1>2. \/ /\ networks' = networks \ {v} /\ ifaceDirs' = ifaceDirs \ {v} /\ failed' = failed
      \/ /\ networks' = networks \ {v} /\ ifaceDirs' = ifaceDirs
         /\ failed' = [failed EXCEPT ![v] = failed[v] \cup {"directory"}]
      \/ /\ networks' = networks /\ ifaceDirs' = ifaceDirs
         /\ failed' = [failed EXCEPT ![v] = failed[v] \cup {"network"}]
  BY DEF CleanupCNINetwork
<1>3. /\ \A w \in Machine : failed[w] \subseteq failed'[w]
      /\ failed' \in [Machine -> SUBSET Step]
  <2>1. CASE failed' = failed
    BY <2>1 DEF TypeOK
  <2>2. CASE failed' = [failed EXCEPT ![v] = failed[v] \cup {"directory"}]
    BY <2>2 DEF TypeOK, Step
  <2>3. CASE failed' = [failed EXCEPT ![v] = failed[v] \cup {"network"}]
    BY <2>3 DEF TypeOK, Step
  <2> QED
    BY <1>2, <2>1, <2>2, <2>3
<1>4. TypeOK'
  <2>1. /\ networks' \subseteq Machine
        /\ ifaceDirs' \subseteq networks' \cup {w \in Machine : "directory" \in failed'[w]}
    BY <1>2, <1>3 DEF TypeOK
  <2> QED
    BY <1>1, <1>3, <2>1 DEF TypeOK
<1>5. HasProcess' /\ CalledOnce' /\ OkMeansAsked'
  BY <1>1 DEF TypeOK, HasProcess, CalledOnce, OkMeansAsked
<1>6. AskedOrForced'
  BY <1>1, <1>3 DEF TypeOK, AskedOrForced, Past
<1>7. JailIds' /\ ChrootIntact'
  BY <1>1 DEF TypeOK, JailIds, JailID, ChrootIntact
<1>8. NetworkLeft'
  <2>1. CASE failed' = failed
    BY <1>1, <1>2, <2>1 DEF TypeOK, NetworkLeft
  <2>2. CASE failed' = [failed EXCEPT ![v] = failed[v] \cup {"directory"}] /\ networks' = networks \ {v}
                                                                         /\ ifaceDirs' = ifaceDirs
    BY <1>1, <2>2 DEF TypeOK, NetworkLeft
  <2>3. CASE failed' = [failed EXCEPT ![v] = failed[v] \cup {"network"}] /\ networks' = networks
                                                                       /\ ifaceDirs' = ifaceDirs
    BY <1>1, <2>3 DEF TypeOK, NetworkLeft
  <2> QED
    BY <1>2, <2>1, <2>2, <2>3
<1>9. ChrootOwned'
  BY <1>1, <1>3 DEF TypeOK, ChrootOwned, Owns
<1> QED
  BY <1>4, <1>5, <1>6, <1>7, <1>8, <1>9

LEMMA JailCleanupKeeps == ASSUME IInv, NEW v \in Machine, CleanupJail(v) PROVE IInv'
<1> USE ResourceAssumption DEF IInv
<1>1. /\ stage[v] = "unjail" /\ stage' = [stage EXCEPT ![v] = "stopped"]
      /\ UNCHANGED <<config, process, socket, jail, sockets, networks, ifaceDirs>>
      /\ UNCHANGED <<shutdown, stopped, deadline>>
  BY DEF CleanupJail, Goto, names, stop
<1>2. \/ chroots' = chroots \ {jail[v]} /\ failed' = failed
      \/ chroots' = chroots /\ failed' = [failed EXCEPT ![v] = failed[v] \cup {"chroot"}]
  BY DEF CleanupJail
<1>3. /\ \A w \in Machine : failed[w] \subseteq failed'[w]
      /\ failed' \in [Machine -> SUBSET Step]
      /\ \A w \in Machine : "directory" \in failed'[w] <=> "directory" \in failed[w]
  <2>1. CASE failed' = failed
    BY <2>1 DEF TypeOK
  <2>2. CASE failed' = [failed EXCEPT ![v] = failed[v] \cup {"chroot"}]
    BY <2>2 DEF TypeOK, Step
  <2> QED
    BY <1>2, <2>1, <2>2
<1>4. TypeOK'
  <2>1. /\ chroots' \subseteq Machine \cup {FixedName}
        /\ ifaceDirs' \subseteq networks' \cup {w \in Machine : "directory" \in failed'[w]}
    BY <1>1, <1>2, <1>3 DEF TypeOK
  <2> QED
    BY <1>1, <1>3, <2>1 DEF TypeOK
<1>5. HasProcess' /\ CalledOnce' /\ OkMeansAsked'
  BY <1>1 DEF TypeOK, HasProcess, CalledOnce, OkMeansAsked
<1>6. AskedOrForced'
  BY <1>1, <1>3 DEF TypeOK, AskedOrForced, Past
<1>7. JailIds'
  BY <1>1 DEF TypeOK, JailIds, JailID
<1>8. NetworkLeft'
  BY <1>1, <1>3 DEF TypeOK, NetworkLeft
<1>9. ChrootIntact'
  <2> SUFFICES ASSUME config.jailer, ~config.given, NEW w \in Machine, stage'[w] = "started"
               PROVE  jail[w] \in chroots'
    BY <1>1 DEF ChrootIntact
  <2>1. stage[w] = "started" /\ w # v
    BY <1>1 DEF TypeOK
  <2>2. jail[w] = w /\ jail[v] = v
    BY <1>1, <2>1 DEF JailIds, JailID
  <2>3. jail[w] \in chroots
    BY <2>1 DEF ChrootIntact
  <2> QED
    BY <1>2, <2>1, <2>2, <2>3
<1>10. ChrootOwned'
  <2> SUFFICES ASSUME NEW id \in chroots' PROVE \E w \in Machine : Owns(w, id)'
    BY DEF ChrootOwned
  <2>1. id \in chroots
    BY <1>2
  <2>2. PICK w \in Machine : Owns(w, id)
    BY <2>1 DEF ChrootOwned
  <2>3. CASE w # v
    BY <1>1, <1>3, <2>2, <2>3 DEF Owns, TypeOK
  <2>4. CASE w = v
    <3>1. "chroot" \in failed'[v]
      BY <1>2, <2>2, <2>4 DEF Owns, TypeOK
    <3> QED
      BY <1>1, <2>2, <2>4, <3>1 DEF Owns
  <2> QED
    BY <2>3, <2>4
<1> QED
  BY <1>4, <1>5, <1>6, <1>7, <1>8, <1>9, <1>10

LEMMA ResourcesInvariant == Spec => []IInv
<1>1. ASSUME IInv, UNCHANGED vars PROVE IInv'
  BY <1>1
  DEF IInv, vars, names, host, stop, TypeOK, HasProcess, CalledOnce, OkMeansAsked, AskedOrForced, Past, JailIds,
      JailID, ChrootIntact, NetworkLeft, ChrootOwned, Owns
<1>2. IInv /\ [Next]_vars => IInv'
  BY <1>1, StartKeeps, StopKeeps, NetworkCleanupKeeps, JailCleanupKeeps DEF Next
<1> QED
  BY <1>2, ResourcesInitial, PTL DEF Spec

\* stopVMM cleans up after a machine that still runs only if it has been sent
\* Ctrl-Alt-Del, or the forced stop has failed, whichever case of its select comes
\* first.
THEOREM StopAsksOrForces == Spec => []AskedOrForced
  BY ResourcesInvariant, PTL DEF IInv

\* The cleanup of one machine never takes the chroot directory of another one that
\* runs, if the ids are those that getJailerConfig draws.
THEOREM JailsApart == Spec => []ChrootIntact
  BY ResourcesInvariant, PTL DEF IInv

\* What is left behind is what a step of the cleanup could not delete itself, or
\* shares with a machine that has not been cleaned up.
THEOREM LeaksBounded == Spec => []LeaksOnlyWhatFailed
<1>1. IInv => LeaksOnlyWhatFailed
  BY DEF IInv, NetworkLeft, ChrootOwned, Owns, LeaksOnlyWhatFailed
<1> QED
  BY <1>1, ResourcesInvariant, PTL

-------------------------------------------------------------------------------
(* The commands. *)

\* Whichever command runs, a step of it is one of the machines or leaves them alone.
LEMMA CommandsStep == CommandsNext => [Next]_vars
<1> SUFFICES ASSUME CommandsNext PROVE Next \/ UNCHANGED vars
  OBVIOUS
<1> USE FirectlAssumption
<1>1. CASE Run("server") /\ Next
  BY <1>1
<1>2. CASE UNCHANGED vars
  BY <1>2
<1>3. CASE FirectlNext
  <2>1. CASE GroupRun
    BY <2>1 DEF GroupRun, Next
  <2>2. CASE RunnerStarts
    BY <2>2 DEF RunnerStarts, Next
  <2>3. CASE InterruptRunner
    BY <2>3 DEF InterruptRunner, Next
  <2>4. CASE MachineSteps
    BY <2>4 DEF MachineSteps, Next
  <2> QED
    BY <1>3, <2>1, <2>2, <2>3, <2>4
    DEF FirectlNext, InstallSignal, SignalArrives, WaiterReturns, StartReturns, WaitReturns,
        FirstReturns, InterruptWaiter, StopReturned, GroupReturns
<1> QED
  BY <1>1, <1>2, <1>3 DEF CommandsNext

\* The server, firectl and echo treat machines as MachineResources says: what is
\* proved of its specification holds of the process, whichever command it runs.
THEOREM CommandsUseMachines == CommandsSpec => Spec
<1>1. Execute => Init
  BY DEF Execute
<1>2. [CommandsNext]_<<vars, firectlVars, echoVars, command>> => [Next]_vars
  BY CommandsStep
<1> QED
  BY <1>1, <1>2, PTL DEF CommandsSpec, Spec

\* What a machine does not come back from.
LEMMA EndIsFinal ==
  ASSUME IInv, [Next]_vars
  PROVE  /\ stage[Single] \in {"failed", "stopped"} => stage'[Single] = stage[Single]
         /\ process[Single] = "down" => process'[Single] = "down"
<1> USE FirectlAssumption
<1>1. CASE UNCHANGED vars
  BY <1>1 DEF vars
<1>2. ASSUME NEW v \in Machine,
             \/ NewVMM(v) \/ RunVMM(v) \/ StopVMM(v) \/ ShutdownReturns(v) \/ SendStopped(v)
             \/ ShutdownTimeout(v) \/ CleanupCNINetwork(v) \/ CleanupJail(v) \/ MachineExit(v)
      PROVE  /\ stage[Single] \in {"failed", "stopped"} => stage'[Single] = stage[Single]
             /\ process[Single] = "down" => process'[Single] = "down"
  BY <1>2
  DEF IInv, TypeOK, NewVMM, RunVMM, StopVMM, ShutdownReturns, SendStopped, ShutdownTimeout,
      CleanupCNINetwork, CleanupJail, MachineExit, Ends, Goto
<1>3. ASSUME NEW v \in Machine, StartMachine(v)
      PROVE  /\ stage[Single] \in {"failed", "stopped"} => stage'[Single] = stage[Single]
             /\ process[Single] = "down" => process'[Single] = "down"
  BY <1>3 DEF IInv, TypeOK, HasProcess, StartMachine
<1>4. ASSUME NEW v \in Machine, SelectStopped(v) \/ SelectTimeout(v)
      PROVE  /\ stage[Single] \in {"failed", "stopped"} => stage'[Single] = stage[Single]
             /\ process[Single] = "down" => process'[Single] = "down"
  <2>1. stage[v] = "select" /\ stage' = [stage EXCEPT ![v] = "cleanup"]
    BY <1>4 DEF SelectStopped, SelectTimeout, Goto
  <2>2. process' \in {process, [process EXCEPT ![v] = "down"]}
    BY <1>4 DEF SelectStopped, SelectTimeout, AfterError, ForceStop, Ends
  <2> QED
    BY <2>1, <2>2 DEF IInv, TypeOK
<1> QED
  BY <1>1, <1>2, <1>3, <1>4 DEF Next

\* The actor of the machine returns when that has failed or ended, and Stop has left
\* a machine alone only if it found f.machine nil.
FirectlInv ==
  /\ group \notin {"none", "killed"} => runner # "none"
  /\ group = "exited" => runner = "returned"
  /\ runner = "wait" => assigned
  /\ runner = "returned" =>
       \/ stage[Single] = "failed"
       \/ assigned /\ process[Single] = "down"
  /\ group \in {"collect", "exited"} => missed \/ stage[Single] \in {"failed", "stopped"}

\* Shutdown has closed the listener, and returns when nothing is in progress.
EchoInv ==
  /\ echo \in {"draining", "drained", "returning", "exited"} => down
  /\ echo \in {"drained", "returning", "exited"} => requests = 0 \/ expired

CommandsInv == command \in Command /\ FirectlTypeOK /\ EchoTypeOK /\ FirectlInv /\ EchoInv

LEMMA CommandsInitial == Execute => CommandsInv
<1> SUFFICES ASSUME Execute PROVE CommandsInv
  OBVIOUS
<1>1. FirectlTypeOK /\ FirectlInv
  BY DEF Execute, FirectlInit, FirectlTypeOK, FirectlInv
<1>2. EchoInv
  BY DEF Execute, EchoInit, EchoInv
<1>3. EchoTypeOK
  <2>1. 0 \in 0..MaxRequests
    BY EchoAssumption
  <2> QED
    BY <2>1 DEF Execute, EchoInit, EchoTypeOK
<1> QED
  BY <1>1, <1>2, <1>3 DEF Execute, CommandsInv

LEMMA FirectlTypes == ASSUME FirectlTypeOK, FirectlNext PROVE FirectlTypeOK'
<1>1. CASE GroupRun \/ InstallSignal \/ SignalArrives \/ WaiterReturns \/ RunnerStarts
           \/ StartReturns \/ WaitReturns
  BY <1>1
  DEF FirectlTypeOK, firectlVars, GroupRun, InstallSignal, SignalArrives, WaiterReturns,
      RunnerStarts, StartReturns, WaitReturns
<1>2. CASE FirstReturns \/ InterruptWaiter \/ StopReturned \/ GroupReturns \/ MachineSteps
  BY <1>2
  DEF FirectlTypeOK, firectlVars, FirstReturns, InterruptWaiter, StopReturned, GroupReturns,
      MachineSteps
<1>3. CASE InterruptRunner
  <2>1. missed' \in BOOLEAN /\ group' \in {"stopping", "collect"}
    <3>1. CASE StopsMachine
      BY <1>3, <3>1 DEF InterruptRunner, FirectlTypeOK
    <3>2. CASE ~StopsMachine
      BY <1>3, <3>2, Zenon DEF InterruptRunner
    <3> QED
      BY <3>1, <3>2
  <2>2. UNCHANGED <<waiter, runner, notified, quit, cancelled, assigned>>
    BY <1>3 DEF InterruptRunner
  <2> QED
    BY <2>1, <2>2 DEF FirectlTypeOK
<1> QED
  BY <1>1, <1>2, <1>3 DEF FirectlNext

LEMMA FirectlKeeps ==
  ASSUME IInv, FirectlTypeOK, FirectlInv, FirectlNext, [Next]_vars
  PROVE  FirectlInv'
<1> DEFINE Final == /\ stage[Single] \in {"failed", "stopped"} => stage'[Single] = stage[Single]
                    /\ process[Single] = "down" => process'[Single] = "down"
<1>0. Final
  BY EndIsFinal
<1>1. CASE GroupRun
  BY <1>1 DEF GroupRun, FirectlInv
<1>2. CASE InstallSignal \/ SignalArrives \/ WaiterReturns \/ RunnerStarts \/ FirstReturns
           \/ InterruptWaiter \/ MachineSteps
  BY <1>0, <1>2
  DEF FirectlInv, firectlVars, InstallSignal, SignalArrives, WaiterReturns, RunnerStarts,
      FirstReturns, InterruptWaiter, MachineSteps
<1>3. CASE StartReturns \/ WaitReturns \/ StopReturned \/ GroupReturns
  <2>1. UNCHANGED <<stage, process>>
    BY <1>3 DEF StartReturns, WaitReturns, StopReturned, GroupReturns, vars
  <2> QED
    BY <1>3, <2>1
    DEF FirectlInv, StartReturns, WaitReturns, StopReturned, GroupReturns, Finished
<1>4. CASE InterruptRunner
  <2>1. group = "stop" /\ UNCHANGED <<runner, assigned>>
    BY <1>4 DEF InterruptRunner
  <2>2. CASE assigned
    BY <1>0, <1>4, <2>1, <2>2 DEF InterruptRunner, StopsMachine, FirectlInv
  <2>3. CASE ~assigned
    <3>1. group' = "collect" /\ UNCHANGED vars
      BY <1>4, <2>3 DEF InterruptRunner, StopsMachine
    <3>2. CASE runner = "start"
      <4>1. missed'
        BY <1>4, <2>3, <3>2, Zenon DEF InterruptRunner, StopsMachine
      <4> QED
        BY <2>1, <3>1, <3>2, <4>1 DEF FirectlInv
    <3>3. CASE runner # "start"
      <4>1. runner = "returned" /\ stage[Single] = "failed"
        BY <2>1, <2>3, <3>3 DEF FirectlInv, FirectlTypeOK
      <4> QED
        BY <1>0, <2>1, <3>1, <4>1 DEF FirectlInv
    <3> QED
      BY <3>2, <3>3
  <2> QED
    BY <2>2, <2>3 DEF FirectlTypeOK
<1> QED
  BY <1>1, <1>2, <1>3, <1>4 DEF FirectlNext

LEMMA EchoKeeps == ASSUME EchoTypeOK, EchoInv, EchoNext PROVE EchoTypeOK' /\ EchoInv'
<1> USE EchoAssumption DEF EchoTypeOK, EchoInv
<1>1. CASE ServeEcho \/ ListenAndServe \/ ListenerReturns
  BY <1>1 DEF ServeEcho, ListenAndServe, ListenerReturns, Alive
<1>2. CASE EchoRequest \/ EchoAnswer
  BY <1>2 DEF EchoRequest, EchoAnswer, Alive
<1>3. CASE EchoSignal \/ EchoCancel
  BY <1>3 DEF EchoSignal, EchoCancel
<1>4. CASE EchoShutdown \/ ShutdownExpires \/ ShutdownReturned \/ ForgetClosed \/ EchoReturns
  BY <1>4
  DEF EchoShutdown, ShutdownExpires, ShutdownReturned, ForgetClosed, EchoReturns, Drained
<1> QED
  BY <1>1, <1>2, <1>3, <1>4 DEF EchoNext

LEMMA CommandsInvariant == CommandsSpec => [](IInv /\ CommandsInv)
<1>1. ASSUME IInv, CommandsInv, CommandsNext PROVE CommandsInv'
  <2>1. [Next]_vars
    BY <1>1, CommandsStep
  <2>2. CASE command = "server" /\ UNCHANGED <<firectlVars, echoVars, command>>
    <3>1. FirectlTypeOK' /\ EchoTypeOK' /\ EchoInv' /\ command' \in Command
      BY <1>1, <2>2 DEF CommandsInv, firectlVars, echoVars, FirectlTypeOK, EchoTypeOK, EchoInv
    <3>2. FirectlInv'
      BY <1>1, <2>1, <2>2, EndIsFinal DEF CommandsInv, firectlVars, FirectlInv
    <3> QED
      BY <3>1, <3>2 DEF CommandsInv
  <2>3. CASE FirectlNext /\ UNCHANGED <<echoVars, command>>
    <3>1. FirectlTypeOK' /\ FirectlInv'
      BY <1>1, <2>1, <2>3, FirectlTypes, FirectlKeeps DEF CommandsInv
    <3> QED
      BY <1>1, <2>3, <3>1 DEF CommandsInv, echoVars, EchoTypeOK, EchoInv
  <2>4. CASE EchoNext /\ UNCHANGED <<vars, firectlVars, command>>
    <3>1. EchoTypeOK' /\ EchoInv'
      BY <1>1, <2>4, EchoKeeps DEF CommandsInv
    <3> QED
      BY <1>1, <2>4, <3>1 DEF CommandsInv, vars, firectlVars, FirectlTypeOK, FirectlInv
  <2> QED
    BY <1>1, <2>2, <2>3, <2>4 DEF CommandsNext, Run
<1>2. ASSUME CommandsInv, UNCHANGED <<vars, firectlVars, echoVars, command>> PROVE CommandsInv'
  BY <1>2
  DEF CommandsInv, vars, firectlVars, echoVars, FirectlTypeOK, FirectlInv, EchoTypeOK, EchoInv
<1>3. CommandsSpec => []IInv
  BY CommandsUseMachines, ResourcesInvariant, PTL
<1>4. IInv /\ CommandsInv /\ [CommandsNext]_<<vars, firectlVars, echoVars, command>>
        => CommandsInv'
  BY <1>1, <1>2
<1> QED
  BY <1>3, <1>4, CommandsInitial, PTL DEF CommandsSpec, Execute

\* The state of every command keeps its type, whichever command runs: an interface
\* directory outlives its network only where its own deletion failed, and echo
\* counts no request below none.
THEOREM CommandsTyped == CommandsSpec => []CommandsTypeOK
<1>1. IInv /\ CommandsInv => CommandsTypeOK
  BY DEF IInv, CommandsInv, CommandsTypeOK
<1> QED
  BY <1>1, CommandsInvariant, PTL

\* firectl returns only when its machine is down, and cleaned up after unless the
\* stop came while Start was running.
THEOREM FirectlLeavesNothing == CommandsSpec => []NothingLeft
<1>1. IInv /\ CommandsInv => NothingLeft
  BY FirectlAssumption DEF IInv, HasProcess, CommandsInv, FirectlInv, NothingLeft
<1> QED
  BY <1>1, CommandsInvariant, PTL

\* echo cuts a request only after the second it gives Shutdown.
THEOREM EchoAnswersFirst == CommandsSpec => []EchoDrains
<1>1. CommandsInv => EchoDrains
  BY DEF CommandsInv, EchoInv, EchoTypeOK, EchoDrains
<1> QED
  BY <1>1, CommandsInvariant, PTL

===============================================================================
