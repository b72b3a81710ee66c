--------------------------------- MODULE Fleet ---------------------------------
(***************************************************************************)
(* What the manager of the machines promises to the rest of the server,    *)
(* without actors, mailboxes and goroutines: requests to run a machine     *)
(* that end once, machines that live once, at an address that nobody has   *)
(* or that has been given back, and a table that lists machines, each      *)
(* once, until they have ended or Close drops them.  FleetRefinement shows *)
(* that VMMManager keeps the promise.                                      *)
(***************************************************************************)
EXTENDS Naturals, FiniteSets

CONSTANTS Machine,   \* requests to run a machine, one machine each
          Address,   \* the addresses the CNI network can hand out
          NoAddress  \* of a machine that has not started

ASSUME FleetAssumption == NoAddress \notin Address

VARIABLES
  request,  \* POST /vm/run: not made, open, answered with the machine or an error
  machine,  \* the firecracker process
  ip,       \* its address
  freed,    \* machines whose address the network may hand out again
  table,    \* the machines that are listed
  eligible,    \* those that may be chosen to serve
  office,   \* the manager is open, closing or closed
  toClose   \* the machines that closing still has to drop

fleetVars == <<request, machine, ip, freed, table, eligible, office, toClose>>

FleetTypeOK ==
  /\ request \in [Machine -> {"none", "open", "listed", "refused"}]
  /\ machine \in [Machine -> {"none", "up", "ended"}]
  /\ ip \in [Machine -> Address \cup {NoAddress}]
  /\ freed \subseteq Machine
  /\ table \subseteq Machine
  /\ eligible \subseteq table
  /\ office \in {"open", "closing", "closed"}
  /\ toClose \subseteq Machine

FleetInit ==
  /\ request = [v \in Machine |-> "none"]
  /\ machine = [v \in Machine |-> "none"]
  /\ ip = [v \in Machine |-> NoAddress]
  /\ freed = {}
  /\ table = {}
  /\ eligible = {}
  /\ office = "open"
  /\ toClose = {}

RequestVM(v) ==
  /\ office # "closed"
  /\ request[v] = "none"
  /\ request' = [request EXCEPT ![v] = "open"]
  /\ UNCHANGED <<machine, ip, freed, table, eligible, office, toClose>>

\* A machine boots at an address that no other machine has had, or only machines
\* that have given it back, even after its request has been given up.
Boot(v) ==
  /\ office # "closed"
  /\ request[v] # "none"
  /\ machine[v] = "none"
  /\ machine' = [machine EXCEPT ![v] = "up"]
  /\ \E a \in Address : /\ \A w \in Machine : ip[w] = a => w \in freed
                        /\ ip' = [ip EXCEPT ![v] = a]
  /\ UNCHANGED <<request, freed, table, eligible, office, toClose>>

\* The request succeeds, and only then is its machine listed.
List(v) ==
  /\ office # "closed"
  /\ request[v] = "open"
  /\ machine[v] # "none"
  /\ request' = [request EXCEPT ![v] = "listed"]
  /\ table' = table \cup {v}
  /\ UNCHANGED <<machine, ip, freed, eligible, office, toClose>>

\* The request fails or times out.
Refuse(v) ==
  /\ office # "closed"
  /\ request[v] = "open"
  /\ request' = [request EXCEPT ![v] = "refused"]
  /\ UNCHANGED <<machine, ip, freed, table, eligible, office, toClose>>

Mark(v) ==
  /\ office # "closed"
  /\ v \in table
  /\ eligible' \in {eligible \cup {v}, eligible \ {v}}
  /\ UNCHANGED <<request, machine, ip, freed, table, office, toClose>>

End(v) ==
  /\ office # "closed"
  /\ machine[v] = "up"
  /\ machine' = [machine EXCEPT ![v] = "ended"]
  /\ UNCHANGED <<request, ip, freed, table, eligible, office, toClose>>

\* The address of a machine that has ended is given back.  Closing also gives back
\* that of a machine it drops, which may end by this and may not.
Free(v) ==
  /\ office # "closed"
  /\ \/ machine[v] = "ended"
     \/ /\ machine[v] = "up"
        /\ office = "closing"
        /\ request[v] = "listed"
        /\ v \in toClose \/ v \notin table
  /\ machine' \in {machine, [machine EXCEPT ![v] = "ended"]}
  /\ freed' = freed \cup {v}
  /\ UNCHANGED <<request, ip, table, eligible, office, toClose>>

\* Outside of closing, only a machine that has ended leaves the table.
Unlist(v) ==
  /\ office # "closed"
  /\ v \in table
  /\ machine[v] = "ended"
  /\ table' = table \ {v}
  /\ eligible' = eligible \ {v}
  /\ UNCHANGED <<request, machine, ip, freed, office, toClose>>

BeginClosing ==
  /\ office = "open"
  /\ office' = "closing"
  /\ toClose' = table
  /\ UNCHANGED <<request, machine, ip, freed, table, eligible>>

\* Closing has asked a machine to stop, whether it does or not.
Drop(v) ==
  /\ office = "closing"
  /\ v \in toClose
  /\ toClose' = toClose \ {v}
  /\ table' = table \ {v}
  /\ eligible' = eligible \ {v}
  /\ UNCHANGED <<request, machine, ip, freed, office>>

EndClosing ==
  /\ office = "closing"
  /\ toClose = {}
  /\ office' = "closed"
  /\ UNCHANGED <<request, machine, ip, freed, table, eligible, toClose>>

FleetNext ==
  \/ \E v \in Machine : \/ RequestVM(v) \/ Boot(v) \/ List(v) \/ Refuse(v)
                        \/ Mark(v) \/ End(v) \/ Free(v) \/ Unlist(v) \/ Drop(v)
  \/ BeginClosing \/ EndClosing

FleetSpec == FleetInit /\ [][FleetNext]_fleetVars

===============================================================================
