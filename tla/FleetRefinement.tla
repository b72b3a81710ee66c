---------------------------- MODULE FleetRefinement ----------------------------
(***************************************************************************)
(* VMMManager implements Fleet.  A request is answered when its StartVMM   *)
(* returns; the table and its flags are those of the db; what closing has  *)
(* still to drop is the rest of Close's snapshot with the machine whose    *)
(* answer it awaits.  Everything else, every mailbox and every step of the *)
(* actors and of stopVMM, is stuttering.                                   *)
(***************************************************************************)
EXTENDS VMMManager

RequestSeen(c) == CASE c = "idle" -> "none"
                    [] c \in {"waiting", "started"} -> "open"
                    [] c = "ok" -> "listed"
                    [] OTHER -> "refused"

MachineSeen(m) == CASE m = "off" -> "none"
                    [] m = "up" -> "up"
                    [] OTHER -> "ended"

OfficeSeen(p) == CASE p = "closing" -> "closing"
                   [] p = "exited" -> "closed"
                   [] OTHER -> "open"

requestOf == [v \in Machine |-> RequestSeen(call[v])]

machineOf == [v \in Machine |-> MachineSeen(vm[v])]

readyOf == {v \in DOMAIN db : db[v].ready}

freedOf == {v \in Machine : net[v] = "released"}

officeOf == OfficeSeen(phase)

toCloseOf == toStop \cup ({asked} \ {NoMachine})

F == INSTANCE Fleet WITH request <- requestOf, machine <- machineOf, ip <- addr,
                         freed <- freedOf, table <- DOMAIN db, eligible <- readyOf,
                         office <- officeOf, toClose <- toCloseOf

\* Every behaviour of the actors, the goroutines of POST /vm/run and Close is one
\* the rest of the server may expect: a request ends once, a machine is listed
\* once and stays listed until it has ended or is dropped by Close, which drops
\* what was listed when it began, and the address of a machine goes to another one
\* only after its network was deleted, until Close only after its end.
ImplementsFleet == F!FleetSpec

===============================================================================
