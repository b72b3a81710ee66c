------------------------------- MODULE MachineDB -------------------------------
(***************************************************************************)
(* The manager's table of machines (pkg/actors/manager/db.go): a map from  *)
(* vmid to entry behind a mutex.  Every operation holds the mutex from its *)
(* first line to its last, so each is one function of the table.  The pid  *)
(* of an entry is the actor of that vmid and is left out.                  *)
(***************************************************************************)
CONSTANTS Machine,   \* vmids; one request to run a machine, one actor each
          Address    \* the addresses the CNI network can hand out

Entry == [ip : Address, ready : BOOLEAN]

Table == UNION {[D -> Entry] : D \in SUBSET Machine}

EmptyDB == [v \in {} |-> {}]

MutEntries(db) == {v \in DOMAIN db : db[v].ready}

\* db.entries: the vmids of all entries, in no particular order.
Entries(db) == DOMAIN db

\* db.add: a new entry is not ready; a vmid that is in the table is refused.
Add(db, v, ip) ==
  [w \in DOMAIN db \cup {v} |->
     IF w \in DOMAIN db THEN db[w] ELSE [ip |-> ip, ready |-> FALSE]]

\* db.del: does nothing for a vmid that is not in the table.
Del(db, v) == [w \in DOMAIN db \ {v} |-> db[w]]

\* db.ready: does nothing for a vmid that is not in the table.
SetReady(db, v, ready) ==
  IF v \in DOMAIN db THEN [db EXCEPT ![v] = [@ EXCEPT !.ready = ready]] ELSE db

===============================================================================
