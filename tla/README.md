# A TLA+ model of firebox

firebox starts Firecracker micro-VMs on request, probes the service inside each
of them and forwards HTTP requests to one that is ready. The program is small
(62 files, half of them generated by go-swagger), has no tests, and is made
of goroutines, actors (protoactor-go) and external processes that race with each
other for every machine. These modules model that concurrency, check it with TLC
on small instances and prove the main invariants with TLAPS for any number of
machines, connections and requests.

All paths below are relative to `src/` unless they name a file of this directory.

## The system

| Component | Source | State | Operations |
|---|---|---|---|
| HTTP server | `api/server/server.go`, `configure_firebox.go` | listeners, `shutdown` channel, `interrupted` | Listen, Serve, handleInterrupt, Shutdown, handleShutdown and its hooks |
| server command | `cmd/server.go`, `pkg/utils/defers.go` | deferred functions | runServer: Serve, then the deferred Close, then exit |
| Request handlers | `cmd/handlers/*.go` | none | POST /vm/run → StartVMM, POST /invoke → InvokeHTTP |
| VMMManager | `pkg/actors/manager/manager.go` | its mailbox, the table | StartVMM, Receive (Stopped, Ready, Unready), Close, InvokeHTTP |
| Machine table | `pkg/actors/manager/db.go` | vmid → (pid, ip, ready), behind a mutex | add, del, ready, entries |
| VMMActor | `pkg/actors/vmm/vmm.go` | behaviour Stopped or Started | Start, Stop, finished, Stopping |
| ReadinessActor | `pkg/actors/vmm/readiness.go` | behaviour Unready or Ready, counter | Ready, Unready |
| Health probe | `pkg/actors/vmm/probe.go`, `pkg/actors/ticker/ticker.go`, `pkg/prober/remote/http` | receive timeout | Start, Stop, ReceiveTimeout → GET /health |
| Machine | `pkg/vmm/vmm.go` | firecracker process, socket, CNI network, jailer chroot | Start, WaitFinished, Stop, GetIP |
| Status probes | `pkg/prober/combiner.go`, `pkg/prober/local/http.go` | ready and healthy flags | Set(Not)Ready, Set(Not)Healthy, the two health endpoints |
| firectl | `cmd/firectl.go` | a run.Group of two actors | one machine and a signal waiter |
| echo | `cmd/echo.go` | an HTTP server | the service that runs inside a machine |
| REST layer, models, flags, logging | `api/server/restapi`, `api/models`, `cmd/flags.go`, `config`, `pkg/log` | none of interest | generated code, parsing, wording |

How they interact. `POST /vm/run` runs `StartVMM` in a goroutine of the HTTP
server: it spawns a VMMActor, requests `Start` with a future of 30 s and, when
`Started` comes back, enters the machine in the table itself. The VMMActor starts
the firecracker process, then a ReadinessActor and a ticker as its children, and
a goroutine that waits for the process and sends `finished` to the actor. The
ticker probes the address of the machine and sends each result to the
ReadinessActor, which forwards only the results that change its behaviour to the
mailbox of the VMMManager; the manager sets the ready flag of the entry. On
`finished` the VMMActor sends `Stopped` to the manager, which deletes the entry,
and stops itself, which runs `stopVMM`. On a signal the HTTP server drains for the
graceful timeout, and then the deferred `Close` takes a snapshot of the table,
requests `Stop` from each actor with a future of one second, and main returns.

What is hard here:

- the table has two writers, the request goroutines and the manager's mailbox, and
  the order of an `add` and of the messages about the same machine is not fixed;
- `Stop`, `finished` and `Stopping` race for `stopVMM`;
- every request has a timeout after which the work it started goes on;
- `Close` works on a snapshot, and the process exits whatever is still running;
- resources (address, network) are freed by one path and taken by another.

What must hold, per component: the table never calls a machine ready that is
known not to be, keeps live machines and loses dead ones (table, manager,
readiness); a machine is stopped once and its network deleted (VMMActor,
machine); an address has
one machine, as far as Shutdown allows (machine, CNI); shutdown returns and leaves
behind only what a timeout excuses (server, Close); the health endpoints follow
the life of the server (HTTP server, status probes); a signal ends firectl and its
machine. The file `PROJECT.json` lists the hazards with their lines.

## The modules

| Module | What it models | Proved in |
|---|---|---|
| `ReadinessRules` | what one probe result does to a ReadinessActor, as pure operators | |
| `MachineDB` | the operations of the table as functions of the table; each holds the mutex throughout, so each is atomic | |
| `VMMManager` | table, manager, goroutines of POST /vm/run, VMMActors, probes, machines, and the shutdown with Close | `VMMManagerProofs` |
| `Fleet` | abstract: what the manager promises to the rest of the server, without actors, mailboxes and goroutines | |
| `FleetRefinement` | `VMMManager` implements `Fleet` | `FleetRefinementProofs` |
| `HealthProbe` | the ticker with its receive timeout, the GET /health of a tick, and the ReadinessActor behind it | `HealthProbeProofs` |
| `ServiceInvoke` | InvokeHTTP and getServiceIP over `Fleet` | `ServiceInvokeProofs` |
| `HttpConversion` | toHttpRequest and toHttpResponse, as pure operators | `HttpConversionProofs` |
| `RestApi` | a request through routing, binding, handler and answer, over `ServiceInvoke` and `HttpConversion` | `RestApiProofs` |
| `HttpServer` | the http servers, signals, the graceful shutdown, the hooks that set the status, runServer | `FireboxProofs` |
| `Firebox` | the server process: `HttpServer` and `ServiceInvoke` joined, and the health endpoints | `FireboxProofs` |
| `MachineResources` | what machines take from the host and give back, with the select and the cleanup of stopVMM | `CommandsProofs` |
| `Firectl` | the firectl command over one machine of `MachineResources` | `CommandsProofs` |
| `EchoServer` | the echo command | `CommandsProofs` |
| `Commands` | Execute: the three commands side by side | `CommandsProofs` |
| `MCVMMManager`, `MCRestApi` | symmetry, constraints and small sets for TLC | |

How they fit together. `VMMManager` describes the machines in detail, `Fleet` what
of them the rest may rely on; `FleetRefinement` ties the two, and
`FleetRefinementProofs` proves it. `ServiceInvoke` extends `Fleet`, so an invocation
meets every behaviour that the actors can show, and `RestApi` and `Firebox` extend
`ServiceInvoke`: the one looks at a request from the router to the answer, the other
at the servers, the shutdown and the exit around it. Both are proved to implement
`ServiceInvoke`, and `Firebox` to implement `HttpServer` too, so what holds there
holds in them. `MachineResources` looks inside a machine, at what `VMMManager` takes
for one step, and `Firectl` puts one such machine under a run.Group. `HealthProbe`
looks inside a tick of the probe, one step of `VMMManager` too, and shares
`ReadinessRules` with it.

### VMMManager and the code

| Variable | In the code |
|---|---|
| `db` | `VMMManager.db` |
| `mailbox` | the mailbox of the manager: `Stopped`, `Ready` and `Unready` with the vmid |
| `call` | where the StartVMM call that made the machine is: `waiting` on the future, `started` (the answer is there, the entry is not), `ok`, `failed`, `timeout` |
| `inbox`, `behavior`, `life`, `doing` | the VMMActor: user messages, behaviour, the actor system's view of it, and the message whose handler is inside `stopVMM` |
| `vm`, `addr`, `net` | the firecracker process (`reaped` once WaitFinished has returned), its address, its CNI network |
| `readiness`, `results` | the ReadinessActor and its mailbox |
| `phase`, `drained` | the process: serving, draining, inside Close, exited |
| `toStop`, `asked`, `answered` | the loop of Close |

One vmid stands for one request, its actor and its machine: vmids are fresh
UUIDs, and nothing ever starts a vmid again. The action names are those of the
code where it has one: `StartVMM`, `StartTimeout` and `AddEntry` are the three
points where the goroutine of a request can be overtaken; `ReceiveStart`,
`ReceiveStop`, `ReceiveFinished` and `ReceiveStopping` are the cases of the two
behaviours; `FinishStop` is the return of `stopVMM`, separate from its begin
because it can take the whole shutdown timeout; `TickerFunc`, `ReadinessReceive`
and `ManagerReceive` carry a probe result to the table; `CloseRequest`,
`CloseResult` and `Exit` are the loop of Close and the return of main.

External code is modelled from the way `src/` uses it: system messages of an actor
come before its user messages, a message to a dead actor is dropped, a stopped
actor waits for its children and is then gone, an answer to an expired future is
dropped, the network hands out an address that nobody holds.

`machine.Shutdown` is that of firecracker-go-sdk v0.22.0 (`go.mod:10`): it sends
Ctrl-Alt-Del and returns nil, and the machine may end later or never. So
`FinishStop` may delete the network of a machine that stays up, and
`ShutdownReturns` of `MachineResources` gives nil for one that is up. No property
and no theorem assumes anything else.

`FleetRefinement` maps a request by its `call`, a machine by `vm`, the table and its
flags by `db`, the addresses that were given back (`freed`) by `net`, and what
closing still has to drop by `toStop` with `asked`. Every mailbox and every handler
are stuttering, and of stopVMM only the deletion of the network is seen (`Free`):
after the end of the machine or, for one that Close drops, before it.

### ServiceInvoke, HttpConversion and RestApi and the code

`call`, `chosen`, `dest` and `peer` are the goroutine of POST /invoke: where it is,
the entry it has picked from its copy of the table, the ip of that entry, and the
machine that took the connection, which the code never learns. `GetServiceIP`,
`Connect`, `Answer` and `InvokeFails` are the points between which the table and the
machines change. The code has no timeout there, and the model no bound.

`HttpConversion` has the data: a text is one of a few names, chosen so that each
branch of the code changes or keeps it (a key in two spellings, a path that is plain,
to be escaped or already escaped, a body that is base64 or not). The maps of Go are
visited in every order (`Visits`), so a conversion gives a set of results. A visit is a
sequence of lists of values, its `Lines` are the calls of `Add`, and `HeaderOf` makes
them one after the other. `Conveys` does not mention that order: it asks for a one to
one map from the values of a header to the places of the JSON that give them.

In `RestApi` `stage`, `route` and `code` are the request in the generated layer; a
request that asks for a machine is named by that machine, an invocation by its call.
`Handlers` is the table of the router and `Responses` the statuses of the embedded
specification. `data`, `received` and `answer` are what the handler of an invocation
holds, and are forgotten when it returns. 400 stands for any error of a client, 401
to 422 and the redirects included.

### HttpServer, Firebox and the code

| Variable | In the code |
|---|---|
| `main`, `exit` | where runServer is: `status`, `listen` and `start` (inside Serve), `wait` (wg.Wait), `close` (the deferred functions); how the process ended, `fatal` being os.Exit |
| `listening`, `server` | the listeners that are open; per scheme the goroutine of Serve, from `go func` to wg.Done |
| `inShutdown`, `active`, `idle` | net/http: Shutdown was called on the server; its connections with a request in progress or due, and those kept alive |
| `notified`, `interrupt`, `interrupted`, `shutdown` | signal.Notify, the channel of capacity one, `Server.interrupted`, the closed channel `shutdown` |
| `stopper`, `success`, `pending` | handleShutdown, and the loop over `shutdownChan` |
| `shutter` | the goroutine that shuts one server down: `ok` and `failed` while it waits to send, `delivered` once its result was received |
| `grace` | the context with the graceful timeout |
| `ready`, `healthy` | what the status probes report |

`Accept`, `Request` and `Respond` are clients and net/http. A connection counts as
`active` from the moment it is accepted, because `http.Server.Shutdown` waits for
it although its request has not arrived. `ShutdownPolls` is one round of its loop,
which closes the connections that are kept alive and looks at the others; the
context ends with the graceful timeout or with the deferred cancel of
handleShutdown (`ContextDone`). `Collect`
is one turn of the loop over `shutdownChan`, and `FinishStopper` its end together
with the hook, because nothing happens in between. The wait groups and the
channels need no variable of their own: they are conditions on the goroutines.

`Firebox` adds `via`, the server whose connection a handler answers, and `told`,
the last answer of the health endpoints. It joins the two modules at three places:
a handler begins in a request that is active and the request stays active until the
handler has returned (`BeginHandler`, `HttpStep`); the deferred Close begins when
Serve has returned and main exits when Close has (`CloseBegins`, `CloseReturns`);
and machines do nothing more for a process that has exited. A health endpoint reads its
flag and answers in one step, so `HealthTold` does not look at answers that overtake
each other on their way to different clients. The `phase` of
`VMMManager` is what `main` comes to there.

### HealthProbe and the code

`ticker`, `inbox` and `timer` are the TickerActor with its receive timeout, `request`
the GET /health of the tick it is in, `listener`, `results`, `readiness` and
`reported` the ReadinessActor and the last message it has forwarded. `streak` is
history: the latest run of equal results. The timer fires in a goroutine of its own
and is armed again only when the handler has returned.

### MachineResources, Firectl, EchoServer and the code

`stage` is where NewVMM, Start and Stop of a machine are, `shutdown` its goroutine
that calls machine.Shutdown, `stopped` the channel of capacity one, `deadline`
the context. `sockets`, `networks`, `ifaceDirs` and `chroots` are what exists on the
host, and `failed` is history: the steps of stopVMM that failed. `config` is the part
of VMMConfig that decides: the jailer is used, its id is given, its base directory
is below /srv. All machines of a server share it.

In `Firectl` `group` is g.Run of oklog/run, `waiter` and `runner` its two actors,
and `assigned` says that `f.machine` is not nil, which control.Stop reads while
control.Start may be about to assign it. In `EchoServer` `err` is the named result
that the goroutine of ListenAndServe shares with serveEcho. `Commands` chooses one of
the three commands at the start, as Execute does.

Data that no property tells apart is left out everywhere: pids, log lines, error
texts, the ip of a report (it is the one of the entry), MMDS, drives, kernel
arguments.

## The runs

| Run | Instance | What it shows |
|---|---|---|
| `life` | 2 machines, 2 addresses, thresholds 1 and 2, at most 2 results of a probe under way | `TypeOK`; `NeverFalselyReady`: a `Ready` that was taken back is corrected by an `Unready` still in the mailbox; `LiveEntryKept`: no step takes a live machine out of the table while the server serves; `OrphanOnlyAfterTimeout`: a machine that runs and is neither listed nor about to be had a request that timed out; `AddressKept`: a machine that runs has its network and its address to itself until Close has asked it to stop; `StoppedOnce`; `DrainedExit`; `ImplementsFleet` |
| `liveness` | 2 machines, 2 addresses, no probes, no symmetry | `DeadMachineLeaves`, `NetworkCleaned`, `CloseTerminates` |
| `http` | all three schemes, 2 connections each | `TypeOK`, `ReadyWithdrawnFirst`, `UnhealthyMeansDown`, `NoConnectionDuringClose`, `SignalStops` |
| `firebox` | 2 schemes, 1 connection each, 1 machine, 1 invocation | `HandlersOutlived` and `NoMachineLeftListed`: what a graceful shutdown means for requests and machines; `ListenBeforeMachines`: log.Fatalf of a failed Listen leaves no machine; `HealthTold`: what clients of the health endpoints see is never taken back |
| `probe` | thresholds 2 and 3, at most 3 results under way | `TypeOK`; `OneTick`: ticks do not pile up behind a slow service; `StreakReported` and `ReportSettles`: the reports follow the service |
| `commands` | 2 machines, 2 socket names, with and without the jailer, its id and /srv; firectl with one of the machines; echo with 2 requests | `CommandsTypeOK`; `AskedOrForced`, `LeaksOnlyWhatFailed`, `ChrootIntact`, `StopReturns` of stopVMM; `NothingLeft`, `FirectlEnds` of firectl; `EchoDrains`, `EchoEnds` of echo |
| `requests` | 2 machines, 2 addresses, 1 invocation, 30 bodies and 6 answers that the conversions treat differently | `RestTypeOK`, `AstrayOnlyAfterFree`, `ChosenWasGiven`, `AnswerTellsOutcome`, `RequestConveyed`, `ResponseConveyed`, `AnsweredOnce` |
| `forced` (violation) | 1 machine | see the findings |
| `graceful` (violation) | 1 machine | see the findings |
| `served` (violation) | 1 machine | see the findings |
| `http_grace` (violation) | 2 schemes, 1 connection each | see the findings |
| `path` (violation) | 1 machine, 1 invocation | see the findings |

Why the bounds are enough. Machines meet only in the table, in the mailbox of the
manager, in the loop of Close and in the pool of addresses. Two machines give every
order of two entries in the first three. An address is reused by the second machine
after the first has ended, or while it still runs after its stop. `MaxInFlight`
bounds the results of one probe between the probe and the table: with two, a `Ready`
and the `Unready` that follows can be in the same mailbox, and with a failure
threshold of two the counter is used. The constraint `FewResults` of the run `life`
keeps those two to a machine that is alone, and leaves one result at a time to two
machines; it cuts nothing but more results at once, and no property of that run is a
liveness property. `PlainForMany`, of the run `requests`, has the bodies that are
not plain meet one machine: what the conversions do does not depend on the machines.
`MaxResults` is three so that a mailbox can hold a whole threshold. Everything else
is finite: a machine starts once, dies once and is asked to stop once. In
`HttpServer` the three schemes are all there are, signals are not bounded, and two
connections give one that is kept alive beside one in use. One invocation is enough
for `ServiceInvoke`, since invocations share nothing but the table, which they only
read. What these runs find of safety is also proved for any instance; of liveness it
is not. Every cfg says `CHECK_DEADLOCK FALSE`, because every model can stop:
processes exit, and a probe ends with its machine.

Fairness. Goroutines that can run and actors with a message do run: weak fairness of
the adds, the handlers, `stopVMM` (its select has a timeout), the loop of Close
(each future has a timeout) and the manager. Nothing is assumed of the outside: no
request need arrive, no machine need start or end, no probe need be answered, nobody
need stop the server. `StartTimeout` is not fair, as the answer may always come
first; `ReceiveStart` is not, as `machine.Start` runs with a background context and
has no bound. In `HttpServer` goroutines that can run do, and the context of the
shutdown expires; no request need end and no signal need come. In `HealthProbe` a
request ends, because its client has a timeout of three seconds, and the timer
fires. In `MachineResources` the context of stopVMM expires and Shutdown need not
return. That stopVMM returns (`FinishStop`, `CleanupCNINetwork`) takes for granted
that the CNI plugin does: `DelNetworkList` is called with context.Background
(`vmm.go:201`) and has no timeout of its own. In `Firectl` Start may hang and the
machine need not end; in `EchoServer` no request need end.

Every property is also checked against a plausible bug in the code it is about
(the operators named `Mut...`, each next to the definition it replaces): an
`Unready` or a `Stopped` that the manager ignores, an address read before the
start, a handler that does not become Stopped, a Close that only asks ready
machines or waits without a timeout, a stop that frees the networks of other
machines too; a hook that forgets the ready flag or runs after a failure, a
WaitGroup that only counts handleShutdown, a loop with one turn too many, a
shutdown without its timeout; a receive timeout armed before the handler, one that
is not armed again after a timeout; a table read without its ready flags, an entry
that outlives its machine; a bind error that goes on to the handler; a header that
replaces another; a jail shared by all machines, a cleanup that ends with its first
error, a timeout that waits for Shutdown all the same.

## The findings

- `ForcedBeforeExit`. `cmd/flags.go:16` says "Shutdown timeout before VMM is
  stopped forcefully", 30 s by default; `pkg/actors/manager/manager.go:97` gives
  every machine one second at the shutdown of the server. With a machine that
  needs longer the process exits while the actor waits in `stopVMM`: the machine
  goes on running, and its CNI network stays.
- `ReadyMachineIsServed`. The probe starts before `Started` is answered
  (`pkg/actors/vmm/vmm.go:105`), the entry is added after it (`manager.go:81`). A
  `Ready` that the manager handles in between finds no entry (`db.go:90`) and is
  lost; since the ReadinessActor reports changes only, the machine is never served
  until its probe fails three times and recovers. A machine usually needs longer
  to boot than the goroutine needs to add it, which hides the race; nothing in the
  code excludes it.
- `GracefulOrForced`. The same flag: "Shutdown timeout before VMM is stopped
  forcefully". `pkg/vmm/vmm.go:167` takes a nil of Shutdown for the end of the
  machine and logs "VMM stopped gracefully" (`vmm.go:171`), but Shutdown has only
  sent Ctrl-Alt-Del. Neither the timeout nor the forced stop follows: a guest that
  ignores the keys, or is slow, runs on while its network, whose address is free
  from then on, and its chroot directory are deleted. In the server this can only
  happen in Close, since every other stop follows the end of the machine
  (`AddressKept`); firectl then waits for the machine in its group (`FirectlEnds`).
- `GraceRespected`. `api/server/server.go:75` calls the graceful timeout the "grace
  period for which to wait before shutting down the server". `server.go:448` reads
  `success && <-shutdownChan`: after one server failed to shut down, for instance
  because its listener did not close, the results of the others are not waited for.
  Serve then returns as soon as their listeners are closed, and the process exits
  under requests that were well within the period. One enabled scheme is not
  affected.
- `EncodedPathKept`. `api/swagger.yaml:158` calls rawPath an "encoded path hint (see
  EscapedPath method)"; `manager.go:211` assigns it to `url.URL.Path`, which is not
  encoded, and `String` encodes it again: `/a%2Fb` arrives as `/a%252Fb`.

Two more things the models show that no line of the repository denies. With
`--jailer-vm-id` all machines of a server share one chroot directory, and the first
that stops takes it from the others: `ChrootIntact` is stated without it. A signal
while control.Start of firectl runs finds `f.machine` nil, so control.Stop does
nothing and g.Run waits for a machine that starts afterwards and that nobody stops;
`NothingLeft` and `FirectlEnds` name this case `missed`.

## The proofs

All theorems hold for any values of the constants under the named assumptions of
the modules, which TLC evaluates on every run.

`VMMManagerProofs`, for any machines, addresses, thresholds and bound on the results:

- `TypeCorrect`. `TypeOK` alone is not inductive: `AddEntry` enters the address of
  the machine, which is an address only once the machine has started. `TypeInv`
  adds `StartedHasAddress`: where the answer `Started` is, the address is too.
- `StopsOnce`. `StopInv` says that the behaviour Started stands for a network that
  is still held, and that a handler inside `stopVMM` runs in that behaviour. The
  behaviour is left by the same step that deletes the network, so nothing that
  comes later finds it.
- `AddressesKept`. `AddressInv` says that networks that are held, or leaked, have
  distinct addresses, that a machine that never started has none, and that one that
  is up without its network has been dismissed by Close. The last needs `CloseInv`,
  which follows a `Stop` from the loop of Close to the handler: no other stop
  reaches a machine that is up. It also needs `StopInv`: a stop of a network already
  deleted could turn it into a leaked one whose address has a new owner.
- `ReadyIsCurrent`. `NeverFalselyReady` needs `ReportsInOrder`: a `Ready` in the
  mailbox of an actor that is Unready again has an `Unready` behind it. When the
  manager takes the `Ready`, that `Unready` is what the invariant asks for.
- `LiveEntriesStay` and `OrphansTimedOut`. An entry leaves by a `Stopped` in the
  mailbox or by Close, so `EndInv` follows the end of a machine backwards: whoever
  has been told of it (`Ended`, or a `Stopped` on its way) was told by the goroutine
  whose WaitFinished has returned. `StartInv` says that only `Start` makes a machine,
  and that it is the first and the only message until then; it is
  needed because a second `Start` would bring up again a machine whose end has been
  told. `ListInv` says who is
  listed: the machines whose call returned `ok`, and while the server serves all
  those that are up.
- `DrainedExitLeaves`. `DrainInv` says that from the moment the server has drained
  no call is in progress, and that every machine that a call has made, that is up
  and holds its network is still in the snapshot, in a `Stop` or before one
  (`AboutToStop`). Once the loop of Close has ended the snapshot is empty.
  `HeldInv`, the converse of `StopInv`, says that a network is held only in the
  behaviour Started, so a `Stop` that is taken from the inbox does call `stopVMM`.

`FleetRefinementProofs` (`ManagerImplementsFleet`), step by step: `InitFleet` for the
initial state, and for each action a lemma that names the step of `Fleet` it is, or
shows that the mapped variables do not change. A machine that starts is `Boot`, which
needs `AddressInv` for an address that only machines whose network was deleted have
had; `AddEntry` is `List`; a start that fails, or that StartVMM no longer waits for, is
`Refuse`. The end of stopVMM (`FinishStopSeen`) is `Free`, or `End` if the network is
leaked, and needs `CloseInv` where the machine is still up. A `Ready` or an `Unready`
that the manager takes is `Mark`, a `Stopped` is `Unlist` and needs `EndInv` for a
machine that has ended; the end of a turn of the loop of Close is `Drop`. Since
`ServiceInvoke` and what extends it are stated over `Fleet`, their theorems need no
more of the actors than this one.

`FireboxProofs`, of `HttpServer`, for any subset of the schemes and any number of
connections:

- `TypeCorrect`, `HealthyUntilDown` and `ReadyFirst`. `StopperInv` ties the place of
  handleShutdown to its goroutines, and `LoopInv` is the argument about the loop:
  while no failure has been received, the turns that are left are as many as the
  results that are left, so the loop ends with success only when every result is in;
  each of them speaks of a server without connections, and it stays without, since
  Accept needs a server that has not been shut down.
- `ClosedToClients`. `CloseInv`: main is past wg.Wait only when every server has
  returned, and a server that has returned accepts nothing.
- `OnlyAnotherCutsGrace` and `OneServerKeepsGrace`: what is true of `GraceRespected`,
  which the run `http_grace` refutes. `GraceInv`: a Shutdown that has returned, whatever
  it returned, left no connection or found its context done, which for a result that
  the loop received means that the grace period was over; and the loop stops waiting
  only after it received a failure. So a request that is cut early belongs to
  another server than the one that failed, and with one server there is none.

`ServiceInvokeProofs`, for any machines, addresses and invocations: `AstrayAfterFree`
and `ChosenGiven`. Its invariant says of each invocation how its destination is the
address of what it has chosen, that a listed machine has booted and its request
has succeeded, that of two machines with one address one has given it back
(`Distinct`), and that until Close only machines that have ended do (`FreedEnded`).

`FireboxProofs`, of `Firebox`, for any schemes, connections, machines and invocations:

- `FireboxInvokes` and `FireboxServes`: every step of the process is one of
  `ServiceInvoke` or leaves its variables alone, and likewise of `HttpServer`. The
  invariants of both are then used as they are.
- `HandlersEndFirst`. `HandlerInv` relates two counts: the handlers of a scheme are
  finitely many and at most as many as its active connections. After a shutdown with
  success, within the grace period, `LoopInv` leaves no active connection, hence no
  handler.
- `NoneLeftListed`, from it: without a handler nothing enters the table, so while
  Close runs the table is a part of what it still has to drop (`ExitInv`), and it
  returns when that is empty.
- `ListenFirst`. `EarlyInv`: before main is past the listeners no server has a
  connection, hence no handler, hence no machine was requested (`RequestInv`).
- `HealthNotTakenBack`, which also needs that Serve has returned only after
  handleShutdown (`DoneInv`): the process is gone when the flag of health falls.

`HealthProbeProofs`, for any thresholds and any bound on the mailbox:

- `TicksDoNotPileUp`. `Token`: of the message, the request and the timer there is at
  most one at a time, and each of them becomes the next.
- `StreaksAreReported`. `Streak` splits the latest run of equal results in two: the
  end of it is what waits in the mailbox, and the rest has been counted, or the
  behaviour is already the one it argues for. With `Told`, a count below the threshold
  of the current behaviour and a manager that knows this behaviour, an empty mailbox
  leaves nothing to say. The lemma `ResultCounts` has what one result does.

`RestApiProofs`, for any machines, invocations, bodies and answers:

- `RestInvokes`, step by step, with the lemma `RestRouted`: what the router has matched
  fits what the request stands for. `RestAstray` and `RestChosen` carry the theorems
  of `ServiceInvoke` over to requests behind the REST layer.
- `StatusTellsOutcome` and `AnswersAreFinal`. `Answered` says that a status is there
  exactly when the request is over, and that machines and invocations begin only in a
  handler of their own operation; then whatever the manager does later leaves what
  the status told (`Settled`) as it is. A 200 of an invocation is about a machine that
  took the connection (`Connected`).
- `RequestsConveyed`. `Held`: an invocation is under way only in a handler, which has
  bound its body before, and what was sent was made of the body it still holds. Binding
  is the only step that gives a body, and it comes before anything is sent. The rest is
  `HeadersConveyed`, below.
- `AnswersConveyed`, with the lemma `HeadersRecovered`.

`HttpConversionProofs`, for any body of POST /invoke and any answer, under
`DataAssumption` (the types of models.HTTPRequest) and `ResponseAssumption` (that of
http.Header):

- `HeadersConveyed`, by two inductions. Over the calls of `Add`: `Traced` says that each
  value of the header comes from one line, in the order of the lines, and that each
  line with the name of the header has given one; `AddTraced` is its step. Over the lists
  of a visit: `Spread` says the same of the lines and the places in the lists
  (`SpreadGrows`, `FlattenSpread`); `ListsVisited` says that a visit has every list
  once, in whatever order its maps come. The two together are the one to one map
  that `Conveys` asks for. That the values of a list stay together needs both: the
  line after one is that of the next place of the list, has the same name, and so
  gives the next value.
- Induction. TLAPS cannot use the induction theorems that take a predicate, so the lemma
  `SetInduction` takes a set of numbers instead, from the least element of what is not in
  it (`WFMin`, `NatLessThanWellFounded`). That `HeaderOf` and `FlattenSeq` have values at
  all is also by this induction: a recursive function is a CHOOSE until one is shown to
  exist.
- `HeadersRecovered`: a header with one value is read off one map of the JSON and any
  other off the other, for any header.

`CommandsProofs`, for any machines, socket names and requests of echo:

- Of the machines, by one inductive invariant: `StopAsksOrForces`, since the channel
  reports success only of a machine that has been sent Ctrl-Alt-Del (`OkMeansAsked`),
  which needs that a machine is stopped once (`CalledOnce`); `JailsApart`, since ids are
  one's own unless given (`JailIds`); and `LeaksBounded`, since a chroot directory has an
  owner that has not been cleaned up (`ChrootOwned`) and the network of a stopped
  machine remains only with its failure (`NetworkLeft`). `CommandsUseMachines` shows
  that each command implements `MachineResources`, which carries all three over.
- `FirectlLeavesNothing`. `FirectlInv`: the actor of the machine has returned only
  after a Start that failed or a machine that is down, and past control.Stop the machine
  is stopped, has failed, or was missed. The lemma `EndIsFinal` keeps these, whatever
  the goroutines of the machine still do.
- `EchoAnswersFirst`. `EchoInv`: past Shutdown there is no request in progress or its
  second has passed, and no request begins after it.

Only model-checked: the liveness properties (`DeadMachineLeaves`, `NetworkCleaned`,
`CloseTerminates`, `SignalStops`, `ReportSettles`, `StopReturns`, `FirectlEnds`,
`EchoEnds`), which need fairness and ENABLED and are outside TLAPS. The five properties
that runs refute have no theorem, of course; `OnlyAnotherCutsGrace`,
`DrainedExitLeaves` and `StopAsksOrForces` say what is true in place of
`GraceRespected`, `ForcedBeforeExit` and `GracefulOrForced`.

## Plan

The safety properties of all passing runs are theorems. What is left:

1. a condition on the probe and StartVMM under which `ReadyMachineIsServed` holds, which
   needs the history of the reports that the manager has dropped;
2. `HealthProbe` as an implementation of the probe that `VMMManager` takes as given, in
   the way `VMMManager` implements `Fleet`.

## Not modelled

- Logging, the validators of the models (they accept everything) and the build
  scripts have no state that a property here could be about; of flags and
  configuration files only the values that decide something are kept.
- Code without a caller: `db.entry`, `IsReady` and `IsHealthy` of the status
  probe, the initial delay and Stop of the TickerActor, the url builders and
  `AddMiddlewareFor` of the generated layer.
- What Serve and Listen hand to net/http: timeouts, limits, addresses, TLS. A failure
  of the TLS configuration is a failure of Serve.
- The mutex of the combined probe, which has one probe to combine and whose flags
  the endpoints read without it; each flag is written by one goroutine at a time.
- The headers that net/http treats specially (Host, Content-Length), redirects and
  the connection pool of the default client.
- A machine forwards no signals of ours, but the SDK passes those of the process on
  to it; the end of a machine is therefore possible at any moment.
- What becomes of a machine after the process has exited, and goroutines that
  outlive the result that they were started for, beyond `StopReturns`.
- The exits by `Fatalf` leave every machine behind; `Firebox` shows that none
  exists before every listener is open, and after that a failure of a server
  is one of those exits.
