# A formal model of ProxiPort

ProxiPort is a remote-access server (`proxiportd`) and an agent (`proxiport`). An agent keeps an SSH
connection over a web socket to the server. Over it the server opens tunnels on ports of its own,
runs commands and scripts, pushes files and collects measurements; users reach all of it over a REST
API and web sockets. Records live in SQLite and JSON files, everything about connections in memory.

This directory holds TLA+ modules of the server and the agent, TLC configurations that check them on
small instances, and TLAPS proofs that hold for every instance. `PROJECT.json` lists components, runs,
mutants (a plausible bug for each property, which the property must catch), the source lines each
definition stands for, findings, hazards and theorems. Sources are named relative to the repository's
root; the map covers 32.2 % of the implementation's lines.

```
tlc -workers 2 -config Tunnels.cfg MCClientTunnels     # one run
tlapm JobsProofs.tla                                   # the proofs of one module
```

1. The parts and how they interact, 2. How the models are written, 3. Modules and runs, 4. Proofs,
5. Findings, 6. What the models show besides, 7. What is not modelled.

## 1. The parts and how they interact

A web socket from an agent becomes an SSH connection (`handleWebsocket`); its first request registers
the client (`StartClient`), which needs the client's lock, the table, the tunnels of the earlier
session and, for each of them, a port from the distributor. While the connection is served, its
requests (pings, reports, measurements, results of commands) are handled one after the other in one
goroutine, and API requests, the status check, the purge and timers act on the same client from
others. Commands go out on the connection and come back as separate messages; the table of jobs is
the only thing that relates them. The cron fires schedules, which start the same jobs. Tunnels with a
subdomain have a route in Caddy, which is changed over HTTP and may refuse. API requests pass the
login, its second factor, sessions and bans first. The other services (vault, library, users,
credentials, uploads, measurements, audit log, notifications) meet only in the process they share.

What is hard about it:

- A `Client` is a pointer that is reused by a reconnect, replaced by a registration after a deletion,
  and kept by goroutines that looked it up earlier.
- Locks protect single maps, or StartClient and the API's tunnel requests each on their own; nothing
  excludes a reconnect and an API request, a teardown and a reconnect, or two updates of a schedule.
- State is read, the network is waited for, and the state is written: pings, run requests, lists of
  bound sockets, pending logins. A handler checks with one statement and writes with another.
- The table is written first and the memory second, or the other way round; either can fail, and a
  crash keeps only the table or a half-written file.
- Replies are lost with a connection while the agent carries on.
- Timers (auto-close, idle, status check, purge, cron, expiry) race with requests.
- Things end: ports, queues, the done channel, the number of writes before a socket is closed.

## 2. How the models are written

A variable per piece of state, an action per step that other goroutines can come between: what the
code does under one lock, in one SQL statement or in one call of an external service is one action,
and a goroutine's `pc` says where it is. Data is reduced to what the properties tell apart: a client
is an id, a heap object is named after what allocated it, a tunnel is a number, a cron expression a
model value, a hash the tuple it is computed from, an encrypted text the text and its key.

Where installations differ in what can happen, a variable `deployment` (in the services `setup`) says
so. It is chosen in the initial state from the constant `Deployments` and never changes: which
operations arrive and how often, which faults may happen, what is configured. One run so covers
several kinds of installation, and a property that needs, say, connections that hold names that part
of the deployment in its statement. `MC*` modules define the deployments and the other values of the
constants and nothing else. Definitions marked as mutants stand before the definition they vary; no
specification uses them.

Bounds are constants named `Max...`, fields of the deployment such as `sends`, `tunnels` and
`maxEntries`, or the sizes of the sets of goroutines, clients and ids. They bound clocks, numbered
objects, queues, faults and the requests that arrive.

## 3. Modules and runs

| Run | Module, configuration | Properties |
|---|---|---|
| `ports` | `MCPortDistributor`, `Ports.cfg` | `ExclusiveHandOut`, `ReservedOutOfPool`, `ImplementsLease` |
| `sessions` | `MCClientSession`, `Sessions.cfg` | `SerialInv`, `OneLiveSession`, `LiveIsCurrent` |
| `sessions_status` | `MCClientSession`, `SessionsStatus.cfg` | `StatusFollows` |
| `tunnels` | `MCClientTunnels`, `Tunnels.cfg` | `TunnelsListed`, `TerminateWhole`, `TunnelsSurvive`, `RequestsFinish` |
| `jobs` | `MCJobs`, `Jobs.cfg` | `InSeries`, `ResultsStored`, `SocketCountsFinals`, `RunsEnd` |
| `jobs_early` | `MCJobs`, `JobsEarly.cfg` | `GivenAccepted`, violated: section 5 |
| `schedules` | `MCSchedules`, `Schedules.cfg` | `EntriesMatchRows`, `RunningHoldsNext`, `KeepsRunning` |
| `agent` | `MCAgent`, `Agent.cfg` | `PrivacyFirst`, `ReportersFollow`, `Reconnects`, `UpdatesReachServer` |
| `agent_switchback` | `MCAgent`, `AgentReturns.cfg` | `SwitchesBack`, violated: section 5 |
| `access` | `MCApiAccess`, `ApiAccess.cfg` | `SpentStaysSpent`, `LimitsHold` |
| `services` | `MCServices`, `Services.cfg` | sixteen, in the table of the services below |
| `audit_rotation` | `MCServices`, `AuditRotation.cfg` | `RotationSurvives`, violated: section 5 |

Each property is stated in words at its definition. Every property of a passing run is broken by a
mutant of the code it is about.

### PortDistributor, PortLease: local ports

`server/ports/port_distributor.go` and its callers in `server/clients/client_service.go`. `pools` and
`reserved` are the distributor's maps. `refresh` is two steps because `ListBusyPorts` runs before the
lock is taken: `snap` is the list a caller brings to its commit. Callers are goroutines that start
tunnels; they refresh, take a random port or reserve a pinned one, fail or bind, and close.
`PortLease` is the abstract promise: a port belongs to one caller until it gives it up.

The deployments are tunnels of one protocol, of both at once, pinned ports with overlapping refreshes,
and other programs on the machine. A reserved port is in no pool it could be handed out from
(`ReservedOutOfPool`); where agents connect one at a time, with random ports of one protocol and no
other program on them, no port is handed out twice (`ExclusiveHandOut`) and the distributor implements
the lease. With agents that connect together a busy list is stale when it is applied and a port can be
handed out again; nothing is claimed there but `ReservedOutOfPool`. Three callers and two ports are the
smallest numbers with a caller that holds a port, one that is about to bind the same and one that
refreshes, and with a pool that runs out. Callers and ports are symmetric.

### ClientSession: agents connect, reconnect and leave

`server/client_listener.go`, `server/clients` (`client_service.go`, `cr.go`, `sqlite.go`, `init.go`,
`cleanup.go`), `server/client_status_check.go`. A connection `k` has a goroutine `k` (handleWebsocket:
`StartClient`, waiting, the comparison of connections, `Terminate`) and a goroutine `Req(k)`
(handleSSHRequests); workers are API requests, the status check and the purge. `obj` are the Client
structs, `mem` the repository's map, `store` the table; a save is two steps, the table and then the
map, and the first can fail. `lock` is `startLocks`. `Crash` loses everything but the table and the
agents' processes, and runs `LoadInitialClients`.

Restarted, copied and reconnecting agents, failing saves, crashes, reports, ACL changes, repeated
requests, deletions and purges are the deployments. Among agent processes that connect once, no two
live connections serve one client id (`OneLiveSession`, also where a client is deleted as it
disconnects), and the client of a live session is the one that is found, shown connected and stored
(`LiveIsCurrent`, `SerialInv`). With processes that reconnect, deletions, purges and a status check
that sets a client aside two sessions can be live; the comment on `OneLiveSession` names the cases.
Under the status check, a client whose connection is gone does not stay shown as connected, and a live
one that a late step of its earlier connection marked disconnected is shown again (`StatusFollows`).
Two connections give every pair "old teardown, new start"; the third adds one refused or registered in
between. Fairness, for `StatusFollows`: goroutines proceed (weak, per goroutine), agents ping
(`keep_alive`), and the status check comes to every client again (strong, because a client is due and
not due in turn).

### ClientTunnels: the tunnels of one client

`server/clients/client_service.go`, `server/clients/clienttunnel`, `server/api_handler_clients.go`.
`tun` are the tunnel objects with their listeners, connections and proxy, `list` is `client.Tunnels`,
`routes` the routes in Caddy, `opLock` is `tunnelOpLocks`, `gen` the connection the client holds.
Processes are API requests, the auto-close and idle goroutine of each tunnel and the reconnect. A step
of `Terminate` is one call on one protocol; `stopFn` is set and reset as in `tunnelTCP`.

Requests create and delete, timers race them, agents reconnect: list, listeners and routes agree, as
long as Caddy answers (`TunnelsListed`). `Terminate` loses one half of a tunnel only to a connection
accepted between its question and its first step, and requests and reconnects never call a stopFn that
was reset (`TerminateWhole`; failing sockets and, for the second part, idle timeouts left out). A
completed reconnect has every captured tunnel without a subdomain back (`TunnelsSurvive`), and every
request answers and releases its lock, also while Caddy refuses (`RequestsFinish`). Deletes come with
and without `force` for the plain and the two-protocol remote, with it for those with timers. A remote
with two protocols, a plain one, one with a route and timers and a pinned one with a route cover both
duplicate checks and all ways to end a tunnel; two connections of the agent are one reconnect.
Fairness: the goroutine of a request proceeds, a cancelled listener closes and so do its connections.

### Jobs: remote commands

`server/api_helper_jobs.go`, `api_helper_commands.go`, `api_handler_commands.go`,
`server/client_listener.go` (results), `client/command.go`, `share/ws/websocket.go`. A run is one
request (single, multi or web socket), `exec` and `pos` are its loop, `call` is `createAndRunJob` of
one target, `cmd` and `msg` the command on the agent and its result under way, `row` the table, `chan`
the done channel, `left` the writes before the socket is closed.

Where connections, table and server hold (`Reliable`): one host after the other and none after a
failure with `abort_on_error` (`InSeries`), a started command has its row once its request returned
and a handled result is in it (`ResultsStored`), the socket has counted down only when every target
has its final message and, while its handler runs, has done so by then (`SocketCountsFinals`), every
run ends (`RunsEnd`). A result that overtakes the insertion of its row is refused; `ResultsStored`
and `RunsEnd` name that as an exception, and `jobs_early` is about it. With broken connections,
failing statements and restarts, in pairs, the done channel has room for each result
(`ResultsStored`; the code drops one otherwise); nothing else is claimed there: with a lost reply the
loop goes on while the command runs, and a target can be counted twice. Two targets are the smallest
series; the third client is paused. Fairness: goroutines run, the agent answers requests and stops
observing a command at its timeout (`observe` always ends).

### Schedules: the cron

`server/api/jobs/schedule`, `server/api_handler_schedules.go`, and the job loop of
`server/api_helper_jobs.go` as far as the overlap check sees it. `row` is the table of schedules,
`entries` what the cron library holds, `mapping` the map from schedule to entry. A request is its
check, its statements and its change of the cron, which other requests can come between; a run is
`Manager.run` and the loop it starts; `tbl` and `multi` are the rows of its jobs.

Requests interleave, statements fail, the server restarts: a stored schedule has an entry that fires
it and that a later request finds, and with one request at a time the cron holds nothing else
(`EntriesMatchRows`). A command that was on record when the minute came, and has neither finished nor
outlived its timeout, holds up the next run of a schedule without `overlaps` (`RunningHoldsNext`).
Results that never come do not silence a schedule (`KeepsRunning`).
`maxEntries` bounds the entries added since the start. Fairness: a request and a run proceed, where a
run's job is answered, ends or becomes overdue (the query of `CountJobsInProgress` drops jobs past
their timeout), and the cron fires an entry again and again (strong: both modelled runs may be busy).

### Agent: the connection loop and what runs beside it

`client/client.go` (the loop), `client/transport`, `client/updates`, `client/monitoring`,
`client/ip_addresses`, `client/watchdog.go`. `candidates` is the chain of transports and servers,
`loop` the goroutine of `connectionLoop`, `conns` the SSH connections it and the switch-back poller
make, `world` what each candidate answers at the moment. A sweep over the candidates, the handshake
with its pin, the connection request with its kinds of refusal, the hand-over to the reporters,
keep-alives, the back-off and `max_retry_count` are actions; so are the faults of the network.

No weaker transport is used before every server failed over the stronger ones (`PrivacyFirst`); the
reporters follow the connection (`ReportersFollow`); an agent without a limit is connected again and
again, one with a limit ends (`Reconnects`); the server has the latest updates status again and again
(`UpdatesReachServer`). Two transports with two servers, a proxy with a fallback server, a retry limit,
each reporter by itself, and configurations without a usable candidate are separate deployments. Four
connections allow one to be lost and replaced while two pollers are at work. Fairness: the loop, the
keep-alive, the pollers, the fetcher and the sender of updates are goroutines that proceed (weak);
nothing is assumed of the network.

### ApiAccess: logins, sessions, API tokens, tickets

`server/api_handler_login.go` and `_verify2fa.go`, `2fa_auth.go`, `totp.go`, `server/api/session`,
`server/bearer`, `server/api/authorization`, `api_ws_ticket.go`, `share/security`, the handlers that
change users. A request is a handler with its local variables (`req`), which other handlers can come
between at every statement. `table` and `cache` are the API sessions, `pending` the logins that wait
for a second factor, `lastTotPStep` the last accepted time step per user, `bans` the ban lists,
`tokens` the API tokens, `tickets` the one-time tickets. `ghost` is history for the properties.

What was used up or deleted opens nothing again (`SpentStaysSpent`: time steps of an app while the
process lives, tickets, API tokens; codes that were sent are left out, see section 6) and wrong codes,
failures of an address and outstanding tickets stay within their limits (`LimitsHold`). Nine
deployments: sent codes, an app with three kinds of use, sessions with a restart, rotation of passwords
from two addresses, administration, sockets of two users, API tokens. Two requests at a time are the
pairs that race; the limits are 2 and 3 so that they are reached. Requests are interchangeable.

### The services

`Service` has what they share: requests `reqs` that run side by side, one step per statement, file
operation, lock or message; `db`, `mem`, `ghost` and the fixed `setup`; a budget of requests and
faults. `MCServices` extends them all; each initial state is one deployment of one service. Two
requests, two agents and one fault are the bounds.

| Module | Models | Property |
|---|---|---|
| `Vault` | `server/vault`: initialise, unlock with re-keying, lock, values | `ValuesReadable` |
| `AtRest` | `share/enc`, jobs, users, stored clients: sealing at start and on every write | `ValuesReadable` |
| `Library` | scripts, commands, client groups, stored tunnels | `LibraryKeepsRows` |
| `UserStore` | `server/api/users`: database, file with cache, static | `UsersAsChanged` |
| `Credentials` | `server/clientsauth`, logins of agents, pairing | `CredentialsHold` |
| `Uploads`, `Destinations` | `server/upload.go`, `staged_uploads.go`, `client/upload.go`, protected paths | `PushWholeOrNot` |
| `Measurements` | `server/monitoring`: queue, insert, clean-up, reads | `MeasurementsKept` |
| `AuditLog` | `server/auditlog`: chain, rotation, retention, redaction, lists | `AuditKept` |
| `Notifications` | `server/notifications`: dispatch, scripts, mails, outcomes | `OutcomesStored` |
| `Configuration`, `Lifecycle` | `chconfig`, `server.go`, `cmd/proxiportd`: check, start, stop | `AcceptedConfigStarts`, `ShutdownCompletes` |
| `AgentConfiguration` | the agent's configuration, start and dialers | `AcceptedConfigStarts` |
| `Queries`, `ClientGroups`, `Listing` | list requests, groups, access to clients and schedules | `FiltersAgree`, `OwnerReaches` |
| `Datagrams` | UDP tunnels at both ends, access lists | `DatagramsReturn` |
| `Commands` | who may start which command where, jobs tables | `CommandsAccounted` |
| `Execution` | the agent runs a command and reports it | `CommandsAccounted` |
| `TunnelOrders` | the create request, ports, tunnels a reconnect brings back | `TunnelsAsOrdered` |
| `EndToEnd` | the agent's SSH server for end-to-end forwards | `EndToEndHolds` |

`Queries`, `ClientGroups`, `Destinations` and the two configuration modules are pure algorithms. They
are checked against definitions of what is meant: the filter of a list against the pages that are
shown, the pattern of a group against its members, every configuration that differs from the default
in two settings against its start, every destination against where its links lead.

## 4. Proofs

TLAPS checks the theorems for every value of the constants: any number of callers, ports, connections,
clients, runs, targets, schedules, handlers, users and limits. The constants are assumed to be of the
right kind: `ConstantsAssumption`, `DeploymentsAssumption` and `IdsAssumption` (sets of goroutines are
disjoint, `None` is no value, deployments have their fields, ids are finitely many) and
`LimitsAssumption` of `ApiAccess` (finitely many handlers at a time; both limits of failures are
positive, as `api_listener.go` makes a ban list only for `max_failed_login > 0`). TLC evaluates them
in the runs. Each inductive invariant was an invariant of a TLC run before it was proved.

### Ports (`PortDistributorProofs`)

- `TypeCorrect`: the state keeps its type, and a caller with a listener or a hand-out has a port.
  `HasPort` is part of the induction because a listing takes the ports of the listeners.
- `ReservedOutOfPoolAlways`: where all tunnels use one protocol a reserved port is in no pool. It is
  inductive with the types, since each of the three operations changes both sets under one lock.
- `ExclusiveWhenSerial`: in the serial deployment (one protocol, random ports, one refresh at a time,
  no other program) no port belongs to two callers. This is not inductive: a refresh commits a listing
  taken earlier. `LeaseInv` adds what that listing can still say: a port handed out and not yet bound
  is reserved and not in the listing, so the commit keeps its reservation, and an open one is in the
  listing or reserved, so it does not return to the pool.
- `LeaseRefinement`: the serial deployment implements `PortLease`, step by step from `LeaseInv`.

### Sessions (`ClientSessionStartProofs`, `ClientSessionProofs`)

`SerialSessions` says that every connection is of an agent process of its own (an agent restarted
rather than one that reconnects), that disconnected clients are kept, and that nothing deletes them.
Saves and tunnels can fail, agents and API users change the client object, the server can crash.

- `SerialInvariant`: `SessionInv` always holds there;
- `LiveIsCurrentAlways`, `OneLiveSessionAlways`, `ConnectedHasConnectionAlways`: consequences.

None of these is inductive by itself. `LiveIsCurrent` speaks of a session after `StartClient`, and what
makes it true is decided before: the lookup under `startLocks` is still right when `StartClient`
registers (`RegisterOK`), from there on no other object has the id (`StartOK`), no connection of the
same id is serving meanwhile (`AloneOK`, which rests on the check for a connected client and on
`LockOwner`), and everybody else who saves an object holds the one in the map (`HoldOK`; a late save of
another object would put that over the new one). `MemOK` and `QueueOK` carry the fact across a crash
and to requests still queued. One lemma per action; a save in `StartClient` and one elsewhere are two.

### Jobs (`JobsStateProofs`, `JobsProofs`)

- `InSeriesAlways`, `ResultsStoredAlways`, `SocketCountsFinalsAlways`: the three invariants of the run
  `jobs`, for any runs with any targets.

The invariant is `JobsInv`: `Base` and `Room` in every deployment, `Steady` where connections, table
and server hold. `Room` bounds the done channel by the results that were handed over, which are of
different targets, so the next one finds room whatever is lost. `Steady` is what sequential loops rely
on without saying so: `Phases` (request, answer and row of a job follow in this order, and its result
comes after the row or is refused),
`Ahead` (nothing is dispatched before the loop is there), `Counted` (`left` is the number of targets
without a final message: a cardinality, since the code only ever decrements) and `Serial` (a target
the loop has left is over, and the channel holds the current target's result or nothing). The last is
why a late result cannot be taken for that of the next target.

### Schedules (`SchedulesProofs`)

- `EntriesMatchRowsAlways`: the table and the cron stay in step, with interleaved requests, failing
  statements and restarts.
- `RunningHoldsNextAlways`: the action property `RunningHoldsNext`, for any number of runs and targets.

`CronInv` adds to the property which row a request under way has found (`RequestsFit`), that the
number kept for a schedule is never that of an entry of another (`Mapped`), and, with one request at a
time, that every entry is the one kept (`InStep`). A restart numbers the entries anew, in an order
nobody fixes; that they are different is a lemma about injections. `RunningHoldsNext` needs `Records`:
a run that has passed the query of `CountJobsInProgress` found none of the commands it had seen on
record (`Found`), rows are written only by runs past their start, and a command that ended does not
run again, so what was not counted cannot be in progress when the run starts. `ScheduleInv` is both.

### API access (`ApiAccessLoginProofs`, `ApiAccessProofs`)

- `SpentStaysSpentAlways` and `LimitsHoldAlways`, for any number of handlers at the same time, users,
  addresses, pending logins, tokens, tickets and limits; `AccessInvariant` is the induction.

`AccessInv` has one part per resource. `TokensOK`: a deleted API token has no row or one without a
hash, and a row about to be inserted with a hash has a number nobody else has; this is what makes a
late PUT harmless. `LoginsOK`: the wrong codes compared with a pending login are its failures, and
together with the handlers that still compare they stay below `maxTwoFAFailures` plus the number of
handlers. The bound is a sum with a cardinality because a handler reads the login, lets others in and
compares later. `StepsOK`: no accepted step is after `lastTotPStep`. `BansOK`: every wrong code is
among the failures counted for its address, which stay below the limit. `TicketsOK`: a redeemed
ticket is not in the store, and both limits hold, counted without the expired. The forty-eight kinds
of statement are handled in groups: what a handler may do to its own state (`Moves`), which of the
resources it leaves alone (`TokensSame` and so on), and a lemma for each statement that does not.

### What is only model-checked, and why

- Liveness (`StatusFollows`, `RequestsFinish`, `RunsEnd`, `KeepsRunning`, `Reconnects`,
  `UpdatesReachServer`) and `ShutdownCompletes`, which asks what is `ENABLED`: out of the prover's
  reach.
- `PrivacyFirst`: the candidates are built with `FlattenSeq` and `SelectSeq`, which are recursive over a
  sequence; what they compute for every input needs induction over data.
- `OneLiveSession` where clients are deleted as they disconnect goes beyond the theorem.
- `TunnelsListed`, `TerminateWhole`, `TunnelsSurvive` and `ReportersFollow` have no proof yet.
- The properties of the services quantify over texts, paths, files and configurations; their modules
  share records whose fields differ from service to service, and `AuditLog` has a recursive operator.

## 5. Findings

- `agent_switchback` (`SwitchesBack`): when the connection to a fallback server breaks while the poller
  for the main server is in its handshake, the connection the poller makes stays in `switchbackChan`.
  The poller of the next fallback connection then waits at the full channel for ever, and the agent
  stays on the fallback server although the main server answers (`client/client.go:543`);
  `docs/anonymous-transport.md` says that it goes back.
- `audit_rotation` (`RotationSurvives`): after a rotation that could not reopen the database the next
  rotation calls `Close` of a nil provider and ends the process (`server/auditlog/rotation.go:121`),
  where the comment at line 64 promises an error.
- `jobs_early` (`GivenAccepted`): `createAndRunJob` inserts the row of a job after the agent has
  answered (`server/api_helper_jobs.go:94`, `143`), so the result of a command that ends at once can
  come first. `saveCmdResult` then refuses it as one of a job the client was not given
  (`server/client_listener.go:797`) and the job stays "running". The comment at lines 780 to 783 says
  that the server creates a job row before dispatching it.

## 6. What the models show besides

### Where the code does less than a document or a comment says

None of these has a run of its own. Each is an exception that the statement of a property names, so
that the model shows both: it happens, and nothing beyond it does.

- *Tunnels that lose options* (`TunnelsAsOrdered`). `sanitizeAgentRemotes` is applied to re-established
  tunnels too (`client_service.go:406`), so that one created through the API loses its owner, basic-auth
  credential, `skip_tls_verify` and subdomain with a reconnect. `client_service.go:1226` says that this
  takes nothing away from a working deployment, `docs/operator-runbook.md:379` that the server
  re-establishes the tunnels with no operator action.
- *Half a tunnel* (`TerminateWhole`). A connection accepted between the question to both protocols and
  the first termination leaves the TCP half alone; `tunnel.go:58`: "stops every protocol, or none of
  them".
- *Schedules that overlap* (`RunningHoldsNext`). A run whose command the agent has not answered for, or
  whose row could not be written, and a run between two targets, are not counted as in progress;
  `Schedule.yaml:66` documents `overlaps` as whether to start another execution "when previous is still
  in progress".
- *Pushes that share an id* (`PushWholeOrNot`). `IsStaged` sees a push only once an agent is entitled to
  its file, so that two pushes with one id can pass it together and the agents of one get the payload of
  the other. `upload.go:118` and `staged_uploads.go:66` say that the second one is refused.
- *Sent codes* (`SpentStaysSpent`). Two handlers that read a sent code before either consumed it are
  both let in; `2fa_auth.go:277` calls the code "Single-use".
- *Filters* (`FiltersAgree`). `matches_filter.go:80` puts a value with a wildcard into a regular
  expression without escaping the rest: a dot shows other entries as well, and with a plus sign entries
  that are meant may be missing. In the database only the percent sign is escaped, so `_` accepts any
  character, plain values are compared with case, and `and(...)` is ignored. `clients.yaml:27` promises
  `*` wildcards and text matching without case, and nothing else that is special.
- *Configurations that do not start* (`AcceptedConfigStarts`). `check-config` accepts settings that only
  the constructors look at, among them intervals that are zero or negative and end the process;
  `Unchecked` in `Configuration` lists them.

### What else follows from the code

Where one of these limits a property, the property's statement says so.

*Sessions.* A late teardown or a failed ping of an earlier connection may mark a reconnected client
disconnected; the next ping or the status check heals it. A purge may delete a client that reconnects
while it works through its list. Two ids may register with one credential at once although
`auth_multiuse_creds` is off: the check is under the lock of each id. A save of an object that was
looked up before a deletion brings the client back.

*Tunnels.* The second loop of `getTunnelsToReestablish` compares no protocols. A tunnel ordered while
the agent is asked about the old ones is released and not started again. A create request that overlaps
a reconnect may leave two tunnels to one remote; a reconnect that fails half-way leaves a partial list;
a tunnel whose save fails keeps running; a remote taken out of the agent's configuration keeps being
re-established. With Caddy refusing a route the listener stays open. The goroutine of an idle timeout
may call the stopFn that a request has reset, which panics. `idle_timeout_minutes` wraps at its width.

*UDP.* A datagram that arrives as the agent closes an idle peer ends the channel while the tunnel stays
listed; an answer that arrives then is lost (`DatagramsReturn` is about what reaches the server).
`SetTunnelACL` stores the text before it parses it.

*Commands.* A target that is not connected is stored as failed and does not abort a run with
`abort_on_error`, as the code intends. A right is checked when an order arrives, not again when its
commands start (`CommandsAccounted` measures them so). A lost reply
counts as an error, so a sequential run goes on while the command runs. A single command whose row
cannot be stored runs unknown to the table and the audit log; scheduled runs are not audited. After a
failed read of the client groups three entry points answer with the error but go on without groups.
At the agent: a failed stream channel leaves the script file and the other channel; a line of output
longer than 64 KiB ends the summary's scanner, and further output then blocks until the timeout; a
result sent at the timeout may hold part of the last chunk.

*Schedules.* Two updates at once may leave an entry that fires until a restart; a run under way writes
rows for a deleted schedule.

*API access.* A pending password is
attached to whatever login is pending. Two concurrent enrolments of an app both answer. A PUT of an API
token that races its DELETE stores a row without a hash. `lastTotPStep` is lost with the process.
Deleting a user leaves the user's sessions until they expire.

*Stores.* A users file whose write fails or is cut off reads as no users, and the server goes on with
those of its cache; SIGUSR1 reloads it without the mutex. The credentials file has no lock. The upgrade
of a plain text credential compares nothing: one that was deleted and added again meanwhile gets its
old password back. Two administrators who unlock an empty vault of the old format at once re-key it
twice, and what is stored then may be unreadable once it is locked. Output saved in the clear before
there was a key, and shaped like an envelope, stays unreadable. A failed encryption of older rows is
logged and the start goes on, a failed one of TOTP secrets refuses the start. Stored tunnels of a
purged client stay. Measurements still queued at a stop are written with a cancelled context. A
notification text of 1001 to 1999 characters panics in `repository.go:122`.

*Uploads.* A copy whose staged source cannot be removed is reported as an error although the file is in
place. A lost connection is recorded as a failure though the agent may finish. A staging that fails, at
the copy or at the digest, leaves the staged file.

*Lists.* The database matches `""` with NULL; lists held in memory do not. Schedules are paged before
they are filtered by user, and a schedule whose groups cannot be read is left out of a list that
answers 200 (`OwnerReaches` excepts it). A client that joins a group or takes a tag of a schedule locks
out an owner who may not use it. The tag operator "AND" passes validation and
matches nothing.

*Configuration and life cycle.* A listener that fails on its own while it is being closed may leave its
closer blocked (`ShutdownCompletes` excepts it). `monitoring.db` and `api_token.db` are never closed.
An error of the API's start is overwritten by Caddy's. Without an API a signalled stop ends with an
error. `max_token_lifetime` wraps. The agent accepts a chain of only "direct" with only .onion servers;
an empty fallback server becomes `ws://:80`; directories are made before the configuration is checked;
a host key file left empty by a crash keeps end-to-end forwards off until it is removed.

## 7. What is not modelled

`PROJECT.json` lists each part with the reason. Byte copying (TCP streams, `share/pipe.go`), generated
migrations, logging, the operating system's counters and package managers, the frontend and the ACME
and OpenID Connect exchanges have no protocol state of their own; Caddy is an external service that
answers or refuses; alerting is scaffolding that answers "disabled".

Within the modelled parts: the wording of answers and logs, licences other than paused clients, the
content of reports and attributes, standard error and encodings of commands, what graphs compute,
password strength. Of upload destinations only clean rooted paths are modelled: no drive letters, UNC
names, case folding, links below a wildcard, or links changed between check and rename. The SSH
handshake, ciphers and key derivation are left to their libraries; a statement of SQLite is one step
that may fail. Access checks that refuse a request before it changes anything are left out as steps
except where a property is about them (`Commands`, `Listing`, `ApiAccess`).
