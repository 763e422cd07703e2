# Verification of rsync-gateway

TLA+ models of rsync-gateway, the TLC runs that check them on small instances,
and TLAPS proofs of what they check for every value of the constants.
`PROJECT.json` holds the exact correspondence: for every definition the source
lines it translates, for every run its properties, for every property a mutant
(a plausible bug, written next to the definition it changes) that TLC refutes,
and for every hazard the properties that would catch it.

## 1. The system

rsync-gateway is a reverse proxy for the rsync daemon protocol. It exists as a
stand-alone program (`rsync-proxy`, configured by a TOML file) and as a
Kubernetes Gateway API implementation (`rsync-gateway`, configured by cluster
objects), which embeds the same proxy server.

| Part | Source | State | Operations | Model |
|---|---|---|---|---|
| admission queue | `pkg/queue/queue.go` | limits, active list, FIFO of waiters, a one-slot status channel per handle | New, SetMax, Acquire, receive from C, Release | `QueueOps`, `Queue`, `AdmissionControl` |
| admission of connections, reload | `pkg/server/server.go` | upstream and queue tables, per-IP counters, one goroutine per connection | relay up to and after the relay phase, updateUpstreamQueuesLocked | `ProxyServer` |
| handshake | `pkg/server/server.go`, `utils.go` | line buffer, version, module, bytes on both connections | readLine, greetings, message of the day, PROXY header, module request | `Session` |
| relay phase | `pkg/server/server.go` | two copiers, two connections, watcher | copy, close, time out, await both | `RelaySession` (extended by `Session`) |
| relay watcher | `pkg/server/server.go` | last activity, throughput sample | ticker, three limits | `RelayWatcher` |
| module lists | `pkg/server/server.go` | none | listAllModules, discoverModulesFromUpstream | `ModuleListing` |
| data plane and main | `internal/dataplane`, `cmd/rsync-gateway`, Listen/Run/Drain of `pkg/server` | servers, sockets, tables, connection counts, error channel | New, Start, Apply, Drain, Close, signal | `Dataplane` |
| route binding, backends | `internal/gateway` | the cluster objects | ClaimClasses, BindRoutes, resolveModuleConflicts, ResolveBackends | `RouteBinding` |
| validation and translation | `api/v1alpha1`, `internal/translate`, loadConfig | none | Validate, DurationSecs, ProxySettings, UpstreamName, the range checks and defaults of loadConfig | `Settings`, `RouteBinding` |
| reconciler | `internal/controller` | API objects, caches, work queue, rebuild in progress, table | Reconcile, Apply, writeStatuses, retry, restart | `Reconciler` |
| status contents and events | `internal/gateway/status.go`, `conditions.go`, writeStatuses | conditions, listener and parent entries | StableCondition, MergeConditions, the Build functions, the comparisons, emitRouteEvents | `StatusConditions` |
| configuration loading, readers of the tables | `pkg/server/server.go`, `config.go`, `pkg/logging` | reload lock, tables, log files, message of the day | ReadConfigFromFile, loadConfig, /reload, SetFile, the getters, ListUpstreamModules | `ConfigLoad` |

How they interact: a connection is read by `readLine` until its module is known,
passes through `relay`, which asks a `queue.Queue` for a slot, greets the
upstream and then runs the two copiers and the watcher; a reload
swaps the tables and resizes, adds or drops queues under it. In the gateway,
cluster events make the reconciler rebuild everything (binding, backends,
translation), hand the table to the data plane, whose servers each reload it,
and write statuses back, which are again cluster events. All replicas do this
without leader election.

What is hard about it: statuses are overwritten in a channel while a caller
reads; `relay` reads the tables under several separate locks; queues are dropped
from the table while connections hold their slots; lines arrive in any
segmentation and what follows one in the buffer must not be lost; a write to a
stalled peer blocks until somebody closes the connection; counts are incremented
in another goroutine than the accept; Apply and loadConfig have error returns in
the middle of their assignments; a listing talks to an upstream while it holds the
read lock; replicas write the same statuses from caches of different age; a
controller that reacts to its own status updates must come to rest; who owns
a module depends on the history of creations.

## 2. The modules

Conventions: a definition keeps the name of the function or field it models;
an operator `X_Something` placed before `X` is a mutant and used by nothing
else; `...Step` is the action an action property `[][...Step]_vars` is about;
`MC...` modules hold the objects of a small instance.

**`QueueOps`** — the list manipulation as operators on a record
`[max, maxQueued, active, queued]`. Every exported method holds `q.mu` from
start to end, so each is one step. `active` is a set because the code only takes
its length and removes items from it. The loops that call `popHead` are
one operator, `PopHeads`: `Pops` counts their iterations.

**`Queue`** — adds the handles: their one-slot channels (`trySend` replaces an
unread status), `closed`, what the caller read last, and whether it released.
`AdmissionControl` is the contract: callers are outside, waiting, admitted or
refused, without lists, channels or positions. Where the repository contradicts
itself on the meaning of `maxQueued` = 0 (section 3), the contract takes no side: it
allows a crowded queue both to keep a caller waiting and to refuse it. `Queue` is mapped to it
through the last status sent to each caller (`ToldOk`, `ToldWait`, `ToldFull`).

**`ProxyServer`** — every step of `relay` between two lock acquisitions or
blocking calls is an action: choose the target, fetch the queue, read the per-IP
cap, count, compare, acquire, wait, dial, relay, release, uncount, with every
error return. `Reload` is one write-locked step (`ConfigLoad` takes it apart).
The queue values are `QueueOps` values, so the queue verified in `Queue` is the
one used here. The channel between queue and connection is left to `Queue`.

**`RelaySession`** — `copier[d]` of each direction blocked in a read or a write,
the peers that stall, half-close or reset, the watcher's tick and exit, and the
main goroutine's select and final wait. Data is one block per direction; limits
are due or not. `closeRead` includes the SetLinger(0) it may do: `abort` holds the
connections whose close will discard what was written and not yet sent.

**`Session`** — extends `RelaySession` to one connection from accept to return,
with the bytes. `wire[c]` is what peer c has sent and the proxy has not read;
`Reads` is every segment a `Read` may return, so `readLine` is checked for every
segmentation, including a full buffer and two lines in one read. What a peer
sends is a script in which a part may wait for something the proxy wrote. Every
handshake step has its error return; admission is one step, `Admit`: the client is told
nothing, a notice, or a refusal, and relay goes on or returns. The PROXY header is one token. The alphabet is
the constant `Token`. `said[c]` is a history variable: what the proxy itself
said to c, apart from what it passed on, so that `StreamsIntact` can tell
the two apart.

**`RelayWatcher`** — the same watcher in discrete time (quarter seconds, so
that a quarter of a limit is a whole number): wake-up interval, idle timeout,
maximal duration, and the throughput windows after the grace period. `ticker` is
the time until the next tick.

**`ModuleListing`** — the module list as the proxy writes it and as it reads that
of an upstream, where a blank line discards what precedes it as a message of the
day. Pure operators, checked against a reference over all short lists.

**`Dataplane`** — New with failing binds and chmods, Start, runOne with failing
accepts and a failing admin server, Apply server by server with failures, connections that are accepted,
then counted, then finished, shutdown on a signal or an error, Drain server by
server within the grace period, exit. `missed` is a history variable: the connections that were
accepted and not yet counted when Drain left their server.

**`RouteBinding`** — binding, conflicts, backends and the table as operators on the
set of existing objects; the actions create, edit and delete objects. The loop of
resolveModuleConflicts is a recursive function: `won[S]` are the winners after the
routes in S, in the order of their age, have made their claims. Names are
sequences of tokens, the 63-character limit is the constant `NameLimit`. The
table is what is left of `Writes` when for every name only the last write counts.
The iteration order of the Go map in buildTable, and with it which write is the last,
is a choice: `Tables` is the set of tables it can produce.

**`Settings`** — from a GatewayConfig to the settings in force, used by
`RouteBinding` for the configs of a cluster: `Validate` of the API package,
`ProxySettings` and `DurationSecs` of the translation, and the checks and
second set of defaults of loadConfig. Whether an address resolves
(validateTCPOrUnixAddr) is an argument of `UpstreamLoads`. Durations are integers in units of
1/`Second` seconds, so that cutting to whole seconds is integer division.

**`Reconciler`** — per replica: cache, freshness, queued request and the steps of
a rebuild (snapshot, apply, one status write after the other, conflict, retry).
What a rebuild computes is reduced to "config valid or not" and "route bound or
not"; `RouteBinding` and `StatusConditions` are about the rest. The return of Reconcile for a
table that cannot be built (reconciler.go:85) is not taken: buildTable fails only on a config that
Validate refuses, and it is given only configs that passed Validate for the same snapshot. A spec value stands
for the generation.

**`StatusConditions`** — one object of each of the four kinds with its stored
status: how the wanted status is built from the stored one and the verdict,
whether it counts as changed, what is written and which Warnings are emitted,
while users edit the object and other controllers write their own conditions and
entries into the same lists. Writes succeed here; those that fail are in
`Reconciler`.

**`ConfigLoad`** — concurrent `/reload` requests: read, decode, validate, lock,
discover, log files, message of the day, timings, tables, queues, certificate, with
the error return at each; beside them connections that look something up and
`/upstream-modules` requests that hold the read lock during discovery. Taking
the write lock is two steps, announcing it (new readers wait) and waiting for
the readers inside. A configuration is its version number; constants say which
versions are invalid, have a bad log file, and so on.

## 3. The runs

Passing runs (`expect: pass`):

| Run | Instance | What it shows |
|---|---|---|
| `queue` | 3 callers, max in {-1, 0, 2}, maxQueued in {0, 1}; 21,234 states | nobody waits while there is room (`WorkConserving`); a caller was told Ok iff it holds a slot (`GrantMatchesSlot`); the position a waiter was last told is its true one (`PositionAccurate`); no send on a closed channel (`QueuedChannelsOpen`); FIFO (`NoOvertaking`); the queue implements `AdmissionControl`, which admits exactly by the first limit and keeps waiting and refuses exactly by a positive second one; a waiter reads Ok or gives up (`WaiterServed`) |
| `proxy` | 3 connections of 2 addresses, 2 upstreams, one of which comes and goes while the other is resized; 93,060 states | counters and slots balance on every path (`CountersBalance`, `PlacesOwned`); the per-IP cap holds among counted connections (`PerIPCap`); the queue in the table admits by the current limit (`QueueWithinCap`); every accepted connection returns, also from a queue that has left the table (`EveryRelayReturns`) |
| `session` | 6 kinds of clients, 5 kinds of upstreams, a buffer of 4 bytes; 228,490 states | the module looked up is the second line sent (`RightModule`); no byte is lost, repeated or reordered between readLine's buffer and io.Copy (`StreamsIntact`); before a limit expires or relay returns, no connection is closed while the proxy may still write to it, nor so that what was written is discarded, unless the peer's own stream has ended (`NoCutOff`); after the watcher closed both sides relay returns even if peers stall (`TerminationCompletes`); a session whose peers take their data ends (`SessionBounded`) |
| `watcher` | idle 5 s, duration 35 s, floor 3 bytes in 6 s after 7 s; 765,406 states | detection within 1.25 times the limit (`DetectionLatency`); sessions end only for cause (`EndedForCause`); a session below the floor is found within two windows (`FloorOverTwoWindows`) |
| `dataplane` | 3 servers, 2 connections, 2 Apply calls; 437,349 states | no server has a newer table than one before it (`FirstIsFreshest`); if the grace period is not over, the process exits under no connection but those that were not yet counted when Drain left their server (`OnlyUncountedAreCut`); a signal or error ends the process, with every socket closed, although connections never finish (`ShutdownCompletes`) |
| `binding` | 3 Gateways, 3 routes, 4 classes, 2 configs, 2 Services, 2 grants; 26,880 states | a route loses a module exactly to an older route that keeps it, so a module has one owner (`ConflictJustified`); the table holds only entitled backends (`TableIsEntitled`), and all of those of healthy routes (`HealthyIsServed`); loadConfig refuses a table made from accepted configs only for an address that does not resolve, and the floors and caps they set are in force (`AcceptedTakesEffect`); a new route changes nothing for those before it in the order of timestamp and name (`NewcomersDisturbNobody`) |
| `reconciler` | 1 replica, 3 edits, 1 failure, 1 restart; 380,462 states | a replica at rest is current (`QuietIsCurrent`); no status labels a newer spec with an older verdict (`NoStaleVerdict`); the replica comes to rest (`Converges`) |
| `status` | 2 generations, 3 clock values; 59,731 states | one write settles a status, so that the reconciler does not feed on its own updates (`WriteSettles`); conditions and entries of other controllers are left alone (`ForeignUntouched`); a transition time is new exactly when the status is (`HonestTimes`); each rejection is announced once (`RejectionsAnnounced`) |
| `config` | 2 reloads, 1 connection, 1 listing, 4 versions of the file; 85,417 states | whoever has or can take the read lock sees the tables of one sound configuration, and a message of the day and log files that are of the same one or left behind by a load that failed after assigning them (`OneVersionInEffect`); a successful answer means the file's content, or a newer one, is served (`SuccessMeansServed`); every reload is answered (`EveryReloadAnswers`); no reader is locked out (`EveryLookupProceeds`) |

`MCSession` also evaluates, as assumptions, that the parser of module lists agrees
with its reference on all lists of up to four lines and reads what the proxy writes;
`MCQueue` that `Without` is the filter it stands for (`WithoutIsFilter`).

Three runs (`expect: violation`) state what the repository says and show that the
code does something else:

| Run | Statement | What the code does |
|---|---|---|
| `proxy_readd` | README.md:146, at most `max_active_connections` relays per upstream | an upstream removed and added again gets a fresh queue beside the old one, which still holds slots; every repetition adds as many again |
| `session_stalled` | server.go:1005, a hard cap on the relay phase | the watcher leaves when one direction has ended; a blocked write in the other has no limit |
| `dataplane_drain` | dataplane.go:169, Drain waits for every active relay connection | a connection is counted by its own goroutine after Accept; Drain may read 0 before that, return, and let the process exit under it |

Other disagreements between code and text, or surprises, were noticed while
modelling. No run checks them; a related, weaker statement that the runs do
check is named in parentheses.

- README.md:147 says `max_queued_connections = 0` means no queueing; the code
  disables the limit, as `gatewayconfig_types.go:74` says (`ImplementsAdmissionControl` allows both
  for a limit of 0, and holds the code to limits above it).
- server.go:885 promises no more than N relays per address; a connection that looks the
  cap up while its upstream is out of the table is not counted (`PerIPCap`
  is about those that are).
- gatewayconfig_types.go:61 says of the cap per address "0 or unset disables
  the cap"; for an upstream whose config sets none, loadConfig takes the cap of the
  primary config (server.go:357), which may be that of another class. `AcceptedTakesEffect` is
  silent on such caps and about those that are set.
- A duration below a second is cut to 0, which means unset: an idle timeout
  of 500ms is none, a window of 500ms is the default (`AcceptedTakesEffect` says
  that the floor is watched all the same).
- README.md:130 speaks of the most recent window; the windows are disjoint
  (`FloorOverTwoWindows`).
- A client that sends both lines in one segment has its module line swallowed with
  the version line: the proxy waits for another line until the read deadline
  (`RightModule`, `SessionBounded`).
- When one direction ends, the connection it wrote to is closed, so that a client
  that half-closes after its last request loses what the upstream would
  still have sent (`NoCutOff` is about data already read). When the upstream's stream ends first,
  SetLinger(0) makes the close of its connection discard what was written to it and is still
  unsent; `StreamsIntact` follows bytes up to the write.
- A message of the day that does not end with a newline is read as modules by a
  proxy that discovers the modules of this one (`RoundTrip` in `ModuleListing`).
- The handler of /upstream-modules parses into the `err` of the enclosing function,
  which all requests share (server.go:1215).
- dataplane.go:36 speaks of identical tables; an Apply that fails half-way leaves two
  versions (`FirstIsFreshest`).
- dataplane.go:169: Drain closes all listeners and waits; later servers accept while
  it waits for the first (`OnlyUncountedAreCut`).
- dataplane.go:54: on error every listener is closed; a failed chmod in the first
  server's Listen (utils.go:100) drops an open socket. Later servers use bindAddr,
  which closes it (`ShutdownCompletes` excludes a failure at the first server).
- README.gateway.md:267: the computation is deterministic; routes `a/x.y` and `a/x-y` share
  upstream names, and the order of a Go map decides which is served.
- translate.go:155: one upstream per (route, backend); cutting a long name
  removes its index (`HealthyIsServed`, in an instance where no two
  entitled backends end up with one name).
- Timestamps of routes count seconds, and ties go to the smaller namespace/name (bind.go:258): a route
  created in the same second as another, and after it, takes a module from it if its name is smaller
  (`NewcomersDisturbNobody` is about the order of timestamp and name).
- bind.go:209 speaks of namespace labels; the labels of the route are matched.
- README.gateway.md:52: status writes are identical across replicas; replicas with
  different Apply results overwrite each other's GatewayConfig condition.
- README.gateway.md:226: Programmed=True does not depend on Apply (status.go:60), and stays
  when the class loses its config (reconciler.go:268).
- reconciler.go:235 says that statuses are only written when their content
  changes; the one condition of a class or config is compared with the whole
  stored list (256, 336), so that an update is issued at every rebuild while another
  controller keeps a condition there. The update changes nothing and so
  causes no event (`WriteSettles`).
- status.go:186 says that "Condition timestamps stay stable when type and status
  are unchanged" and reconciler.go:347 that a Warning is emitted "when a parent
  result flipped"; the key of a parent (conditions.go:187) leaves out sectionName and
  port, so two parents of a route on one Gateway share the stored conditions of the
  first (`HonestTimes`, `RejectionsAnnounced`, with parents on different Gateways).
- The entry of an rsync listener that is removed from a Gateway stays, as if
  it belonged to another controller (`ForeignUntouched` counts it as such).
- server.go:436 says that ApplyConfig swaps "the module table, upstreams, queues and settings"
  atomically; a log file that cannot be opened, or a negative `relay_idle_timeout`, is found after log
  files and message of the day were replaced, and these stay (`OneVersionInEffect` says which
  may be left behind, and that nothing else is mixed).

### Bounds

- Queue: with three callers there is one ahead of and one behind a waiter that
  leaves; limits include 0 (unlimited) and -1 (not rejected by
  loadConfig for `max_active_connections`; admits nobody, so that all can wait). A caller may come back after its release, with
  what is a new handle in the code. The proofs remove these bounds.
- ProxyServer: `MaxQueues` = 2 bounds how many queue objects of an upstream are in use at
  a time: the one in the table and one that a reload dropped. Two connections share an address, for the per-IP cap;
  three are one relaying, one waiting, one at the per-IP check.
- Session: `BufSize` = 4 instead of 256 so that lines fit, fill and exceed the
  buffer; `Scripts` holds a well-behaved peer of each side and one for each way to
  deviate from it. Clients whose module line exceeds the buffer are left out:
  readLine returns a full buffer as if it were a line.
- RelayWatcher: `Horizon` follows a session for several windows past the grace
  period; byte counts are cut at the floor, beyond which the code does not look.
- Dataplane: `MaxApplies` bounds the Apply calls; two are enough for a failed one
  and a later one.
- RouteBinding: `MaxClock` = 2 timestamps give older, equal and younger pairs
  (equal ones are ordered by name); `NameLimit` = 4 tokens stands for 63
  characters; `Second` = 2 gives durations below a second.
- Reconciler: `MaxEdits`, `MaxFailures`, `MaxRestarts`. The run has one replica, whose status
  writes race with edits; `NothingIsLost` and `VerdictsAreFresh` are proved for any number.
- StatusConditions: `MaxGen` = 2, `MaxClock` = 3: a condition that is older than the
  last flip, one of the flip and now. A listener changes its protocol, port, TLS and
  allowedRoutes; a route has up to two parents.
- ConfigLoad: `MaxVersion` = 4 versions: sound, invalid, failing late, and sound again, where the last
  two have discovery and an error log that may fail.
- Deadlock checking is off where the system may come to rest: sessions and processes
  end (`Session`, `RelaySession`, `RelayWatcher`, `Dataplane`), a reconciler and a
  status have nothing left to do.

### Fairness

- Queue: holders release (relays end or are cut off, and `Release` is deferred)
  and callers read their channel (`relay` selects on it). Waiters need not leave.
- ProxyServer: the goroutine of each connection runs and its request is read within
  its deadline. That sessions end is assumed here and examined in `Session`.
- Session, RelaySession: the proxy's goroutines run, reads and writes of the
  handshake have deadlines, the ticker ticks, time passes the maximal duration. Peers
  need not send anything. That they take data is assumed only inside
  `SessionBounded`, as weak fairness of `CopyWrite`; `session_stalled` drops it.
- Dataplane: goroutines run, the drain timer fires, an error reaches main.
  Connections need not finish.
- Reconciler: watches deliver, and queued rebuilds run (the work queue retries).
- ConfigLoad: requests and connections run, discovery has timeouts, and
  `sync.RWMutex` starves neither side (strong fairness of each goroutine, which matters only where it takes the lock): an
  announced writer keeps new readers out, and its Unlock admits those that wait.

## 4. External behaviour

Code outside this repository appears only as it is used: Go channels, mutexes
and connections; the API server (a status update fails when the resource version
is old; spec and status are separate), informers (caches lag, events are not
lost) and the controller-runtime work queue (one request at a time, duplicates
merge, errors are retried).

## 5. What is proved

Eight modules hold theorems, each for **every** value of the constants that
satisfies the named assumption of its component.

| Theorem | Statement | Assumption |
|---|---|---|
| `QueueProofs!Invariance`, `TypeCorrectness` | `Spec => []IInv`, `Spec => []TypeOK` | `LimitsAssumption`: limits are integers |
| `QueueProofs!WorkConservation` | `Spec => []WorkConserving` | the same |
| `QueueProofs!GrantCorrectness` | `Spec => []GrantMatchesSlot` | the same |
| `QueueProofs!PositionCorrectness` | `Spec => []PositionAccurate` | the same |
| `QueueProofs!ChannelSafety` | `Spec => []QueuedChannelsOpen` | the same |
| `QueueProofs!Refinement` | `Spec => ImplementsAdmissionControl` | the same |
| `QueueProofs!FirstComeFirstServed` | `Spec => NoOvertaking` | the same |
| `ProxyProofs!CountersAlwaysBalance` | `Spec => []CountersBalance` | `ProxyAssumption`: configurations give the upstreams they name well-formed settings, caps being natural numbers |
| `ProxyProofs!CapAlwaysHolds` | `Spec => []PerIPCap` | the same |
| `ProxyProofs!PlacesAlwaysOwned` | `Spec => []PlacesOwned` | the same |
| `ProxyProofs!QueueKeepsCap` | `Spec => QueueWithinCap` | the same |
| `SessionProofs!SessionCutsNothingOff`, `RelayCutsNothingOff` | `SessionSpec => []NoCutOff`, and of the relay phase by itself | none about peers |
| `SessionProofs!StreamsStayIntact` | `SessionSpec => []StreamsIntact` | `NamesFit`, `GreetingFits` (below) |
| `SessionProofs!SecondLineIsModule` | `SessionSpec => [](OneLine(version) => RightModule)` | the same |
| `SessionProofs!ModuleIsRight` | `SessionSpec => []RightModule` | these and `TakesTurns` (below) |
| `WatcherProofs!LatencyBound` | `Spec => []DetectionLatency` | `WatcherAssumption`: limits are natural numbers and one is set, else no watcher is started |
| `WatcherProofs!EndsForCause` | `Spec => []EndedForCause` | the same |
| `WatcherProofs!FloorIsEnforced` | `Spec => []FloorOverTwoWindows` | the same |
| `ServerProofs!FreshestFirst` | `Spec => []FirstIsFreshest` | `DataplaneAssumption`: at least one server, finitely many connections |
| `ServerProofs!CountedAreSpared` | `Spec => []OnlyUncountedAreCut` | the same |
| `ServerProofs!OneVersionServed` | `LoadSpec => []OneVersionInEffect` | `ConfigLoadAssumption`: the program was started with a sound file |
| `ServerProofs!SuccessServed` | `LoadSpec => SuccessMeansServed` | the same |
| `BindingProofs!ConflictsAreJustified` | `Spec => []ConflictJustified` | `BindingAssumption`: finitely many routes, each with a module; namespace/name is a total order of routes and of Gateways; a class refers to a known config |
| `BindingProofs!TablesAreEntitled` | `Spec => []TableIsEntitled` | the same |
| `BindingProofs!HealthyServedWhereNamesDiffer` | `Spec => [](NamesDiffer => HealthyIsServed)` | the same |
| `BindingProofs!AcceptedHasEffect` | `Spec => []AcceptedTakesEffect` | the same and `SettingsAssumption`: a second is a positive number of units |
| `BindingProofs!NobodyIsDisturbed` | `Spec => NewcomersDisturbNobody` | the same |
| `BindingProofs!ValidatedTakesEffect` | settings made from a validated config pass loadConfig, an upstream with its limits is refused only for its address, and the floor is watched iff asked for | `SettingsAssumption` |
| `ReconcilerProofs!NothingIsLost` | `Spec => []QuietIsCurrent` | `ReconcilerAssumption`: "none" is no spec, the bounds are natural numbers |
| `ReconcilerProofs!VerdictsAreFresh` | `Spec => NoStaleVerdict` | the same |

All bounds (`MaxVersion`, `MaxEdits`, `Horizon`, `BufSize`, ...) are constants, so a proof is
about runs of any length.

Three hypotheses are part of a theorem instead of an assumption of the module,
because the code does not see to them:

- `Session!NamesFit`: the names of modules contain no newline and leave room for one in
  the buffer of readLine; `GreetingFits`: the greeting of an upstream ends within the buffer and
  comes in one piece. readLine returns a full buffer as if it were a line.
  `MCSession` evaluates both.
- `Session!TakesTurns`: what a client sends first is its version line, which fits in the buffer, and
  it names the module after something the proxy wrote, as the rsync client
  does. Without it the two lines may be read as one. `SecondLineIsModule`
  says what holds for all clients: whenever the version was read as one line, the
  module is the second line sent. In `MCSession` one client does not take turns;
  there `RightModule` is checked by TLC.

`HealthyServedWhereNamesDiffer` speaks of the states in which no two upstreams ask for one name,
which the code does not see to either. In `MCRouteBinding` a name is cut off, and `NamesDiffer`
holds all the same in each state, which is what makes `HealthyIsServed` true of it.

**Queue.** The inductive invariant is

    IInv == TypeOK /\ WorkConserving /\ GrantMatchesSlot /\ PositionAccurate /\ QueuedChannelsOpen

The four safety properties lean on each other. `QueuedChannelsOpen` carries the
shape of the lists: nobody is queued twice, and active and queued callers are
disjoint because the channels of the former are closed and of the latter open.
Without it a promotion could count a caller twice, and `WorkConserving`, which
compares cardinalities, would not survive the loop. `GrantMatchesSlot` speaks of
callers that have not released, so it needs `QueuedChannelsOpen` to know that whoever
is promoted is one of them. `PositionAccurate` needs `WorkConserving`: the
position `Acquire` and the broadcast compute is offset by the surplus of active
callers over max, which is non-negative only when the active list is full.

`QueueLemmas` describes the list operations of `QueueOps` on any well-formed queue
value, for the queue by itself and for the queues of `ProxyServer` alike.
`PopHeadsLemma` says that the promotion loop moves a prefix of length `Pops`
to the active list, keeps the order of the others and restores work
conservation, with cardinalities from the library's finite-set theorems;
`WithoutLemma` does the same for leaving the queue. In `QueueProofs`, `Moves` sums
up what an operation may do to the lists, and `MoveStep` shows once that such a
move, followed by the sends to the channels, preserves `IInv`. `Pops` replaces the
loop by its number of iterations, which avoids an induction over the loop.

The refinement adds no invariant: `ToldLemma` derives from `IInv` that what
callers were told and the list they are in are the same (`ToldIsList`), which turns
the refinement mapping into statements about lists. Then each operation maps to a step of
`AdmissionControl` (`Fits`: the admitted fill the slots that are free, and no more) and
reading the channel to a stutter. FIFO follows from `InOrder`: the
promoted are a prefix of the queue.

**ProxyServer.** `ProxyInv` is `LocalInv` (types, and a positive cap wherever one is
compared), `CountInv` (a counter is the number of connections whose Add(1) was
not taken back, rejected ones included) and `PerIPCap`. The last needs
the counter to include the connections about to be rejected: one that passes
the comparison saw a value no smaller than the number that were counted. All steps that leave the
counters alone are one lemma (`NeutralStep`). `PlacesInv` adds to `PlacesOwned` that
every queue is well-formed (nobody listed twice, nobody waiting while there is room)
and that the queue of an upstream in the table has the limit of the current configuration. The
list operations come from `QueueLemmas`.

**Session.** `EndInv` adds to `NoCutOff` that nothing is closed while the main goroutine is in
its select and no limit has expired, and that no connection is set to discard. `FlowInv` accounts for every byte: what a peer has sent is,
in this order, what the proxy consumed of it as lines, what it passed on, what a
copier holds and what is still on the wire, and what it wrote to a peer is its own words and what
the other peer sent. Each stage of the handshake has its own line of this account
(`ClientFlow`, `UpstreamFlow`, `GreetingFlow`, `CopierFlow`). The proof is one
lemma per step on concatenations; that what `readLine` returns of the upstream's greeting
holds its whole first line comes from `GreetingFits`, since the first newline is at the end of the
buffer or before it. `ModuleInv` and `TurnInv` place the line that was read within what the
client sent.

**RelayWatcher.** `WInv`: at the last tick no limit was exceeded, and that tick is at
most an interval ago. `IntervalLemma` bounds the interval by a quarter of every
limit, or a second; adding both gives the latency. `ThroughputInv` relates the sample of the
throughput check (when it was taken and how much was read since) to the history of
reads: `EndedForCause` needs it at the tick that ends a session,
`FloorOverTwoWindows` between two ticks.

**Dataplane.** `DInv` joins `TableInv` (an Apply in progress has given its
version to exactly the servers it has passed, so the tables descend) and `CountInv` (the counter
Drain polls is the number of connections being handled). `DrainInv` adds what Drain leaves behind:
the listener of a server it has passed is closed, and, within the grace period, whoever is still
there is in `missed`. It needs `CountInv` to turn a count of 0 into the absence of connections.

**RouteBinding.** The objects are arbitrary, so that there is little to say about a step;
the theorems are about what is computed from them. `Settled(W, S)`
describes the outcome of resolveModuleConflicts without its loop: W are the routes of S that meet no
older route of W with a module of theirs. Such a W exists for every finite S, it
is unique, and by induction over S the loop computes it (`WinnersSettled`). From
this follow `ConflictJustified` and, comparing the oldest route whose outcome would
differ before and after a creation, `NewcomersDisturbNobody`.
`AcceptedTakesEffect` rests on `ValidatedTakesEffect`, field by field: a
validated field dereferences to a natural number, and so does its quotient by a second.

**Reconciler.** `RInv` is `TypeInv` and, for each replica, `View`: what is fresh in its
cache or snapshot equals the API server's, a replica past Apply serves its snapshot,
and without a queued rebuild the cache is the snapshot, and the class and
the route are settled as far as their writes are done. `QuietIsCurrent` is
the last line of `View` for a replica whose whole cache is fresh. Other replicas and users only
change the API server's side, which takes the kind out of `fresh`; a delivery puts it
back and queues a rebuild.

**ConfigLoad.** `LoadInv`: who is between Lock and Unlock has the lock and no
reader is inside (`LockInv`); what a reload decoded is no older than its request
and has passed the checks behind it (`CheckedInv`); how far the assignments are
determines which tables agree, and which settings may be left of a load that failed
(`AssignInv`).

Induction over data is done with minimal counterexamples: a non-empty set of natural
numbers has a least element (`LeastNat`), a non-empty set of subsets of a finite set has a
minimal one (`LeastSubset`). The library's induction theorems have an operator as a
parameter, which the installed provers cannot instantiate.

Only model-checked: all liveness (outside TLAPS 1.4.5), and the four properties of
`StatusConditions`, whose lists are built with filters that take an operator as
an argument; `ModuleListing`, where a recursive function is compared with its reference.

## 6. What is not modelled

- Metrics and the read-only pages of the admin server, the command line, generated
  deep copies and the `rsync-403` helper have no state of interest.
- The table of live connections: it is written and removed by one goroutine per
  connection and read for listings only. Its 32-bit index wraps after 2^32
  connections; per-IP and per-module counters are never removed.
- Texts: the wording of greetings, errors, PROXY headers, log lines and messages
  of conditions; the parsing of addresses and TOML.
- TLS, apart from the certificate being swapped with the tables: the library
  carries it, and a TLS connection reads and writes like another.
- Data races that only affect values no property reads: `s.Motd` is read
  without the lock (server.go:845), listAllModules takes the length of the module map before it
  locks (server.go:781, a capacity hint), and the shared `err` of section 3.
- Listen addresses, which are set once (README.md:117).

## 7. Plan

1. A composition of Reconciler and Dataplane: per-server tables under rebuilds and
   failing applies, and what statuses say of them.
2. Proofs about `StatusConditions`, with the filters of its lists as
   functions, and about `ModuleListing`.
3. A status instance with two sections of one Gateway, once the key of a
   parent includes them.
