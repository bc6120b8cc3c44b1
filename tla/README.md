# SSHFlow in TLA+

Models, TLC runs and TLAPS proofs for SSHFlow, the connection manager for
OpenSSH in this repository. Paths below are relative to the repository's root.
`PROJECT.json` holds the machine-readable index: components, runs, the map from
each definition to the lines it models, the hazards and the findings.

## 1. The system

| part | code | state it keeps | operations |
|---|---|---|---|
| Connection Manager | `crates/daemon/src/connection_manager.rs` | DashMap from target key to `ManagedConnection` | insert, reuse, touch, remove, list, choose the LRU entry |
| Request handlers | `crates/daemon/src/ipc.rs` | none of their own; one tokio task per request | EnsureConnection, RegisterExternalMaster, CloseConnection, RecordEvent, Shutdown, and read-only requests |
| Eviction | `crates/daemon/src/state.rs` | - | `evict_lru`: choose, remove, stop |
| Health monitor | `crates/daemon/src/health.rs` | the keys of the pass it is on | check each entry, reconnect or drop |
| SSH wrapper | `crates/ssh/src/lib.rs` | the masters: processes and sockets outside the daemon | check, start (batch or on a terminal), stop |
| Metrics store | `crates/metrics/src/lib.rs` | day, baseline, totals, per-host map, `metrics.json` | record a connection, failure, reconnect; snapshot; reload |
| Daemon process | `crates/daemon/src/main.rs`, `serve_unix` | `daemon.pid`, `daemon.sock`, the shutdown channel, two tasks | start, serve, be refused, stop on a signal or a request |
| CLI | `crates/cli/src` | - | auto-start the daemon, send one request, go interactive, hand a master over, exec ssh |
| Plugins | `crates/plugins/src/lib.rs` | loaded definitions; hook processes and the threads that wait for them | load, dispatch an event, spawn, feed and reap a hook |
| Core types | `crates/core/src` | - | read a destination, make its key, its display name and the argument of `ssh` |
| Configuration | `crates/config/src/lib.rs` | `config.yaml` | create, load, save; read a duration |
| Doctor | `crates/daemon/src/doctor.rs` | - | a read-only report |

How they interact. A CLI command makes sure a daemon answers, then sends one
request over `daemon.sock`. A handler looks at the table, runs `ssh`
subprocesses on the blocking pool, looks at the table again, records metrics and
dispatches an event to plugins. The health monitor does the same on a timer.
They share the table, the metrics store and the masters, and no lock spans two
calls of any of them: everything that can happen between two steps does.

What is hard is in `PROJECT.json` under `hazards`: the capacity is checked long
before the insertion it is for; entries are removed by key after a subprocess
during which the entry may have become another; eviction is three steps;
a master that needs a password is started by another process minutes later; the
metrics locks nest both ways; the day is read before its lock is taken; the
metrics file is written without a lock; daemons share two paths; a shutdown
value sent before anyone subscribed is lost; a hook costs a process and a thread
and neither is limited; a plugin's input is written in the caller's thread; the
two little languages a user writes (destinations and durations) are split by
hand, and the name of a connection is glued together from the pieces.

## 2. Modules

| module | models | state and actions |
|---|---|---|
| `ConnectionManager` | the table's methods | operators on a function from keys to `last_used`; each method holds a DashMap lock for its own duration only, so each is one step |
| `Daemon` | handlers, eviction, health loop, interactive CLI, masters, restart | `connections`, `alive` (live masters), `now`, per request `at`/`target`/`victim`, the health loop's `healthAt`/`healthKey`/`unvisited`, and `told`, what the events dispatched so far tell a plugin |
| `BoundedPool` | what the table promises | a set of open connections with Admit, Release, Clear; `Daemon` implements it |
| `Metrics` | the store, and what a daemon that starts does to its file | `day`, `totals`, `hosts` (connections counted per host), `file`; per thread its place, its kind of call, the day it read and the copy it is writing; `starter`, a daemon that loads and rewrites the file while the first one runs |
| `MetricsLedger` | what the counters promise each call | `call` (how far each call has got), `day`, `tally`, with Ask, Admit (where the counters may be reset, for a call of another day), Count, Return and Reload; `Metrics` implements it |
| `SingleServer` | what the socket path promises | `serving`, the daemons in service, and `path`, the one the socket path leads to, with Take, GiveUp, Vanish (a crash, which leaves the path) and ClearAway; `DaemonProcess` implements it |
| `DaemonProcess` | the daemon as a process, several at a time, and the CLI's auto-start | `at` (main), `health`, `signals`, `notified` (the watch channel), the two files, the commands |
| `Plugins` | the plugin manager | `loaded`, and per caller its place in `dispatch`; `hook` (what became of each process), `fed` (inputs closed), `reapers` (threads); actions Dispatch, Skip, Spawn, SpawnFails, Feed, SpawnReaper, SpawnPanics, Return, and the hooks' HookEnds and Reap |
| `Texts` | the operations of Rust's `str` and integer parsing that are used | operators on sequences of characters |
| `Targets` | `HostTarget::parse`, `key`, `display`, the destination argument | operators; a parse is the set of its results, empty when refused |
| `Durations` | `parse_duration` | operators; an outcome is a number of seconds, a refusal or a panic |
| `Inputs` | the texts a user can give | `field` and `text`; one character typed per step, so that every text is a state |
| `MCDaemon`, `MCMetrics`, `MCDaemonProcess`, `MCPlugins`, `MCInputs` | instances for TLC | constants only |
| `*_proofs` | theorems | see section 5 |

The modules meet in two places. `Daemon`, `Metrics` and `DaemonProcess` are each
shown to implement a smaller specification (`BoundedPool`, `MetricsLedger`,
`SingleServer`) by `INSTANCE ... WITH`. `Inputs` puts `Targets` and `Durations` over one set of texts.
`Daemon` keeps what an event tells a plugin (`told`) and `Plugins` starts where
an event is dispatched; the two are not composed, since nothing a hook does
comes back to a handler but the time `dispatch` takes.

Conventions. One action is one step of the code between two points where
another task can run: one table call, one subprocess, one lock. `at[c]` is the
step a request has come to. The names of actions follow the functions and the
variants of `DaemonRequest`. An operator named `X_Something` just above `X` is a
seeded fault: what `X` would be with a plausible bug. It is used by nothing, but
for trying that a property would notice it.

Abstractions in `Daemon`:

- A key is a model value; target and control socket are functions of it.
- Of an entry only presence and `last_used` are kept. `healthy` is always set to
  true by its callers; the other fields are reported, never decided on.
- `alive` is what `ssh -O check` would say. Starting a master over a live one
  leaves the live one serving, and a start that succeeds leaves a live master
  behind the socket. This is how `ssh` is assumed to behave, external to the
  code: over a stale socket file that nobody removed, `ssh` may also succeed
  without multiplexing, which the code does not tell from a master.
- `len`, `least_recently_used` and `all_keys` see the table at one instant
  (DashMap iterates shard by shard; entries that come or go meanwhile may or may
  not be seen).
- `now_unix` does not go back.
- Metrics calls in handlers are left out: they change nothing a handler reads.
- A slot whose CLI is prompting or handing over survives a daemon restart, the
  handlers do not; ssh processes they had started may still finish.

Abstractions in `Metrics`: no variable for a lock, since a guard lives exactly
between two places of its owner. Of the per-host map (one lock per entry) only
the connections of all hosts together are kept: each step adds one, so the sum
that `persist` collects entry by entry is one there was at some moment of the
collecting. Latencies, the baseline's value, bytes and labels are left out.
`record_reconnect` takes the steps of `record_failure`. The file is whole, empty
(truncated) or torn; a write that fails half-way leaves nothing that can be
parsed, also when it fails over the text of another. One daemon at a time starts
while another runs. It loads and rewrites the file whenever it likes, as the
code does before it knows whether it may serve; it takes over, with what it
loaded, only when the other has ended.

Abstractions in `DaemonProcess`: Unix only; the configuration and the plugins
are only read on the way to the socket. Loading the metrics is more than that:
`MetricsStore::load` persists (`crates/metrics/src/lib.rs:90`), so that a daemon
about to be refused rewrites the `metrics.json` of the one that serves. No
property of this module reads that file; the rewriting is in `Metrics`
(`Start`, `Load`, `StarterPersists`, `Refused`). A Shutdown request is dispatched while the daemon serves; the
40 pings of the CLI are "until it gives up".

Abstractions in `Plugins`: a file is one of a few sorts by what its hook does
(reads its input, fills its standard error, never ends, cannot be started,
cannot be parsed). An event is its name and whether its JSON is larger than a
pipe. `load` is done before the first dispatch and plugins do not change after
it, so it is part of `Init`. What the operating system limits is the number of
processes and threads together (`MaxTasks`).

Abstractions in `Texts`, `Targets`, `Durations`: a text is a sequence of
characters, of which the alphabet has one or two of each class the code tells
apart. A character of several bytes is a member of `Wide`; it matters only at
the end of a duration, where the code splits between bytes. The widths of the
integers are constants (`MaxPort` for `u16`, `MaxU64` for `u64`). Unchecked
multiplication has both its outcomes: the panic of a build with overflow checks
and the wrapped value of one without. `Parse` describes which texts are read and
as what, never the wording of a refusal.

## 3. Runs

`tlc -config <run>.cfg <module>`; each ends within two minutes.

| run | instance | shows |
|---|---|---|
| `core_serial` | 1 client that opens and 1 that closes, 3 keys, maxConnections 2, health on, every fault, clock to 1 | `WithinCapacity`, `SerialInv`, `NeverEvictsOwnTarget`, `EvictsLeastRecentlyUsed`, refinement `PoolSpec`: while no two requests open connections at once the limit holds, whatever is closed meanwhile, through interactive authentication and restarts. Action properties `OrphansExplained` and `DriftExplained`: each step that leaves a master without a keeper, or plugins with a connection open that is gone, is one of those listed |
| `core_exclusive` | 2 clients on different keys, maxConnections 1 so that they evict each other, masters die | `NoOrphan`, `EveryEntryAnnounced`, `ExclusiveInv`: no live master is lost and no entry is unannounced |
| `core_live` | 2 clients on any of 2 keys, health with reconnection, masters die | `DeadEntryHandled`: a dead entry does not stay |
| `core_overflow` | 2 clients, any key, limit 1 | violation of `SettlesWithinCapacity`: the table rests above `maxConnections` |
| `core_resurrect` | 1 client, health with reconnection | violation of `NoOrphan`: a closed connection's master is started again |
| `metrics` | 2 threads, 3 calls (reuse, failure, snapshot) and daemons that start, together, 1 midnight, writes that fail | `FilePairsDayWithTotals`, `PairInv`, `HostsInv`, `EveryCallReturns`, refinement `LedgerSpec`: each recording call is counted exactly once before it returns, a snapshot never, and no reset wipes a count of its own day |
| `metrics_deadlock` | 2 threads, fresh connections | violation of `EveryCallReturns`: totals/baseline lock inversion |
| `process` | 2 daemon processes that come and go, 1 command, starts not concurrent, a health loop that may panic | `OneInstance`, `ProcessInv`, `ToldServerStops`, refinement `ServerSpec` |
| `process_twins` | the same with 2 commands and concurrent starts | violation of `OneInstance`: two daemons serve |
| `inputs` | every text of up to 6 characters, of 8 characters for destinations and 9 for durations; ports up to 11, numbers up to 3599 | `KeyTells`, `NeverAFlag`, `BracketsReadBack`, `DisplayReadsBack`, `DurationsAreExact` |
| `plugins` | 2 callers, 1 event each, a plugin of each sort, 5 processes and threads | `WholeAudience`, `NobodyForgotten`, `DispatchReturns`, `EveryHookReaped` |
| `plugins_panic` | 1 caller, 3 events, endless hooks | violation of `CallersSurvive`: dispatch panics its caller |

Why these bounds are enough for the cases of interest. Overflow and overtaking
need two requests; eviction needs one key more than the limit, and an LRU choice
that can be wrong needs two entries with different stamps, hence limit 2 and a
clock to 1. One closer is enough to take any entry out at any step of an
opening; a second would only take out more. A lost master needs one owner and one evictor. The lock inversion and
the stale write each need two threads with one call; the third call lets a
reader or a second record run after a reset, or a second daemon load, rewrite
and take over the file while the two threads are at work. Two processes
are one that serves or goes down and one that comes up; a process that has
ended may start again, so the sequence is unbounded. Six characters are what the
longest cases need: a user and a bracketed host (`a@[1]`), a bracketed host or a
user and a host with the largest port (`[1]:11`, `a@1:11`), a port that is too
large (`1:111`); for durations, spaces on both sides of a signed number
(` +60m `), a number that does not fit, or one that fits until its unit is
applied. The scaled `MaxPort` and `MaxU64` put both sides of each limit within
these lengths. Five tasks are two hooks with their
threads and one hook more, whose thread no longer fits. The theorems of section
5 drop these bounds altogether.

`CHECK_DEADLOCK FALSE` is set for `Metrics`, `Inputs` and `Plugins`: the calls,
the characters and the events are bounded, so that their behaviours end (and
`metrics_deadlock` is about threads that wait for each other while others could
go on, which the liveness property states).

`core_exclusive` switches the health loop off, which the code never does, and
keeps stops working, because `NoOrphan` is false otherwise, and each way is a hazard listed in `PROJECT.json`:
a failed stop is ignored, a health check started before a re-open drops the new
entry, a reconnection revives a closed connection (`core_resurrect`), a restart
forgets the table.

## 4. Fairness

- `Daemon!FairSpec`: weak fairness of the health loop and of every handler. The
  runtime polls every task that can go on, and ssh subprocesses end (batch mode,
  `ConnectTimeout=10`). Nobody has to send a request, answer a prompt, or die.
- `Metrics!FairSpec`: strong fairness per thread, since `parking_lot` locks are
  eventually fair; a reader that would pass a waiting writer is not counted as
  served (`Prompt`), which is how `RwLock` treats it.
- `DaemonProcess!FairSpec`: weak fairness of each daemon's main task and of its
  two other tasks. Signals, requests, failures and commands are not fair.
- `Plugins!FairSpec`: weak fairness of each caller's thread inside `dispatch`, of
  each reaper thread, and of each hook that can end: an endless one never can,
  one that reads its input ends after the input is closed, one that fills its
  standard error blocks for as long as the daemon holds the other end. Nobody
  has to dispatch. `DispatchReturns` excepts a caller that writes more than a
  pipe holds to a hook that neither reads nor ends (`Stuck`), and
  `EveryHookReaped` the hook whose caller panicked (`Dropped`): both are what
  the code does.

## 5. Proofs

Checked by `tlapm` for all values of the constants under the named assumptions
of the modules (`NoKeyAssumption`, `RequestsAssumption`, `ConfigAssumption`, `KindsAssumption`,
`WorkersAssumption`, `BoundsAssumption`, `NobodyAssumption`, `StartsAssumption`,
`PortAssumption`, `DurationAssumption`, `PluginsAssumption`). All that is not
evident in them: there are finitely many threads and plugins, and the digits
ports are written with are enough for every port.

- `ConnectionManager_proofs`: what each operation does to the domain, the type
  and the size of a table; a nonempty finite table has an LRU entry.
- `Daemon_proofs`: `TypeCorrect`. Then for `OneOpensAtATime` (one client opens
  connections, any number of others close them; any number of keys, any limit,
  all faults, health on or off): `SerialCapacity`, `SerialEviction`,
  `SerialEvictsOldest`, and `ImplementsPool`, that the daemon implements
  `BoundedPool`. `WithinCapacity` is not inductive: between the check
  and the insertion one must know that there is room for one more
  (`RoomToAdd`), that the chosen victim still makes it if it is there
  (`RoomOnceEvicted`), and that the target is not in the table, or inserting it
  would not be an admission (`TargetAbsent`). `SerialInv` is their conjunction,
  itself a theorem (`SerialInvariant`). A client that closes only ever removes
  entries (`SerialCloserStep`), which none of the three minds; so may the health
  loop and a dying master. That the victim is still the oldest when it is
  removed (`SerialEvictsOldest`, for `Reconnect = FALSE`) needs just that:
  removals keep the oldest the oldest (`RemovalKeepsOldest`), while a
  reconnection would touch the victim, which is then evicted although it has
  just become the youngest.
- `DaemonOwnership_proofs`: any number of concurrent clients.
  `EveryOrphanExplained` and `EveryDriftExplained` assume nothing, neither of
  the requests nor of the faults: they go through every step of the daemon, the
  commands, the masters and the restart, and show what each does to the set of
  masters somebody keeps and to what plugins believe. `OpeningsAnnounced` is for
  `Disjoint` requests (no two clients about one key) and the health loop switched
  off, under every fault and with restarts. `NoMasterLost` is for `Exclusive`:
  besides, stops and checks work and there is no lost handover or restart, each
  of which loses a master (`EveryOrphanExplained` lists them). In the code the
  health loop always runs, unless a period of zero has made it panic: the two
  theorems, and `ExclusiveInvariant`, are about what requests do to each other,
  and hold of a daemon between two ticks, not of one whose loop reconnects or
  drops an entry meanwhile. The inductive invariant is
  `ExclusiveInv` (`ExclusiveInvariant`): what has to be added is that an entry
  found stale stays dead until it is dropped, and that a closed key stays out of
  the table until its closing is announced.
- `Metrics_proofs`: `TypeCorrect`, and for any number of threads, midnights and
  daemons: `FileIsPaired` by `PairInv` (`DayAndTotalsPaired`): the day a persist
  has copied cannot roll until it has copied the totals. `ImplementsLedger`:
  every step of the store is one of the ledger or none; the ledger follows every
  call from its beginning to its return, so that one which counted twice, or
  returned without having counted, would have no step to map to, and a reset is
  part of the admission of the call that brought another day: the day guard must
  be held over it, or a count could fall in between (`PairInv`).
  `HostsAreCounted`: the
  totals count a connection before its host does and `persist` copies them in
  that order, so that the day's connections exceed those of all hosts by at most
  the threads between the two, and by as many as each daemon that took over
  found missing in the file it loaded. The proof bounds the set of such threads in every step.
- `DaemonProcess_proofs`: `TypeCorrect`, `SocketIsOwned` and `OneInstanceServes`
  for any number of daemons and commands when starts are not concurrent, by
  `ProcessInv`: the socket path belongs to the daemon bound to it; whoever is
  about to remove a stale socket knows that nobody serves, because a server
  would have answered its probe and none can have come up since.
  `ImplementsSingleServer` rests on it: the path is taken only when nobody is in
  service, and cleared away only when nobody is either.

- `Inputs_proofs`, for texts of any length over any alphabet: `TypeCorrect`,
  `NothingTypedIsAFlag`, `KeysTellTargets` and, of two texts,
  `DifferentTargetsDifferentKeys`. A key is cut at its first `@` and its last
  colon; a user has no `@` in it (it ends at the first one) and a port no colon,
  so both cuts fall where `key` glued. `BracketsReachEveryHost` and
  `DisplayedNamesAreNames` glue a target together and read it again: the first
  `@` of the text is the one after the user (`UserReadsBack`) or there is none
  (`NoUserNoAt`: a host read without a user has no `@`), and what follows reads
  as host and port (`BracketsRead`, `PlainReads`). The lemmas before them are about
  the first and the last place of a character in a text (`FirstIs`, `LastIs`,
  `SplitAt`), which the definitions choose with CHOOSE.
- `Durations_proofs`: `DurationsMeanWhatTheySay`, for texts of any length and
  any bound of `u64`. `parse_duration` reads a number digit by digit from the
  left (`Value`), the property adds its digits by their places from the right
  (`PlaceValues`). Both are recursive functions; that each obeys its own
  equation (`ValueIs`, `PlaceValuesAre`) and that they agree (`LeftIsRight`) is
  induction on the length, written as the least length for which it would be
  wrong (`LeastIndex`), since the library's induction theorems take an operator
  no installed prover can instantiate. The rest is where a trimmed text begins
  and ends (`TrimmedIs`), what is read as its number (`NumberRead`) and that a
  text has at most one meaning, the one that is read (`MeaningIs`).
- `Plugins_proofs`, for any plugins, callers and limits: `TypeCorrect`;
  `EveryHookHasAReaper`; `EveryoneIsTold`, by the invariant that the hooks of a
  dispatch are those of the plugins it has come past, which needs that a plugin
  is in the list once and that no hook of a later dispatch exists.

Only model-checked: everything under fairness (`DeadEntryHandled`,
`EveryCallReturns`, `ToldServerStops`, `DispatchReturns`, `EveryHookReaped`),
since neither liveness nor ENABLED is within the prover's reach. Every safety
property of the passing runs is a theorem. The
theorems that assume one opener, or requests about keys of their own, cannot do
without: `core_overflow` shows the limit exceeded by two openers, and
`core_resurrect` a master lost to the health loop that `Exclusive` excludes.

## 6. Findings

Five runs end in a counterexample, each against a sentence of the repository
(`PROJECT.json`, `findings`): the overflow of `maxConnections`, the revived
master, the metrics lock inversion, twin daemons, and the thread that
`dispatch` cannot start, which panics its caller.

Seen while modelling, without a run of its own:

- Eviction and the drop of a stale entry emit no `ConnectionClosed`
  (`crates/daemon/src/state.rs:30`, `ipc.rs:140`).
- A thread that read the day before midnight can set it back after another has
  moved it on, wiping the new day's counters (`crates/metrics/src/lib.rs:95`);
  an older copy can be written last and a record be lost at the next start
  (`lib.rs:222`). A daemon that is about to be refused has by then rewritten
  `metrics.json` with what it loaded (`lib.rs:90`), which may be older than what
  the serving one has written since.
- The comments of `remove` and `least_recently_used`
  (`crates/daemon/src/connection_manager.rs:129-133,154-156`) say that the
  master is stopped before the entry is removed; close and eviction remove first
  (`ipc.rs:75`, `state.rs:30`), and the health loop and the stale drop, which
  act on a check that may also have failed to run, stop nothing (`health.rs:85`,
  `ipc.rs:140`).
- A `listen` that fails inside `UnixListener::bind`, an `accept` or a
  `set_permissions` that fails leave `daemon.sock` behind (`ipc.rs:229-237`),
  which the next daemon takes for stale.
- A refused daemon, or one going down slowly, deletes the pid file of the one
  that serves (`crates/daemon/src/main.rs:28,68`); a SIGTERM before `serve_unix`
  subscribes is lost and the next ones ignored (`main.rs:90`); a daemon refused
  before its health task was first polled never exits (`main.rs:65`).
- `::1` without brackets is read as host `:` with port 1; `[]` is read as an
  empty host; what follows `]` without a colon is dropped; the user ends at the
  first `@`, where `ssh` takes the last (`crates/core/src/lib.rs:85-115`).
- `healthCheck: 0s` is shown as fine by the doctor and panics the health loop
  (`crates/daemon/src/health.rs:17`); a duration too large wraps around or
  panics, and one that ends in a character of several bytes panics
  (`crates/config/src/lib.rs:105-113`).
- The configuration's `metrics` and `autoMultiplex` are read by nothing; whether
  `config.yaml` exists is looked at before it is created
  (`crates/config/src/lib.rs:167`).
- An event larger than a pipe blocks `dispatch` on a hook that does not read
  (`crates/plugins/src/lib.rs:119`).

## 7. Not modelled

- The Windows transport: the same request loop over another kind of socket,
  which the code builds on Windows only.
- The printing of the CLI and of the doctor, and the JSON wire format: no state,
  and no property is about the wording. The doctor only reads: the environment, and
  whether `parse_duration` accepts the interval.
- Loading, creating and saving `config.yaml`: one process at a time does each,
  at its start; of the contents, how a duration is read and what
  `maxConnections` and `reconnect` decide are modelled.
- The hash that names a control socket: two keys are taken to have different
  sockets, as two 64-bit hashes have.
- The arithmetic of latencies and of the baseline, and the top five of a
  snapshot: averages that are reported and decide nothing.
- The number of worker threads of the runtime: `evict_lru` runs a subprocess on
  one of them, so that enough evictions at once stop the others; in `Daemon` a
  task that waits holds up no other.

What would extend the project next: runs for the pid file and for the lost
signal of `DaemonProcess`, and a bound on worker threads in `Daemon`.
