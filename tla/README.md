# A verification project for saptools

saptools is a monorepo of some thirty command-line tools and libraries for SAP BTP Cloud
Foundry (`src/packages/*`, TypeScript on Node.js). Most of what they do is sequential:
call the `cf` CLI or an HTTP API, convert, print. The parts that are hard to get right are
the few that share state: between processes (files under `~/.saptools`), between callbacks
of one process (streams, sockets, timers, pools), or with a remote program that goes on by
itself (a tunnel, a debugger, a trace hook). This project models those parts in TLA+,
checks them with TLC and proves the most important results with TLAPS.

## 1. The system: components, state, operations, hard behaviour

| component | state it keeps | operations | what is hard | properties that make it correct |
| --- | --- | --- | --- | --- |
| cf-debugger lock (`lock.ts`) | a lock file, a recovery lock file beside it | `withFileLock`: create exclusively, poll, release by token; recover a dead owner's lock | every file-system call interleaves with every other process; owners die between any two of them; pids are reused; hosts differ | mutual exclusion; a live owner's lock is never removed; a dead owner's is |
| cf-debugger sessions (`session-state/`, `debug-session/`) | the state file (one record per session), stop-intent files, CF homes, detached SSH tunnels, the memory of each controller | start (register, log in, tunnel, commit ready), dispose, tunnel close, stop, stop --force, stop --all, list, prune, doctor | snapshots read outside the lock, liveness inspected outside the lock, a controller and any number of commands ending the same session, crashes that leave a tunnel | a target and a port belong to one session; a running tunnel stays listed; a recorded stop takes effect; a crash is never reported as a clean exit; an ended session leaves nothing behind |
| cf-hana pool (`pool.ts`) | idle stack, lent set, queue, a hand-kept count | acquire, release, withConnection, drain | opens that fail or arrive late, connections that go down unnoticed, drain in the middle | the count is exact and bounded; one borrower per connection; queued calls are answered; drain leaves nothing open |
| cf-hana tunnels (`tunnel/`) | one cache file per database host, `cf ssh` processes | claim, wait, finalize, evict, reap | takeover of a stale claim, removal by path, killed clients | one establisher per host; a running tunnel is listed or in somebody's hands |
| cf-hana transactions (`client.ts`, `transaction.ts`) | a finished flag, the connection's autocommit, the session in the database | transaction, commit, rollback | a failing commit, late statements, lost answers | a connection returns to the pool with no work pending; transaction() tells the truth |
| cf-logs runtime (`runtime.ts`) | sessions, available and active apps, running streams, reconnect timers | setSession, setAvailableApps, setActiveApps, stream exits, reconnects | everything between two awaits | an active app has one stream, an inactive one none |
| cf-tail runtime (`runtime.ts`) | started/stopped, apps, one rediscovery timer | start, stop, refresh, rediscovery | stop or a session change during a refresh | streams follow the space; nothing runs after stop |
| cf-explorer (`session/`, `broker/`) | a session file, one broker process and one remote shell per session | start, attach, stop, idle and hard timeouts | broker and commands update the same record; the broker dies | one broker per record; requests are answered; a stopped broker is gone |
| cf-inspector (`sessionLock.ts`, `cdp/`, `inspector/`) | lock files of an election, pending requests of a socket | elect, send, receive, time out, close, fan out | an election by waiting; answers after timeouts | one debugger per target; each request settles once |
| cf-function-trace, cf-live-trace | breakpoints, pauses and hooks in a remote program, a guard of what a forced exit must release | arm, pause, step, drain, uninstall, forced exit | timeouts of calls that did take effect, an exit that overtakes the cleanup | the remote program is left as it was found; events are delivered once, in order |
| core self update (`self-update/`) | a state file, a lock file | check, install | takeover of a stale lock | one installer at a time |
| cf-sync (`topology/`) | the topology file, a runtime file, locks | sync, `--only`, region, org and space refreshes, reads | recovery of the sync lock by what the runtime file says, partial results, two files written one after the other | a completed sync is whole; a refresh keeps what it was not asked for |
| cf-metrics, cf-otel | a SAML setting of a shared instance, a service key | disable, confirm, create and read a key, restore, confirm, delete the key | each of eight cf commands may fail or be carried out although it failed | the setting is restored or the failure is loud; no key is left unnamed |
| watch loops of cf-metrics, cf-events | a cursor, the ids seen at it, the last printed time | poll, advance, enter again after a rejected credential | pages that do not hold all that is new, equal times, late documents | each document is shown once, in order, and none is passed by the cursor |
| the rest | files or responses of one call | one-shot commands | I/O failures only | the conversion is right (unit tests) |

They interact little: every tool uses `core` (credentials, regions, self update) and
`cf-sync`'s files as a library; cf-inspector, cf-function-trace and cf-live-trace open their
tunnel through `cf-debugger`; cf-tail drives the runtime of cf-logs; hana-lens and sqltools
use cf-hana. The state file of cf-debugger is therefore the one shared by most tools, and is
modelled first.

## 2. Modules

| module | models | refines |
| --- | --- | --- |
| `ExclusiveLock` | what `withFileLock` promises | |
| `FileLock` | `cf-debugger/src/lock.ts`, a step per file-system call | `ExclusiveLock` |
| `SessionRegistry` | what readers of the session state may rely on | |
| `DebuggerSession` | `session-state/*`, `debug-session/*`, a step per lock section, inspection or process event | `SessionRegistry` |
| `ConnectionLoans` | what the pool promises those that call `withConnection` | |
| `HanaPool` | `cf-hana/src/pool.ts`, a step per piece of code between two awaits | `ConnectionLoans` |
| `HanaTransactions` | `client.ts`, `transaction.ts`, `connection.ts`, `driver/hdb.ts` over the pool, with the database session of each connection | extends `HanaPool` |
| `HanaTunnel` | `cf-hana/src/tunnel/*`, a step per access to the cache file, spawn, kill or connection | |
| `LogStreams` | `cf-logs/src/runtime.ts`, a step per callback of the event loop or microtask | |
| `TailRuntime` | `cf-tail/src/runtime.ts` over the log runtime | extends `LogStreams` |
| `SelfUpdate` | `core/src/self-update/*`, a step per file access, request or install | |
| `InspectorElection` | `cf-inspector/src/cli/sessionLock.ts`, a step per file-system call | |
| `LiveTrace` | `cf-live-trace/src/session.ts` and the hook in the traced application | |
| `ExplorerSession` | `cf-explorer/src/session/*`, `broker/explorer-broker.ts`: one session with its start command, broker and stop commands | |
| `RemoteShell` | `cf-explorer/src/broker/persistent-shell.ts`, `protocol.ts` | |
| `TopologySync` | `cf-sync/src/topology/*`: syncs, fetches and refreshes, a step for each file that is written under the state lock | |
| `SamlToggle` | `mintDashboardsCredential` of cf-metrics and cf-otel, a step per cf command | |
| `FunctionTrace` | `cf-function-trace/src/*`: controller, session, process guard, shutdown, a step per request, answer or signal | |
| `Watch` | `cf-metrics/src/watch.ts` with its command, `watchEvents` of `cf-events/src/runtime.ts`, a step per poll | |
| `Arrays` | `Array.prototype.filter` by the elements it keeps, for `LiveTrace` and `Watch` | |
| `MC*` | the instances TLC checks; `MCTools` puts ten modules side by side | |
| `FileLockProof`, `DebuggerSessionProof`, `HanaPoolProof`, `LogStreamsProof` | theorems of the module named, the latter also of `TailRuntime`, `HanaPoolProof` also of `HanaTransactions` | |
| `ToolLocksProof`, `ToolRecordsProof`, `TracesProof` | theorems of `SelfUpdate`, `InspectorElection` and `HanaTunnel`; of `SamlToggle`, `ExplorerSession`, `TopologySync` and `RemoteShell`; of `LiveTrace`, `FunctionTrace` and `Watch` | |
| `ToolsProof` | theorems of the ten protocols as `MCTools` puts them side by side | |

### FileLock

`file` is the directory: the main lock and the recovery lock, each with the identity of the
file, its creator, whether its owner record is written yet and whether it is past the age
that applies to it. `pc`, `mine`, `seen` and `removed` are the locals of each process in
`withFileLock`: the control point, the token it wrote, what it last read of somebody else's
lock, the result of `reclaimStaleLock`. One action is one file-system call with the code up
to the next: `OpenExclusive` and `WriteOwner` (the two halves of `createFileLock`),
`ReleaseRead` and `ReleaseUnlink` (of `removeOwnedLock`), `InspectRead` and `InspectStat` (of
`inspectLockStaleness`), and so on. `OwnerIsStale` is `lockOwnerIsStale`: it combines the owner
read earlier with the age of the file that is there now, as the code does. A process is an
incarnation: it dies once (`Crash`), its pid may then be reused (`PidReused`), its record may
lack an identity (`Identified`). Clock arithmetic becomes the flag `aged`. Only a dead owner's
file ages, unless the owner is one of `SlowOwners`.

### DebuggerSession

`record` is the state file, `intent` the stop-intent files, `home` the CF homes, `tunnel` the
SSH processes, `pc`, `port` and `excluded` the memory of each controller, `close` its handling
of the tunnel's close event, `stop` and `prune` the commands in progress with the record they
have read. A read-modify-write of the state file is one step because `withFileLock` makes it
one: that is what `FileLock` implements. Everything the code reads outside the lock is a step
of its own, and what it read is kept and may be stale. `asked` and `forced` are history
variables for the properties. The phases "targeting", "ssh-enabling", "ssh-restarting" and
"signaling" are folded into "logging-in" and "tunneling": each consists of the same guarded
status update and a CF command that may fail.

Left out: a home that cannot be deleted (the code reports it and goes on), the fallbacks for
records without process identity (FileLock has them for locks), doctor's cleanup of stop-intent
files and legacy state, sessions of other hosts (they are skipped everywhere), `stop --all`
(it stops each session in turn). A prune judges each record by itself, so it is modelled one
record at a time; that registration prunes before it chooses and before it persists is covered
by a prune being possible at any time.

### HanaPool and HanaTransactions

A task is one call of `withConnection`; a connection is named after the task it was opened
for. `idle`, `busy`, `waiters`, `created` and `draining` are the fields of `ConnectionPool`,
`alive` is the driver's side, `pc` and `held` the callers. `ServePendingWaiters` is the loop,
all of it. Idle expiry is a choice (`TakeIdle`): when an entry is expired the older ones below
it are too. Closing is asynchronous in the code, so the database may see more than the maximum
for a moment; the count is the pool's.

`ConnectionLoans` is the pool as its callers see it: each is outside, waiting, lent a connection,
has returned it or was denied one. It knows no queue, no stack and no count. Resting connections
may be closed with any step, one that was opened late is lent even after a drain, and one that
comes back after a drain is closed.

`HanaTransactions` says what a call does between the pool's hand-over and its release. `tx` is
how far `transaction()` is, `own` the finished flag when the work itself called commit or
rollback, `statement` the statement in flight, `manual` the connections whose autocommit is off,
and `pending`, `kept`, `undone`, `doubtful` the database: uncommitted work per session, committed
and rolled back work, commits whose answer was lost. Assumed of the database: a commit that it
refuses is rolled back by it, and a session that ends is rolled back. A transaction in `Stray` is
one whose work may end before its statements have (a `Promise.all` in which one fails).

### HanaTunnel

`entry` is the cache file of one database host, `ssh` the tunnel processes, `client` each
connection attempt: where it is, its candidate app, the entry it last read. Removal and
replacement are by path, so they act on whatever is there by then; `slips` remembers when that
was not what was meant. Whether a ready record has expired, and whether a marker whose owner is
still connecting is too old, is open each time it is looked at. Left out: other hosts' files
(each is by itself, only reaping visits them all), how candidates are chosen, pids that another
process took over.

### LogStreams and TailRuntime

`session`, `version`, `available`, `active`, `running` and `timers` are the fields of
`CfLogsRuntime`; `prepared` and `preparing` stand for `preparedVersion` and the login promises
(at most one per session version is pending: a new one is made only after the old one settled or
the version changed). `stream` holds the stream objects somebody still refers to. `task` is
either the loop of one `setActiveApps` call or the start made by one reconnect timer: which start
it is making, for which session version, and which apps its loop has still to start. Code between
two awaits is one step; a callback of the event loop (`Quiet`) runs only when no microtask is
left, so that a resumed `await` is never overtaken by a timer or a child's event. Among microtasks
any order is possible, which is more than the code has. `orphans` are the live children that
lost their entry without being stopped: operating-system state, not the program's. `wanted` is a
history variable: the apps of the last `setActiveApps` that were not taken back by `setSession`,
`setAvailableApps` or `dispose`.

`TailRuntime` adds the caller that matters: cf-tail's `start`, `stop`, `setSession` and refreshes
(`cf apps`, then `setAvailableApps` and `setActiveApps`), with the rediscovery timer. `driver`
chooses whether the log runtime is driven by any caller of its API or by cf-tail. `following` is a
history variable (a start succeeded and no stop came since), `overtaken` says that a stop or a
session change met a refresh or a start in flight.

Left out: the rows, their filters and limits, the reported stream states, flush timers (they
change no control), the back-off delays (a timer may fire at any time), a child that reports its
end twice. A snapshot matters by its login only: `FetchSnapshot` is the case in which it logs in,
first or again.

### SelfUpdate

`shared` is the state file, `ulock` the lock file, `cmd` each command with the state it has read,
`installed` and `published` the package directory and the registry. The registry's answers, the
age of times in the state file and the end of an install are choices; a lock is old only when its
owner was killed (an install is cut off after 3 minutes, a lock is old after 10). An install
orphaned by a killed command goes on for a while (`OrphanEnds`).

### InspectorElection

A contender is its token. `mark` is its lock file, `elect` where it is and what it has seen,
`waiting` compares durations without a clock: when a contender starts its window of 25 ms, those
who have listed the directory but not yet decided; if one of them is still undecided when the
window is over, it was `slow`. The other `mishaps` are a file that vanished between the look and
the reading, and a listing or write that failed.

### LiveTrace

`trace`, `stopRequested`, `handle`, `polling` and `drains` are the fields of the session, `act`
each call of start or stop and the drain, `sent` the expressions on their way to the application,
`app` the hook there with its queue and pending drain. An expression that was given up after its
timeout is run all the same. `strays` marks the two situations the properties exclude: a stop
while a start was connecting or installing (the code does not look at it again), and a hook that
may be there when a state said there is none.

### ExplorerSession and RemoteShell

One session: `record` in the sessions file, `starter` the start command, `broker` with its startup
and shutdown (which overlap), `shell` its ssh child, `stopper` the stop commands, `home` and
`socket` the files, `login` a cf command that may still write into the home, `jammed` the lock file
left by a killed process. A section under the lock is one step; when it is jammed each of its users
times out, which the actions say one by one. `RemoteShell` is the framing: scripts go to one remote
sh, pieces of output come back in chunks that break anywhere, also inside a character, and a
command that was given up goes on printing until its ssh process is gone.

### TopologySync

`syncLock`, `runtime` and `stable` are the three files; a region of the structure is, per org,
missing, known in part, or whole. A sync takes the lock (or weighs the one it finds: empty, dead
owner, settled or outdated runtime state), initialises the runtime state, collects the regions it
was asked for, merging each, and completes. Fetches persist whole regions and refreshes parts of
regions meanwhile. Ages are free choices.

A section under the state lock is one step when it writes one file. Completion, a fetch and a
refresh write two, the runtime state and then the snapshot: between the two steps `section` holds
what is still to be written, and nobody else has the lock. The second step writes the snapshot
(`PublishesSync`, `PublishesRegion`, `PublishesRefresh`) or fails (`SnapshotFails`, `FetchFails`,
`RefreshFails`), or never comes: a sync may be killed anywhere (`SyncKilled`), a fetch or a refresh
just takes no further step. Who is killed in a section leaves the lock file, which nobody takes for
stale, and every later section waits; in the code those waits end with an error after ten seconds,
which the model has for the sync that collects (`FailsSync`). One who is killed with the lock
before the first file, or after the last, leaves the files as they were and stops the others, a
state in which they just take no step. `behind` is a history variable: the
regions in which the snapshot was not written, or is not yet, after the runtime state.
`CompletedSyncIsWhole` wants snapshot and runtime state to agree in all others. It says the rest,
that what was asked for is whole in the runtime state, of every state.

### SamlToggle

`instance` is the Cloud Logging instance with the update it is applying, `mint` each command with
the parameters it read, `keys` the service keys. A cf command that is killed after its minute may
have been carried out, so every failure leaves both outcomes open; an instance that is applying an
update refuses another. The parameters are the SAML switch and one number for all the rest.
`wanted` (what the administrator wants) and `disturbed` (a mint or an edit during a mint, a disable
that failed and took effect, Ctrl-C) are history variables. The two packages have the same code but
for cf-otel's `retainedKeyNote`; which of the two a command is, is the constant `Otel`.

### FunctionTrace

`undo` is `ControllerState`: what the controller knows it has to undo. `wire` holds the requests on
their way; the application runs them in the order they were sent, also those whose sender has given
up (`GivesUpRequest`: a share of the deadline used up, a request timeout, an abort). `guarded` is
what is registered with the process guard, `emergency` its `runCleanup`, which goes on beside the
main flow. Which pause belongs to the activation, which steps the plan takes and how long anything
lasts are choices, bounded by `MaxSteps` and `MaxSkips` (the code's own limits, far lower here).
`failings` is a history variable: what a release reported or what the code cannot know. The depth
of async stacks, set and reset like exception pauses, is left out, and the guard sends the requests
of one `cleanupTrace` together.

### Watch

`landed` is the log that is polled, the time of each document in the order of arrival; documents
may land after later ones and share a time. `watch` is the loop of either package: the cursor and
the dedup set, and for cf-metrics the `replaying` flag of the command, whose `lastPrintedTime` is
the time of the last of `shown`. A page holds `FetchLimit` documents, of those with one time any.
`missed` is a history variable: what landed behind the cursor, what was older than the look-back
window when a loop was entered, what a replay drops because it has the last printed time, and in
cf-events what did not fit on a page. Times of different precision, which are compared as text,
and documents without a time are left out.

### MCTools

`HanaTunnel`, `SelfUpdate` and the eight modules after it share nothing, and each is small.
`MCTools` exercises one of them in each behaviour while the others rest in their initial
state; this is the union of ten checks in one run, not a claim that they interact.

## 3. Runs

All runs have `CHECK_DEADLOCK FALSE`: processes die, sessions end and calls are answered.

| run | instance | what it shows |
| --- | --- | --- |
| `file_lock` | 3 processes, 2 hosts, one without identity, reused pids; a hasty scene with deadlines and a patient one without; death anywhere but inside the recovery before its token is written | `WorkIsCovered`, `ImplementsExclusiveLock`, `DeadOwnerLeaves` (in the patient scene) |
| `file_lock_recovery_crash` | 4 processes, one host, death in the work or in the recovery | violates `WorkIsCovered` (finding 1) |
| `debug_session` | 1 session, 1 stop command after another, prunes, doctor, expiry, failing inspections, a tunnel that outlives its signals, death anywhere | `ReadyTunnelListed`, `LiveSessionKeepsHome`, `CleanEnd`, `UnaskedEndReported`, `StartupStopHonoured` |
| `debug_registration` | 2 sessions of one target, 2 ports, controllers that die with their tunnel running | `ImplementsRegistry` |
| `debug_old_stop` | 1 session, 1 stop command, nothing else goes wrong | violates `OldStopDoesNotMaskCrash` (finding 2) |
| `hana_pool` | 2 connections and 5 plain calls, or 2 calls and a transaction, or 2 transactions | `CountExact`, `QueueMeansFull`, `ImplementsLoans`, `AnsweredUnlessUnopened`; `SessionIsBorrowers`, `OutcomeIsTrue` |
| `hana_pool_failed_open` | 3 calls, 1 connection | violates `EveryWaiterAnswered` (finding 3) |
| `hana_stray` | 1 transaction whose work does not wait for its statements | violates `RollsBackOnThrow` (finding 5) |
| `log_streams` | 1 app, 2 sessions, one `setActiveApps` loop and one timer start at a time, snapshots, with and without persistence; or cf-tail with two chains of refreshes | `TrackedStreamIsCurrent`, `WantedIsStarting`, `WantedIsStreamed`; `StoppedIsQuiet`, `StreamsAreInCatalog`, `RediscoveryGoesOn` |
| `log_streams_orphan` | 2 apps, 1 session, no persistence | violates `StoppedAppHasNoChild` (finding 4) |
| `tools` | 3 update commands; 3 contenders; 3 tunnel clients of 2 orgs, 1 candidate each, one with `--refresh-tunnel`; 2 starts and a stop of a trace, 2 requests; 1 explorer session, 2 stops; 2 shell commands of 2 lines; a full and an `--only` sync, a fetch and a refresh of one org, in 1 region of 2 orgs; 2 mints, one of them cf-otel's, and an edit; a trace of 1 step with 1 foreign pause, signals and a forced exit; a watch of 4 documents in pages of 2, over 3 instants, with a retry | the fifteen invariants of `MCTools.cfg`, in 3 million states |
| `topology_siblings` | 2 regions of 2 orgs, `sync --only` of one, a refresh in the other | violates `OthersKept` (finding 6) |

Why the bounds are enough. A removal of a live lock needs an owner that dies, a process that
observed it, and one that acquires in between: three. The double removal of the recovery lock
needs a fourth. Sessions meet only at registration (target, port) and are otherwise
independent, which is why one session suffices for the stop, prune and crash behaviour and two
for registration; one prune at a time stands for any number because it holds nothing between
its two steps but a copy of the record, which the properties do not tell apart from a stale
one. Five calls on two connections give a full pool with a queue of three, in which a failing
open serves one call and leaves two; a transaction needs a second call to be disturbed by, before
or after it on the same connection. The apps of the log runtime meet only in the login they
share and in the loop over them; the safety properties are proved for every number of apps,
overlapping calls and timers, the run adds liveness, for which one app, a loop, a timer's start and
a replaced session are what can hold each other up. Three stream objects are a tracked one, one
whose end is being persisted and a new one. Two refreshes are a chain that stop and start left
behind and the new one.

In `tools`: a lock, a marker or an election is disturbed by one process that is about to act on
what it read, one that acts first and a third that comes in between, as for the file lock; the
theorems hold for any number. Two of the three processes (`a`, `b`) are alike and permuted by
symmetry, and so are the two starts of a trace and the two stop commands of a session, which
are named by the same values; no module compares or orders them. A trace needs a start that
overlaps another one and a stop; two requests with batches of one give a drain that is repeated and one after it. Two stop
commands can clean one session at once. Two commands are what late output can mix. A second sync is
what a recovery of the lock needs; one region with two orgs tells a part from a whole, and it does
not matter which of the two the refresh names. What a sync with `--only` merges into other regions
is in `topology_siblings`, and the theorems hold for any number of them. Two
mints overlap or follow each other, one edit is enough to be overwritten. A trace has the same loop
body for every step; one step and one foreign pause visit every request. Pages of two with four
documents leave as many behind as they hold, which may share a time on either side of the cut; with
three instants a document can land behind, at and beyond a cursor that has moved once.

### Fairness

- FileLock: a process that called `withFileLock` goes on until it is killed (`WF` of `Step`); a
  write that is tried again and again succeeds some time (`SF` of `WriteRecovery`: a full disk
  does not last); files age (`WF` of `Age`). No fairness for callers: nobody has to call.
- DebuggerSession: each controller is an ordinary process (`WF` of `ControllerStep`). Stop
  commands, prunes, doctor and the tunnel have none.
- HanaPool, HanaTransactions: an open settles by the driver's connect timeout, statements end by
  the statement timeout (`WF`), and the caller's work comes to an end (`SF`: it may be between
  statements again and again). That a commit or rollback is answered, which has no timeout, is
  assumed of the database. No call has to come, no connection has to fail.
- LogStreams: microtasks run (`WF` of `Micro`), each login ends, a set timer fires, a file write
  ends (`SF`, because they wait for the event loop), and a login or spawn of one app's start that
  is tried again and again succeeds some time (`SF`: a broken network does not last). Children may
  stream for ever and callers need not call. Without the last assumption the runtime retries for
  ever, as it should.
- The modules of `MCTools` have safety properties only and no fairness.

## 4. Theorems

TLAPS checks the following for every value of the constants.

- `FileLockProof`: `TypeCorrect`, `WorkStaysCovered`, `RecoveryStaysCovered` (the same for the
  recovery lock; no run checks it by itself), `Refinement`. Two
  assumptions: `Prompt` (no suspended owner: age cannot tell a suspended owner from a dead one)
  and `RecoveryRunsToItsEnd` (no process dies inside the recovery: finding 1 shows that the code
  needs it). `WorkIsCovered` alone is not inductive. The strengthening says in addition that the
  token of a process is its own (nobody else's `mine`, and no stale `seen` denotes the file of a
  live process), that a process past `inspectStat` has seen a dead owner or an aged file of one,
  and that the recovery lock of whoever is inside the recovery is in place. The argument: an
  unlink of the main lock happens with the recovery lock held and after the token was compared;
  between comparison and unlink the file could only be replaced if somebody unlinked it, which
  takes the recovery lock or being its live owner.
- `DebuggerSessionProof`: `TypeCorrect` and `Refinement` (to `SessionRegistry`). The inductive
  invariant adds that a controller past the choice of a port has one, and that a record is at
  most as far as its controller (`StatusFollowsController`), so that only `CommitReady` can make
  a record ready, under the guard that no stop is recorded. A session that has left the list, or
  gave up before it was on it, is `over` in the registry and can never register again: an update
  that was on its way when a stop or a prune removed the record does not bring it back.
  `ReadyTunnelStaysListed`, `LiveSessionsKeepTheirHome`, `EndsAreClean` and
  `CleanExitsWereAskedFor` are about what a session leaves behind and who may take what from it.
  None of the four properties is inductive: a stop command and a prune act on what they read some
  steps ago. `CleanupInv` says, per session, what exists at which point (`Fresh`, `Cleaned`,
  `KeepsHome`, `KeepsTunnel`, `AskedFor`) and, per stop command and prune, which of what it has
  read still holds (`StopKnows`, `PruneKnows`). The latter use only facts that no later step of
  anybody undoes (`Begun`, `Gone`, `Doomed`, `Sealed`); that they last is the lemma `Lasting` of
  every action, and the reason why acting on an old snapshot is safe.
- `HanaPoolProof`: `TypeCorrect`, `CountStaysExact`, `LoansStaySole`, `DrainLeavesNothing`, with no
  assumption beyond a positive maximum and a finite set of calls. The inductive invariant adds
  that the queue holds the queued calls once each, that a connection is opened once, and that a
  draining pool keeps nothing idle and nobody queued.
  `QueueStaysFull` says what a queued call waits for: nothing rests and as many connections as may
  be are lent or being opened, unless an open has failed unqueued (finding 3). What keeps it is that
  serving the queue opens until the pool is full again (`ServeFillsPool`). `PoolLends` is the
  refinement of `ConnectionLoans`, of which one borrower per connection and nothing open after a
  drain but what is lent are consequences (`LoansStaySole` and `DrainLeavesNothing` state them of
  the pool itself, and have no run of their own), with the counts of the pool's invariant as the reason why a loan
  never exceeds the maximum (`LentIsBusy`, `CountsAlike`), and one lemma per kind of step that says
  which loan it is: an opened connection is the first one's in the queue, not its opener's
  (`ServesOthers`), a returned one is passed on, kept or closed (`Returned`, `PassesOn`).
  Over `HanaTransactions`, `TransactionsUsePool` shows that every behaviour of a pool with
  transactions is one of `HanaPool`, so that the pool's theorems hold under it. With them,
  `NothingLeftBehind` and `OutcomeStaysTrue`, for transactions that wait for their statements
  (`Stray = {}`; finding 5 shows what happens otherwise). The inductive invariant `TxInv` adds that a
  running transaction has a connection with autocommit off (`RunningHolds`), that a statement is in
  flight on the connection of a transaction whose work goes on (`StatementIsOwn`), and that until a
  transaction settles nothing of it is kept and something of it is undone only with its connection
  (`UnsettledIsOpen`).
- `LogStreamsProof`: `TypeCorrect`, `TrackedIsCurrent`, `WantedIsServed`, with no assumption beyond
  the sentinels being different from apps and streams. The inductive invariant adds that a task
  in a start names its app (`TaskNamesApp`), that a live stream has its app's entry and only
  persistence takes time to end one (`LiveIsTracked`), and that a wanted app is active under a
  session (`WantedIsActive`). The argument for `WantedIsServed`: a task that gives up a start either
  made the stream, set the timer, or had a session version that is not the one of now, in which
  case the app is wanted for another reason.
  Over `TailRuntime`, `TailKeepsThePromises` carries all of this over to cf-tail as the caller: its
  own steps, which combine several calls of the log runtime, keep the same invariant.
  `StopIsFinal`, `RediscoveryNeverEnds` and `StreamsStayInCatalog` are cf-tail's own. `TailInv`
  adds to the invariant of the log runtime that there is one chain of a rediscovery timer or a
  refresh (`OneChain`), that a stopped runtime is dormant: no stream, timer or task of the log
  runtime is left either, and that the active apps are of the catalog (both `Undisturbed`, as long
  as nothing was `overtaken`), and that a chain, once a start succeeded, goes on (`ChainGoesOn`).
- `ToolLocksProof`, over `SelfUpdate`: `InstallsStayAlone` and `LockKeepsInstaller` (of `LockHasInstaller`,
  proved without a run of its own). The first is conditional on `robbed`: the takeover of a stale lock removes by path, so a command may remove a lock that was not
  old (see below), and the theorem says that this is the only way for two to install. The
  invariant adds that the lock file names a command or is not there (`LockIsOwned`), that a command
  past its decision knows a release (`KnowsRelease`), that only the lock of a killed command is old
  (`AgedIsDead`), and that what a killed command was installing goes on under its lock
  (`OrphanHolds`).
- `ToolLocksProof`, over `HanaTunnel`: `OneEstablisher` and `TunnelsAreAttended`, conditional on `slips = {}` for the
  same reason. The invariant adds that a client at each point knows what it should of its tunnel
  (`ClientsSound`), that a marker is its establisher's (`MarkerIsEstablishers`), and that a ready
  record is of a tunnel that was spawned (`RecordIsOfTunnel`).
- `ToolLocksProof`, over `InspectorElection`: `TargetHasOneDebugger`, unless a contender was slow: an
  election by waiting needs the listing, reading and claiming of one to fit into the window of
  another. The invariant adds that the file of a contender says where it is (`MarksFit`), that a
  contender reads the files of others (`FilesFit`), and that whoever will not look at another
  contender again is one that the other yields to (`PastIsYieldedTo`). `TwoElectOne`: two
  contenders do not refuse each other. Its invariant `DuelInv` adds that a contender is refused by
  one that has come (`RefusalsFit`) and, the step that matters, that the contender with the smaller
  token is refused only by one that cannot lose any more (`FirstLosesToWinner`, `CannotLose`).
  There may be any number of contenders; the theorem is about the behaviours in which two came.
- `ToolRecordsProof`, over `SamlToggle`: `MintsEndAccountedFor`. `SamlInv` adds that a key was named
  before it was created and is returned or told when its mint is over (`KeysAreKnown`), and that an
  undisturbed mint knows what the administrator wants and where the instance is on its way back to
  it (`OnCourse`).
- Over `ExplorerSession`: `ExplorerLeavesNothingUnlisted`. The property is nearly inductive:
  `ExplorerInv` counts a home that a login may still create and one that somebody is about to remove
  (`HomeIsListed`). It is conditional on `oversights`, the named cases in which the code forgets.
- Over `TopologySync`: `CompletedSyncsAreWhole`. `TopologyInv` adds that a sync that collects into its
  own runtime state has each requested region behind it or still before it (`NothingIsSkipped`), and
  that a completed region is whole unless something of it failed (`CompletedAreWhole`), which no
  refresh of a part undoes; and that what is still to be written as the snapshot agrees with the
  runtime state that was written, and differs from the snapshot that is there only where its writer
  may change it (`SectionFits`). The theorem says of the snapshot that it agrees outside `behind`: it
  is not more, since a command may be killed or fail between the two files. The assumptions are that
  `Only`, `Partial` and `Named` are what they say and that the commands have names of their own. With the
  invariant also `KnownOrgsAreKept`, an action property without a run of its own: no step forgets an
  org of the snapshot but a fetch of its region, a sync that lost it, and the one of finding 6.
- Over `RemoteShell`: `OutputsAreOwn`. `ShellInv` looks at the whole stream of a command: what was
  received, is in transit or will still be printed. Either the shell has not come to the awaited
  command and nothing of it is in the stream, or the stream ends with its frame, complete and in
  order, whatever comes before (`AwaitedFits`); chunks that break anywhere and output of commands
  that were given up move pieces within the stream only.
- `TracesProof`, over `LiveTrace`: `NothingStaysOpen`, `NoHookGoesUnreported` and
  `EventsComeOnceInOrder`, each with an invariant on top of the one before. `LiveInv`: who is at work
  agrees with the session's state (`StateFits`), what is open is held (`OpenIsHeld`), what is held is
  in use or about to be released (`HeldIsUsed`). `HookInv`: an installation is under way only while
  its start waits for it, and a stop that ends over a hook knows it (`StartsFit`, `StopsFit`).
  `DeliveryInv`: events are numbered as they come, and one in the queue is in the pending drain or
  newer than all of that and all that was handed over (`QueueFits`); a drain under way acknowledges
  the last that was handed over (`SentFits`, `DrainsFit`), so that the pending drain is either
  handed over as a whole or not at all; what was heard is the pending drain (`AnswerFits`). All three are
  conditional on `strays`, the two situations named above. `TraceKeepsTypes` is unconditional, and
  needs of the queue only that it, the pending drain and what was heard hold events the application
  has recorded (`EventsTyped`). The module assumes of its constants that
  a call is not the drain and not the sentinel for nobody.
- Over `FunctionTrace`: `RecordingLeavesNothing`. `RecordInv` has one conjunct per thing to undo
  (`ExceptionsUndone`, `BreakpointRemoved`, `PauseReleased`): what is armed in the application or on
  its way there is known to the controller, or a request on the wire undoes it, or a release said
  that it failed; and what the guard and the forced exit still owe (`GuardFits`, `EmergencyFits`).
  That requests are run in the order they were sent, those given up included, is what makes it
  hold, and needs `OneAwaited`: one request at a time is the main flow's.
- Over `Watch`: `WatchShowsAllOnceInOrder`. `WatchInv` adds where the cursor is: what a later poll can
  bring once more has the cursor's time and is remembered as seen, or is not printed in a replay
  (`CursorFits`), and a loop of cf-metrics that was not replaced yet is behind the look-back window or
  at a time that was printed, so that what the first loop missed is not shown out of order by the
  second. cf-events has handled nothing later than its cursor (`EventsFit`). `WatchKeepsTypes` adds
  the bounds of the clock and of the log (`TimesBounded`).
- `ToolsProof`, over `MCTools`: `ToolsAreEach`, a behaviour of the ten protocols side by side is a
  behaviour of each of them, so that every theorem above about one of them holds of `ToolsSpec`;
  and by it `ToolsKeepTypes`, from the ten type invariants.

`CleanupInv`, `TailInv`, `DuelInv` and the invariants of `ToolRecordsProof` and `TracesProof` were checked
with TLC before they were proved, on instances like those of the runs (90 thousand to 3 million
states). They are no runs of the project: they strengthen what its runs check and ask nothing new.

The lemmas about sequences in `TracesProof` concern `Filtered`, the array filter of cf-live-trace and
of the watch loops: it keeps what it should, all of it, in order (`Picks`). Its definition
numbers the elements that are kept; that such a numbering exists (`Numbered`) needs an induction,
for which the least-number principle (`Least`, from the library's well-founded minimum) is enough.
`SelectSeq`, which says the same by recursion, cannot be reasoned about here.

Every safety property of the passing runs, invariant, action property or refinement, is stated by a
theorem. Only model-checked is what is about progress:

- `StartupStopHonoured`, `DeadOwnerLeaves`, `AnsweredUnlessUnopened`,
  `WantedIsStreamed`. Liveness under fairness and ENABLED are outside what the prover can do, as
  are the values of recursive definitions (the library's induction theorems take an operator as a
  parameter) and modules with RECURSIVE operators. No module uses either.

## 5. Findings

1. **Two processes can remove the recovery lock of a live recoverer** (`lock.ts:252`, called
   from `reclaimAbandonedRecoveryLock`). Read and unlink are two calls, and nothing orders two
   processes that reclaim the recovery lock of a dead one.
2. **A stop that races readiness is lost and masks a later crash** (`sessions.ts:325`). The
   command works from a status it read before; the controller has become ready and no longer
   watches for the request.
3. **A call queued behind an open that fails waits for ever** (`pool.ts:158`). The only path that
   lowers the count without serving the queue.
4. **A second start of an app leaves its first child running for good** (cf-logs
   `runtime.ts:288`). After the login is awaited nobody looks whether the app has got a stream
   meanwhile; the entry of the first is overwritten.
5. **A statement of a failed transaction is kept** (cf-hana `client.ts:245`). When the work sends
   statements together and one fails, the rollback and the return to autocommit overtake the others.
6. **Completing `sync --only` drops orgs that were refreshed elsewhere** (cf-sync
   `structure-merge.ts:86`). A refresh during a sync leaves its region in part in the runtime state,
   and the completion replaces the whole region of the snapshot by it.

Each of these is a run that TLC violates. While the models were written, the following disagreements
between code and documents came up too; the models contain them (a property excludes the case by
name, or the action shows it), but no run of its own checks them.

- core: `README.md:58-59` says that an update never downgrades. A command that looked up release 2
  takes the lock after another has installed 3, and installs 2. The state file is read and written
  without a lock, so an update of it can be lost (against `README.md:57`).
- cf-hana tunnels: `cache.ts:351-353` wants no live SSH path left unattended. A removal by path may
  remove the record another client has just written, and an evicted record's tunnel is not killed.
- cf-tail: `stop` and `setSession` do not stop a refresh or a start in flight. An old start that fails
  after `setSession` schedules a reconnect for an app that is not in the catalog; with `--save` a
  stream that ends untracked is reconnected after `stop`.
- cf-live-trace: a stop while a start connects or installs is not seen by it; the start streams on
  and its poll timer stays. An acknowledgement of an earlier hook (`d1`) may be taken for one of a
  new hook's. `HookIsReported` exempts states that say there is no hook when an install was given
  up and carried out all the same (`README.md:223`).
- cf-explorer: sessions are pruned by host name and pid only (`README.md:416`); the mark "stale"
  (`README.md:387`) is overwritten; a killed holder of `sessions.lock` makes every later command time
  out (`lock.ts:30`); a stop in the window in which the record has the starter's pid terminates the
  start command (`client.ts:72`). In the remote shell a chunk that ends right after the prefix of an
  end marker kills the session, `chunk.toString()` garbles a character that was split, and stderr
  text with the word "closed" ends the session.
- cf-sync: a recovery by a settled runtime state may remove the lock of a live owner that has not
  released yet, whose unlink then removes the next one's (`structure.ts:562`, `:627`); so may a
  recovery of a lock that was created and not written yet (`structure.ts:610`). A waiter returns the
  state of the sync before, or of one of other regions (`sync.ts:382`, `structure.ts:635`). `read`
  returns the runtime state of a failed sync (`README.md:126-127`, `structure.ts:342-350`). A sync that
  is killed after `structure.ts:315` leaves a runtime state that says `completed` over an older
  snapshot, or none (`:317`), and the state lock with it, which nothing recovers (`:73`); a fetch
  (`:268`, `:272`) or refresh (`space-sync-store.ts:349`, `:353`) over a completed runtime state leaves
  the snapshot behind in its region when it is killed there, or, the lock released, when it cannot
  write. A sync that cannot write the snapshot marks its runtime state failed, unless that fails too.
  `CompletedSyncIsWhole` exempts those regions by name (`behind`). A waiter may report the completed
  sync before the snapshot is there. A refresh
  persisted just before the sync merges an older collection of the same region is lost.
- cf-function-trace: a second signal or a fatal error while the tunnel is being opened finds nothing
  registered (`session.ts:221`, `cli/shutdown.ts:45`), although the guard is there to leave no tunnel;
  an abort while opening hides a failed cleanup of cf-debugger behind `TRACE_ABORTED`
  (`session.ts:129`). A breakpoint whose request was given up is known to no cleanup until the session
  is disposed (`trace-controller.ts:519`). A pause whose owner cannot be judged, or that comes after
  its wait was given up, is not resumed by the controller.
- cf-otel, cf-metrics: "SAML was never actually mutated server-side, so it's safe to skip the restore"
  (`cf-otel/src/saml-toggle.ts:306-308`) against `cf-metrics/src/cf.ts:473-477`, "a timeout leaves the
  caller unsure whether the update actually applied". Two mints that overlap leave SAML off: the
  second restores what it read. Ctrl-C leaves it off (`cf-metrics/src/cf.ts:166` removes temporary
  directories only). cf-metrics does not name a key it minted when the restore fails.
- cf-metrics `watch`: a full page is said to be "delayed by one extra poll cycle"
  (`cf-metrics/src/watch.ts:103`). A hundred documents with one time may be returned by every later
  poll, with no progress. After a rejected credential the loop starts at the look-back window; what
  was not shown before that, because polls failed for longer or pages were full, never is.
- cf-events `watch`: `created_ats[gt]` (`cf-events/src/api.ts:104`) with the newest event's second
  as the cursor (`cf-events/src/runtime.ts:268`): an event of the same second that is recorded after
  the poll is never shown, nor are those of a burst beyond a hundred (`README.md:27`).

## 6. What is left

The next steps, in this order:

1. An abstract specification of what is shared by the locks of `SelfUpdate`, `HanaTunnel` and
   `InspectorElection` (one at a time unless a takeover missed its aim), which each of them refines.
2. doctor's removal of lock artifacts and a second stop command in `DebuggerSession`.
3. The CDP client by itself, with the fan-out of cf-inspector over it, and cf-sync's `db/sync.ts`.

### Not modelled, and why

The map names a small share of the repository's lines, and this will remain so: most of the code
has no state that two steps could disagree about.

- `service-flow` (a third of the code) is a static analysis of CAP services: parsers, linkers, SQL
  repositories, one batch after the other. Its state space is that of the programs it reads, and a
  bounded input to a parser says nothing that its unit tests do not.
- Clients of remote APIs (jira, sharepoint-excel, sharepoint-check, cf-log-search, the queries of
  cf-metrics and cf-otel, cf-xsuaa), one-shot downloads (cf-export, cf-files), git and `cf` wrappers
  (gitport, mgit, cf-ops, cf-debugger `cf.ts`), request runners (bruno, cf-request-runner): one request
  after the other, with retries that keep nothing.
- Formatting, redaction, SQL classification, CLI options, prompts, editor extensions (hana-lens):
  functions of their input, or user interface.
- The commands of cf-events other than `watch`: one request. cf-event-mesh: the protocol is the AMQP
  library's.
- cf-sync `db/sync.ts` repeats the protocol of `topology/` for HANA bindings; what `TopologySync` shows
  of locks and runtime state applies to it where the code is the same, which is not checked. The
  sharing of one sync inside a process (`activeSyncPromise`) and time-outs of waiters are left out.
- cf-inspector's CDP client matches answers to requests by id on one socket; it is modelled as
  far as `FunctionTrace` uses it (requests given up, a closed connection). The fan-out over instances
  starts independent sessions.
