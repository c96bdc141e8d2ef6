----------------------------- MODULE TailRuntime -----------------------------
(***************************************************************************)
(* CfTailRuntime of cf-tail (runtime.ts), the main user of CfLogsRuntime:  *)
(* it asks Cloud Foundry for the apps of a space, again and again, and     *)
(* makes the log runtime stream exactly those.  A behaviour is one of the  *)
(* log runtime driven by any caller, or one of it driven by cf-tail.       *)
(***************************************************************************)
EXTENDS LogStreams

CONSTANTS
    Drivers,        \* who may drive the log runtime: "caller", "tail"
    Refreshes       \* bound: refreshes in progress and rediscovery timers, together

ASSUME TailAssumption ==
    /\ Drivers \subseteq {"caller", "tail"}
    /\ IsFiniteSet(Refreshes)
    /\ {"nothing", "discovery"} \cap Calls = {}

VARIABLES
    driver,     \* who drives the log runtime
    started,    \* started
    stopped,    \* stopped
    rediscover, \* the rediscovery timers that will fire
    remembered, \* rediscoverTimer is one of them
    refresh,    \* each refreshDiscovery: what it awaits, a discovery or a setActiveApps
    space,      \* the apps that the space runs and the filter lets through
    following,  \* history: a start has succeeded and no stop came after it
    overtaken   \* history: something outlived a stop or a session

tail == <<started, stopped, rediscover, remembered, refresh, following, overtaken>>
tailvars == <<vars, driver, tail, space>>

NoRefresh == [awaits |-> "nothing", by |-> "nobody"]

TailInit ==
    /\ Init
    /\ driver \in Drivers
    /\ started = FALSE /\ stopped = FALSE
    /\ rediscover = 0 /\ remembered = FALSE
    /\ refresh = [k \in Refreshes |-> NoRefresh]
    /\ space \in IF driver = "tail" THEN SUBSET Apps ELSE {{}}
    /\ following = FALSE /\ overtaken = FALSE

-----------------------------------------------------------------------------
\* What goes on across a stop or setSession: a refresh, a start, the end of a stream.
Outliving ==
    \/ \E k \in Refreshes : refresh[k] # NoRefresh
    \/ \E k \in Tasks : task[k] # Idle
    \/ \E s \in Streams : stream[s].status = "ending"

(* setSession, which also empties the catalog of the log runtime. *)
TailSetSession ==
    /\ Quiet
    /\ version < MaxVersion
    /\ session' \in BOOLEAN
    /\ version' = version + 1
    /\ prepared' = FALSE
    /\ available' = {}
    /\ StopStreams(Apps)
    /\ timers' = {}
    /\ wanted' = {}
    /\ overtaken' = (overtaken \/ Outliving)
    /\ UNCHANGED <<persists, preparing, active, task, started, stopped, rediscover,
                   remembered, refresh, following, space>>

\* refreshDiscovery, up to the answer of discoverApps.
Discovers(k, caller) ==
    /\ refresh[k] = NoRefresh
    /\ session
    /\ refresh' = [refresh EXCEPT ![k] = [awaits |-> "discovery", by |-> caller]]

\* Refreshes and timers: a refresh ends in a timer, a timer starts a refresh.
Chains == rediscover + Cardinality({k \in Refreshes : refresh[k] # NoRefresh})

Start(k) ==
    /\ Quiet
    /\ ~started
    /\ started' = TRUE
    /\ stopped' = FALSE
    /\ Chains < Cardinality(Refreshes)
    /\ Discovers(k, "start")
    /\ UNCHANGED <<vars, rediscover, remembered, following, overtaken, space>>

StartWithoutSession ==
    /\ Quiet
    /\ ~started /\ ~session
    /\ started' = TRUE
    /\ stopped' = FALSE
    /\ UNCHANGED <<vars, rediscover, remembered, refresh, following, overtaken, space>>

\* Mutant: stop leaves the rediscovery timer.
StopKeepsTimer == UNCHANGED <<rediscover, remembered>>

\* stop clears the timer it remembers.
ClearsTimer ==
    /\ rediscover' = IF remembered THEN rediscover - 1 ELSE rediscover
    /\ remembered' = FALSE

\* stop: dispose of the log runtime, and an empty catalog.
Stop ==
    /\ Quiet
    /\ ~stopped
    /\ stopped' = TRUE
    /\ started' = FALSE
    /\ ClearsTimer
    /\ available' = {}
    /\ StopStreams(Apps)
    /\ timers' = {}
    /\ wanted' = {}
    /\ following' = FALSE
    /\ overtaken' = (overtaken \/ Outliving)
    /\ UNCHANGED <<persists, session, version, prepared, preparing, active, task, refresh, space>>

-----------------------------------------------------------------------------
\* scheduleRediscovery: a timer that was there goes on, but is not remembered.
Schedule ==
    IF stopped THEN UNCHANGED <<rediscover, remembered>>
    ELSE rediscover' = rediscover + 1 /\ remembered' = TRUE

\* The timer that fires need not be the one that is remembered and now forgotten.
TimerFired == rediscover > 0 /\ rediscover' = rediscover - 1 /\ remembered' = FALSE

Rediscovers(k) ==
    /\ Quiet
    /\ ~stopped
    /\ TimerFired
    /\ Discovers(k, "timer")
    /\ UNCHANGED <<vars, started, stopped, following, overtaken, space>>

FiresAfterStop ==
    /\ Quiet
    /\ stopped
    /\ TimerFired
    /\ UNCHANGED <<vars, started, stopped, refresh, following, overtaken, space>>

\* Without a session the refresh throws at once, and another is scheduled.
RediscoversNothing ==
    /\ Quiet
    /\ ~stopped /\ ~session
    /\ rediscover > 0
    /\ remembered' = TRUE
    /\ UNCHANGED <<vars, started, stopped, rediscover, refresh, following, overtaken, space>>

Over(k) == refresh' = [refresh EXCEPT ![k] = NoRefresh]

\* Mutant: a failed rediscovery is the last one.
GivesUpRediscovery(k) ==
    /\ Quiet
    /\ refresh[k].awaits = "discovery"
    /\ Over(k)
    /\ UNCHANGED <<vars, started, stopped, rediscover, remembered, following, overtaken, space>>

\* discoverApps fails: a start rejects, a rediscovery is scheduled again.
DiscoveryFails(k) ==
    /\ Quiet
    /\ refresh[k].awaits = "discovery"
    /\ Over(k)
    /\ IF refresh[k].by = "start" THEN UNCHANGED <<rediscover, remembered>> ELSE Schedule
    /\ UNCHANGED <<vars, started, stopped, following, overtaken, space>>

\* Mutant: the streams of apps that left the catalog are left to themselves.
SyncAdds(apps) == UNCHANGED <<running, stream, orphans, timers>>

\* setAvailableApps, and setActiveApps up to its loop, stop what is not found any more.
SyncStops(apps) ==
    /\ StopStreams(Apps \ apps)
    /\ timers' = timers \ Tracked(Apps \ apps)

(* discoverApps answers.  Whether the session is still the one it was asked  *)
(* for, and whether the runtime was stopped, is not looked at.               *)
Discovered(k, c) ==
    /\ Quiet
    /\ refresh[k].awaits = "discovery"
    /\ task[c] = Idle
    /\ refresh' = [refresh EXCEPT ![k].awaits = c]
    /\ available' = space
    /\ active' = space
    /\ SyncStops(space)
    /\ task' = [task EXCEPT ![c] = [Idle EXCEPT !.stage = "next", !.todo = space]]
    /\ wanted' = IF session THEN space ELSE {}
    /\ UNCHANGED <<persists, session, version, prepared, preparing, started, stopped,
                   rediscover, remembered, following, overtaken, space>>

\* setActiveApps is through, and start or runScheduledRediscovery goes on.
Synced(k, c) ==
    /\ refresh[k].awaits = c
    /\ LoopEnds(c)
    /\ Over(k)
    /\ Schedule
    /\ following' = (following \/ (refresh[k].by = "start" /\ ~stopped))
    /\ UNCHANGED <<started, stopped, overtaken, space>>

-----------------------------------------------------------------------------
\* An app of the space is started or stopped, by whomever.
SpaceChanges ==
    /\ Quiet
    /\ space' \in SUBSET Apps
    /\ space' # space
    /\ UNCHANGED <<vars, tail>>

RefreshStep(k) ==
    \/ Rediscovers(k) \/ DiscoveryFails(k)
    \/ \E c \in Calls : Discovered(k, c) \/ Synced(k, c)
TailDrives ==
    \/ TailSetSession \/ StartWithoutSession \/ Stop
    \/ FiresAfterStop \/ RediscoversNothing \/ SpaceChanges
    \/ \E k \in Refreshes : Start(k) \/ RefreshStep(k)

\* The microtasks and callbacks of the log runtime, the end of a refresh's loop excepted.
StreamsStep ==
    /\ \/ Micro /\ \A k \in Refreshes : refresh[k].awaits \in Calls => task'[refresh[k].awaits] # Idle
       \/ Child
       \/ \E v \in 0 .. MaxVersion : Prepare(v)
       \/ \E a \in Apps : Timer(a)
    /\ UNCHANGED <<tail, space>>

TailNext ==
    /\ UNCHANGED driver
    /\ \/ StreamsStep
       \/ driver = "caller" /\ Caller /\ UNCHANGED <<tail, space>>
       \/ driver = "tail" /\ TailDrives

TailSpec == TailInit /\ [][TailNext]_tailvars

TailFairSpec == TailSpec /\ Fairness

-----------------------------------------------------------------------------
\* After a stop nothing is streamed and nothing will be: no child, no reconnect timer, no
\* refresh.  It holds only of a stop that nothing outlives: a refresh or a start that waits
\* for `cf apps` or `cf login` goes on after stop and starts its streams.
StoppedIsQuiet ==
    driver = "tail" /\ stopped /\ ~overtaken =>
       /\ running = [a \in Apps |-> NoStream]
       /\ timers = {} /\ rediscover = 0
       /\ \A k \in Refreshes : refresh[k] = NoRefresh

\* "every --rediscover interval the runtime re-runs cf apps": after a start that succeeded
\* there is a timer or a refresh until the runtime is stopped, whatever fails on the way.
RediscoveryGoesOn ==
    following => rediscover > 0 \/ \E k \in Refreshes : refresh[k] # NoRefresh

\* It "stops streams for apps that are no longer started": what has a stream is in the
\* catalog of the last refresh, whichever starts and reconnects were under way when the
\* catalog changed.  It fails after setSession with a start under way: the start fails, its
\* reconnect is scheduled, and starts an app of the old session under the new one.
StreamsAreInCatalog == driver = "tail" /\ ~overtaken => Tracked(Apps) \subseteq available
=============================================================================
