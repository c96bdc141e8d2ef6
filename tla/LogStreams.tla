----------------------------- MODULE LogStreams -----------------------------
(***************************************************************************)
(* CfLogsRuntime of cf-logs (runtime.ts): one `cf logs` child per active   *)
(* app, reconnected when it ends by itself, under a session that may be    *)
(* replaced at any moment.  cf-tail and both command lines drive it.       *)
(*                                                                         *)
(* The runtime is one Node.js event loop.  A callback of the loop (a call  *)
(* of the API, a timer, a child's event, a settled promise) is a step that *)
(* waits for Quiet; what it leaves to microtasks, the continuation of an   *)
(* await that has nothing to wait for, runs before the next callback.      *)
(***************************************************************************)
EXTENDS FiniteSets, Naturals

CONSTANTS
    Apps,         \* app names
    Calls,        \* bound: setActiveApps calls in progress at the same time
    Retries,      \* bound: starts begun by a reconnect timer, in progress
    Streams,      \* stream objects the runtime still refers to
    NoApp,        \* no start is being made
    NoStream,     \* no entry in runningStreams
    MaxVersion,   \* bound: setSession calls
    Persistence   \* the values of options.persistStreamAppends considered

ASSUME ConstantsAssumption ==
    /\ NoApp \notin Apps
    /\ NoStream \notin Streams
    /\ MaxVersion \in Nat
    /\ Persistence \subseteq BOOLEAN

Tasks == Calls \cup Retries

VARIABLES
    persists,   \* options.persistStreamAppends, fixed at construction
    session,    \* whether a session is configured
    version,    \* sessionVersion
    prepared,   \* preparedVersion = sessionVersion
    preparing,  \* session versions with a prepareSession call under way
    available,  \* availableApps
    active,     \* activeAppNames
    running,    \* runningStreams: app to stream
    timers,     \* apps with an entry in reconnectTimers
    stream,     \* the stream objects
    orphans,    \* apps with a live child that nobody stopped and nobody tracks
    task,       \* the setActiveApps loops and the timers' starts
    wanted      \* history: apps the caller wants streamed and has not taken back

settings == <<session, version, available, active, persists>>
vars == <<persists, session, version, prepared, preparing, available, active, running,
          timers, stream, orphans, task, wanted>>

(***************************************************************************)
(* A stream object: its child streams, or has ended and the last lines are *)
(* being persisted.  A stream that was stopped, or lost its entry to       *)
(* another, is unused again: its later events are ignored.                 *)
(***************************************************************************)
Unused == [status |-> "unused"]
StreamRecord == [status : {"live", "ending"}, app : Apps, version : 0 .. MaxVersion,
                 stopped : BOOLEAN]

\* A task: the start it is making, the session version that start expects, and the apps
\* its loop has yet to start.  "ready", "failed" and "next" are microtask stages.
Idle == [stage |-> "idle", app |-> NoApp, version |-> 0, todo |-> {}]
TaskRecord == [stage : {"idle", "preparing", "ready", "failed", "next"},
               app : Apps \cup {NoApp}, version : 0 .. MaxVersion, todo : SUBSET Apps]

Quiet == \A k \in Tasks : task[k].stage \in {"idle", "preparing"}

Init ==
    /\ persists \in Persistence
    /\ session = FALSE
    /\ version = 0
    /\ prepared = FALSE
    /\ preparing = {}
    /\ available = {}
    /\ active = {}
    /\ running = [a \in Apps |-> NoStream]
    /\ timers = {}
    /\ stream = [s \in Streams |-> Unused]
    /\ orphans = {}
    /\ task = [k \in Tasks |-> Idle]
    /\ wanted = {}

Goto(k, stage) == task' = [task EXCEPT ![k].stage = stage]

Live(a) == running[a] # NoStream /\ stream[running[a]].status = "live"
Tracked(apps) == {a \in apps : running[a] # NoStream}

---------------------------------------------------------------------------
(***************************************************************************)
(* stopStream: nothing at all without an entry, not even its timer.  A     *)
(* stream whose exit is being handled stays referred to by that handler.   *)
(***************************************************************************)
StopStreams(apps) ==
    LET stopped == {running[a] : a \in Tracked(apps)} IN
    /\ running' = [a \in Apps |-> IF a \in apps THEN NoStream ELSE running[a]]
    /\ stream' = [s \in Streams |->
                    IF s \notin stopped THEN stream[s]
                    ELSE IF stream[s].status = "ending" THEN [stream[s] EXCEPT !.stopped = TRUE]
                    ELSE Unused]
    /\ UNCHANGED orphans

\* setSession: stopAllStreams clears the timers of apps without a stream as well.
SetSession ==
    /\ Quiet
    /\ version < MaxVersion
    /\ session' \in BOOLEAN
    /\ version' = version + 1
    /\ prepared' = FALSE
    /\ StopStreams(Apps)
    /\ timers' = {}
    /\ wanted' = {}
    /\ UNCHANGED <<persists, preparing, available, active, task>>

Dispose ==
    /\ Quiet
    /\ StopStreams(Apps)
    /\ timers' = {}
    /\ wanted' = {}
    /\ UNCHANGED <<settings, prepared, preparing, task>>

SetAvailableApps(apps) ==
    /\ Quiet
    /\ available' = apps
    /\ StopStreams(Apps \ apps)
    /\ timers' = timers \ Tracked(Apps \ apps)
    /\ wanted' = wanted \cap apps
    /\ UNCHANGED <<persists, session, version, prepared, preparing, active, task>>

\* setActiveApps up to its loop over the apps to start.
SetActiveApps(k, apps) ==
    LET next == apps \cap available IN
    /\ Quiet
    /\ task[k] = Idle
    /\ active' = next
    /\ StopStreams(active \ next)
    /\ timers' = timers \ Tracked(active \ next)
    /\ task' = [task EXCEPT ![k] = [Idle EXCEPT !.stage = "next", !.todo = next]]
    /\ wanted' = IF session THEN next ELSE {}
    /\ UNCHANGED <<persists, session, version, prepared, preparing, available>>

\* fetchSnapshot: it logs in when that is still to be done, or once more when the
\* first fetch finds that the login or the target is lost.
FetchSnapshot ==
    /\ Quiet
    /\ session /\ available # {}
    /\ prepared' = FALSE
    /\ preparing' = preparing \cup {version}
    /\ UNCHANGED <<settings, running, timers, stream, orphans, task, wanted>>

---------------------------------------------------------------------------
(***************************************************************************)
(* startStreamIfNeeded and the loop that calls it.                         *)
(***************************************************************************)
Needed(a) == a \in active /\ running[a] = NoStream /\ session

\* ensurePrepared: nothing to await, or a login to join or to begin.
Begin(k, a) ==
    /\ task[k].stage = "next"
    /\ a \in task[k].todo
    /\ IF Needed(a)
       THEN /\ task' = [task EXCEPT ![k] = [stage |-> IF prepared THEN "ready" ELSE "preparing",
                                            app |-> a, version |-> version,
                                            todo |-> task[k].todo \ {a}]]
            /\ preparing' = IF prepared THEN preparing ELSE preparing \cup {version}
       ELSE /\ task' = [task EXCEPT ![k].todo = @ \ {a}]
            /\ UNCHANGED preparing
    /\ UNCHANGED <<settings, prepared, running, timers, stream, orphans, wanted>>

LoopEnds(k) ==
    /\ task[k].stage = "next"
    /\ task[k].todo = {}
    /\ task' = [task EXCEPT ![k] = Idle]
    /\ UNCHANGED <<settings, prepared, preparing, running, timers, stream, orphans, wanted>>

\* Everybody awaiting the login of version v goes on.
Waiters(v) == {k \in Tasks : task[k].stage = "preparing" /\ task[k].version = v}
Settle(v, stage) ==
    /\ Quiet
    /\ v \in preparing
    /\ preparing' = preparing \ {v}
    /\ task' = [k \in Tasks |-> IF k \in Waiters(v) THEN [task[k] EXCEPT !.stage = stage]
                                ELSE task[k]]
    /\ UNCHANGED <<settings, running, timers, stream, orphans, wanted>>

PrepareSucceeds(v) ==
    /\ Settle(v, "ready")
    /\ v = version
    /\ prepared' = TRUE
\* The login fails, or the session it was for has been replaced.
PrepareFails(v) == Settle(v, "failed") /\ UNCHANGED prepared

\* Mutant: only the session is looked up again after the await, not the app.
StartsIfCurrent(k) == task[k].version = version

\* The check after the await.  runningStreams is not looked up again.
StillNeeded(k) == task[k].app \in active /\ task[k].version = version

Continue(k) == task' = [task EXCEPT ![k] = [Idle EXCEPT !.stage = "next", !.todo = task[k].todo]]

\* The entry the new stream overwrites: a live child goes on without one.
Overwritten(a) == IF Live(a) THEN {running[a]} ELSE {}

UnusedStreams == {s \in Streams : stream[s] = Unused}
NewStream == CHOOSE s \in UnusedStreams : TRUE

Spawn(k) ==
    LET a == task[k].app IN
    /\ task[k].stage = "ready"
    /\ StillNeeded(k)
    /\ UnusedStreams # {}
    /\ running' = [running EXCEPT ![a] = NewStream]
    /\ stream' = [s \in Streams |->
          IF s = NewStream THEN [status |-> "live", app |-> a, version |-> task[k].version,
                                 stopped |-> FALSE]
          ELSE IF s \in Overwritten(a) THEN Unused ELSE stream[s]]
    /\ orphans' = IF Live(a) THEN orphans \cup {a} ELSE orphans
    /\ Continue(k)
    /\ UNCHANGED <<settings, prepared, preparing, timers, wanted>>

NoLongerNeeded(k) ==
    /\ task[k].stage = "ready"
    /\ ~StillNeeded(k)
    /\ Continue(k)
    /\ UNCHANGED <<settings, prepared, preparing, running, timers, stream, orphans, wanted>>

SpawnThrows(k) ==
    /\ task[k].stage = "ready"
    /\ StillNeeded(k)
    /\ Goto(k, "failed")
    /\ UNCHANGED <<settings, prepared, preparing, running, timers, stream, orphans, wanted>>

\* Mutant: a start that failed is reported and not tried again.
StartGivesUp(k) ==
    /\ task[k].stage = "failed"
    /\ Continue(k)
    /\ UNCHANGED <<settings, prepared, preparing, running, timers, stream, orphans, wanted>>

\* Mutant: the timer is kept under the stream it replaces and not under the app.
ReconnectStream(a) == timers' = IF a \in active THEN timers \cup {running[a]} ELSE timers

\* scheduleReconnect: one timer for an app at most, none for an inactive one.
Reconnect(a) == timers' = IF a \in active THEN timers \cup {a} ELSE timers

StartFailed(k) ==
    /\ task[k].stage = "failed"
    /\ Reconnect(task[k].app)
    /\ Continue(k)
    /\ UNCHANGED <<settings, prepared, preparing, running, stream, orphans, wanted>>

TimerFires(k, a) ==
    /\ Quiet
    /\ task[k] = Idle
    /\ a \in timers
    /\ timers' = timers \ {a}
    /\ task' = [task EXCEPT ![k] = [Idle EXCEPT !.stage = "next", !.todo = {a}]]
    /\ UNCHANGED <<settings, prepared, preparing, running, stream, orphans, wanted>>

---------------------------------------------------------------------------
(***************************************************************************)
(* handleStreamExit and handleStreamError.  A child that is still tracked  *)
(* when it ends has its last lines flushed; that takes other callbacks'    *)
(* time only if the lines are persisted.  A child reports its end once.    *)
(***************************************************************************)
\* After the flush the app's entry goes, whichever stream it names by now.
DropEntry(s) ==
    LET a == stream[s].app IN
    /\ running' = [running EXCEPT ![a] = NoStream]
    /\ orphans' = IF running[a] # s /\ Live(a) THEN orphans \cup {a} ELSE orphans
    /\ stream' = [t \in Streams |-> IF t = s \/ t \in Overwritten(a) THEN Unused ELSE stream[t]]

\* Mutant: the end of a stream is reported as "reconnecting" and no timer is set.
NoRetry(s) == UNCHANGED timers

\* A stream that was stopped, or is of an earlier session, is not reconnected.
RetryAfterEnd(s) ==
    IF stream[s].stopped \/ stream[s].version # version
    THEN UNCHANGED timers
    ELSE Reconnect(stream[s].app)

ExitHandled(s) == DropEntry(s) /\ RetryAfterEnd(s)

Ends(s) ==
    /\ Quiet
    /\ stream[s].status = "live"
    /\ ExitHandled(s)
    /\ UNCHANGED <<settings, prepared, preparing, task, wanted>>

EndsPersisting(s) ==
    /\ Quiet
    /\ persists
    /\ stream[s].status = "live"
    /\ stream' = [stream EXCEPT ![s].status = "ending"]
    /\ UNCHANGED <<settings, prepared, preparing, running, timers, orphans, task, wanted>>

Persisted(s) ==
    /\ Quiet
    /\ stream[s].status = "ending"
    /\ ExitHandled(s)
    /\ UNCHANGED <<settings, prepared, preparing, task, wanted>>

OrphanEnds(a) ==
    /\ Quiet
    /\ a \in orphans
    /\ orphans' = orphans \ {a}
    /\ UNCHANGED <<settings, prepared, preparing, running, timers, stream, task, wanted>>

---------------------------------------------------------------------------
Caller == \/ SetSession \/ Dispose \/ FetchSnapshot
          \/ \E apps \in SUBSET Apps : \/ SetAvailableApps(apps)
                                       \/ \E k \in Calls : SetActiveApps(k, apps)
Micro == \E k \in Tasks : \/ \E a \in Apps : Begin(k, a)
                          \/ LoopEnds(k) \/ Spawn(k) \/ SpawnThrows(k) \/ NoLongerNeeded(k)
                          \/ StartFailed(k)
Prepare(v) == PrepareSucceeds(v) \/ PrepareFails(v)
Timer(a) == \E k \in Retries : TimerFires(k, a)
Child == \/ \E s \in Streams : Ends(s) \/ EndsPersisting(s) \/ Persisted(s)
         \/ \E a \in Apps : OrphanEnds(a)

Next == \/ Caller \/ Micro \/ Child
        \/ \E v \in 0 .. MaxVersion : Prepare(v)
        \/ \E a \in Apps : Timer(a)

Spec == Init /\ [][Next]_vars

\* Microtasks run, every login ends, a timer fires, a file gets written; the login and the
\* spawn of a start that is tried again and again succeed some time.  Children may stream
\* for ever, and no caller has to call anything.
StartOf(k, a) == task[k].app = a
Fairness == /\ WF_vars(Micro)
            /\ \A v \in 0 .. MaxVersion : SF_vars(Prepare(v))
            /\ \A a \in Apps :
                  /\ SF_vars(Timer(a))
                  /\ \A k \in Tasks : /\ SF_vars(StartOf(k, a) /\ PrepareSucceeds(version))
                                      /\ SF_vars(StartOf(k, a) /\ Spawn(k))
            /\ \A s \in Streams : SF_vars(Persisted(s))
FairSpec == Spec /\ Fairness

---------------------------------------------------------------------------
\* Every variable keeps its type: entries are streams, timers and tasks are for apps.
TypeOK ==
    /\ persists \in BOOLEAN /\ session \in BOOLEAN /\ prepared \in BOOLEAN
    /\ version \in 0 .. MaxVersion
    /\ preparing \subseteq 0 .. MaxVersion
    /\ available \subseteq Apps /\ active \subseteq Apps /\ timers \subseteq Apps
    /\ running \in [Apps -> Streams \cup {NoStream}]
    /\ stream \in [Streams -> StreamRecord \cup {Unused}]
    /\ orphans \subseteq Apps
    /\ task \in [Tasks -> TaskRecord]
    /\ wanted \subseteq Apps

\* The stream an app has an entry for was started for that app, under the session of now,
\* and the app is active: no start that was under way when the session was replaced or the
\* app deactivated gets its child in (startStreamIfNeeded's check after the login).
TrackedStreamIsCurrent ==
    \A a \in Tracked(Apps) :
       /\ a \in active
       /\ stream[running[a]] \in StreamRecord
       /\ stream[running[a]].app = a
       /\ stream[running[a]].version = version
       /\ ~stream[running[a]].stopped

\* An app is being started: by a timer to come, or by a task that has it before it, whose
\* start is one for the session of now or has failed and is about to be tried again.
StartedBy(k, a) ==
    \/ a \in task[k].todo
    \/ task[k].app = a /\ (task[k].version = version \/ task[k].stage = "failed")
Starting(a) == a \in timers \/ \E k \in Tasks : StartedBy(k, a)

\* An app its caller wants streamed is never without a stream and without anything that
\* will start one (startStreamIfNeeded, handleStreamExit, scheduleReconnect), when appends
\* are not persisted.  With persistence it can be: a stream started while the end of the
\* one before is persisted loses its entry (ExitHandled), and its end is ignored.
WantedIsStarting ==
    ~persists => \A a \in wanted : running[a] # NoStream \/ Starting(a)

\* Such an app gets its stream, again and again however often the child ends.
WantedIsStreamed ==
    ~persists => \A a \in Apps : <>[](a \in wanted) => []<>(running[a] # NoStream)

\* No child streams the logs of an app that is not active any more: deactivation stops
\* whatever was started for the app (setActiveApps, stopStream).
StoppedAppHasNoChild == orphans \subseteq active
=============================================================================
