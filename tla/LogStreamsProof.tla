--------------------------- MODULE LogStreamsProof ---------------------------
(***************************************************************************)
(* LogStreams and TailRuntime, for every set of apps, of concurrent calls  *)
(* and of timers: the types, that a tracked stream belongs to the session  *)
(* and the apps of now, and that an app its caller wants streamed is       *)
(* streamed or being started; that cf-tail keeps all this, and what its    *)
(* stop and its rediscovery promise.                                       *)
(***************************************************************************)
EXTENDS TailRuntime, TLAPS

\* What the types leave open: a task in the middle of a start, and no other, names its app.
TaskNamesApp ==
    \A k \in Tasks : IF task[k].stage \in {"preparing", "ready", "failed"}
                     THEN task[k].app \in Apps
                     ELSE task[k].app = NoApp

\* A stream that lives has the entry of its app, and only persisting takes time to end.
LiveIsTracked ==
    \A s \in Streams : /\ stream[s].status = "live" => running[stream[s].app] = s
                       /\ stream[s].status = "ending" => persists

\* The history variable: what is wanted is active, and under a session.
WantedIsActive == wanted \subseteq active /\ (wanted # {} => session)

LEMMA IdleType == Idle \in TaskRecord
  BY ConstantsAssumption DEF Idle, TaskRecord

\* A start once settled, and the loop it was made for, are tasks again.
LEMMA ContinueType ==
  ASSUME TypeOK, NEW k \in Tasks, Continue(k)
  PROVE  task' \in [Tasks -> TaskRecord]
  BY IdleType DEF Continue, Idle, TypeOK, TaskRecord

LEMMA StreamsStayTyped ==
  ASSUME TypeOK, NEW apps \in SUBSET Apps, StopStreams(apps)
  PROVE  /\ running' \in [Apps -> Streams \cup {NoStream}]
         /\ stream' \in [Streams -> StreamRecord \cup {Unused}]
         /\ orphans' \subseteq Apps
  <1>1. /\ running' \in [Apps -> Streams \cup {NoStream}]
        /\ orphans' \subseteq Apps
    BY DEF TypeOK, StopStreams
  <1>2. stream' \in [Streams -> StreamRecord \cup {Unused}]
    <2> SUFFICES ASSUME NEW s \in Streams
                 PROVE  stream'[s] \in StreamRecord \cup {Unused}
      BY DEF StopStreams
    <2>1. stream[s] \in StreamRecord \cup {Unused}
      BY DEF TypeOK
    <2> QED
      BY <2>1 DEF StopStreams, StreamRecord, Unused
  <1> QED
    BY <1>1, <1>2

LEMMA TypeInit == Init => TypeOK
  <1> SUFFICES ASSUME Init PROVE TypeOK
    OBVIOUS
  <1>1. task \in [Tasks -> TaskRecord]
    BY IdleType DEF Init
  <1>2. persists \in BOOLEAN /\ session \in BOOLEAN /\ prepared \in BOOLEAN
    BY ConstantsAssumption DEF Init
  <1>3. version \in 0 .. MaxVersion /\ preparing \subseteq 0 .. MaxVersion
    BY ConstantsAssumption DEF Init
  <1>4. stream \in [Streams -> StreamRecord \cup {Unused}] /\ running \in [Apps -> Streams \cup {NoStream}]
    BY DEF Init
  <1> QED
    BY <1>1, <1>2, <1>3, <1>4 DEF Init, TypeOK

LEMMA TypeNext == TypeOK /\ TaskNamesApp /\ [Next]_vars => TypeOK'
  <1> SUFFICES ASSUME TypeOK, TaskNamesApp, [Next]_vars PROVE TypeOK'
    OBVIOUS
  <1> USE ConstantsAssumption
  <1>1. CASE SetSession
    <2>1. StopStreams(Apps)
      BY <1>1 DEF SetSession
    <2>2. session' \in BOOLEAN /\ prepared' \in BOOLEAN
      BY <1>1 DEF SetSession
    <2>3. version' \in 0 .. MaxVersion
      BY <1>1 DEF SetSession, TypeOK
    <2> QED
      BY <1>1, <2>1, <2>2, <2>3, StreamsStayTyped DEF SetSession, TypeOK
  <1>2. CASE Dispose
    <2>1. StopStreams(Apps)
      BY <1>2 DEF Dispose
    <2> QED
      BY <1>2, <2>1, StreamsStayTyped DEF Dispose, TypeOK, settings
  <1>3. CASE FetchSnapshot
    BY <1>3 DEF FetchSnapshot, TypeOK, settings
  <1>4. ASSUME NEW apps \in SUBSET Apps, SetAvailableApps(apps) PROVE TypeOK'
    <2>1. StopStreams(Apps \ apps) /\ Apps \ apps \in SUBSET Apps
      BY <1>4 DEF SetAvailableApps
    <2> HIDE DEF StopStreams
    <2> QED
      BY <1>4, <2>1, StreamsStayTyped DEF SetAvailableApps, TypeOK
  <1>5. ASSUME NEW apps \in SUBSET Apps, NEW k \in Calls, SetActiveApps(k, apps) PROVE TypeOK'
    <2> DEFINE next == apps \cap available
    <2>1. StopStreams(active \ next) /\ active \ next \in SUBSET Apps
      BY <1>5 DEF SetActiveApps, TypeOK
    <2>2. task' \in [Tasks -> TaskRecord]
      BY <1>5, IdleType DEF SetActiveApps, TypeOK, TaskRecord, Idle, Tasks
    <2> QED
      BY <1>5, <2>1, <2>2, StreamsStayTyped DEF SetActiveApps, TypeOK
  <1>6. ASSUME NEW k \in Tasks, NEW a \in Apps, Begin(k, a) PROVE TypeOK'
    <2>1. task[k] \in TaskRecord /\ version \in 0 .. MaxVersion
      BY DEF TypeOK
    <2>2. task' \in [Tasks -> TaskRecord]
      <3>1. CASE Needed(a)
        BY <1>6, <2>1, <3>1 DEF Begin, TypeOK, TaskRecord
      <3>2. CASE ~Needed(a)
        BY <1>6, <2>1, <3>2 DEF Begin, TypeOK, TaskRecord
      <3> QED
        BY <3>1, <3>2
    <2> QED
      BY <1>6, <2>1, <2>2 DEF Begin, TypeOK, settings
  <1>7. ASSUME NEW k \in Tasks, LoopEnds(k) PROVE TypeOK'
    BY <1>7, IdleType DEF LoopEnds, TypeOK, settings
  <1>8. ASSUME NEW k \in Tasks, Spawn(k) PROVE TypeOK'
    <2>1. task' \in [Tasks -> TaskRecord]
      BY <1>8, ContinueType DEF Spawn
    <2>2. task[k] \in TaskRecord /\ task[k].app \in Apps
      BY <1>8 DEF Spawn, TypeOK, TaskNamesApp
    <2>3. NewStream \in Streams
      BY <1>8 DEF Spawn, NewStream, UnusedStreams
    <2>4. stream' \in [Streams -> StreamRecord \cup {Unused}]
      BY <1>8, <2>2, <2>3 DEF Spawn, TypeOK, StreamRecord, TaskRecord
    <2> QED
      BY <1>8, <2>1, <2>2, <2>3, <2>4 DEF Spawn, TypeOK, settings
  <1>9. ASSUME NEW k \in Tasks, SpawnThrows(k) PROVE TypeOK'
    BY <1>9 DEF SpawnThrows, Goto, TypeOK, settings, TaskRecord
  <1>10. ASSUME NEW k \in Tasks, NoLongerNeeded(k) PROVE TypeOK'
    BY <1>10, ContinueType DEF NoLongerNeeded, TypeOK, settings
  <1>11. ASSUME NEW k \in Tasks, StartFailed(k) PROVE TypeOK'
    <2>1. task' \in [Tasks -> TaskRecord] /\ task[k].app \in Apps
      BY <1>11, ContinueType DEF StartFailed, TaskNamesApp
    <2> QED
      BY <1>11, <2>1 DEF StartFailed, Reconnect, TypeOK, settings
  <1>12. ASSUME NEW v \in 0 .. MaxVersion, Prepare(v) PROVE TypeOK'
    <2>1. ASSUME NEW stage \in {"ready", "failed"}, Settle(v, stage)
          PROVE  task' \in [Tasks -> TaskRecord] /\ preparing' \subseteq 0 .. MaxVersion
      BY <2>1 DEF Settle, TypeOK, TaskRecord
    <2>2. prepared' \in BOOLEAN
      BY <1>12 DEF Prepare, PrepareSucceeds, PrepareFails, TypeOK
    <2>3. PICK stage \in {"ready", "failed"} : Settle(v, stage)
      BY <1>12 DEF Prepare, PrepareSucceeds, PrepareFails
    <2> QED
      BY <2>1, <2>2, <2>3 DEF Settle, TypeOK, settings
  <1>13. ASSUME NEW a \in Apps, Timer(a) PROVE TypeOK'
    <2>1. PICK k \in Retries : TimerFires(k, a)
      BY <1>13 DEF Timer
    <2>2. task' \in [Tasks -> TaskRecord]
      BY <2>1, IdleType DEF TimerFires, TypeOK, TaskRecord, Idle, Tasks
    <2> QED
      BY <2>1, <2>2 DEF TimerFires, TypeOK, settings
  <1>14. ASSUME NEW s \in Streams, Ends(s) \/ Persisted(s) PROVE TypeOK'
    <2>1. stream[s] \in StreamRecord
      BY <1>14 DEF TypeOK, Ends, Persisted, Unused
    <2>2. stream[s].app \in Apps
      BY <2>1 DEF StreamRecord
    <2>3. /\ running' \in [Apps -> Streams \cup {NoStream}]
          /\ stream' \in [Streams -> StreamRecord \cup {Unused}]
          /\ orphans' \subseteq Apps
          /\ timers' \subseteq Apps
      BY <1>14, <2>2 DEF Ends, Persisted, ExitHandled, DropEntry, RetryAfterEnd, Reconnect, TypeOK
    <2> QED
      BY <1>14, <2>3 DEF Ends, Persisted, TypeOK, settings
  <1>15. ASSUME NEW s \in Streams, EndsPersisting(s) PROVE TypeOK'
    <2>1. stream[s] \in StreamRecord
      BY <1>15 DEF TypeOK, EndsPersisting, Unused
    <2>2. stream' \in [Streams -> StreamRecord \cup {Unused}]
      BY <1>15, <2>1 DEF EndsPersisting, TypeOK, StreamRecord
    <2> QED
      BY <1>15, <2>2 DEF EndsPersisting, TypeOK, settings
  <1>16. ASSUME NEW a \in Apps, OrphanEnds(a) PROVE TypeOK'
    BY <1>16 DEF OrphanEnds, TypeOK, settings
  <1>17. CASE UNCHANGED vars
    BY <1>17 DEF vars, TypeOK
  <1> QED
    BY <1>1, <1>2, <1>3, <1>4, <1>5, <1>6, <1>7, <1>8, <1>9, <1>10, <1>11, <1>12, <1>13, <1>14,
       <1>15, <1>16, <1>17 DEF Next, Caller, Micro, Child

LEMMA TaskNext == TypeOK /\ TaskNamesApp /\ [Next]_vars => TaskNamesApp'
  <1> SUFFICES ASSUME TypeOK, TaskNamesApp, [Next]_vars PROVE TaskNamesApp'
    OBVIOUS
  <1> USE DEF TaskNamesApp
  <1>1. CASE UNCHANGED task
    BY <1>1
  <1>2. ASSUME NEW apps \in SUBSET Apps, NEW k \in Calls, SetActiveApps(k, apps)
        PROVE  TaskNamesApp'
    BY <1>2 DEF SetActiveApps, Idle, TypeOK
  <1>3. ASSUME NEW k \in Tasks, NEW a \in Apps, Begin(k, a) PROVE TaskNamesApp'
    BY <1>3 DEF Begin, TypeOK, TaskRecord
  <1>4. ASSUME NEW k \in Tasks, LoopEnds(k) PROVE TaskNamesApp'
    BY <1>4 DEF LoopEnds, Idle, TypeOK
  <1>5. ASSUME NEW k \in Tasks, Continue(k) PROVE TaskNamesApp'
    BY <1>5 DEF Continue, Idle, TypeOK
  <1>6. ASSUME NEW k \in Tasks, SpawnThrows(k) PROVE TaskNamesApp'
    BY <1>6 DEF SpawnThrows, Goto, TypeOK
  <1>7. ASSUME NEW v \in 0 .. MaxVersion, Prepare(v) PROVE TaskNamesApp'
    <2>1. PICK stage \in {"ready", "failed"} : Settle(v, stage)
      BY <1>7 DEF Prepare, PrepareSucceeds, PrepareFails
    <2> SUFFICES ASSUME NEW k \in Tasks
                 PROVE  IF task'[k].stage \in {"preparing", "ready", "failed"}
                        THEN task'[k].app \in Apps
                        ELSE task'[k].app = NoApp
      OBVIOUS
    <2>2. task[k] \in TaskRecord
      BY DEF TypeOK
    <2> QED
      BY <2>1, <2>2 DEF Settle, Waiters, TaskRecord
  <1>8. ASSUME NEW a \in Apps, Timer(a) PROVE TaskNamesApp'
    BY <1>8 DEF Timer, TimerFires, Idle, TypeOK
  <1> QED
    BY <1>1, <1>2, <1>3, <1>4, <1>5, <1>6, <1>7, <1>8
       DEF Next, Caller, Micro, Child, vars, settings, SetSession, Dispose, FetchSnapshot,
           SetAvailableApps, Spawn, NoLongerNeeded, StartFailed, Ends, EndsPersisting,
           Persisted, OrphanEnds

---------------------------------------------------------------------------
(***************************************************************************)
(* Stream objects and entries.  Entries are taken away one app at a time   *)
(* or for a set of apps; a new one is made by Spawn only.                  *)
(***************************************************************************)
Streaming == TrackedStreamIsCurrent /\ LiveIsTracked

\* What a step leaves tracked has the record it had.
LEMMA StopKeepsStreaming ==
  ASSUME TypeOK, Streaming, NEW apps \in SUBSET Apps, StopStreams(apps), persists' = persists,
         \A a \in Apps \ apps : a \in active' \/ running[a] = NoStream,
         version' = version \/ apps = Apps
  PROVE  Streaming'
  <1>1. ASSUME NEW a \in Apps, running'[a] # NoStream
        PROVE  a \notin apps /\ running'[a] = running[a] /\ stream'[running[a]] = stream[running[a]]
    <2>1. a \notin apps /\ running'[a] = running[a] /\ running[a] \in Streams
      BY <1>1 DEF StopStreams, TypeOK
    <2>2. \A b \in Tracked(apps) : running[b] # running[a]
      BY <2>1, ConstantsAssumption DEF Streaming, TrackedStreamIsCurrent, Tracked
    <2> QED
      BY <2>1, <2>2 DEF StopStreams
  <1>2. TrackedStreamIsCurrent'
    BY <1>1 DEF Streaming, TrackedStreamIsCurrent, Tracked
  <1>3. ASSUME NEW s \in Streams, stream'[s].status = "live"
        PROVE  running'[stream'[s].app] = s
    <2>1. s \notin {running[a] : a \in Tracked(apps)} /\ stream'[s] = stream[s]
      BY <1>3 DEF StopStreams, Unused
    <2>2. stream[s].app \in Apps /\ running[stream[s].app] = s
      BY <1>3, <2>1 DEF Streaming, LiveIsTracked, TypeOK, StreamRecord, Unused
    <2>3. stream[s].app \notin apps
      BY <2>1, <2>2, ConstantsAssumption DEF Tracked
    <2> QED
      BY <2>1, <2>2, <2>3 DEF StopStreams
  <1>4. ASSUME NEW s \in Streams, stream'[s].status = "ending"
        PROVE  persists
    BY <1>4 DEF StopStreams, Unused, Streaming, LiveIsTracked
  <1> QED
    BY <1>2, <1>3, <1>4 DEF Streaming, LiveIsTracked

LEMMA DropKeepsStreaming ==
  ASSUME TypeOK, Streaming, NEW s \in Streams, stream[s] \in StreamRecord, DropEntry(s),
         UNCHANGED <<active, version, persists>>
  PROVE  Streaming'
  <1> DEFINE a == stream[s].app
  <1>0. a \in Apps
    BY DEF StreamRecord
  <1>1. ASSUME NEW b \in Apps, running'[b] # NoStream
        PROVE  b # a /\ running'[b] = running[b] /\ stream'[running[b]] = stream[running[b]]
    <2>1. b # a /\ running'[b] = running[b] /\ running[b] \in Streams
      BY <1>0, <1>1 DEF DropEntry, TypeOK
    <2>2. running[b] # s /\ running[b] \notin Overwritten(a)
      BY <1>0, <2>1, ConstantsAssumption
      DEF Streaming, TrackedStreamIsCurrent, Tracked, Overwritten, Live
    <2> QED
      BY <2>1, <2>2 DEF DropEntry
  <1>2. TrackedStreamIsCurrent'
    BY <1>1 DEF Streaming, TrackedStreamIsCurrent, Tracked
  <1>3. ASSUME NEW t \in Streams, stream'[t].status = "live"
        PROVE  running'[stream'[t].app] = t
    <2>1. t # s /\ t \notin Overwritten(a) /\ stream'[t] = stream[t]
      BY <1>3 DEF DropEntry, Unused
    <2>2. stream[t].app \in Apps /\ running[stream[t].app] = t
      BY <1>3, <2>1 DEF Streaming, LiveIsTracked, TypeOK, StreamRecord, Unused
    <2>3. stream[t].app # a
      BY <1>3, <2>1, <2>2, ConstantsAssumption DEF Overwritten, Live
    <2> QED
      BY <2>1, <2>2, <2>3 DEF DropEntry, TypeOK
  <1>4. ASSUME NEW t \in Streams, stream'[t].status = "ending"
        PROVE  persists
    BY <1>4 DEF DropEntry, Unused, Streaming, LiveIsTracked
  <1> QED
    BY <1>2, <1>3, <1>4 DEF Streaming, LiveIsTracked

LEMMA SpawnKeepsStreaming ==
  ASSUME TypeOK, Streaming, NEW k \in Tasks, task[k].app \in Apps, Spawn(k)
  PROVE  Streaming'
  <1> DEFINE a == task[k].app
             s == NewStream
  <1>1. s \in Streams /\ stream[s] = Unused /\ stream[s].status = "unused"
    BY DEF Spawn, NewStream, UnusedStreams, Unused
  <1>2. a \in active /\ task[k].version = version /\ UNCHANGED <<active, version, persists>>
    BY DEF Spawn, StillNeeded, settings
  <1>3. running' = [running EXCEPT ![a] = s]
    BY DEF Spawn
  <1>4. stream' = [t \in Streams |->
          IF t = s THEN [status |-> "live", app |-> a, version |-> version, stopped |-> FALSE]
          ELSE IF t \in Overwritten(a) THEN Unused ELSE stream[t]]
    BY <1>2 DEF Spawn
  <1> HIDE DEF s
  <1>5. ASSUME NEW b \in Apps, b # a, running'[b] # NoStream
        PROVE  running'[b] = running[b] /\ stream'[running[b]] = stream[running[b]]
    <2>1. running'[b] = running[b] /\ running[b] \in Streams
      BY <1>3, <1>5 DEF TypeOK
    <2>2. stream[running[b]] \in StreamRecord /\ stream[running[b]].app = b
      BY <1>5, <2>1, ConstantsAssumption DEF Streaming, TrackedStreamIsCurrent, Tracked
    <2>3. running[b] # s
      BY <1>1, <2>2 DEF StreamRecord
    <2>4. running[b] \notin Overwritten(a)
      BY <1>5, <2>2, ConstantsAssumption
      DEF Streaming, TrackedStreamIsCurrent, Tracked, Overwritten, Live
    <2> QED
      BY <1>4, <2>1, <2>3, <2>4
  <1>6. running'[a] = s /\ stream'[s] = [status |-> "live", app |-> a, version |-> version,
                                         stopped |-> FALSE]
    BY <1>1, <1>3, <1>4 DEF TypeOK
  <1>7. TrackedStreamIsCurrent'
    <2> SUFFICES ASSUME NEW b \in Apps, running'[b] # NoStream
                 PROVE  /\ b \in active
                        /\ stream'[running'[b]] \in StreamRecord
                        /\ stream'[running'[b]].app = b
                        /\ stream'[running'[b]].version = version
                        /\ ~stream'[running'[b]].stopped
      BY <1>2 DEF TrackedStreamIsCurrent, Tracked
    <2>1. CASE b = a
      <3> DEFINE new == [status |-> "live", app |-> a, version |-> version, stopped |-> FALSE]
      <3>1. new \in StreamRecord /\ new.app = a /\ new.version = version /\ ~new.stopped
        BY DEF StreamRecord, TypeOK
      <3> QED
        BY <1>2, <1>6, <2>1, <3>1
    <2>2. CASE b # a
      BY <1>2, <1>5, <2>2 DEF Streaming, TrackedStreamIsCurrent, Tracked
    <2> QED
      BY <2>1, <2>2
  <1>8. ASSUME NEW t \in Streams, stream'[t].status = "live"
        PROVE  running'[stream'[t].app] = t
    <2>1. CASE t = s
      BY <1>6, <2>1
    <2>2. CASE t # s
      <3>1. t \notin Overwritten(a) /\ stream'[t] = stream[t]
        BY <1>4, <1>8, <2>2 DEF Unused
      <3>2. stream[t].app \in Apps /\ running[stream[t].app] = t
        BY <1>8, <3>1 DEF Streaming, LiveIsTracked, TypeOK, StreamRecord, Unused
      <3>3. stream[t].app # a
        BY <1>8, <3>1, <3>2, ConstantsAssumption DEF Overwritten, Live
      <3> QED
        BY <1>3, <3>1, <3>2, <3>3 DEF TypeOK
    <2> QED
      BY <2>1, <2>2
  <1>9. ASSUME NEW t \in Streams, stream'[t].status = "ending"
        PROVE  persists
    BY <1>4, <1>6, <1>9 DEF Unused, Streaming, LiveIsTracked
  <1> QED
    BY <1>2, <1>7, <1>8, <1>9 DEF Streaming, LiveIsTracked

LEMMA StreamingNext == TypeOK /\ TaskNamesApp /\ Streaming /\ [Next]_vars => Streaming'
  <1> SUFFICES ASSUME TypeOK, TaskNamesApp, Streaming, [Next]_vars PROVE Streaming'
    OBVIOUS
  <1>1. CASE UNCHANGED <<running, stream, active, version, persists>>
    BY <1>1 DEF Streaming, TrackedStreamIsCurrent, LiveIsTracked, Tracked
  <1>2. CASE SetSession
    <2>1. StopStreams(Apps) /\ persists' = persists
      BY <1>2 DEF SetSession
    <2> QED
      BY <2>1, StopKeepsStreaming
  <1>3. CASE Dispose
    <2>1. StopStreams(Apps) /\ persists' = persists
      BY <1>3 DEF Dispose, settings
    <2> QED
      BY <2>1, StopKeepsStreaming
  <1>4. ASSUME NEW apps \in SUBSET Apps, SetAvailableApps(apps) PROVE Streaming'
    <2>1. StopStreams(Apps \ apps) /\ UNCHANGED <<persists, version, active>>
      BY <1>4 DEF SetAvailableApps
    <2>2. \A a \in Apps : a \in active' \/ running[a] = NoStream
      BY <2>1 DEF Streaming, TrackedStreamIsCurrent, Tracked
    <2> QED
      BY <2>1, <2>2, StopKeepsStreaming
  <1>5. ASSUME NEW apps \in SUBSET Apps, NEW k \in Calls, SetActiveApps(k, apps)
        PROVE  Streaming'
    <2>1. /\ StopStreams(active \ (apps \cap available))
          /\ UNCHANGED <<persists, version>>
          /\ active' = apps \cap available
      BY <1>5 DEF SetActiveApps
    <2>2. \A a \in Apps \ (active \ active') : a \in active' \/ running[a] = NoStream
      BY DEF Streaming, TrackedStreamIsCurrent, Tracked
    <2>3. active \ (apps \cap available) \in SUBSET Apps
      BY DEF TypeOK
    <2> QED
      BY <2>1, <2>2, <2>3, StopKeepsStreaming
  <1>6. ASSUME NEW k \in Tasks, Spawn(k) PROVE Streaming'
    <2>1. task[k].app \in Apps
      BY <1>6 DEF Spawn, TaskNamesApp
    <2> QED
      BY <1>6, <2>1, SpawnKeepsStreaming
  <1>7. ASSUME NEW s \in Streams, Ends(s) \/ Persisted(s) PROVE Streaming'
    <2>1. stream[s] \in StreamRecord
      BY <1>7 DEF TypeOK, Ends, Persisted, Unused
    <2>2. DropEntry(s) /\ UNCHANGED <<active, version, persists>>
      BY <1>7 DEF Ends, Persisted, ExitHandled, settings
    <2> QED
      BY <2>1, <2>2, DropKeepsStreaming
  <1>8. ASSUME NEW s \in Streams, EndsPersisting(s) PROVE Streaming'
    <2>1. stream[s] \in StreamRecord
      BY <1>8 DEF TypeOK, EndsPersisting, Unused
    <2>2. stream'[s] \in StreamRecord /\ stream'[s].app = stream[s].app
          /\ stream'[s].version = stream[s].version /\ stream'[s].stopped = stream[s].stopped
          /\ stream'[s].status = "ending"
      BY <1>8, <2>1 DEF EndsPersisting, TypeOK, StreamRecord
    <2>3. \A t \in Streams \ {s} : stream'[t] = stream[t]
      BY <1>8 DEF EndsPersisting, TypeOK
    <2>4. UNCHANGED <<running, active, version, persists>> /\ persists
      BY <1>8 DEF EndsPersisting, settings
    <2>5. TrackedStreamIsCurrent'
      BY <2>2, <2>3, <2>4 DEF Streaming, TrackedStreamIsCurrent, Tracked, TypeOK
    <2>6. LiveIsTracked'
      BY <2>2, <2>3, <2>4 DEF Streaming, LiveIsTracked
    <2> QED
      BY <2>5, <2>6 DEF Streaming
  <1> QED
    BY <1>1, <1>2, <1>3, <1>4, <1>5, <1>6, <1>7, <1>8
       DEF Next, Caller, Micro, Child, vars, settings, FetchSnapshot, Begin, LoopEnds,
           SpawnThrows, NoLongerNeeded, StartFailed, Prepare, PrepareSucceeds, PrepareFails,
           Settle, Timer, TimerFires, OrphanEnds

---------------------------------------------------------------------------
(***************************************************************************)
(* What is wanted is on its way: each step that takes away one of the      *)
(* reasons of Starting, or the entry, puts another one in its place.       *)
(***************************************************************************)
Wanting == WantedIsActive /\ WantedIsStarting

Served(a) == running[a] # NoStream \/ Starting(a)

\* A step that keeps every reason an app is served for, or brings in another, keeps it so.
LEMMA WantingFollows ==
  ASSUME Wanting, wanted' \subseteq wanted, UNCHANGED <<persists, session, active>>,
         \A a \in wanted' : ~persists =>
            /\ running[a] # NoStream => Served(a)'
            /\ a \in timers => Served(a)'
            /\ \A k \in Tasks : StartedBy(k, a) => Served(a)'
  PROVE  Wanting'
  BY DEF Wanting, WantedIsActive, WantedIsStarting, Served, Starting

\* A step of one task, which leaves the others alone, is judged by what it does to its own.
LEMMA TaskStep ==
  ASSUME TypeOK, Wanting, NEW k \in Tasks, NEW r \in TaskRecord,
         task' = [task EXCEPT ![k] = r],
         UNCHANGED <<persists, session, active, version, wanted>>,
         \A a \in wanted : /\ running[a] # NoStream => running'[a] # NoStream
                           /\ a \in timers => Served(a)'
                           /\ StartedBy(k, a) => Served(a)'
  PROVE  Wanting'
  <1>1. ASSUME NEW a \in wanted, NEW l \in Tasks, StartedBy(l, a)
        PROVE  Served(a)'
    <2>1. CASE l = k
      BY <1>1, <2>1
    <2>2. CASE l # k
      <3>1. task'[l] = task[l]
        BY <2>2 DEF TypeOK
      <3>2. StartedBy(l, a)'
        BY <1>1, <3>1 DEF StartedBy
      <3> QED
        BY <3>2 DEF Served, Starting
    <2> QED
      BY <2>1, <2>2
  <1>2. \A a \in wanted : running[a] # NoStream => Served(a)'
    BY DEF Served
  <1> QED
    BY <1>1, <1>2, WantingFollows

LEMMA WantingBegin ==
  ASSUME TypeOK, TaskNamesApp, Wanting, NEW k \in Tasks, NEW a \in Apps, Begin(k, a)
  PROVE  Wanting'
  <1>1. /\ UNCHANGED <<persists, session, active, version, wanted, running, timers>>
        /\ task[k].stage = "next" /\ task[k].app = NoApp /\ task[k] \in TaskRecord
    BY DEF Begin, settings, TaskNamesApp, TypeOK
  <1>2. ASSUME NEW b \in wanted, StartedBy(k, b)
        PROVE  b \in active /\ session /\ b \in task[k].todo
    BY <1>1, <1>2, ConstantsAssumption DEF StartedBy, Wanting, WantedIsActive, TypeOK
  <1>3. CASE Needed(a)
    <2> DEFINE r == [stage |-> IF prepared THEN "ready" ELSE "preparing", app |-> a,
                     version |-> version, todo |-> task[k].todo \ {a}]
    <2>1. r \in TaskRecord /\ task' = [task EXCEPT ![k] = r]
      BY <1>1, <1>3 DEF Begin, TaskRecord, TypeOK
    <2>2. task'[k] = r
      BY <2>1 DEF TypeOK
    <2>3. ASSUME NEW b \in wanted, StartedBy(k, b) PROVE StartedBy(k, b)'
      BY <1>1, <1>2, <2>2, <2>3 DEF StartedBy
    <2> QED
      BY <1>1, <2>1, <2>3, TaskStep DEF Served, Starting
  <1>4. CASE ~Needed(a)
    <2> DEFINE r == [task[k] EXCEPT !.todo = task[k].todo \ {a}]
    <2>1. r \in TaskRecord /\ task' = [task EXCEPT ![k] = r]
      BY <1>1, <1>4 DEF Begin, TaskRecord
    <2>2. task'[k].todo = task[k].todo \ {a}
      BY <1>1, <2>1 DEF TypeOK, TaskRecord
    <2>3. ASSUME NEW b \in wanted, StartedBy(k, b) PROVE Served(b)'
      <3>1. CASE b = a
        BY <1>1, <1>2, <1>4, <2>3, <3>1 DEF Needed, Served
      <3>2. CASE b # a
        BY <1>2, <2>2, <2>3, <3>2 DEF StartedBy, Served, Starting
      <3> QED
        BY <3>1, <3>2
    <2> QED
      BY <1>1, <2>1, <2>3, TaskStep DEF Served, Starting
  <1> QED
    BY <1>3, <1>4

\* When a start is over, its loop still has the same apps before it.
LEMMA WantingContinue ==
  ASSUME TypeOK, TaskNamesApp, Wanting, NEW k \in Tasks, Continue(k),
         UNCHANGED <<persists, session, active, version, wanted>>,
         \A a \in wanted : /\ running[a] # NoStream => running'[a] # NoStream
                           /\ a \in timers => a \in timers'
                           /\ \/ a # task[k].app
                              \/ Served(a)'
                              \/ task[k].version # version /\ task[k].stage # "failed"
  PROVE  Wanting'
  <1> DEFINE r == [Idle EXCEPT !.stage = "next", !.todo = task[k].todo]
  <1>1. task' = [task EXCEPT ![k] = r] /\ r \in TaskRecord /\ task'[k].todo = task[k].todo
    BY IdleType DEF Continue, Idle, TaskRecord, TypeOK
  <1>2. ASSUME NEW a \in wanted, StartedBy(k, a) PROVE Served(a)'
    <2>1. CASE a \in task[k].todo
      BY <1>1, <2>1 DEF StartedBy, Served, Starting
    <2>2. CASE a \notin task[k].todo
      <3>1. task[k].app = a /\ (task[k].version = version \/ task[k].stage = "failed")
        BY <1>2, <2>2 DEF StartedBy
      <3> QED
        BY <3>1
    <2> QED
      BY <2>1, <2>2
  <1> HIDE DEF r
  <1> QED
    BY <1>1, <1>2, TaskStep DEF Served, Starting

LEMMA WantingNext ==
  TypeOK /\ TaskNamesApp /\ Streaming /\ Wanting /\ [Next]_vars => Wanting'
  <1> SUFFICES ASSUME TypeOK, TaskNamesApp, Streaming, Wanting, [Next]_vars PROVE Wanting'
    OBVIOUS
  <1>1. CASE UNCHANGED vars
    BY <1>1 DEF vars, Wanting, WantedIsActive, WantedIsStarting, Starting, StartedBy
  <1>2. CASE SetSession
    BY <1>2 DEF SetSession, Wanting, WantedIsActive, WantedIsStarting
  <1>3. CASE Dispose
    BY <1>3 DEF Dispose, Wanting, WantedIsActive, WantedIsStarting
  <1>4. CASE FetchSnapshot
    BY <1>4, WantingFollows DEF FetchSnapshot, settings, Served, Starting, StartedBy
  <1>5. ASSUME NEW apps \in SUBSET Apps, SetAvailableApps(apps) PROVE Wanting'
    <2>1. /\ UNCHANGED <<persists, session, active, version, task>>
          /\ wanted' = wanted \cap apps
      BY <1>5 DEF SetAvailableApps
    <2>2. ASSUME NEW a \in wanted'
          PROVE  running'[a] = running[a] /\ (a \in timers => a \in timers')
      <3>1. a \in Apps /\ a \notin Apps \ apps
        BY <2>1, <2>2 DEF TypeOK
      <3> QED
        BY <1>5, <3>1 DEF SetAvailableApps, StopStreams, Tracked
    <2> QED
      BY <2>1, <2>2, WantingFollows DEF Served, Starting, StartedBy
  <1>6. ASSUME NEW apps \in SUBSET Apps, NEW k \in Calls, SetActiveApps(k, apps)
        PROVE  Wanting'
    <2>1. wanted' \subseteq active' /\ (wanted' # {} => session')
      BY <1>6 DEF SetActiveApps
    <2>2. k \in Tasks /\ wanted' \subseteq task'[k].todo
      BY <1>6 DEF SetActiveApps, Tasks, TypeOK, Idle
    <2> QED
      BY <2>1, <2>2 DEF Wanting, WantedIsActive, WantedIsStarting, Starting, StartedBy
  <1>7. ASSUME NEW k \in Tasks, NEW a \in Apps, Begin(k, a) PROVE Wanting'
    BY <1>7, WantingBegin
  <1>8. ASSUME NEW k \in Tasks, LoopEnds(k) PROVE Wanting'
    <2>1. /\ task' = [task EXCEPT ![k] = Idle]
          /\ UNCHANGED <<persists, session, active, version, wanted, running, timers>>
      BY <1>8 DEF LoopEnds, settings
    <2>2. \A a \in wanted : ~StartedBy(k, a)
      BY <1>8, ConstantsAssumption DEF LoopEnds, StartedBy, TaskNamesApp, TypeOK
    <2> QED
      BY <2>1, <2>2, TaskStep, IdleType DEF Served, Starting
  <1>9. ASSUME NEW k \in Tasks, Spawn(k) PROVE Wanting'
    <2>1. /\ Continue(k) /\ NewStream \in Streams
          /\ running' = [running EXCEPT ![task[k].app] = NewStream]
          /\ UNCHANGED <<persists, session, active, version, wanted, timers>>
      BY <1>9 DEF Spawn, settings, NewStream, UnusedStreams
    <2>2. \A a \in wanted : /\ running[a] # NoStream => running'[a] # NoStream
                            /\ a = task[k].app => running'[a] # NoStream
      BY <2>1, ConstantsAssumption DEF TypeOK
    <2>3. \A a \in wanted : a = task[k].app => Served(a)'
      BY <2>1, <2>2 DEF Served
    <2> QED
      BY <2>1, <2>2, <2>3, WantingContinue
  <1>10. ASSUME NEW k \in Tasks, NoLongerNeeded(k) PROVE Wanting'
    <2>1. /\ Continue(k)
          /\ UNCHANGED <<persists, session, active, version, wanted, running, timers>>
      BY <1>10 DEF NoLongerNeeded, settings
    <2>2. task[k].app \in wanted => task[k].version # version /\ task[k].stage # "failed"
      BY <1>10 DEF NoLongerNeeded, StillNeeded, Wanting, WantedIsActive
    <2> QED
      BY <2>1, <2>2, WantingContinue
  <1>11. ASSUME NEW k \in Tasks, SpawnThrows(k) PROVE Wanting'
    <2> DEFINE r == [task[k] EXCEPT !.stage = "failed"]
    <2>1. /\ r \in TaskRecord /\ task' = [task EXCEPT ![k] = r]
          /\ UNCHANGED <<persists, session, active, version, wanted, running, timers>>
      BY <1>11 DEF SpawnThrows, Goto, settings, TypeOK, TaskRecord
    <2>2. /\ task'[k].todo = task[k].todo /\ task'[k].app = task[k].app
          /\ task'[k].stage = "failed"
      BY <2>1 DEF TypeOK, TaskRecord
    <2>3. \A a \in wanted : StartedBy(k, a) => StartedBy(k, a)'
      BY <2>2 DEF StartedBy
    <2> HIDE DEF r
    <2> QED
      BY <2>1, <2>3, TaskStep DEF Served, Starting
  <1>12. ASSUME NEW k \in Tasks, StartFailed(k) PROVE Wanting'
    <2>1. /\ Continue(k)
          /\ UNCHANGED <<persists, session, active, version, wanted, running>>
          /\ timers \subseteq timers'
      BY <1>12 DEF StartFailed, settings, Reconnect
    <2>2. task[k].app \in wanted => task[k].app \in timers'
      BY <1>12 DEF StartFailed, Reconnect, Wanting, WantedIsActive
    <2>3. \A a \in wanted : a = task[k].app => Served(a)'
      BY <2>2 DEF Served, Starting
    <2>4. \A a \in wanted : /\ running[a] # NoStream => running'[a] # NoStream
                            /\ a \in timers => a \in timers'
      BY <2>1
    <2> QED
      BY <2>1, <2>3, <2>4, WantingContinue
  <1>13. ASSUME NEW v \in 0 .. MaxVersion, Prepare(v) PROVE Wanting'
    <2>1. PICK stage \in {"ready", "failed"} : Settle(v, stage)
      BY <1>13 DEF Prepare, PrepareSucceeds, PrepareFails
    <2>2. UNCHANGED <<persists, session, active, version, wanted, running, timers>>
      BY <2>1 DEF Settle, settings
    <2>3. ASSUME NEW a \in wanted, NEW k \in Tasks, StartedBy(k, a) PROVE StartedBy(k, a)'
      <3>1. task[k] \in TaskRecord
        BY DEF TypeOK
      <3>2. /\ task'[k].todo = task[k].todo /\ task'[k].app = task[k].app
            /\ task'[k].version = task[k].version
            /\ task[k].stage = "failed" => task'[k].stage = "failed"
        BY <2>1, <3>1 DEF Settle, Waiters, TaskRecord
      <3> QED
        BY <2>2, <2>3, <3>2 DEF StartedBy
    <2> QED
      BY <2>2, <2>3, WantingFollows DEF Served, Starting
  <1>14. ASSUME NEW a \in Apps, Timer(a) PROVE Wanting'
    <2>1. PICK k \in Retries : TimerFires(k, a)
      BY <1>14 DEF Timer
    <2> DEFINE r == [Idle EXCEPT !.stage = "next", !.todo = {a}]
    <2>2. /\ k \in Tasks /\ r \in TaskRecord /\ task' = [task EXCEPT ![k] = r]
          /\ timers' = timers \ {a}
          /\ UNCHANGED <<persists, session, active, version, wanted, running>>
      BY <2>1, IdleType DEF TimerFires, settings, Tasks, Idle, TaskRecord
    <2>3. task'[k].todo = {a}
      BY <2>2 DEF TypeOK, Idle
    <2>4. \A b \in wanted : ~StartedBy(k, b)
      BY <2>1, ConstantsAssumption DEF TimerFires, StartedBy, Idle, TypeOK
    <2>5. \A b \in wanted : b \in timers => Starting(b)'
      BY <2>2, <2>3 DEF Starting, StartedBy
    <2> HIDE DEF r
    <2> QED
      BY <2>2, <2>4, <2>5, TaskStep DEF Served
  <1>15. ASSUME NEW s \in Streams, Ends(s) \/ Persisted(s) PROVE Wanting'
    <2> DEFINE a == stream[s].app
    <2>1. /\ UNCHANGED <<persists, session, active, version, wanted, task>>
          /\ DropEntry(s) /\ RetryAfterEnd(s) /\ timers \subseteq timers'
      BY <1>15 DEF Ends, Persisted, ExitHandled, settings, RetryAfterEnd, Reconnect
    <2>2. \A b \in wanted : b # a => running'[b] = running[b]
      BY <2>1 DEF DropEntry, TypeOK
    <2>3. ~persists /\ a \in wanted => a \in timers'
      <3> SUFFICES ASSUME ~persists, a \in wanted PROVE a \in timers'
        OBVIOUS
      <3>1. running[a] = s /\ a \in Apps
        BY <1>15 DEF Ends, Persisted, Streaming, LiveIsTracked, TypeOK
      <3>2. ~stream[s].stopped /\ stream[s].version = version
        BY <3>1, ConstantsAssumption DEF Streaming, TrackedStreamIsCurrent, Tracked
      <3>3. a \in active
        BY DEF Wanting, WantedIsActive
      <3> QED
        BY <2>1, <3>2, <3>3 DEF RetryAfterEnd, Reconnect
    <2> HIDE DEF a
    <2>4. ASSUME NEW b \in wanted, ~persists
          PROVE  /\ running[b] # NoStream => Served(b)'
                 /\ b \in timers => Served(b)'
                 /\ \A k \in Tasks : StartedBy(k, b) => Served(b)'
      BY <2>1, <2>2, <2>3, <2>4 DEF Served, Starting, StartedBy
    <2> QED
      BY <2>1, <2>4, WantingFollows
  <1>16. ASSUME NEW s \in Streams, EndsPersisting(s) PROVE Wanting'
    BY <1>16, WantingFollows DEF EndsPersisting, settings, Served, Starting, StartedBy
  <1>17. ASSUME NEW a \in Apps, OrphanEnds(a) PROVE Wanting'
    BY <1>17, WantingFollows DEF OrphanEnds, settings, Served, Starting, StartedBy
  <1> QED
    BY <1>1, <1>2, <1>3, <1>4, <1>5, <1>6, <1>7, <1>8, <1>9, <1>10, <1>11, <1>12, <1>13, <1>14,
       <1>15, <1>16, <1>17 DEF Next, Caller, Micro, Child

---------------------------------------------------------------------------
IInv == TypeOK /\ TaskNamesApp /\ Streaming /\ Wanting

LEMMA InvInit == Init => IInv
  <1> SUFFICES ASSUME Init PROVE IInv
    OBVIOUS
  <1>1. TypeOK
    BY TypeInit
  <1>2. TaskNamesApp
    BY DEF Init, TaskNamesApp, Idle
  <1>3. Streaming
    BY DEF Init, Streaming, TrackedStreamIsCurrent, LiveIsTracked, Tracked, Unused
  <1>4. Wanting
    BY DEF Init, Wanting, WantedIsActive, WantedIsStarting
  <1> QED
    BY <1>1, <1>2, <1>3, <1>4 DEF IInv

LEMMA Invariance == Spec => []IInv
  <1>1. IInv /\ [Next]_vars => IInv'
    BY TypeNext, TaskNext, StreamingNext, WantingNext DEF IInv
  <1> QED
    BY InvInit, <1>1, PTL DEF Spec

\* CfLogsRuntime keeps its types: an entry of runningStreams is a stream of the pool, a
\* reconnect timer is an app's.
THEOREM TypeCorrect == Spec => []TypeOK
  <1>1. IInv => TypeOK
    BY DEF IInv
  <1> QED
    BY Invariance, <1>1, PTL

\* A stream that is tracked was started for an app that is active and for the session of
\* now, whatever was under way when the apps or the session changed (startStreamIfNeeded).
THEOREM TrackedIsCurrent == Spec => []TrackedStreamIsCurrent
  <1>1. IInv => TrackedStreamIsCurrent
    BY DEF IInv, Streaming
  <1> QED
    BY Invariance, <1>1, PTL

\* Without persistence, an app its caller wants streamed has a stream or something that
\* will start one: no failed login, failed spawn or ended child is forgotten
\* (startStreamIfNeeded, handleStreamExit, scheduleReconnect).
THEOREM WantedIsServed == Spec => []WantedIsStarting
  <1>1. IInv => WantedIsStarting
    BY DEF IInv, Wanting
  <1> QED
    BY Invariance, <1>1, PTL
---------------------------------------------------------------------------
(***************************************************************************)
(* TailRuntime.  cf-tail's own steps keep what the log runtime's keep; and *)
(* what cf-tail adds has one chain of a timer or a refresh, for as long as *)
(* no stop and no setSession has come while something was under way.       *)
(***************************************************************************)
RefreshRecord == [awaits : {"nothing", "discovery"} \cup Calls, by : {"nobody", "start", "timer"}]

TailTypeOK ==
    /\ rediscover \in Nat
    /\ remembered => rediscover > 0
    /\ refresh \in [Refreshes -> RefreshRecord]
    /\ space \subseteq Apps

NoRefreshes == \A k \in Refreshes : refresh[k] = NoRefresh

\* Nothing runs and nothing will, until somebody calls the runtime again.
Dormant ==
    /\ running = [a \in Apps |-> NoStream]
    /\ timers = {}
    /\ \A k \in Tasks : task[k] = Idle
    /\ \A s \in Streams : stream[s] = Unused

OneChain ==
    /\ rediscover = 0 \/ (rediscover = 1 /\ remembered /\ NoRefreshes)
    /\ \A j, k \in Refreshes : refresh[j] # NoRefresh /\ refresh[k] # NoRefresh => j = k
    /\ ~started \/ stopped => rediscover = 0 /\ NoRefreshes

Undisturbed ==
    driver = "tail" /\ ~overtaken =>
        /\ OneChain
        /\ stopped => Dormant
        /\ active \subseteq available \/ Dormant

\* A chain that a failed start leaves is of timers only: a rediscovery schedules the next.
ChainGoesOn ==
    following => ~stopped /\ (rediscover > 0 \/ \E k \in Refreshes : refresh[k].by = "timer")

TailInv == IInv /\ TailTypeOK /\ Undisturbed /\ ChainGoesOn

LEMMA StopAllKeeps ==
  ASSUME IInv, StopStreams(Apps), timers' = {}, wanted' = {},
         UNCHANGED <<persists, preparing, active, task>>,
         session' \in BOOLEAN, prepared' \in BOOLEAN, version' \in 0 .. MaxVersion,
         available' \subseteq Apps
  PROVE  IInv'
  <1>1. TypeOK'
    BY StreamsStayTyped DEF IInv, TypeOK
  <1>2. TaskNamesApp'
    BY DEF IInv, TaskNamesApp
  <1>3. Streaming'
    BY StopKeepsStreaming DEF IInv
  <1>4. Wanting'
    BY DEF Wanting, WantedIsActive, WantedIsStarting
  <1> QED
    BY <1>1, <1>2, <1>3, <1>4 DEF IInv

\* If nothing was under way, nothing is left.
LEMMA StopAllQuiets ==
  ASSUME IInv, StopStreams(Apps), timers' = {}, UNCHANGED task, ~Outliving
  PROVE  Dormant'
  <1>1. running' = [a \in Apps |-> NoStream]
    BY DEF StopStreams
  <1>2. ASSUME NEW s \in Streams PROVE stream'[s] = Unused
    <2>1. stream[s].status # "ending"
      BY DEF Outliving
    <2>2. CASE stream[s] = Unused
      BY <2>1, <2>2 DEF StopStreams
    <2>3. CASE stream[s] \in StreamRecord
      <3>1. stream[s].app \in Apps /\ running[stream[s].app] = s
        BY <2>1, <2>3 DEF IInv, Streaming, LiveIsTracked, StreamRecord
      <3>2. s \in {running[a] : a \in Tracked(Apps)}
        BY <3>1, ConstantsAssumption DEF Tracked
      <3> QED
        BY <2>1, <3>2 DEF StopStreams
    <2> QED
      BY <2>2, <2>3 DEF IInv, TypeOK
  <1> QED
    BY <1>1, <1>2 DEF Dormant, Outliving

LEMMA DiscoveredKeeps ==
  ASSUME IInv, TailTypeOK, NEW k \in Refreshes, NEW c \in Calls, Discovered(k, c)
  PROVE  IInv'
  <1>1. c \in Tasks /\ Apps \ space \in SUBSET Apps
    BY DEF Tasks
  <1>2. /\ StopStreams(Apps \ space) /\ timers' = timers \ Tracked(Apps \ space)
        /\ UNCHANGED <<persists, session, version, prepared, preparing>>
        /\ active' = space /\ available' = space
        /\ task' = [task EXCEPT ![c] = [Idle EXCEPT !.stage = "next", !.todo = space]]
        /\ wanted' = IF session THEN space ELSE {}
    BY DEF Discovered, SyncStops
  <1>3. [Idle EXCEPT !.stage = "next", !.todo = space] \in TaskRecord
    BY IdleType DEF TaskRecord, TailTypeOK
  <1>4. TypeOK'
    BY <1>1, <1>2, <1>3, StreamsStayTyped DEF IInv, TypeOK, TailTypeOK
  <1>5. TaskNamesApp'
    BY <1>1, <1>2 DEF IInv, TaskNamesApp, TypeOK, Idle
  <1>6. Streaming'
    BY <1>1, <1>2, StopKeepsStreaming DEF IInv, TailTypeOK
  <1>7. ASSUME NEW a \in space PROVE Starting(a)'
    <2>1. a \in task'[c].todo
      BY <1>1, <1>2 DEF IInv, TypeOK, Idle
    <2> QED
      BY <1>1, <2>1 DEF Starting, StartedBy
  <1>8. Wanting'
    BY <1>2, <1>7 DEF Wanting, WantedIsActive, WantedIsStarting
  <1> QED
    BY <1>4, <1>5, <1>6, <1>8 DEF IInv

\* The steps that leave cf-tail's own state alone are the log runtime's.
LEMMA OtherStepsAreStreams ==
  ASSUME TailNext, ~ (driver = "tail" /\ (TailSetSession \/ Stop)),
         ~ (driver = "tail" /\ \E k \in Refreshes, c \in Calls : Discovered(k, c))
  PROVE  [Next]_vars
  <1>1. ASSUME NEW k \in Refreshes, NEW c \in Calls, Synced(k, c) PROVE [Next]_vars
    BY <1>1 DEF Synced, Next, Micro, Tasks
  <1>2. CASE StreamsStep
    BY <1>2 DEF StreamsStep, Next
  <1> QED
    BY <1>1, <1>2 DEF TailNext, TailDrives, RefreshStep, StartWithoutSession, FiresAfterStop,
       RediscoversNothing, SpaceChanges, Start, Rediscovers, DiscoveryFails, Next

LEMMA StreamsInductive == IInv /\ [Next]_vars => IInv'
  BY TypeNext, TaskNext, StreamingNext, WantingNext DEF IInv

LEMMA TailKeepsStreams ==
  ASSUME IInv, TailTypeOK, [TailNext]_tailvars
  PROVE  IInv'
  <1>1. CASE TailSetSession
    <2>1. version' \in 0 .. MaxVersion
      BY <1>1, ConstantsAssumption DEF TailSetSession, IInv, TypeOK
    <2> QED
      BY <1>1, <2>1, StopAllKeeps DEF TailSetSession
  <1>2. CASE Stop
    BY <1>2, StopAllKeeps DEF Stop, IInv, TypeOK
  <1>3. CASE \E k \in Refreshes, c \in Calls : Discovered(k, c)
    BY <1>3, DiscoveredKeeps
  <1>4. CASE UNCHANGED tailvars
    BY <1>4, StreamsInductive DEF tailvars
  <1> QED
    BY <1>1, <1>2, <1>3, <1>4, OtherStepsAreStreams, StreamsInductive

LEMMA TailTypeNext == TailTypeOK /\ [TailNext]_tailvars => TailTypeOK'
  <1> SUFFICES ASSUME TailTypeOK, [TailNext]_tailvars PROVE TailTypeOK'
    OBVIOUS
  <1> USE DEF TailTypeOK, RefreshRecord, tail, TimerFired
  <1>1. CASE TailSetSession \/ StartWithoutSession \/ FiresAfterStop \/ RediscoversNothing \/ SpaceChanges
    BY <1>1 DEF TailSetSession, StartWithoutSession, FiresAfterStop, RediscoversNothing, SpaceChanges,
       Outliving
  <1>2. CASE Stop
    BY <1>2 DEF Stop, ClearsTimer, Outliving
  <1>3. ASSUME NEW k \in Refreshes, Start(k) \/ Rediscovers(k) PROVE TailTypeOK'
    BY <1>3 DEF Start, Rediscovers, Discovers
  <1>4. ASSUME NEW k \in Refreshes, DiscoveryFails(k) PROVE TailTypeOK'
    BY <1>4 DEF DiscoveryFails, Over, Schedule, NoRefresh
  <1>5. ASSUME NEW k \in Refreshes, NEW c \in Calls, Discovered(k, c) PROVE TailTypeOK'
    BY <1>5 DEF Discovered
  <1>6. ASSUME NEW k \in Refreshes, NEW c \in Calls, Synced(k, c) PROVE TailTypeOK'
    BY <1>6 DEF Synced, Over, Schedule, NoRefresh
  <1>7. CASE UNCHANGED <<tail, space>>
    BY <1>7
  <1> QED
    BY <1>1, <1>2, <1>3, <1>4, <1>5, <1>6, <1>7
       DEF TailNext, StreamsStep, TailDrives, RefreshStep, tailvars

\* A refresh that awaits something is under way, and who began it is known.
LEMMA UnderWay ==
  ASSUME NEW k \in Refreshes, NEW c \in Calls, refresh[k].awaits \in {"discovery", c}
  PROVE  refresh[k] # NoRefresh
  BY TailAssumption DEF NoRefresh

LEMMA ChainGoesOnNext == TailTypeOK /\ ChainGoesOn /\ [TailNext]_tailvars => ChainGoesOn'
  <1> SUFFICES ASSUME TailTypeOK, ChainGoesOn, [TailNext]_tailvars PROVE ChainGoesOn'
    OBVIOUS
  <1> USE DEF TailTypeOK, RefreshRecord, ChainGoesOn, tail, TimerFired
  <1>1. CASE TailSetSession \/ FiresAfterStop \/ RediscoversNothing \/ SpaceChanges
    BY <1>1 DEF TailSetSession, FiresAfterStop, RediscoversNothing, SpaceChanges
  <1>2. CASE Stop \/ StartWithoutSession
    BY <1>2 DEF Stop, StartWithoutSession
  <1>3. ASSUME NEW k \in Refreshes, Start(k) \/ Rediscovers(k) PROVE ChainGoesOn'
    <2>1. CASE Start(k)
      <3>1. \A j \in Refreshes : refresh[j].by = "timer" => refresh'[j] = refresh[j]
        BY <2>1 DEF Start, Discovers, NoRefresh
      <3>2. UNCHANGED <<following, rediscover>> /\ ~stopped'
        BY <2>1 DEF Start
      <3> QED
        BY <3>1, <3>2
    <2>2. CASE Rediscovers(k)
      <3>1. refresh'[k].by = "timer"
        BY <2>2 DEF Rediscovers, Discovers
      <3>2. ~stopped'
        BY <2>2 DEF Rediscovers
      <3> QED
        BY <3>1, <3>2
    <2> QED
      BY <1>3, <2>1, <2>2
  <1>4. ASSUME NEW k \in Refreshes, DiscoveryFails(k) PROVE ChainGoesOn'
    <2>1. CASE refresh[k].by = "start"
      <3>1. \A j \in Refreshes : refresh[j].by = "timer" => refresh'[j] = refresh[j]
        BY <1>4, <2>1 DEF DiscoveryFails, Over
      <3> QED
        BY <1>4, <2>1, <3>1 DEF DiscoveryFails
    <2>2. CASE refresh[k].by # "start"
      BY <1>4, <2>2 DEF DiscoveryFails, Schedule
    <2> QED
      BY <2>1, <2>2
  <1>5. ASSUME NEW k \in Refreshes, NEW c \in Calls, Discovered(k, c) PROVE ChainGoesOn'
    <2>1. \A j \in Refreshes : refresh'[j].by = refresh[j].by
      BY <1>5 DEF Discovered
    <2>2. UNCHANGED <<following, stopped, rediscover>>
      BY <1>5 DEF Discovered
    <2> QED
      BY <2>1, <2>2
  <1>6. ASSUME NEW k \in Refreshes, NEW c \in Calls, Synced(k, c) PROVE ChainGoesOn'
    <2>1. /\ following' => ~stopped
          /\ UNCHANGED stopped
          /\ ~stopped => rediscover' = rediscover + 1
      BY <1>6 DEF Synced, Schedule
    <2> QED
      BY <2>1
  <1>7. CASE UNCHANGED <<tail, space>>
    BY <1>7
  <1> QED
    BY <1>1, <1>2, <1>3, <1>4, <1>5, <1>6, <1>7
       DEF TailNext, StreamsStep, TailDrives, RefreshStep, tailvars

LEMMA DormantStays ==
  ASSUME TypeOK, Dormant, StreamsStep
  PROVE  Dormant'
  <1> USE DEF Dormant
  <1>1. \A k \in Tasks : task[k].stage = "idle"
    BY DEF Idle
  <1>2. \A s \in Streams : stream[s].status = "unused"
    BY DEF Unused
  <1>3. ~Micro
    BY <1>1 DEF Micro, Begin, LoopEnds, Spawn, SpawnThrows, NoLongerNeeded, StartFailed
  <1>4. CASE Child
    BY <1>2, <1>4 DEF Child, Ends, EndsPersisting, Persisted, OrphanEnds
  <1>5. ASSUME NEW v \in 0 .. MaxVersion, Prepare(v) PROVE Dormant'
    BY <1>1, <1>5 DEF Prepare, PrepareSucceeds, PrepareFails, Settle, Waiters
  <1>6. ASSUME NEW a \in Apps PROVE ~Timer(a)
    BY DEF Timer, TimerFires
  <1> QED
    BY <1>3, <1>4, <1>5, <1>6 DEF StreamsStep

LEMMA StreamsKeepCatalog ==
  ASSUME [Next]_vars, StreamsStep \/ UNCHANGED vars \/ \E k \in Tasks : LoopEnds(k)
  PROVE  UNCHANGED <<active, available>>
  BY DEF StreamsStep, Micro, Begin, LoopEnds, Spawn, SpawnThrows, NoLongerNeeded, StartFailed,
     Child, Ends, EndsPersisting, Persisted, OrphanEnds, Prepare, PrepareSucceeds, PrepareFails,
     Settle, Timer, TimerFires, settings, vars

LEMMA UndisturbedNext ==
  ASSUME IInv, TailTypeOK, Undisturbed, [TailNext]_tailvars
  PROVE  Undisturbed'
  <1> SUFFICES ASSUME driver = "tail", ~overtaken'
               PROVE  /\ OneChain'
                      /\ stopped' => Dormant'
                      /\ active' \subseteq available' \/ Dormant'
    BY DEF TailNext, tailvars, Undisturbed
  <1>o. ~overtaken
    BY DEF TailNext, tailvars, tail, TailDrives, StreamsStep, RefreshStep, TailSetSession, Stop,
       StartWithoutSession, FiresAfterStop, RediscoversNothing, SpaceChanges, Start, Rediscovers,
       DiscoveryFails, Discovered, Synced
  <1>u. OneChain /\ (stopped => Dormant) /\ (active \subseteq available \/ Dormant)
    BY <1>o DEF Undisturbed
  <1> USE DEF TailTypeOK, RefreshRecord, tail, TimerFired, OneChain, NoRefreshes
  <1>1. CASE TailSetSession
    <2>1. Dormant'
      BY <1>1, StopAllQuiets DEF TailSetSession
    <2> QED
      BY <1>1, <1>u, <2>1 DEF TailSetSession
  <1>2. CASE Stop
    <2>1. Dormant' /\ NoRefreshes
      BY <1>2, StopAllQuiets DEF Stop, Outliving
    <2> QED
      BY <1>2, <1>u, <2>1 DEF Stop, ClearsTimer
  <1>3. CASE StartWithoutSession \/ FiresAfterStop \/ RediscoversNothing \/ SpaceChanges
    BY <1>3, <1>u DEF StartWithoutSession, FiresAfterStop, RediscoversNothing, SpaceChanges, vars,
       Dormant
  <1>4. ASSUME NEW k \in Refreshes, Start(k) \/ Rediscovers(k)
        PROVE  /\ OneChain' /\ (stopped' => Dormant') /\ (active' \subseteq available' \/ Dormant')
    <2>1. UNCHANGED <<Dormant, active, available>>
      BY <1>4 DEF Start, Rediscovers, vars, Dormant
    <2> QED
      BY <1>4, <1>u, <2>1 DEF Start, Rediscovers, Discovers
  <1>5. ASSUME NEW k \in Refreshes, DiscoveryFails(k)
        PROVE  /\ OneChain' /\ (stopped' => Dormant') /\ (active' \subseteq available' \/ Dormant')
    <2>1. UNCHANGED <<Dormant, active, available>>
      BY <1>5 DEF DiscoveryFails, vars, Dormant
    <2>2. refresh[k] # NoRefresh
      BY <1>5 DEF DiscoveryFails, NoRefresh
    <2> QED
      BY <1>5, <1>u, <2>1, <2>2 DEF DiscoveryFails, Over, Schedule
  <1>6. ASSUME NEW k \in Refreshes, NEW c \in Calls, Discovered(k, c)
        PROVE  /\ OneChain' /\ (stopped' => Dormant') /\ (active' \subseteq available' \/ Dormant')
    <2>1. refresh[k] # NoRefresh
      BY <1>6 DEF Discovered, NoRefresh
    <2> QED
      BY <1>6, <1>u, <2>1 DEF Discovered
  <1>7. ASSUME NEW k \in Refreshes, NEW c \in Calls, Synced(k, c)
        PROVE  /\ OneChain' /\ (stopped' => Dormant') /\ (active' \subseteq available' \/ Dormant')
    <2>1. refresh[k] # NoRefresh
      BY <1>7, UnderWay DEF Synced
    <2>2. UNCHANGED <<active, available>>
      BY <1>7 DEF Synced, LoopEnds, settings
    <2>3. ~Dormant
      BY <1>7 DEF Synced, LoopEnds, Dormant, Idle, Tasks
    <2> QED
      BY <1>7, <1>u, <2>1, <2>2, <2>3 DEF Synced, Over, Schedule
  <1>8. CASE StreamsStep
    <2>1. UNCHANGED <<active, available>>
      BY <1>8, StreamsKeepCatalog DEF StreamsStep, Next
    <2>2. Dormant => Dormant'
      BY <1>8, DormantStays DEF IInv
    <2> QED
      BY <1>8, <1>u, <2>1, <2>2 DEF StreamsStep
  <1>9. CASE UNCHANGED tailvars
    BY <1>9, <1>u DEF tailvars, vars, Dormant
  <1> QED
    BY <1>1, <1>2, <1>3, <1>4, <1>5, <1>6, <1>7, <1>8, <1>9 DEF TailNext, TailDrives, RefreshStep

LEMMA TailInvInit == TailInit => TailInv
  <1> SUFFICES ASSUME TailInit PROVE TailInv
    OBVIOUS
  <1>1. IInv
    BY InvInit DEF TailInit
  <1>2. TailTypeOK
    BY DEF TailInit, TailTypeOK, RefreshRecord, NoRefresh
  <1>3. Undisturbed /\ ChainGoesOn
    BY DEF TailInit, Init, Undisturbed, OneChain, NoRefreshes, Dormant, ChainGoesOn
  <1> QED
    BY <1>1, <1>2, <1>3 DEF TailInv

LEMMA TailInvariance == TailSpec => []TailInv
  <1>1. TailInv /\ [TailNext]_tailvars => TailInv'
    BY TailKeepsStreams, TailTypeNext, UndisturbedNext, ChainGoesOnNext DEF TailInv
  <1> QED
    BY TailInvInit, <1>1, PTL DEF TailSpec

\* What LogStreams promises any caller it also promises cf-tail, whose refreshes change the
\* catalog and the active apps in one step and whose stop empties the catalog.
THEOREM TailKeepsThePromises ==
    TailSpec => [](TypeOK /\ TrackedStreamIsCurrent /\ WantedIsStarting)
  <1>1. TailInv => TypeOK /\ TrackedStreamIsCurrent /\ WantedIsStarting
    BY DEF TailInv, IInv, Streaming, Wanting
  <1> QED
    BY TailInvariance, <1>1, PTL

\* A stop that nothing outlives is final: no child, no timer and no refresh is left or comes.
THEOREM StopIsFinal == TailSpec => []StoppedIsQuiet
  <1>1. TailInv => StoppedIsQuiet
    BY DEF TailInv, Undisturbed, OneChain, NoRefreshes, Dormant, StoppedIsQuiet
  <1> QED
    BY TailInvariance, <1>1, PTL

\* After a start that succeeded a rediscovery is always to come, whatever fails on the way
\* and however many refreshes of earlier starts are still under way.
THEOREM RediscoveryNeverEnds == TailSpec => []RediscoveryGoesOn
  <1>1. TailInv => RediscoveryGoesOn
    BY DEF TailInv, ChainGoesOn, RediscoveryGoesOn, NoRefresh
  <1> QED
    BY TailInvariance, <1>1, PTL

\* What has a stream is in the catalog of the last refresh.
THEOREM StreamsStayInCatalog == TailSpec => []StreamsAreInCatalog
  <1>1. TailInv => StreamsAreInCatalog
    BY DEF TailInv, IInv, Streaming, TrackedStreamIsCurrent, Tracked, Undisturbed, Dormant,
       StreamsAreInCatalog
  <1> QED
    BY TailInvariance, <1>1, PTL
=============================================================================
