--------------------------- MODULE ExplorerSession ---------------------------
(***************************************************************************)
(* A persistent session of cf-explorer: the command that starts it, the    *)
(* broker it spawns, and the commands that stop it (session/client.ts,     *)
(* session/storage.ts, broker/explorer-broker.ts).  They share the record  *)
(* of the session in sessions.json, its socket and its CF_HOME, which      *)
(* holds the credentials of the login.  What is done to the record under   *)
(* sessions.lock is one step.  Nobody removes the lock file of a process   *)
(* that was killed with it in hand: from then on the lock is jammed and    *)
(* every use of it fails after 10 seconds.                                 *)
(***************************************************************************)
EXTENDS Naturals, FiniteSets

CONSTANT Stoppers        \* the stop commands for this session

VARIABLES
    record,      \* the session's record
    starter,     \* the start command
    broker,      \* the broker: its startup, its shutdown
    shell,       \* the ssh process of the broker
    stopper,     \* each stop command, and the pid it read
    home,        \* the CF_HOME of the session is there
    socket,      \* the socket file is there
    login,       \* a cf command that writes to CF_HOME is running
    jammed,      \* sessions.lock was left behind
    oversights   \* history: which of Oversights have happened

explorervars == <<record, starter, broker, shell, stopper, home, socket, login, jammed,
                  oversights>>

NoRecord == [status |-> "none", pid |-> "nobody"]
Records == {NoRecord} \cup [status : {"starting", "busy", "ready", "stale", "error"},
                            pid : {"starter", "broker"}]

StarterPcs == {"new", "spawning", "recording", "waiting", "cleanup", "removing", "cleaning",
               "ready", "failed", "killed"}
StartupPcs == {"none", "boot", "context", "creating", "preparing", "shell", "busy",
               "handshake", "listening", "publishing", "serving", "failing", "gone"}
ShutdownPcs == {"none", "staling", "removing", "cleaning"}
StopperPcs == {"new", "asking", "grace", "killing", "removing", "cleaning", "done"}

\* unlisted: the record was removed while the broker ran and nothing had told it to stop;
\* relogin: the files were removed while the broker's login was still writing them;
\* cut: a process ended after it removed the record and before it removed the files.
Oversights == {"unlisted", "relogin", "cut"}
Cut(cleaning) == IF cleaning THEN {"cut"} ELSE {}

ExplorerInit ==
    /\ record = NoRecord
    /\ starter = "new"
    /\ broker = [startup |-> "none", shutdown |-> "none"]
    /\ shell = "none"
    /\ stopper = [k \in Stoppers |-> [at |-> "new", pid |-> "nobody"]]
    /\ home = FALSE /\ socket = FALSE /\ login = FALSE /\ jammed \in BOOLEAN
    /\ oversights = {}

BrokerRuns(b) == b.startup \notin {"none", "gone"}
PidAlive(pid) == \/ pid = "starter" /\ starter \notin {"new", "ready", "failed", "killed"}
                 \/ pid = "broker" /\ BrokerRuns(broker)

\* isSessionUsable: a record that a read keeps.  Reading happens after pruning.
Usable == record.status \in {"none", "stale", "error"} \/ PidAlive(record.pid)

Oversees(what) == oversights' = (oversights \cup what)

\* removeExplorerSession by someone other than the broker.
RemovesRecord ==
    /\ record' = NoRecord
    /\ Oversees(IF record # NoRecord /\ BrokerRuns(broker) /\ broker.shutdown = "none"
                  THEN {"unlisted"} ELSE {})

\* cleanupSessionFiles.
CleansFiles ==
    /\ home' = FALSE /\ socket' = FALSE
    /\ Oversees(IF login \/ broker.startup = "creating" THEN {"relogin"} ELSE {})

\* SIGTERM: the broker shuts down, the start command ends.
Terminates(pid) ==
    /\ starter' = IF pid = "starter" /\ PidAlive(pid) THEN "killed" ELSE starter
    /\ Oversees(Cut(pid = "starter" /\ starter = "cleaning"))
    /\ broker' = IF pid = "broker" /\ PidAlive(pid) /\ broker.shutdown = "none"
                   THEN [broker EXCEPT !.shutdown = "removing"] ELSE broker

\* readAndPruneStateUnlocked, by any command that reads the sessions.
Prunes ==
    /\ ~jammed /\ ~Usable
    /\ record' = NoRecord
    /\ home' = FALSE /\ socket' = FALSE
    /\ Oversees((IF BrokerRuns(broker) /\ broker.shutdown = "none" THEN {"unlisted"} ELSE {})
                \cup (IF login \/ broker.startup = "creating" THEN {"relogin"} ELSE {}))
    /\ UNCHANGED <<starter, broker, shell, stopper, login, jammed>>

(***************************************************************************)
(* startExplorerSession.                                                   *)
(***************************************************************************)
Registers ==
    /\ starter = "new"
    /\ IF jammed THEN starter' = "failed" /\ UNCHANGED record
       ELSE /\ record' = [status |-> "starting", pid |-> "starter"]
            /\ starter' = "spawning"
    /\ UNCHANGED <<broker, shell, stopper, home, socket, login, jammed, oversights>>

SpawnsBroker ==
    /\ starter = "spawning"
    /\ starter' = "recording"
    /\ broker' = [broker EXCEPT !.startup = "boot"]
    /\ UNCHANGED <<record, shell, stopper, home, socket, login, jammed, oversights>>

\* Mutant: an update brings back a record that is gone.
Upserted(field, value) == [record EXCEPT ![field] = value]

\* updateExplorerSession: a record that is gone stays gone.
Patched(field, value) ==
    IF record = NoRecord THEN record ELSE [record EXCEPT ![field] = value]

RecordsPid ==
    /\ starter = "recording"
    /\ IF jammed THEN starter' = "cleanup" /\ UNCHANGED record
       ELSE starter' = "waiting" /\ record' = Patched("pid", "broker")
    /\ UNCHANGED <<broker, shell, stopper, home, socket, login, jammed, oversights>>

\* waitForBrokerReady: ready, an error, or too long.
SeesReady ==
    /\ starter = "waiting" /\ ~jammed /\ Usable
    /\ record.status = "ready"
    /\ starter' = "ready"
    /\ UNCHANGED <<record, broker, shell, stopper, home, socket, login, jammed, oversights>>

GivesUpWaiting ==
    /\ starter = "waiting"
    /\ starter' = "cleanup"
    /\ UNCHANGED <<record, broker, shell, stopper, home, socket, login, jammed, oversights>>

\* cleanupFailedStart.
TerminatesBroker ==
    /\ starter = "cleanup"
    /\ broker' = IF BrokerRuns(broker) /\ broker.shutdown = "none"
                   THEN [broker EXCEPT !.shutdown = "removing"] ELSE broker
    /\ starter' = "removing"
    /\ UNCHANGED <<record, shell, stopper, home, socket, login, jammed, oversights>>

StarterRemoves ==
    /\ starter = "removing"
    /\ IF jammed THEN starter' = "failed" /\ UNCHANGED <<record, oversights>>
       ELSE /\ RemovesRecord
            /\ starter' = IF record = NoRecord THEN "failed" ELSE "cleaning"
    /\ UNCHANGED <<broker, shell, stopper, home, socket, login, jammed>>

StarterCleans ==
    /\ starter = "cleaning"
    /\ CleansFiles
    /\ starter' = "failed"
    /\ UNCHANGED <<record, broker, shell, stopper, login, jammed>>

(***************************************************************************)
(* The broker: start.                                                      *)
(***************************************************************************)
In(pc) == broker.startup = pc
GoesTo(pc) == broker' = [broker EXCEPT !.startup = pc]

\* requireSession, twice: before and after the bootstrap of the login.
RequiresSession(from, to) ==
    /\ In(from) /\ (jammed \/ Usable)
    /\ GoesTo(IF jammed \/ record = NoRecord THEN "failing" ELSE to)
    /\ UNCHANGED <<record, starter, shell, stopper, home, socket, login, jammed, oversights>>

\* prepareCfCliSession: mkdir, then cf api, cf auth and cf target.
CreatesHome ==
    /\ In("creating")
    /\ home' = TRUE /\ login' = TRUE
    /\ GoesTo("preparing")
    /\ UNCHANGED <<record, starter, shell, stopper, socket, jammed, oversights>>

\* The cf command writes its configuration, and creates the directory if it is not there.
LoginEnds ==
    /\ login
    /\ login' = FALSE /\ home' = TRUE
    /\ \/ In("preparing") /\ \E pc \in {"shell", "failing"} : GoesTo(pc)
       \/ ~In("preparing") /\ UNCHANGED broker
    /\ UNCHANGED <<record, starter, shell, stopper, socket, jammed, oversights>>

\* prepareSshAccess, which may restart the application and then marks the sessions of the
\* target stale, this one included; the ssh shell.
SpawnsShell(restarts) ==
    /\ In("shell")
    /\ IF restarts /\ jammed THEN GoesTo("failing") /\ UNCHANGED <<record, shell>>
       ELSE /\ GoesTo("busy") /\ shell' = "up"
            /\ record' = IF restarts THEN Patched("status", "stale") ELSE record
    /\ UNCHANGED <<starter, stopper, home, socket, login, jammed, oversights>>

PublishesStatus(from, status, to) ==
    /\ In(from)
    /\ IF jammed THEN GoesTo("failing") /\ UNCHANGED record
       ELSE GoesTo(to) /\ record' = Patched("status", status)
    /\ UNCHANGED <<starter, shell, stopper, home, socket, login, jammed, oversights>>

Handshakes ==
    /\ In("handshake")
    /\ GoesTo(IF shell = "up" THEN "listening" ELSE "failing")
    /\ UNCHANGED <<record, starter, shell, stopper, home, socket, login, jammed, oversights>>

Listens ==
    /\ In("listening")
    /\ socket' = TRUE
    /\ GoesTo("publishing")
    /\ UNCHANGED <<record, starter, shell, stopper, home, login, jammed, oversights>>

\* failStartup, and the end of the process, whatever its shutdown had still to do.
FailsStartup ==
    /\ In("failing")
    /\ Oversees(Cut(broker.shutdown = "cleaning"))
    /\ record' = IF jammed THEN record ELSE Patched("status", "error")
    /\ broker' = [startup |-> "gone", shutdown |-> "none"]
    /\ shell' = IF shell = "up" THEN "ended" ELSE shell
    /\ UNCHANGED <<starter, stopper, home, socket, login, jammed>>

(***************************************************************************)
(* The broker: shutdown, while the startup goes on.                        *)
(***************************************************************************)
\* The idle or the lifetime timer.
TimersFire ==
    /\ In("serving") /\ broker.shutdown = "none"
    /\ broker' = [broker EXCEPT !.shutdown = "removing"]
    /\ UNCHANGED <<record, starter, shell, stopper, home, socket, login, jammed, oversights>>

\* handleShellExit.
ShellExits ==
    /\ shell = "up"
    /\ shell' = "ended"
    /\ broker' = IF BrokerRuns(broker) /\ broker.shutdown = "none"
                   THEN [broker EXCEPT !.shutdown = "staling"] ELSE broker
    /\ UNCHANGED <<record, starter, stopper, home, socket, login, jammed, oversights>>

MarksOwnStale ==
    /\ broker.shutdown = "staling"
    /\ record' = IF jammed THEN record ELSE Patched("status", "stale")
    /\ broker' = [broker EXCEPT !.shutdown = "removing"]
    /\ UNCHANGED <<starter, shell, stopper, home, socket, login, jammed, oversights>>

BrokerEnds == broker' = [startup |-> "gone", shutdown |-> "none"]

BrokerRemoves ==
    /\ broker.shutdown = "removing"
    /\ shell' = IF shell = "up" THEN "ended" ELSE shell
    /\ IF jammed \/ record = NoRecord THEN BrokerEnds /\ UNCHANGED record
       ELSE broker' = [broker EXCEPT !.shutdown = "cleaning"] /\ record' = NoRecord
    /\ UNCHANGED <<starter, stopper, home, socket, login, jammed, oversights>>

\* Mutant: the broker removes its socket only.
BrokerKeepsHome ==
    /\ broker.shutdown = "cleaning"
    /\ socket' = FALSE
    /\ BrokerEnds
    /\ UNCHANGED <<record, starter, shell, stopper, home, login, jammed, oversights>>

BrokerCleans ==
    /\ broker.shutdown = "cleaning"
    /\ CleansFiles
    /\ BrokerEnds
    /\ UNCHANGED <<record, starter, shell, stopper, login, jammed>>

(***************************************************************************)
(* stopExplorerSession, for a session that is in the list.                 *)
(***************************************************************************)
StopperAt(k, pc) == stopper[k].at = pc
StopperTurns(k, pc) == stopper' = [stopper EXCEPT ![k].at = pc]

Lists(k) ==
    /\ StopperAt(k, "new") /\ (jammed \/ Usable)
    /\ stopper' = [stopper EXCEPT ![k] =
            IF jammed \/ record = NoRecord THEN [at |-> "done", pid |-> "nobody"]
            ELSE [at |-> "asking", pid |-> record.pid]]
    /\ UNCHANGED <<record, starter, broker, shell, home, socket, login, jammed, oversights>>

\* requestBrokerStop: the broker answers, then shuts down; or nobody answers.
AsksBroker(k, answered) ==
    /\ StopperAt(k, "asking")
    /\ IF answered
         THEN /\ socket /\ broker.startup \in {"publishing", "serving"}
              /\ broker' = IF broker.shutdown = "none"
                             THEN [broker EXCEPT !.shutdown = "removing"] ELSE broker
              /\ StopperTurns(k, "grace")
         ELSE StopperTurns(k, "killing") /\ UNCHANGED broker
    /\ UNCHANGED <<record, starter, shell, home, socket, login, jammed, oversights>>

\* waitForGracefulBrokerStop.
EndsGrace(k) ==
    /\ StopperAt(k, "grace")
    /\ \/ ~jammed /\ (~PidAlive(stopper[k].pid) \/ ~socket) /\ StopperTurns(k, "removing")
       \/ StopperTurns(k, "killing")
    /\ UNCHANGED <<record, starter, broker, shell, home, socket, login, jammed, oversights>>

TerminatesPid(k) ==
    /\ StopperAt(k, "killing")
    /\ Terminates(stopper[k].pid)
    /\ StopperTurns(k, "removing")
    /\ UNCHANGED <<record, shell, home, socket, login, jammed>>

StopperRemoves(k) ==
    /\ StopperAt(k, "removing")
    /\ IF jammed THEN StopperTurns(k, "done") /\ UNCHANGED <<record, oversights>>
       ELSE /\ RemovesRecord
            /\ StopperTurns(k, IF record = NoRecord THEN "done" ELSE "cleaning")
    /\ UNCHANGED <<starter, broker, shell, home, socket, login, jammed>>

StopperCleans(k) ==
    /\ StopperAt(k, "cleaning")
    /\ CleansFiles
    /\ StopperTurns(k, "done")
    /\ UNCHANGED <<record, starter, broker, shell, login, jammed>>

(***************************************************************************)
(* Others: a restart of the application, and processes that are killed.    *)
(***************************************************************************)
\* markSessionsStaleForTarget, by restartApp or prepareSsh of another command.
MarksStale ==
    /\ ~jammed /\ record # NoRecord
    /\ record' = Patched("status", "stale")
    /\ UNCHANGED <<starter, broker, shell, stopper, home, socket, login, jammed, oversights>>

StarterKilled ==
    /\ PidAlive("starter")
    /\ starter' = "killed"
    /\ jammed' \in {jammed, TRUE}
    /\ Oversees(Cut(starter = "cleaning"))
    /\ UNCHANGED <<record, broker, shell, stopper, home, socket, login>>

BrokerKilled ==
    /\ PidAlive("broker")
    /\ jammed' \in {jammed, TRUE}
    /\ BrokerEnds
    /\ shell' = IF shell = "up" THEN "ended" ELSE shell
    /\ Oversees(Cut(broker.shutdown = "cleaning"))
    /\ UNCHANGED <<record, starter, stopper, home, socket, login>>

StopperKilled(k) ==
    /\ stopper[k].at \notin {"new", "done"}
    /\ jammed' \in {jammed, TRUE}
    /\ Oversees(Cut(StopperAt(k, "cleaning")))
    /\ StopperTurns(k, "done")
    /\ UNCHANGED <<record, starter, broker, shell, home, socket, login>>

ExplorerNext ==
    \/ Prunes
    \/ Registers \/ SpawnsBroker \/ RecordsPid \/ SeesReady \/ GivesUpWaiting
    \/ TerminatesBroker \/ StarterRemoves \/ StarterCleans
    \/ RequiresSession("boot", "context") \/ RequiresSession("context", "creating")
    \/ CreatesHome \/ LoginEnds \/ (\E restarts \in BOOLEAN : SpawnsShell(restarts))
    \/ PublishesStatus("busy", "busy", "handshake") \/ Handshakes \/ Listens
    \/ PublishesStatus("publishing", "ready", "serving") \/ FailsStartup
    \/ TimersFire \/ ShellExits \/ MarksOwnStale \/ BrokerRemoves \/ BrokerCleans
    \/ \E k \in Stoppers :
         \/ Lists(k) \/ (\E answered \in BOOLEAN : AsksBroker(k, answered)) \/ EndsGrace(k)
         \/ TerminatesPid(k) \/ StopperRemoves(k) \/ StopperCleans(k)
         \/ StopperKilled(k)
    \/ MarksStale \/ StarterKilled \/ BrokerKilled

ExplorerSpec == ExplorerInit /\ [][ExplorerNext]_explorervars

-----------------------------------------------------------------------------
ExplorerTypeOK ==
    /\ record \in Records
    /\ starter \in StarterPcs
    /\ broker \in [startup : StartupPcs, shutdown : ShutdownPcs]
    /\ shell \in {"none", "up", "ended"}
    /\ stopper \in [Stoppers -> [at : StopperPcs, pid : {"nobody", "starter", "broker"}]]
    /\ {home, socket, login, jammed} \subseteq BOOLEAN
    /\ oversights \subseteq Oversights

\* Somebody is about to remove the files of the session.
Cleaning == \/ starter = "cleaning" \/ broker.shutdown = "cleaning"
            \/ \E k \in Stoppers : StopperAt(k, "cleaning")

\* "Persistent CF_HOME folders are treated as sensitive and removed on session stop"
\* (README.md:412): unless something was overlooked, whatever is left of a session, a
\* broker that serves or a CF_HOME, is listed, so that the next list or stop finds it.
LeftoversAreListed ==
    oversights = {} =>
        /\ In("serving") /\ broker.shutdown = "none" => record # NoRecord
        /\ home => record # NoRecord \/ Cleaning
=============================================================================
