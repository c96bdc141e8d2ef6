-------------------------- MODULE DebuggerSession --------------------------
(***************************************************************************)
(* The life of a cf-debugger session as the processes that share the state *)
(* file see it: the controller that starts it and owns its SSH tunnel, the *)
(* "stop" commands that end it from outside, the prunes that every start   *)
(* and list performs, and "doctor --cleanup".                              *)
(*                                                                         *)
(* A read-modify-write of the state file is one step: withFileLock makes   *)
(* it so (FileLock implements ExclusiveLock).  Everything read outside the *)
(* lock (process liveness, port ownership, the stop-intent file) is a step *)
(* of its own and may be stale when it is used.                            *)
(***************************************************************************)
EXTENDS FiniteSets, Naturals

CONSTANTS
    Sessions,        \* start commands; each has one session id and one controller process
    Target,          \* the CF process instance each of them debugs
    Ports,           \* the local port range
    NoPort,          \* no port chosen
    Stoppers,        \* stop commands that run at the same time
    MayStall,        \* controllers that may outlive the startup age limit
    CrashAt,         \* the control points at which a controller may be killed
    MayForce,        \* whether "stop --force" is used
    Uninspectable,   \* whether lsof or ps may fail to answer
    MayOutlive       \* whether a tunnel may survive SIGTERM and SIGKILL

ASSUME SessionAssumption == Sessions # {}
ASSUME PortAssumption == NoPort \notin Ports
ASSUME FlagAssumption == /\ MayStall \subseteq Sessions
                         /\ {MayForce, Uninspectable, MayOutlive} \subseteq BOOLEAN

VARIABLES
    pc,          \* where each controller is in startDebugger, dispose and finalize
    port,        \* the local port the controller settled on
    excluded,    \* the ports registerNewSession gave up on
    record,      \* the sessions of the state file
    intent,      \* the sessions whose stop-intent file exists
    home,        \* the sessions whose CF home directory exists
    tunnel,      \* the SSH tunnel process
    close,       \* the controller's handling of the tunnel's close event
    old,         \* the listed sessions past their startup age limit
    stop,        \* each stop command: where it is and what it has read
    prune,       \* the prune in progress: where it is and what it has read
    asked,       \* history: the running sessions a stop command has asked to end
    forced       \* history: the running sessions forgotten without proof that they ended

controllerVars == <<pc, port, excluded>>
fileVars == <<record, intent, home>>
historyVars == <<asked, forced>>
vars == <<controllerVars, fileVars, tunnel, close, old, stop, prune, historyVars>>

(***************************************************************************)
(* Control points of a controller.  "login" and "remote" stand for all the *)
(* CF phases before "tunneling": each of them updates the status under the *)
(* lock and fails if a stop was requested or the record is gone.           *)
(***************************************************************************)
Unregistered == {"select", "probe", "persist"}
Startup == {"home", "login", "remote", "spawn", "recordPid", "verify", "commit", "assert"}
FinalizingPcs == {"kill", "forget", "rmHome", "clear"}
ControllerPcs == Unregistered \cup Startup \cup {"ready", "setStopping"} \cup FinalizingPcs
Pcs == ControllerPcs \cup {"exited", "retained", "dead"}

ASSUME CrashAssumption == CrashAt \subseteq ControllerPcs

Statuses == {"starting", "logging-in", "tunneling", "ready", "stopping"}
NoSession == [status |-> "none", port |-> NoPort, tunnelPid |-> FALSE, stopRequested |-> FALSE]
Session == [status : Statuses, port : Ports, tunnelPid : BOOLEAN, stopRequested : BOOLEAN]

Listed(c) == record[c].status # "none"
Running(c) == pc[c] \in ControllerPcs
Finalizing(c) == pc[c] \in FinalizingPcs

\* "crashed": the tunnel of a ready session ended while nobody was ending it.
TunnelStates == {"none", "up", "bound", "dead", "crashed"}
TunnelAlive(c) == tunnel[c] \in {"up", "bound"}
TunnelGone(c) == tunnel[c] \in {"dead", "crashed"}
PortTaken(p) == \E c \in Sessions : tunnel[c] = "bound" /\ port[c] = p

CloseStates == {"open", "sidecar", "noSidecar", "clear", "expected", "failed"}

StopPcs == {"idle", "owns", "confirm", "confirmStarting", "mark", "reverify", "signal",
            "request", "claim", "settle", "remove", "rmHome", "clear"}
Anyone == CHOOSE c \in Sessions : TRUE
NoStop == [at |-> "idle", of |-> Anyone, seen |-> NoSession,
           force |-> FALSE, keepIntent |-> FALSE, sure |-> FALSE]
NoPrune == [at |-> "idle", of |-> Anyone, seen |-> NoSession]

Acting(c) == \E s \in Stoppers : stop[s].at # "idle" /\ stop[s].of = c

(***************************************************************************)
(* Health (health.ts): what a prune calls stale.  A record without tunnel  *)
(* pid stands or falls with its controller, or with the startup age; one   *)
(* with a tunnel pid is never stale while that process lives.              *)
(***************************************************************************)
Stale(c, r) ==
    /\ r.status # "none"
    /\ r.status = "ready" \/ c \in old \/ ~Running(c)
    /\ r.tunnelPid => TunnelGone(c)

\* Mutant: only a record that is already "stopping" blocks startup.
BlockedByStatus(c) == record[c].status \in {"none", "stopping"}

\* startupMutationBlocked, and a record that has disappeared: no startup step passes.
StartupBlocked(c) ==
    \/ ~Listed(c)
    \/ record[c].status = "stopping"
    \/ record[c].stopRequested

Init ==
    /\ pc = [c \in Sessions |-> "select"]
    /\ port = [c \in Sessions |-> NoPort]
    /\ excluded = [c \in Sessions |-> {}]
    /\ record = [c \in Sessions |-> NoSession]
    /\ intent = {} /\ home = {}
    /\ tunnel = [c \in Sessions |-> "none"]
    /\ close = [c \in Sessions |-> "open"]
    /\ old = {}
    /\ stop = [s \in Stoppers |-> NoStop]
    /\ prune = NoPrune
    /\ asked = {} /\ forced = {}

Goto(c, from, to) == pc[c] = from /\ pc' = [pc EXCEPT ![c] = to]

\* The process ends, its memory goes; its detached tunnel keeps the port it was given.
Ends(c, from, to) ==
    /\ Goto(c, from, to)
    /\ excluded' = [excluded EXCEPT ![c] = {}]
    /\ close' = [close EXCEPT ![c] = "open"]
    /\ asked' = asked \ {c}
    /\ forced' = forced \ {c}
    /\ port' = IF TunnelAlive(c) THEN port ELSE [port EXCEPT ![c] = NoPort]

\* removeSession, under the lock: no error if the record is gone already.
Unlist(c) ==
    /\ record' = [record EXCEPT ![c] = NoSession]
    /\ old' = old \ {c}

(***************************************************************************)
(* registerNewSession: choose a port under the lock, probe it outside, and *)
(* check everything again under the lock before the record is written.     *)
(***************************************************************************)
SameTargetListed(c) == \E d \in Sessions : Listed(d) /\ Target[d] = Target[c]
Reserved(p) == \E d \in Sessions : Listed(d) /\ record[d].port = p

SelectCandidate(c) ==
    /\ ~SameTargetListed(c)
    /\ \E p \in Ports \ excluded[c] :
         /\ ~Reserved(p)
         /\ port' = [port EXCEPT ![c] = p]
    /\ Goto(c, "select", "probe")
    /\ UNCHANGED <<excluded, fileVars, tunnel, close, old, stop, prune, historyVars>>

\* SESSION_ALREADY_RUNNING or PORT_UNAVAILABLE.
NoCandidate(c) ==
    /\ SameTargetListed(c) \/ \A p \in Ports : Reserved(p) \/ p \in excluded[c]
    /\ Ends(c, "select", "exited")
    /\ UNCHANGED <<fileVars, tunnel, old, stop, prune>>

Exclude(c) ==
    /\ excluded' = [excluded EXCEPT ![c] = @ \cup {port[c]}]
    /\ port' = [port EXCEPT ![c] = NoPort]

\* A process that is not a tunnel of ours may hold the port too.
ProbeBusy(c) ==
    /\ Goto(c, "probe", "select")
    /\ Exclude(c)
    /\ UNCHANGED <<fileVars, tunnel, close, old, stop, prune, historyVars>>

ProbeFree(c) ==
    /\ ~PortTaken(port[c])
    /\ Goto(c, "probe", "persist")
    /\ UNCHANGED <<port, excluded, fileVars, tunnel, close, old, stop, prune, historyVars>>

\* Mutant: what was checked when the candidate was chosen is not checked again.
PersistUnchecked(c) ==
    /\ Goto(c, "persist", "home")
    /\ record' = [record EXCEPT ![c] = [NoSession EXCEPT !.status = "starting", !.port = port[c]]]
    /\ UNCHANGED <<port, excluded, intent, home, tunnel, close, old, stop, prune, historyVars>>

PersistRegistration(c) ==
    /\ ~SameTargetListed(c)
    /\ ~Reserved(port[c])
    /\ ~PortTaken(port[c])
    /\ Goto(c, "persist", "home")
    /\ record' = [record EXCEPT ![c] = [NoSession EXCEPT !.status = "starting", !.port = port[c]]]
    /\ UNCHANGED <<port, excluded, intent, home, tunnel, close, old, stop, prune, historyVars>>

PersistRefused(c) ==
    /\ ~SameTargetListed(c)
    /\ Goto(c, "persist", "select")
    /\ Exclude(c)
    /\ UNCHANGED <<fileVars, tunnel, close, old, stop, prune, historyVars>>

\* Another session of the target was registered meanwhile; or, with no session to clean
\* up yet, the caller aborts or the startup deadline passes.
LosesTarget(c) ==
    /\ SameTargetListed(c)
    /\ Ends(c, "persist", "exited")
    /\ UNCHANGED <<fileVars, tunnel, old, stop, prune>>

AbortUnregistered(c) ==
    /\ \E from \in Unregistered : Ends(c, from, "exited")
    /\ UNCHANGED <<fileVars, tunnel, old, stop, prune>>

(***************************************************************************)
(* establishDebuggerSession.  Transition is updateSessionStatus followed   *)
(* by requireStartupState.                                                 *)
(***************************************************************************)
Transition(c, from, to, status) ==
    /\ IF StartupBlocked(c) \/ (status = "ready" /\ ~record[c].tunnelPid)
       THEN Goto(c, from, "kill") /\ UNCHANGED record
       ELSE Goto(c, from, to) /\ record' = [record EXCEPT ![c].status = status]
    /\ UNCHANGED <<port, excluded, intent, home, tunnel, close, old, stop, prune, historyVars>>

PrepareHome(c) ==
    /\ Goto(c, "home", "login")
    /\ home' = home \cup {c}
    /\ UNCHANGED <<port, excluded, record, intent, tunnel, close, old, stop, prune, historyVars>>

LogIn(c) == Transition(c, "login", "remote", "logging-in")
BeginTunnel(c) == Transition(c, "remote", "spawn", "tunneling")

SpawnTunnel(c) ==
    /\ ~PortTaken(port[c])
    /\ Goto(c, "spawn", "recordPid")
    /\ tunnel' = [tunnel EXCEPT ![c] = "up"]
    /\ UNCHANGED <<port, excluded, fileVars, close, old, stop, prune, historyVars>>

RecordTunnelPid(c) ==
    /\ IF StartupBlocked(c)
       THEN Goto(c, "recordPid", "kill") /\ UNCHANGED record
       ELSE /\ Goto(c, "recordPid", "verify")
            /\ record' = [record EXCEPT ![c].tunnelPid = TRUE]
    /\ UNCHANGED <<port, excluded, intent, home, tunnel, close, old, stop, prune, historyVars>>

\* The tunnel's port answers and belongs to the child, twice, around the inspector probe.
VerifyTunnel(c) ==
    /\ tunnel[c] = "bound"
    /\ Goto(c, "verify", "commit")
    /\ UNCHANGED <<port, excluded, fileVars, tunnel, close, old, stop, prune, historyVars>>

CommitReady(c) == Transition(c, "commit", "assert", "ready")

\* assertRunning: the exit of the child may not have been delivered yet.
AssertRunning(c) ==
    /\ \/ Goto(c, "assert", "ready")
       \/ Goto(c, "assert", "kill") /\ TunnelGone(c)
    /\ UNCHANGED <<port, excluded, fileVars, tunnel, close, old, stop, prune, historyVars>>

\* A CF command fails, the deadline or the caller aborts, or the cancellation poll fires.
StartupFails(c) ==
    /\ pc[c] \in Startup \ {"assert"}
    /\ pc' = [pc EXCEPT ![c] = "kill"]
    /\ UNCHANGED <<port, excluded, fileVars, tunnel, close, old, stop, prune, historyVars>>

(***************************************************************************)
(* The handle: dispose, and finalizeTunnelLifecycle, which a failed        *)
(* startup runs too.  A process that ends its dispose exits (cli.ts).      *)
(***************************************************************************)
BeginDispose(c) ==
    /\ Goto(c, "ready", IF close[c] = "failed" THEN "kill" ELSE "setStopping")
    /\ UNCHANGED <<port, excluded, fileVars, tunnel, close, old, stop, prune, historyVars>>

\* SIGINT or SIGTERM at any time; or waitForExit has returned.
Interrupt(c) == close[c] \notin {"expected", "failed"} /\ BeginDispose(c)
DisposeAfterExit(c) == close[c] \in {"expected", "failed"} /\ BeginDispose(c)

\* Mutant: the status is written even if the session was forgotten meanwhile.
SetStoppingUnchecked(c) ==
    /\ Goto(c, "setStopping", "kill")
    /\ record' = [record EXCEPT ![c].status = "stopping"]
    /\ UNCHANGED <<port, excluded, intent, home, tunnel, close, old, stop, prune, historyVars>>

SetStopping(c) ==
    /\ Goto(c, "setStopping", "kill")
    /\ record' = IF Listed(c) THEN [record EXCEPT ![c].status = "stopping"] ELSE record
    /\ UNCHANGED <<port, excluded, intent, home, tunnel, close, old, stop, prune, historyVars>>

\* Mutant: only a tunnel that the state file names is killed.
KillRecordedTunnel(c) ==
    /\ Goto(c, "kill", "forget")
    /\ tunnel' = IF TunnelAlive(c) /\ record[c].tunnelPid
                  THEN [tunnel EXCEPT ![c] = "dead"] ELSE tunnel
    /\ UNCHANGED <<port, excluded, fileVars, close, old, stop, prune, historyVars>>

KillTunnel(c) ==
    /\ Goto(c, "kill", "forget")
    /\ tunnel' = IF TunnelAlive(c) THEN [tunnel EXCEPT ![c] = "dead"] ELSE tunnel
    /\ UNCHANGED <<port, excluded, fileVars, close, old, stop, prune, historyVars>>

\* TUNNEL_TERMINATION_FAILED: state and home are retained, the command exits 70.
TunnelOutlives(c) ==
    /\ MayOutlive
    /\ TunnelAlive(c)
    /\ Ends(c, "kill", "retained")
    /\ UNCHANGED <<fileVars, tunnel, old, stop, prune>>

ForgetSession(c) ==
    /\ Goto(c, "forget", "rmHome")
    /\ Unlist(c)
    /\ UNCHANGED <<port, excluded, intent, home, tunnel, close, stop, prune, historyVars>>

RemoveHome(c) ==
    /\ Goto(c, "rmHome", "clear")
    /\ home' = home \ {c}
    /\ UNCHANGED <<port, excluded, record, intent, tunnel, close, old, stop, prune, historyVars>>

ClearIntent(c) ==
    /\ Ends(c, "clear", "exited")
    /\ intent' = intent \ {c}
    /\ UNCHANGED <<record, home, tunnel, old, stop, prune>>

(***************************************************************************)
(* handleTunnelClose: the stop-intent file is read first, then the state   *)
(* file without the lock; the file is cleared when the exit was asked for. *)
(* Before "ready" a tunnel that ended fails the startup in any case, and   *)
(* once dispose is finalizing its end is expected, so only the handlers    *)
(* that start in between are followed.                                     *)
(***************************************************************************)
CloseTunnel(c) ==
    /\ pc[c] \in {"ready", "setStopping"} /\ TunnelGone(c) /\ close[c] = "open"
    /\ close' = [close EXCEPT ![c] = IF c \in intent THEN "sidecar" ELSE "noSidecar"]
    /\ UNCHANGED <<controllerVars, fileVars, tunnel, old, stop, prune, historyVars>>

\* Mutant: a record that is gone is taken for a stop, whether or not anyone asked.
ExpectedIfMissing(c) ==
    record[c].stopRequested \/ record[c].status = "stopping" \/ ~Listed(c)

\* hasExpectedStopSignal
ExpectedStop(c) ==
    \/ record[c].stopRequested
    \/ record[c].status = "stopping"
    \/ ~Listed(c) /\ close[c] = "sidecar"

JudgeClose(c) ==
    /\ Running(c) /\ close[c] \in {"sidecar", "noSidecar"}
    /\ close' = [close EXCEPT ![c] = CASE ExpectedStop(c) -> "clear"
                                       [] ~ExpectedStop(c) /\ Finalizing(c) -> "expected"
                                       [] OTHER -> "failed"]
    /\ UNCHANGED <<controllerVars, fileVars, tunnel, old, stop, prune, historyVars>>

ClearAfterClose(c) ==
    /\ Running(c) /\ close[c] = "clear"
    /\ close' = [close EXCEPT ![c] = "expected"]
    /\ intent' = intent \ {c}
    /\ UNCHANGED <<controllerVars, record, home, tunnel, old, stop, prune, historyVars>>

(***************************************************************************)
(* The environment: the ssh process, time, and the death of a controller,  *)
(* which its detached tunnel survives.                                     *)
(***************************************************************************)
TunnelBinds(c) ==
    /\ tunnel[c] = "up" /\ ~PortTaken(port[c])
    /\ tunnel' = [tunnel EXCEPT ![c] = "bound"]
    /\ UNCHANGED <<controllerVars, fileVars, close, old, stop, prune, historyVars>>

TunnelDies(c) ==
    /\ TunnelAlive(c)
    /\ tunnel' = [tunnel EXCEPT ![c] =
                    IF pc[c] = "ready" /\ ~Acting(c) THEN "crashed" ELSE "dead"]
    /\ UNCHANGED <<controllerVars, fileVars, close, old, stop, prune, historyVars>>

\* The age limit is the startup deadline plus a slack: a controller that is still
\* starting has hit its deadline before, unless it was suspended.
Expire(c) ==
    /\ Listed(c) /\ c \notin old /\ record[c].status # "ready"
    /\ pc[c] \notin Startup \/ c \in MayStall
    /\ old' = old \cup {c}
    /\ UNCHANGED <<controllerVars, fileVars, tunnel, close, stop, prune, historyVars>>

Crash(c) ==
    /\ \E from \in CrashAt : Ends(c, from, "dead")
    /\ UNCHANGED <<fileVars, tunnel, old, stop, prune>>

(***************************************************************************)
(* stopDebugger.  stop[s].seen is the record the command goes by, which it *)
(* never reads again.                                                      *)
(***************************************************************************)
StopAt(s, from, to) == stop[s].at = from /\ stop' = [stop EXCEPT ![s].at = to]
StopEnds(s, from) == stop[s].at = from /\ stop' = [stop EXCEPT ![s] = NoStop]

\* removeOwnedSession follows, with or without its clearing of the intent file.
StopRemoves(s, from, keep) ==
    /\ stop[s].at = from
    /\ stop' = [stop EXCEPT ![s].at = "remove", ![s].keepIntent = keep]

SeesOwned(s) == stop[s].seen.tunnelPid /\ tunnel[stop[s].of] = "bound"
DoubtsOwned(s) == ~SeesOwned(s) \/ Uninspectable
SeesGone(s) ==
    /\ stop[s].seen.tunnelPid => TunnelGone(stop[s].of)
    /\ ~PortTaken(stop[s].seen.port)

\* requestSessionStop: the intent file and the record, under the lock.
RequestStop(c) ==
    /\ intent' = intent \cup {c}
    /\ record' = [record EXCEPT ![c].stopRequested = TRUE]
    /\ asked' = asked \cup {c}

StopBegins(s, c, force) ==
    /\ stop[s].at = "idle" /\ Listed(c)
    /\ force => MayForce
    /\ stop' = [stop EXCEPT ![s] = [NoStop EXCEPT
                  !.at = IF record[c].status = "ready" THEN "owns" ELSE "request",
                  !.of = c, !.seen = record[c], !.force = force]]
    /\ UNCHANGED <<controllerVars, fileVars, tunnel, close, old, prune, historyVars>>

\* stopReadySession, and from "settle" the end of stopStartingSession.
FindsOwned(s) ==
    /\ SeesOwned(s)
    /\ StopAt(s, "owns", "confirm") \/ StopAt(s, "settle", "confirmStarting")
    /\ UNCHANGED <<controllerVars, fileVars, tunnel, close, old, prune, historyVars>>

\* A starting session is forgotten as stale only if its controller's state is known.
FindsGone(s) ==
    /\ SeesGone(s)
    /\ \/ StopRemoves(s, "owns", FALSE)
       \/ stop[s].sure /\ ~stop[s].force /\ StopRemoves(s, "settle", FALSE)
    /\ UNCHANGED <<controllerVars, fileVars, tunnel, close, old, prune, historyVars>>

FindsUnproven(s) ==
    /\ DoubtsOwned(s)
    /\ \/ ~stop[s].force /\ (StopEnds(s, "owns") \/ StopEnds(s, "settle")) /\ UNCHANGED forced
       \/ /\ stop[s].force
          /\ StopRemoves(s, "owns", FALSE) \/ StopRemoves(s, "settle", stop[s].keepIntent)
          /\ forced' = forced \cup {stop[s].of}
    /\ UNCHANGED <<controllerVars, fileVars, tunnel, close, old, prune, asked>>

\* terminateVerifiedTunnelAndConfirm: ownership is proved again before each signal, and
\* for a ready session the stop is recorded between two such proofs.
ConfirmsOwned(s) ==
    /\ SeesOwned(s)
    /\ \/ StopAt(s, "confirm", "mark")
       \/ StopAt(s, "confirmStarting", "signal")
       \/ StopAt(s, "reverify", "signal")
    /\ UNCHANGED <<controllerVars, fileVars, tunnel, close, old, prune, historyVars>>

MarksStop(s) ==
    /\ IF Listed(stop[s].of)
       THEN StopAt(s, "mark", "reverify") /\ RequestStop(stop[s].of)
       ELSE StopEnds(s, "mark") /\ UNCHANGED <<record, intent, asked>>
    /\ UNCHANGED <<controllerVars, home, tunnel, close, old, prune, forced>>

\* Nothing to signal any more: terminatePidOrGroup answers "terminated".
FindsEnded(s) ==
    /\ TunnelGone(stop[s].of)
    /\ \E from \in {"confirm", "confirmStarting", "signal"} : StopRemoves(s, from, TRUE)
    /\ UNCHANGED <<controllerVars, fileVars, tunnel, close, old, prune, historyVars>>

\* An error to the user.  What "mark" wrote stays in the state file and the directory.
LosesOwnership(s) ==
    /\ DoubtsOwned(s)
    /\ \E from \in {"confirm", "confirmStarting", "reverify"} : StopEnds(s, from)
    /\ UNCHANGED <<controllerVars, fileVars, tunnel, close, old, prune, historyVars>>

SignalsTunnel(s) ==
    /\ TunnelAlive(stop[s].of)
    /\ \/ /\ StopRemoves(s, "signal", TRUE)
          /\ tunnel' = [tunnel EXCEPT ![stop[s].of] = "dead"]
       \/ MayOutlive /\ StopEnds(s, "signal") /\ UNCHANGED tunnel
    /\ UNCHANGED <<controllerVars, fileVars, close, old, prune, historyVars>>

\* A session that is not ready is asked to stop before anything else is looked at.
ClaimsStop(s) ==
    /\ IF Listed(stop[s].of)
       THEN /\ stop[s].at = "request"
            /\ RequestStop(stop[s].of)
            /\ stop' = [stop EXCEPT ![s].at = "claim",
                          ![s].seen = [record[stop[s].of] EXCEPT !.stopRequested = TRUE]]
       ELSE StopEnds(s, "request") /\ UNCHANGED <<record, intent, asked>>
    /\ UNCHANGED <<controllerVars, home, tunnel, close, old, prune, forced>>

\* The answer "pending": the controller will see the request and clean up itself.
LeavesToController(s) ==
    /\ ~stop[s].force /\ stop[s].of \notin old /\ Running(stop[s].of)
    /\ StopEnds(s, "claim")
    /\ UNCHANGED <<controllerVars, fileVars, tunnel, close, old, prune, historyVars>>

TakesOver(s) ==
    /\ stop[s].at = "claim"
    /\ \E verdict \in {IF Running(stop[s].of) THEN "match" ELSE "gone"}
                        \cup IF Uninspectable THEN {"unavailable"} ELSE {} :
         /\ stop[s].force \/ stop[s].of \in old \/ verdict # "match"
         /\ stop' = [stop EXCEPT ![s] = [@ EXCEPT
                       !.at = "settle", !.keepIntent = verdict = "match",
                       !.sure = stop[s].of \in old \/ verdict # "unavailable"]]
    /\ UNCHANGED <<controllerVars, fileVars, tunnel, close, old, prune, historyVars>>

\* forgetSessionThenCleanupHome.
StopForgets(s) ==
    /\ StopAt(s, "remove", "rmHome")
    /\ Unlist(stop[s].of)
    /\ UNCHANGED <<controllerVars, intent, home, tunnel, close, prune, historyVars>>

StopRemovesHome(s) ==
    /\ IF stop[s].keepIntent THEN StopEnds(s, "rmHome") ELSE StopAt(s, "rmHome", "clear")
    /\ home' = home \ {stop[s].of}
    /\ UNCHANGED <<controllerVars, record, intent, tunnel, close, old, prune, historyVars>>

StopClearsIntent(s) ==
    /\ StopEnds(s, "clear")
    /\ intent' = intent \ {stop[s].of}
    /\ UNCHANGED <<controllerVars, record, home, tunnel, close, old, prune, historyVars>>

(***************************************************************************)
(* inspectAndPrune: a copy of the state, an inspection outside the lock,   *)
(* and a removal under it of the records that have not changed and are     *)
(* still stale.  Each record is judged on its own, so a prune is modelled  *)
(* one record at a time.  "start" also removes the homes of what it        *)
(* pruned; "list", "status" and registration do not.                       *)
(***************************************************************************)
PruneInspects(c) ==
    /\ prune.at = "idle"
    /\ Stale(c, record[c])
    /\ prune' = [at |-> "persist", of |-> c, seen |-> record[c]]
    /\ UNCHANGED <<controllerVars, fileVars, tunnel, close, old, stop, historyVars>>

\* Mutant: what the inspection found is removed without a second look.
PrunableUnchecked(c) == Listed(c)

Prunable(c) == record[c] = prune.seen /\ Stale(c, record[c])

PruneRemoves ==
    /\ prune.at = "persist"
    /\ Prunable(prune.of)
    /\ Unlist(prune.of)
    /\ \/ prune' = [prune EXCEPT !.at = "homes", !.seen = NoSession]
       \/ prune' = NoPrune
    /\ UNCHANGED <<controllerVars, intent, home, tunnel, close, stop, historyVars>>

\* The second inspection may also fail to answer.
PruneKeeps ==
    /\ prune.at = "persist"
    /\ ~Prunable(prune.of) \/ Uninspectable
    /\ prune' = NoPrune
    /\ UNCHANGED <<controllerVars, fileVars, tunnel, close, old, stop, historyVars>>

PruneRemovesHome ==
    /\ prune.at = "homes"
    /\ prune' = NoPrune
    /\ home' = home \ {prune.of}
    /\ UNCHANGED <<controllerVars, record, intent, tunnel, close, old, stop, historyVars>>

\* Mutant: the state that was read when the homes were listed is trusted.
DoctorTrustsListing(c) ==
    /\ c \in home /\ pc[c] \in Startup \cup {"exited", "retained", "dead"}
    /\ home' = home \ {c}
    /\ UNCHANGED <<controllerVars, record, intent, tunnel, close, old, stop, prune, historyVars>>

\* doctor --cleanup: under the lock, the home of a session that is not listed.
DoctorRemovesHome(c) ==
    /\ c \in home /\ ~Listed(c)
    /\ home' = home \ {c}
    /\ UNCHANGED <<controllerVars, record, intent, tunnel, close, old, stop, prune, historyVars>>

(***************************************************************************)
ControllerStep(c) ==
    \/ SelectCandidate(c) \/ NoCandidate(c) \/ ProbeBusy(c) \/ ProbeFree(c)
    \/ PersistRegistration(c) \/ PersistRefused(c) \/ LosesTarget(c) \/ AbortUnregistered(c)
    \/ PrepareHome(c) \/ LogIn(c) \/ BeginTunnel(c) \/ SpawnTunnel(c)
    \/ RecordTunnelPid(c) \/ VerifyTunnel(c) \/ CommitReady(c) \/ AssertRunning(c)
    \/ StartupFails(c) \/ DisposeAfterExit(c) \/ SetStopping(c)
    \/ KillTunnel(c) \/ TunnelOutlives(c) \/ ForgetSession(c) \/ RemoveHome(c)
    \/ ClearIntent(c) \/ CloseTunnel(c) \/ JudgeClose(c) \/ ClearAfterClose(c)

EnvironmentStep(c) ==
    \/ Interrupt(c) \/ TunnelBinds(c) \/ TunnelDies(c) \/ Expire(c) \/ Crash(c)
    \/ DoctorRemovesHome(c)

StopStep(s) ==
    \/ \E c \in Sessions, force \in BOOLEAN : StopBegins(s, c, force)
    \/ FindsOwned(s) \/ FindsGone(s) \/ FindsUnproven(s) \/ ConfirmsOwned(s)
    \/ MarksStop(s) \/ FindsEnded(s) \/ LosesOwnership(s) \/ SignalsTunnel(s)
    \/ ClaimsStop(s) \/ LeavesToController(s) \/ TakesOver(s)
    \/ StopForgets(s) \/ StopRemovesHome(s) \/ StopClearsIntent(s)

PruneStep ==
    \/ \E c \in Sessions : PruneInspects(c)
    \/ PruneRemoves \/ PruneKeeps \/ PruneRemovesHome

Next ==
    \/ \E c \in Sessions : ControllerStep(c) \/ EnvironmentStep(c)
    \/ \E s \in Stoppers : StopStep(s)
    \/ PruneStep

Spec == Init /\ [][Next]_vars

\* The controller is an ordinary process: it is scheduled until it ends.
FairSpec == Spec /\ \A c \in Sessions : WF_vars(ControllerStep(c))

----------------------------------------------------------------------------
\* Every variable keeps its type: no step revives the record of a forgotten session.
TypeOK ==
    /\ pc \in [Sessions -> Pcs]
    /\ port \in [Sessions -> Ports \cup {NoPort}]
    /\ excluded \in [Sessions -> SUBSET Ports]
    /\ record \in [Sessions -> Session \cup {NoSession}]
    /\ intent \in SUBSET Sessions /\ home \in SUBSET Sessions
    /\ tunnel \in [Sessions -> TunnelStates]
    /\ close \in [Sessions -> CloseStates]
    /\ old \in SUBSET Sessions
    /\ stop \in [Stoppers -> [at : StopPcs, of : Sessions, seen : Session \cup {NoSession},
                              force : BOOLEAN, keepIntent : BOOLEAN, sure : BOOLEAN]]
    /\ prune \in [at : {"idle", "persist", "homes"}, of : Sessions,
                  seen : Session \cup {NoSession}]
    /\ asked \in SUBSET Sessions /\ forced \in SUBSET Sessions

\* Whatever starts, stops, prunes and expiries do at the same time, the tunnel of a
\* ready session stays in the state file for as long as it lives: "list" shows it,
\* "stop" finds it, and no second session is given its target.  Only a forced stop
\* may forget it.
ReadyTunnelListed ==
    \A c \in Sessions :
        pc[c] = "ready" /\ TunnelAlive(c) /\ c \notin forced => record[c].tunnelPid

\* No cleanup removes the CF home of a session that is listed and still working: the
\* record always goes first, so that the CF commands of a live session keep their login.
LiveSessionKeepsHome ==
    \A c \in Sessions :
        pc[c] \in (Startup \ {"home"}) \cup {"ready"} /\ Listed(c) => c \in home

\* A start command that ends without reporting a cleanup failure leaves nothing behind,
\* however it ended and whoever helped: no record, no home with its refresh token, no
\* stop-intent file, no running tunnel.
CleanEnd ==
    \A c \in Sessions :
        pc[c] = "exited" =>
            ~Listed(c) /\ c \notin home /\ c \notin intent /\ ~TunnelAlive(c)

\* A tunnel that ends without anyone having asked for it is never reported as a clean
\* exit, even when a prune has removed its record before the controller looks.
UnaskedEndReported ==
    \A c \in Sessions : pc[c] = "ready" /\ close[c] = "expected" => c \in asked

\* A stop that was recorded must not turn a LATER crash of the tunnel into exit 0, once
\* the command that asked for it has given up (CHANGELOG, P2-6).
OldStopDoesNotMaskCrash ==
    \A c \in Sessions : pc[c] = "ready" /\ close[c] = "expected" => tunnel[c] # "crashed"

\* A stop that is recorded before a session is ready takes effect: the session leaves the
\* state file, unless its controller dies or reports that it could not clean up.
StartupStopHonoured ==
    \A c \in Sessions :
        (record[c].stopRequested /\ record[c].status # "ready")
            ~> (~Listed(c) \/ pc[c] \in {"dead", "retained"})

\* The state file as everyone reads it.
Phase == [c \in Sessions |-> IF ~Listed(c) THEN "none"
                             ELSE IF record[c].status \in {"ready", "stopping"}
                             THEN "ready" ELSE "starting"]
LocalPort == [c \in Sessions |-> record[c].port]
Stopping == {c \in Sessions : record[c].stopRequested \/ record[c].status = "stopping"}

Over == {c \in Sessions : ~Listed(c) /\ pc[c] \notin Unregistered}

Registry == INSTANCE SessionRegistry WITH phase <- Phase, localPort <- LocalPort,
                                          stopping <- Stopping, over <- Over

\* Two sessions never share a target or a port, a session that was asked to stop before it
\* was ready never becomes ready, and no late update brings back a session that a stop, a
\* prune or its own cleanup has forgotten: DebuggerSession implements SessionRegistry.
ImplementsRegistry == Registry!Spec
============================================================================
