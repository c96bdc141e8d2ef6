----------------------------- MODULE SelfUpdate -----------------------------
(***************************************************************************)
(* The self-update every CLI runs before its command (core, run.ts and     *)
(* state.ts): several commands of one tool started about the same time     *)
(* share a state file, which each reads once and then writes whole, and    *)
(* the update lock.  A command that finds a newer release takes the lock,  *)
(* installs, verifies, records and releases.  Nothing is read again once   *)
(* the lock is held.                                                       *)
(*                                                                         *)
(* The clock is abstract.  The check interval and the backoffs expire at   *)
(* any time; a lock grows old only when its owner was killed, since an     *)
(* install is cut off after 3 minutes and a lock is old after 10; the      *)
(* package manager a killed command leaves behind ends before that.        *)
(***************************************************************************)
EXTENDS Naturals, FiniteSets

CONSTANTS
    Commands,        \* the commands of one tool; each runs once
    Explicit,        \* those that are "self-update" itself (manual)
    Announcers,      \* those whose policy is "notify"
    MaxRelease       \* the newest release the registry may come to have

NoOwner == "nobody"

ASSUME CommandAssumption ==
    /\ NoOwner \notin Commands
    /\ Explicit \subseteq Commands /\ Announcers \subseteq Commands
ASSUME ReleaseAssumption == MaxRelease \in Nat \ {0}

VARIABLES
    installed,       \* the release in the package directory
    published,       \* the newest release of the registry
    shared,          \* the state file
    ulock,           \* the update lock file
    cmd,             \* each command: where it is, what it runs, what it has read
    robbed           \* history: a lock that was not old has been removed by another command

updatevars == <<installed, published, shared, ulock, cmd, robbed>>

Releases == 1..MaxRelease
Unknown == 0

\* What the state file says, the times being recent or not.  failed: the release whose
\* install failed within the last day; announced: the one announced within the last day.
UpdateState == [latest : {Unknown} \cup Releases, fresh : BOOLEAN, failing : BOOLEAN,
                failed : {Unknown} \cup Releases, announced : {Unknown} \cup Releases]
EmptyUpdateState == [latest |-> Unknown, fresh |-> FALSE, failing |-> FALSE,
                     failed |-> Unknown, announced |-> Unknown]

FreeLock == [owner |-> NoOwner, aged |-> FALSE]

Installing == {"installing", "verifying", "recording", "releasing"}
CommandPcs == {"new", "started", "fetching", "saving", "announcing", "locking", "judging",
               "removing", "creating", "orphaned", "ended", "killed"} \cup Installing
NewCommand == [at |-> "new", runs |-> 1, latest |-> Unknown, ok |-> FALSE,
               state |-> EmptyUpdateState]

UpdateInit ==
    /\ installed = 1 /\ published \in Releases
    /\ shared = EmptyUpdateState
    /\ ulock = FreeLock
    /\ cmd = [p \in Commands |-> NewCommand]
    /\ robbed = FALSE

InCommand(p, at) == cmd[p].at = at
Becomes(p, c) == cmd' = [cmd EXCEPT ![p] = c]
Moves(p, to) == cmd' = [cmd EXCEPT ![p].at = to]

\* saveState: the whole file is replaced by what this command knows.
Saves(s) == shared' = s

\* runSelfUpdateUnsafe, once the newest release is known.
Decided(p, c) ==
    [c EXCEPT !.at =
        IF c.latest <= c.runs THEN "ended"
        ELSE IF p \in Announcers \/ (p \notin Explicit /\ c.state.failed = c.latest)
             THEN "announcing"
             ELSE "locking"]

\* The process starts and reads its own version.
CommandStarts(p) ==
    /\ InCommand(p, "new")
    /\ Becomes(p, [cmd[p] EXCEPT !.at = "started", !.runs = installed])
    /\ UNCHANGED <<installed, published, shared, ulock, robbed>>

\* resolveLatest: the state file decides whether the registry is asked.
ReadsState(p) ==
    LET known == [cmd[p] EXCEPT !.state = shared, !.latest = shared.latest]
        enough == shared.failing \/ (shared.fresh /\ shared.latest # Unknown)
    IN  /\ InCommand(p, "started")
        /\ Becomes(p, IF enough /\ p \notin Explicit THEN Decided(p, known)
                      ELSE [known EXCEPT !.at = "fetching"])
        /\ UNCHANGED <<installed, published, shared, ulock, robbed>>

RegistryAnswers(p) ==
    /\ InCommand(p, "fetching")
    /\ Becomes(p, [cmd[p] EXCEPT !.at = "saving", !.latest = published,
                     !.state = [@ EXCEPT !.latest = published, !.fresh = TRUE, !.failing = FALSE]])
    /\ UNCHANGED <<installed, published, shared, ulock, robbed>>

RegistryFails(p) ==
    /\ InCommand(p, "fetching")
    /\ Becomes(p, [cmd[p] EXCEPT !.at = "saving", !.state = [@ EXCEPT !.failing = TRUE]])
    /\ UNCHANGED <<installed, published, shared, ulock, robbed>>

SavesCheck(p) ==
    /\ InCommand(p, "saving")
    /\ Saves(cmd[p].state)
    /\ Becomes(p, Decided(p, cmd[p]))
    /\ UNCHANGED <<installed, published, ulock, robbed>>

\* notify: a release is announced once a day.
Announces(p) ==
    LET said == [cmd[p].state EXCEPT !.announced = cmd[p].latest]
    IN  /\ InCommand(p, "announcing")
        /\ IF cmd[p].state.announced # cmd[p].latest \/ p \in Explicit
             THEN Saves(said) /\ Becomes(p, [cmd[p] EXCEPT !.at = "ended", !.state = said])
             ELSE Moves(p, "ended") /\ UNCHANGED shared
        /\ UNCHANGED <<installed, published, ulock, robbed>>

(***************************************************************************)
(* acquireUpdateLock.                                                      *)
(***************************************************************************)

\* Mutant: the file is opened without the exclusive flag.
CreatesAnyway(p, from, otherwise) ==
    /\ InCommand(p, from)
    /\ ulock' = [owner |-> p, aged |-> FALSE] /\ Moves(p, "installing")
    /\ UNCHANGED <<installed, published, shared, robbed>>

\* tryCreateLock.
TriesCreate(p, from, otherwise) ==
    /\ InCommand(p, from)
    /\ IF ulock = FreeLock
         THEN ulock' = [owner |-> p, aged |-> FALSE] /\ Moves(p, "installing")
         ELSE Moves(p, otherwise) /\ UNCHANGED ulock
    /\ UNCHANGED <<installed, published, shared, robbed>>

\* isStaleLock: a lock that is young, or gone by now, ends the update.
JudgesLock(p) ==
    /\ InCommand(p, "judging")
    /\ Moves(p, IF ulock.aged THEN "removing" ELSE "ended")
    /\ UNCHANGED <<installed, published, shared, ulock, robbed>>

\* rmSync removes whatever lock is there by now.
RemovesOldLock(p) ==
    /\ InCommand(p, "removing")
    /\ robbed' = (robbed \/ (ulock # FreeLock /\ ~ulock.aged))
    /\ ulock' = FreeLock
    /\ Moves(p, "creating")
    /\ UNCHANGED <<installed, published, shared>>

(***************************************************************************)
(* installLatest with the lock held.                                       *)
(***************************************************************************)

\* runInstall: the package manager succeeds, or fails or is cut off, early or late.
InstallSucceeds(p) ==
    /\ InCommand(p, "installing")
    /\ installed' = cmd[p].latest
    /\ Becomes(p, [cmd[p] EXCEPT !.at = "verifying", !.ok = TRUE])
    /\ UNCHANGED <<published, shared, ulock, robbed>>

InstallFails(p) ==
    /\ InCommand(p, "installing")
    /\ installed' \in {installed, cmd[p].latest}
    /\ Moves(p, "verifying")
    /\ UNCHANGED <<published, shared, ulock, robbed>>

\* The installed package.json is read back.
Verifies(p) ==
    /\ InCommand(p, "verifying")
    /\ Becomes(p, [cmd[p] EXCEPT !.at = "recording",
                                 !.ok = cmd[p].ok /\ installed = cmd[p].latest])
    /\ UNCHANGED <<installed, published, shared, ulock, robbed>>

\* recordInstall.
RecordsInstall(p) ==
    /\ InCommand(p, "recording")
    /\ Saves([cmd[p].state EXCEPT !.failed = IF cmd[p].ok THEN Unknown ELSE cmd[p].latest])
    /\ Moves(p, "releasing")
    /\ UNCHANGED <<installed, published, ulock, robbed>>

\* lock.release() removes the file, whoever created it; then the command runs, on the new
\* release if there is one (the re-run never updates).
ReleasesLock(p) ==
    /\ InCommand(p, "releasing")
    /\ robbed' = (robbed \/ ulock.owner \notin {p, NoOwner})
    /\ ulock' = FreeLock
    /\ Moves(p, "ended")
    /\ UNCHANGED <<installed, published, shared>>

(***************************************************************************)
(* A command is killed; what it was installing goes on without it.         *)
(***************************************************************************)
Killed(p) ==
    /\ cmd[p].at \notin {"new", "ended", "killed", "orphaned"}
    /\ Moves(p, IF InCommand(p, "installing") THEN "orphaned" ELSE "killed")
    /\ UNCHANGED <<installed, published, shared, ulock, robbed>>

OrphanEnds(p) ==
    /\ InCommand(p, "orphaned")
    /\ installed' \in {installed, cmd[p].latest}
    /\ Moves(p, "killed")
    /\ UNCHANGED <<published, shared, ulock, robbed>>

LockAges ==
    /\ ulock # FreeLock /\ ~ulock.aged /\ InCommand(ulock.owner, "killed")
    /\ ulock' = [ulock EXCEPT !.aged = TRUE]
    /\ UNCHANGED <<installed, published, shared, cmd, robbed>>

Publishes ==
    /\ published < MaxRelease
    /\ published' = published + 1
    /\ UNCHANGED <<installed, shared, ulock, cmd, robbed>>

\* The check interval, the backoff of a failed check, or a day, has passed.
TimePasses ==
    /\ shared' \in {[shared EXCEPT !.fresh = FALSE], [shared EXCEPT !.failing = FALSE],
                    [shared EXCEPT !.failed = Unknown, !.announced = Unknown]}
    /\ shared' # shared
    /\ UNCHANGED <<installed, published, ulock, cmd, robbed>>

CommandStep(p) ==
    \/ CommandStarts(p) \/ ReadsState(p) \/ RegistryAnswers(p) \/ RegistryFails(p)
    \/ SavesCheck(p) \/ Announces(p)
    \/ TriesCreate(p, "locking", "judging") \/ JudgesLock(p) \/ RemovesOldLock(p)
    \/ TriesCreate(p, "creating", "ended")
    \/ InstallSucceeds(p) \/ InstallFails(p) \/ Verifies(p) \/ RecordsInstall(p)
    \/ ReleasesLock(p)
    \/ Killed(p) \/ OrphanEnds(p)

UpdateNext == (\E p \in Commands : CommandStep(p)) \/ LockAges \/ Publishes \/ TimePasses

UpdateSpec == UpdateInit /\ [][UpdateNext]_updatevars

-----------------------------------------------------------------------------
UpdateTypeOK ==
    /\ installed \in Releases /\ published \in Releases
    /\ shared \in UpdateState
    /\ ulock \in [owner : Commands \cup {NoOwner}, aged : BOOLEAN]
    /\ cmd \in [Commands -> [at : CommandPcs, runs : Releases, latest : {Unknown} \cup Releases,
                             ok : BOOLEAN, state : UpdateState]]
    /\ robbed \in BOOLEAN

\* Two commands started at once do not install at the same time (state.ts:127), as long as
\* no command has removed a lock that was not old.  What one of them verified is then
\* still in place when it records it and releases.
InstallsAlone ==
    ~robbed =>
        \A p \in Commands : cmd[p].at \in Installing =>
            /\ ulock.owner = p
            /\ cmd[p].at \in {"recording", "releasing"} /\ cmd[p].ok => installed = cmd[p].latest

\* A lock is never left behind by a command that went its own way to the end: its owner is
\* installing or was killed, so the next command is not kept from the update for ten
\* minutes by anything but a crash.
LockHasInstaller ==
    ulock # FreeLock => cmd[ulock.owner].at \in Installing \cup {"orphaned", "killed"}
=============================================================================
