----------------------------- MODULE FileLock ------------------------------
(***************************************************************************)
(* The token-owned lock file of cf-debugger (lock.ts): withFileLock,       *)
(* exclusive creation, release by owner token, and the recovery of a lock  *)
(* whose owner died, which runs under a second lock file of the same kind. *)
(*                                                                         *)
(* Every file-system call is a step of its own, because the processes      *)
(* share nothing but the directory: between the read that authorises a     *)
(* deletion and the deletion itself, any other process may move.           *)
(*                                                                         *)
(* A member of Procs is one process INCARNATION: it never comes back after *)
(* it dies.  Where its record carries an identity, "no process has its     *)
(* pid" and "another process has it" (the verdict "mismatch") are the same *)
(* fact, the incarnation is dead; without one only a free pid tells.       *)
(***************************************************************************)
EXTENDS FiniteSets, Naturals

CONSTANTS
    Procs,        \* process incarnations that use the lock
    Host,         \* the host each of them runs on
    Identified,   \* those whose owner record carries a process identity
    PidReused,    \* those whose pid goes to another process once they are dead
    SlowOwners,   \* those that may be suspended longer than a lock's age limit
    CrashAt,      \* the control points at which a process may be killed
    MayTimeout,   \* whether a waiting caller may reach its acquisition deadline
    Tokens,       \* randomUUID() values
    NoToken       \* an absent file, an unreadable owner

ASSUME TokenAssumption == NoToken \notin Tokens \cup Procs
ASSUME KindAssumption == /\ Identified \subseteq Procs
                         /\ PidReused \subseteq Procs
                         /\ SlowOwners \subseteq Procs
                         /\ MayTimeout \in BOOLEAN

Paths == {"main", "recovery"}

VARIABLES
    pc,        \* where each process is in withFileLock
    file,      \* the two lock files of the directory
    mine,      \* the token of the lock file a process created
    seen,      \* what a process last read of a lock file it did not create
    removed    \* reclaimStaleLock's result, kept while the recovery lock is released

vars == <<pc, file, mine, seen, removed>>

(***************************************************************************)
(* The control points.  Critical is where the caller's work runs.          *)
(***************************************************************************)
MainPcs == {"idle", "open", "write", "work", "releaseRead", "releaseUnlink", "wait"}
RecoveryPcs == {"recOpen", "recWrite", "inspectRead", "inspectStat", "removeRead",
                "removeUnlink", "recReleaseRead", "recReleaseUnlink"}
AbandonedPcs == {"abandonedRead", "abandonedStat", "abandonedCheck", "abandonedUnlink"}
Pcs == MainPcs \cup RecoveryPcs \cup AbandonedPcs \cup {"dead"}

\* Where a process owns the recovery file, or is in the middle of creating it.
RecoveryHeldPcs == RecoveryPcs \ {"recOpen"}

ASSUME CrashAssumption == CrashAt \subseteq Pcs \ {"dead"}

Alive(p) == pc[p] # "dead"

(***************************************************************************)
(* A lock file: its identity (one value for the token written into it and  *)
(* for its inode), the process that created it, whether the owner record   *)
(* has been written yet, and whether it is older than the limit that       *)
(* applies to it (60s unwritten, 10min foreign host, 24h legacy pid).      *)
(***************************************************************************)
NoFile == [id |-> NoToken]
File == [id : Tokens, owner : Procs, written : BOOLEAN, aged : BOOLEAN]
Absent(path) == file[path].id = NoToken

Fresh(p, t) == [id |-> t, owner |-> p, written |-> FALSE, aged |-> FALSE]

\* What a process remembers of a lock file it inspected: the owner record it could
\* read (if any) and the fingerprint from stat, which changes when the owner writes.
NothingSeen == [token |-> NoToken, owner |-> NoToken, inode |-> NoToken, written |-> FALSE]
Observation == [token : Tokens \cup {NoToken}, owner : Procs \cup {NoToken},
                inode : Tokens \cup {NoToken}, written : BOOLEAN]

InUse == {file[path].id : path \in Paths} \cup {mine[p] : p \in Procs}
           \cup {seen[p].token : p \in Procs} \cup {seen[p].inode : p \in Procs}
NewToken == CHOOSE t \in Tokens : t \notin InUse

\* Mutant: the parsed record's token and process fields are taken one for the other.
SwappedOwner(path) ==
    IF ~Absent(path) /\ file[path].written
    THEN [NothingSeen EXCEPT !.token = file[path].owner, !.owner = file[path].id]
    ELSE NothingSeen

\* readLockOwner: an absent file and one whose record is not written yet read alike.
ReadOwner(path) ==
    IF ~Absent(path) /\ file[path].written
    THEN [NothingSeen EXCEPT !.token = file[path].id, !.owner = file[path].owner]
    ELSE NothingSeen

Fingerprint(path) == <<file[path].id, file[path].written>>

\* Mutant: only the age of a lock is judged, the pid and the identity are not.
StaleByAgeOfHost(p, path) ==
    /\ file[path].aged
    /\ ~(seen[p].owner \in Procs /\ Host[seen[p].owner] = Host[p])

\* lockOwnerIsStale: the owner p read earlier, the age of the file that is there now.
SameHost(p, owner) == owner \in Procs /\ Host[owner] = Host[p]
KnownDead(p, owner) ==
    /\ SameHost(p, owner)
    /\ ~Alive(owner)
    /\ owner \in Identified \/ owner \notin PidReused
OwnerIsStale(p, path) ==
    \/ KnownDead(p, seen[p].owner)
    \/ /\ file[path].aged
       /\ ~(SameHost(p, seen[p].owner) /\ seen[p].owner \in Identified)

Init ==
    /\ pc = [p \in Procs |-> "idle"]
    /\ file = [path \in Paths |-> NoFile]
    /\ mine = [p \in Procs |-> NoToken]
    /\ seen = [p \in Procs |-> NothingSeen]
    /\ removed = [p \in Procs |-> FALSE]

Goto(p, from, to) == pc[p] = from /\ pc' = [pc EXCEPT ![p] = to]

(***************************************************************************)
(* createFileLock: open(path, "wx") and, in a later step, the owner        *)
(* record.  A file unlinked in between is written to no avail.  When the   *)
(* write fails, whatever is at the path is unlinked.                       *)
(***************************************************************************)
\* Mutant: the file is opened with "w", so that an existing lock is overwritten.
OpenTruncating(p, path, from, to) ==
    /\ Goto(p, from, to)
    /\ Tokens \ InUse # {}
    /\ file' = [file EXCEPT ![path] = Fresh(p, NewToken)]
    /\ mine' = [mine EXCEPT ![p] = NewToken]
    /\ UNCHANGED <<seen, removed>>

OpenExclusive(p, path, from, to) ==
    /\ Goto(p, from, to)
    /\ Absent(path)
    /\ Tokens \ InUse # {}
    /\ file' = [file EXCEPT ![path] = Fresh(p, NewToken)]
    /\ mine' = [mine EXCEPT ![p] = NewToken]
    /\ UNCHANGED <<seen, removed>>

OpenExists(p, path, from, to) ==
    /\ Goto(p, from, to)
    /\ ~Absent(path)
    /\ UNCHANGED <<file, mine, seen, removed>>

WriteOwner(p, path, from, to) ==
    /\ Goto(p, from, to)
    /\ file' = IF ~Absent(path) /\ file[path].id = mine[p]
               THEN [file EXCEPT ![path].written = TRUE, ![path].aged = FALSE]
               ELSE file
    /\ UNCHANGED <<mine, seen, removed>>

WriteFails(p, path, from) ==
    /\ Goto(p, from, "idle")
    /\ file' = [file EXCEPT ![path] = NoFile]
    /\ mine' = [mine EXCEPT ![p] = NoToken]
    /\ seen' = [seen EXCEPT ![p] = NothingSeen]
    /\ UNCHANGED removed

(***************************************************************************)
(* removeOwnedLock: read the owner, and unlink in a later step if the      *)
(* token is the expected one.  Here token is the caller's own.             *)
(***************************************************************************)
ReleaseRead(p, path, from, match, other) ==
    /\ pc[p] = from
    /\ IF ReadOwner(path).token = mine[p]
       THEN /\ pc' = [pc EXCEPT ![p] = match]
            /\ UNCHANGED mine
       ELSE /\ pc' = [pc EXCEPT ![p] = other]
            /\ mine' = [mine EXCEPT ![p] = NoToken]
    /\ UNCHANGED <<file, seen>>

ReleaseUnlink(p, path, from, to) ==
    /\ Goto(p, from, to)
    /\ file' = [file EXCEPT ![path] = NoFile]
    /\ mine' = [mine EXCEPT ![p] = NoToken]
    /\ UNCHANGED seen

---------------------------------------------------------------------------
(***************************************************************************)
(* acquireFileLock and withFileLock on the main lock.                      *)
(***************************************************************************)
Call(p) == Goto(p, "idle", "open") /\ UNCHANGED <<file, mine, seen, removed>>
OpenMain(p) == OpenExclusive(p, "main", "open", "write")
MainBusy(p) == OpenExists(p, "main", "open", "recOpen")
WriteMain(p) == WriteOwner(p, "main", "write", "work")
WriteMainFails(p) == WriteFails(p, "main", "write")
WorkEnds(p) == Goto(p, "work", "releaseRead") /\ UNCHANGED <<file, mine, seen, removed>>
ReleaseMainRead(p) ==
    /\ ReleaseRead(p, "main", "releaseRead", "releaseUnlink", "idle")
    /\ UNCHANGED removed
ReleaseMainUnlink(p) ==
    /\ ReleaseUnlink(p, "main", "releaseUnlink", "idle")
    /\ UNCHANGED removed

\* One poll interval later, or the deadline (STATE_LOCK_TIMEOUT) or the caller's abort.
Poll(p) == Goto(p, "wait", "open") /\ UNCHANGED <<file, mine, seen, removed>>
GiveUp(p) ==
    /\ MayTimeout
    /\ Goto(p, "wait", "idle") \/ Goto(p, "open", "idle")
    /\ UNCHANGED <<file, mine, seen, removed>>

(***************************************************************************)
(* reclaimStaleLock: under the recovery lock, inspect the main lock and    *)
(* remove it if it is stale and still the one inspected.                   *)
(***************************************************************************)
OpenRecovery(p) == OpenExclusive(p, "recovery", "recOpen", "recWrite")
RecoveryBusy(p) == OpenExists(p, "recovery", "recOpen", "abandonedRead")
WriteRecovery(p) == WriteOwner(p, "recovery", "recWrite", "inspectRead")
WriteRecoveryFails(p) == WriteFails(p, "recovery", "recWrite")

ReadInto(p, path, from, to) ==
    /\ Goto(p, from, to)
    /\ seen' = [seen EXCEPT ![p] = ReadOwner(path)]
    /\ UNCHANGED <<file, mine, removed>>

\* inspectLockStaleness's stat: keep the fingerprint, decide on staleness.
StatInto(p, path, from, stale, fresh) ==
    /\ pc[p] = from
    /\ IF ~Absent(path) /\ OwnerIsStale(p, path)
       THEN /\ pc' = [pc EXCEPT ![p] = stale]
            /\ seen' = [seen EXCEPT ![p].inode = file[path].id,
                                    ![p].written = file[path].written]
       ELSE /\ pc' = [pc EXCEPT ![p] = fresh]
            /\ seen' = [seen EXCEPT ![p] = NothingSeen]
    /\ UNCHANGED <<file, mine, removed>>

InspectRead(p) == ReadInto(p, "main", "inspectRead", "inspectStat")
InspectStat(p) == StatInto(p, "main", "inspectStat", "removeRead", "recReleaseRead")

\* Mutant: the lock found stale is unlinked without reading its owner again.
ObservedOnce(p) == TRUE

\* removeObservedLock up to its unlink: same token, or same fingerprint if none was read.
StillObserved(p) ==
    IF seen[p].token # NoToken
    THEN ReadOwner("main").token = seen[p].token
    ELSE ~Absent("main") /\ Fingerprint("main") = <<seen[p].inode, seen[p].written>>

RemoveRead(p) ==
    /\ pc[p] = "removeRead"
    /\ IF StillObserved(p)
       THEN pc' = [pc EXCEPT ![p] = "removeUnlink"]
       ELSE pc' = [pc EXCEPT ![p] = "recReleaseRead"]
    /\ seen' = [seen EXCEPT ![p] = NothingSeen]
    /\ UNCHANGED <<file, mine, removed>>

RemoveUnlink(p) ==
    /\ Goto(p, "removeUnlink", "recReleaseRead")
    /\ removed' = [removed EXCEPT ![p] = ~Absent("main")]
    /\ file' = [file EXCEPT !["main"] = NoFile]
    /\ UNCHANGED <<mine, seen>>

\* acquireFileLock retries at once after a removal and polls otherwise.
AfterReclaim(p) == IF removed[p] THEN "open" ELSE "wait"

ReleaseRecoveryRead(p) ==
    /\ ReleaseRead(p, "recovery", "recReleaseRead", "recReleaseUnlink", AfterReclaim(p))
    /\ removed' = [removed EXCEPT ![p] = @ /\ pc'[p] = "recReleaseUnlink"]

ReleaseRecoveryUnlink(p) ==
    /\ ReleaseUnlink(p, "recovery", "recReleaseUnlink", AfterReclaim(p))
    /\ removed' = [removed EXCEPT ![p] = FALSE]

(***************************************************************************)
(* reclaimAbandonedRecoveryLock: the recovery lock is taken.  If its owner *)
(* record was readable and is stale, remove that owner's file; there is no *)
(* third lock that would order two processes doing so.                     *)
(***************************************************************************)
AbandonedRead(p) == ReadInto(p, "recovery", "abandonedRead", "abandonedStat")

AbandonedStat(p) ==
    /\ pc[p] = "abandonedStat"
    /\ IF ~Absent("recovery") /\ OwnerIsStale(p, "recovery") /\ seen[p].token # NoToken
       THEN /\ pc' = [pc EXCEPT ![p] = "abandonedCheck"]
            /\ UNCHANGED seen
       ELSE /\ pc' = [pc EXCEPT ![p] = "wait"]
            /\ seen' = [seen EXCEPT ![p] = NothingSeen]
    /\ UNCHANGED <<file, mine, removed>>

AbandonedCheck(p) ==
    /\ pc[p] = "abandonedCheck"
    /\ IF ReadOwner("recovery").token = seen[p].token
       THEN pc' = [pc EXCEPT ![p] = "abandonedUnlink"]
       ELSE pc' = [pc EXCEPT ![p] = "wait"]
    /\ seen' = [seen EXCEPT ![p] = NothingSeen]
    /\ UNCHANGED <<file, mine, removed>>

AbandonedUnlink(p) ==
    /\ Goto(p, "abandonedUnlink", "wait")
    /\ file' = [file EXCEPT !["recovery"] = NoFile]
    /\ UNCHANGED <<mine, seen, removed>>

---------------------------------------------------------------------------
(***************************************************************************)
(* The environment: a process is killed, a file reaches its age limit.  A  *)
(* live owner lets its own file age only if it is one of SlowOwners.       *)
(***************************************************************************)
Crash(p) ==
    /\ pc[p] \in CrashAt
    /\ pc' = [pc EXCEPT ![p] = "dead"]
    /\ mine' = [mine EXCEPT ![p] = NoToken]
    /\ seen' = [seen EXCEPT ![p] = NothingSeen]
    /\ removed' = [removed EXCEPT ![p] = FALSE]
    /\ UNCHANGED file

Age(path) ==
    /\ ~Absent(path)
    /\ ~file[path].aged
    /\ ~Alive(file[path].owner) \/ file[path].owner \in SlowOwners
    /\ file' = [file EXCEPT ![path].aged = TRUE]
    /\ UNCHANGED <<pc, mine, seen, removed>>

Holding(p) == \/ OpenMain(p) \/ WriteMain(p) \/ WriteMainFails(p) \/ WorkEnds(p)
              \/ ReleaseMainRead(p) \/ ReleaseMainUnlink(p)
Recovering(p) == \/ MainBusy(p) \/ OpenRecovery(p) \/ RecoveryBusy(p) \/ WriteRecovery(p)
                 \/ WriteRecoveryFails(p) \/ InspectRead(p) \/ InspectStat(p)
                 \/ RemoveRead(p) \/ RemoveUnlink(p) \/ ReleaseRecoveryRead(p)
                 \/ ReleaseRecoveryUnlink(p) \/ AbandonedRead(p) \/ AbandonedStat(p)
                 \/ AbandonedCheck(p) \/ AbandonedUnlink(p)

\* What a process does by itself once it has called withFileLock.
Step(p) == Holding(p) \/ Recovering(p) \/ Poll(p) \/ GiveUp(p)

Next == \/ \E p \in Procs : Call(p) \/ Step(p) \/ Crash(p)
        \/ \E path \in Paths : Age(path)

Spec == Init /\ [][Next]_vars

\* A process runs until it is killed, a write that is tried again and again succeeds
\* some time, and files get old.  Nobody has to call withFileLock.
Fairness == /\ \A p \in Procs : WF_vars(Step(p)) /\ SF_vars(WriteRecovery(p))
            /\ \A path \in Paths : WF_vars(Age(path))
FairSpec == Spec /\ Fairness

---------------------------------------------------------------------------
\* Every variable keeps its type; what a process remembers of a file are fields of one.
TypeOK ==
    /\ pc \in [Procs -> Pcs]
    /\ file \in [Paths -> File \cup {NoFile}]
    /\ mine \in [Procs -> Tokens \cup {NoToken}]
    /\ seen \in [Procs -> Observation]
    /\ removed \in [Procs -> BOOLEAN]

\* The processes inside the caller's work.
Critical == {p \in Procs : pc[p] = "work"}

\* While a process is inside its work (withFileLock), the lock file at the path is the one
\* it created and wrote: the recovery of a dead owner's lock never removes a live owner's,
\* whatever was observed before (removeObservedLock).
WorkIsCovered ==
    \A p \in Critical : file["main"].id = mine[p] /\ file["main"].written

\* The recovery lock is exclusive too: from its creation to its release nobody else
\* removes its file (reclaimStaleLock, reclaimAbandonedRecoveryLock).
RecoveryIsCovered ==
    \A p \in Procs : pc[p] \in RecoveryHeldPcs => file["recovery"].id = mine[p]

Waiting == {p \in Procs : pc[p] \notin {"idle", "work", "dead"}}

\* A lock file whose owner died, in whatever state it left it, does not survive processes
\* that keep asking for the lock: reclaimStaleLock removes it.
DeadOwnerEvicted ==
    \A t \in Tokens :
       (file["main"].id = t /\ ~Alive(file["main"].owner) /\ Waiting # {})
       ~> (file["main"].id # t \/ Waiting = {})

\* The lock as its callers see it: the process in its work is the holder.
Holder == IF Critical = {} THEN NoToken ELSE CHOOSE p \in Critical : TRUE
Abstract == INSTANCE ExclusiveLock WITH NoProc <- NoToken, holder <- Holder

\* FileLock implements the exclusive lock its callers rely on (withFileLock): one process
\* enters its work only when no other live process is inside its own.
ImplementsExclusiveLock == Abstract!Spec
============================================================================
