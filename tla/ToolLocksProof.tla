-------------------------- MODULE ToolLocksProof --------------------------
(***************************************************************************)
(* Who may do what only one may do at a time, without a lock service.  The *)
(* self update, for any number of commands and releases: two never install *)
(* at once unless a lock that was not old has been removed, and a lock     *)
(* always has somebody who installs under it, or who was killed.  The      *)
(* election of a debugger, for any number of contenders: the target is     *)
(* debugged by one of them at a time, unless one was slower from its       *)
(* listing to its claim than the whole window of a later one; and of two   *)
(* one wins.  The tunnels of cf-hana, for any number of clients and        *)
(* candidates: as long as no removal and no write has hit anything but     *)
(* what it was meant for, one client at a time establishes a tunnel, and   *)
(* every tunnel that runs is somebody's.                                   *)
(***************************************************************************)
EXTENDS SelfUpdate, InspectorElection, HanaTunnel, FiniteSetTheorems, TLAPS

(***************************************************************************)
(* The self update.                                                        *)
(***************************************************************************)
\* The lock file names a command or is not there.
LockIsOwned == ulock = FreeLock \/ ulock.owner \in Commands

\* A command past its decision knows a release.
KnowsRelease ==
    \A p \in Commands :
        cmd[p].at \in {"announcing", "locking", "judging", "removing", "creating", "orphaned"}
                        \cup Installing
          => cmd[p].latest \in Releases

\* Only the lock of a killed command grows old.
AgedIsDead == ulock.aged => cmd[ulock.owner].at = "killed"

\* What a killed command was installing goes on under its lock.
OrphanHolds == ~robbed => \A p \in Commands : cmd[p].at = "orphaned" => ulock.owner = p

UpdateInv == /\ UpdateTypeOK /\ LockIsOwned /\ KnowsRelease /\ AgedIsDead
             /\ LockHasInstaller /\ InstallsAlone /\ OrphanHolds

CommandRecord == [at : CommandPcs, runs : Releases, latest : {Unknown} \cup Releases,
                  ok : BOOLEAN, state : UpdateState]

USE CommandAssumption, ReleaseAssumption

\* A state and a command with some of their fields replaced.
LEMMA StateLatest ==
  ASSUME NEW s \in UpdateState PROVE s.latest \in {Unknown} \cup Releases
  BY DEF UpdateState

LEMMA StateFails ==
  ASSUME NEW s \in UpdateState
  PROVE  /\ [s EXCEPT !.failing = TRUE] \in UpdateState
         /\ [s EXCEPT !.failing = FALSE] \in UpdateState
         /\ [s EXCEPT !.fresh = FALSE] \in UpdateState
         /\ [s EXCEPT !.failed = Unknown, !.announced = Unknown] \in UpdateState
  BY DEF UpdateState

LEMMA StateKnows ==
  ASSUME NEW s \in UpdateState, NEW r \in {Unknown} \cup Releases
  PROVE  /\ [s EXCEPT !.failed = r] \in UpdateState
         /\ [s EXCEPT !.announced = r] \in UpdateState
         /\ [s EXCEPT !.latest = r, !.fresh = TRUE, !.failing = FALSE] \in UpdateState
  BY DEF UpdateState

LEMMA CommandFields ==
  ASSUME NEW c \in CommandRecord
  PROVE  /\ c.at \in CommandPcs /\ c.latest \in {Unknown} \cup Releases
         /\ c.ok \in BOOLEAN /\ c.state \in UpdateState
  BY DEF CommandRecord

LEMMA CommandMoves ==
  ASSUME NEW c \in CommandRecord, NEW at \in CommandPcs
  PROVE  /\ [c EXCEPT !.at = at] \in CommandRecord
         /\ [c EXCEPT !.at = at].at = at
         /\ [c EXCEPT !.at = at].latest = c.latest
         /\ [c EXCEPT !.at = at].ok = c.ok
  BY DEF CommandRecord

LEMMA CommandInstalls ==
  ASSUME NEW c \in CommandRecord, NEW at \in CommandPcs, NEW b \in BOOLEAN
  PROVE  /\ [c EXCEPT !.at = at, !.ok = b] \in CommandRecord
         /\ [c EXCEPT !.at = at, !.ok = b].at = at
         /\ [c EXCEPT !.at = at, !.ok = b].ok = b
         /\ [c EXCEPT !.at = at, !.ok = b].latest = c.latest
  BY DEF CommandRecord

LEMMA CommandSaves ==
  ASSUME NEW c \in CommandRecord, NEW at \in CommandPcs, NEW s \in UpdateState
  PROVE  /\ [c EXCEPT !.at = at, !.state = s] \in CommandRecord
         /\ [c EXCEPT !.at = at, !.state = s].at = at
  BY DEF CommandRecord

LEMMA CommandReads ==
  ASSUME NEW c \in CommandRecord, NEW s \in UpdateState
  PROVE  [c EXCEPT !.state = s, !.latest = s.latest] \in CommandRecord
  BY StateLatest DEF CommandRecord

LEMMA CommandLearns ==
  ASSUME NEW c \in CommandRecord, NEW s \in UpdateState, NEW r \in Releases
  PROVE  /\ [c EXCEPT !.at = "saving", !.latest = r, !.state = s] \in CommandRecord
         /\ [c EXCEPT !.at = "saving", !.latest = r, !.state = s].at = "saving"
  BY DEF CommandRecord, CommandPcs

LEMMA UpdateBegins == UpdateInit => UpdateInv
  <1> SUFFICES ASSUME UpdateInit PROVE UpdateInv
    OBVIOUS
  <1>1. EmptyUpdateState \in UpdateState
    BY DEF EmptyUpdateState, UpdateState
  <1>2. NewCommand \in CommandRecord
    BY <1>1 DEF NewCommand, CommandRecord, CommandPcs, Releases
  <1>3. FreeLock \in [owner : Commands \cup {NoOwner}, aged : BOOLEAN]
    BY DEF FreeLock
  <1>4. 1 \in Releases
    BY DEF Releases
  <1>7. cmd \in [Commands -> CommandRecord]
    BY <1>2 DEF UpdateInit
  <1>8. UpdateTypeOK
    BY <1>1, <1>3, <1>4, <1>7 DEF UpdateInit, UpdateTypeOK, CommandRecord
  <1>5. LockIsOwned /\ AgedIsDead /\ LockHasInstaller
    BY DEF UpdateInit, LockIsOwned, AgedIsDead, LockHasInstaller, FreeLock
  <1>6. KnowsRelease /\ InstallsAlone /\ OrphanHolds
    BY DEF UpdateInit, NewCommand, KnowsRelease, InstallsAlone, OrphanHolds, Installing
  <1> QED
    BY <1>5, <1>6, <1>8 DEF UpdateInv

\* Where a decision leads, and that what it leads to knows a release.
LEMMA DecisionType ==
  ASSUME NEW p \in Commands, NEW d \in CommandRecord
  PROVE  /\ Decided(p, d) \in CommandRecord
         /\ Decided(p, d).at \in {"ended", "announcing", "locking"}
         /\ Decided(p, d).latest = d.latest
         /\ Decided(p, d).at # "ended" => d.latest \in Releases
  BY DEF Decided, CommandRecord, CommandPcs, Releases, Unknown

\* A step that changes one command outside an install, and neither the installed release
\* nor the lock, keeps the invariant.
LEMMA OtherSteps ==
  ASSUME UpdateInv, NEW p \in Commands, NEW d \in CommandRecord,
         Becomes(p, d), shared' \in UpdateState,
         UNCHANGED <<installed, published, ulock, robbed>>,
         cmd[p].at \notin Installing \cup {"orphaned", "killed"},
         d.at \notin Installing \cup {"orphaned"},
         d.at \in {"announcing", "locking", "judging", "removing", "creating"}
            => d.latest \in Releases
  PROVE  UpdateInv'
  <1>1. UpdateTypeOK'
    BY DEF UpdateInv, UpdateTypeOK, Becomes, CommandRecord
  <1>2. \A q \in Commands : cmd'[q] = IF q = p THEN d ELSE cmd[q]
    BY DEF UpdateInv, UpdateTypeOK, Becomes
  <1>3. LockIsOwned' /\ AgedIsDead' /\ LockHasInstaller'
    BY <1>2 DEF UpdateInv, LockIsOwned, AgedIsDead, LockHasInstaller, FreeLock
  <1>4. KnowsRelease' /\ InstallsAlone' /\ OrphanHolds'
    BY <1>2 DEF UpdateInv, KnowsRelease, InstallsAlone, OrphanHolds, Releases
  <1> QED
    BY <1>1, <1>3, <1>4 DEF UpdateInv

LEMMA UpdateSteps == UpdateInv /\ [UpdateNext]_updatevars => UpdateInv'
  <1> SUFFICES ASSUME UpdateInv, [UpdateNext]_updatevars PROVE UpdateInv'
    OBVIOUS
  <1>t. /\ installed \in Releases /\ published \in Releases /\ shared \in UpdateState
        /\ ulock \in [owner : Commands \cup {NoOwner}, aged : BOOLEAN]
        /\ cmd \in [Commands -> CommandRecord] /\ robbed \in BOOLEAN
    BY DEF UpdateInv, UpdateTypeOK, CommandRecord
  <1>1. ASSUME NEW p \in Commands, CommandStarts(p) PROVE UpdateInv'
    <2> DEFINE d == [cmd[p] EXCEPT !.at = "started", !.runs = installed]
    <2>1. d \in CommandRecord /\ d.at = "started"
      BY <1>t DEF CommandRecord, CommandPcs
    <2> QED
      BY <1>t, <1>1, <2>1, OtherSteps DEF CommandStarts, InCommand, Installing
  <1>2. ASSUME NEW p \in Commands, ReadsState(p) PROVE UpdateInv'
    <2> DEFINE k == [cmd[p] EXCEPT !.state = shared, !.latest = shared.latest]
               f == [k EXCEPT !.at = "fetching"]
    <2>2. PICK d \in {Decided(p, k), f} : Becomes(p, d)
      BY <1>2 DEF ReadsState
    <2>0. k \in CommandRecord
      BY <1>t, CommandReads
    <2> HIDE DEF k
    <2>1. f \in CommandRecord /\ f.at = "fetching"
      BY <2>0, CommandMoves DEF CommandPcs
    <2> HIDE DEF f
    <2>3. /\ d \in CommandRecord /\ d.at \in {"ended", "announcing", "locking", "fetching"}
          /\ d.at \in {"announcing", "locking"} => d.latest \in Releases
      BY <2>0, <2>1, <2>2, DecisionType
    <2> QED
      BY <1>t, <1>2, <2>2, <2>3, OtherSteps DEF ReadsState, InCommand, Installing
  <1>3. ASSUME NEW p \in Commands, RegistryAnswers(p) PROVE UpdateInv'
    <2> DEFINE d == [cmd[p] EXCEPT !.at = "saving", !.latest = published,
                       !.state = [@ EXCEPT !.latest = published, !.fresh = TRUE, !.failing = FALSE]]
               s == [cmd[p].state EXCEPT !.latest = published, !.fresh = TRUE, !.failing = FALSE]
    <2>0. s \in UpdateState
      BY <1>t, StateKnows, CommandFields
    <2>3. d = [cmd[p] EXCEPT !.at = "saving", !.latest = published, !.state = s]
      BY <1>t DEF CommandRecord
    <2> HIDE DEF s, d
    <2>1. d \in CommandRecord /\ d.at = "saving"
      BY <1>t, <2>0, <2>3, CommandLearns
    <2> QED
      BY <1>t, <1>3, <2>1, OtherSteps DEF RegistryAnswers, InCommand, Installing, d
  <1>4. ASSUME NEW p \in Commands, RegistryFails(p) PROVE UpdateInv'
    <2> DEFINE d == [cmd[p] EXCEPT !.at = "saving", !.state = [@ EXCEPT !.failing = TRUE]]
               s == [cmd[p].state EXCEPT !.failing = TRUE]
    <2>0. s \in UpdateState
      BY <1>t, StateFails, CommandFields
    <2>3. d = [cmd[p] EXCEPT !.at = "saving", !.state = s]
      BY <1>t DEF CommandRecord
    <2> HIDE DEF s, d
    <2>1. d \in CommandRecord /\ d.at = "saving"
      BY <1>t, <2>0, <2>3, CommandSaves DEF CommandPcs
    <2> QED
      BY <1>t, <1>4, <2>1, OtherSteps DEF RegistryFails, InCommand, Installing, d
  <1>5. ASSUME NEW p \in Commands, SavesCheck(p) PROVE UpdateInv'
    <2>1. cmd[p] \in CommandRecord /\ cmd[p].state \in UpdateState
      BY <1>t DEF CommandRecord
    <2> QED
      BY <1>t, <1>5, <2>1, DecisionType, OtherSteps
      DEF SavesCheck, Saves, InCommand, Installing
  <1>6. ASSUME NEW p \in Commands, Announces(p) PROVE UpdateInv'
    <2> DEFINE said == [cmd[p].state EXCEPT !.announced = cmd[p].latest]
               d == [cmd[p] EXCEPT !.at = "ended", !.state = said]
               e == [cmd[p] EXCEPT !.at = "ended"]
    <2>4. said \in UpdateState
      BY <1>t, StateKnows, CommandFields
    <2>5. "ended" \in CommandPcs
      BY DEF CommandPcs
    <2> HIDE DEF said
    <2>1. said \in UpdateState /\ d \in CommandRecord /\ e \in CommandRecord
      BY <1>t, <2>4, <2>5, CommandMoves, CommandSaves
    <2>2. d.at = "ended" /\ e.at = "ended"
      BY <1>t DEF CommandRecord
    <2>3. \/ Becomes(p, d) /\ shared' = said
          \/ Becomes(p, e) /\ shared' = shared
      BY <1>6 DEF Announces, Saves, Moves, Becomes, said
    <2> HIDE DEF d, e
    <2> QED
      BY <1>t, <1>6, <2>1, <2>2, <2>3, OtherSteps DEF Announces, InCommand, Installing
  <1>7. ASSUME NEW p \in Commands, NEW from \in {"locking", "creating"},
               NEW otherwise \in {"judging", "ended"}, TriesCreate(p, from, otherwise)
        PROVE  UpdateInv'
    <2>1. CASE ulock = FreeLock
      <3>0. [cmd[p] EXCEPT !.at = "installing"] \in CommandRecord
        BY <1>t, CommandMoves DEF CommandPcs, Installing
      <3>6. cmd' \in [Commands -> CommandRecord]
        BY <1>t, <1>7, <2>1, <3>0 DEF TriesCreate, Moves
      <3>1. UpdateTypeOK'
        <4>1. ulock' \in [owner : Commands \cup {NoOwner}, aged : BOOLEAN]
          <5>1. ulock' = [owner |-> p, aged |-> FALSE]
            BY <1>7, <2>1 DEF TriesCreate, FreeLock
          <5>2. p \in Commands \cup {NoOwner} /\ FALSE \in BOOLEAN
            OBVIOUS
          <5> QED
            BY <5>1, <5>2
        <4>2. UNCHANGED <<installed, published, shared, robbed>>
          BY <1>7 DEF TriesCreate
        <4> QED
          BY <1>t, <3>6, <4>1, <4>2 DEF UpdateTypeOK, CommandRecord
      <3>2. /\ ulock' = [owner |-> p, aged |-> FALSE] /\ installed' = installed
            /\ robbed' = robbed
            /\ \A q \in Commands : /\ cmd'[q].at = IF q = p THEN "installing" ELSE cmd[q].at
                                   /\ cmd'[q].latest = cmd[q].latest
                                   /\ cmd'[q].ok = cmd[q].ok
        BY <1>t, <1>7, <2>1 DEF TriesCreate, Moves, CommandRecord
      <3>3. LockIsOwned' /\ AgedIsDead' /\ LockHasInstaller'
        BY <3>2 DEF LockIsOwned, AgedIsDead, LockHasInstaller, Installing
      <3>4. KnowsRelease'
        BY <1>7, <3>2 DEF UpdateInv, KnowsRelease, TriesCreate, InCommand, Releases
      <3>5. InstallsAlone' /\ OrphanHolds'
        BY <2>1, <3>2 DEF UpdateInv, InstallsAlone, OrphanHolds, Installing, FreeLock
      <3> QED
        BY <3>1, <3>3, <3>4, <3>5 DEF UpdateInv
    <2>2. CASE ulock # FreeLock
      <3> DEFINE d == [cmd[p] EXCEPT !.at = otherwise]
      <3>1. d \in CommandRecord /\ d.at = otherwise /\ d.latest = cmd[p].latest
        BY <1>t DEF CommandRecord, CommandPcs
      <3>2. Becomes(p, d) /\ UNCHANGED <<shared, ulock, installed, published, robbed>>
        BY <1>7, <2>2 DEF TriesCreate, Moves, Becomes
      <3>3. cmd[p].at = from /\ cmd[p].latest \in Releases
        BY <1>7 DEF TriesCreate, InCommand, UpdateInv, KnowsRelease
      <3> HIDE DEF d
      <3> QED
        BY <1>t, <3>1, <3>2, <3>3, OtherSteps DEF Installing
    <2> QED
      BY <2>1, <2>2
  <1>8. ASSUME NEW p \in Commands, JudgesLock(p) PROVE UpdateInv'
    <2>1. PICK to \in {"removing", "ended"} : Moves(p, to)
      BY <1>8 DEF JudgesLock
    <2> DEFINE d == [cmd[p] EXCEPT !.at = to]
    <2>2. d \in CommandRecord /\ d.at = to /\ d.latest = cmd[p].latest
      BY <1>t DEF CommandRecord, CommandPcs
    <2>3. cmd[p].at = "judging" /\ cmd[p].latest \in Releases
      BY <1>8 DEF JudgesLock, InCommand, UpdateInv, KnowsRelease
    <2>4. Becomes(p, d)
      BY <2>1 DEF Moves, Becomes
    <2> HIDE DEF d
    <2> QED
      BY <1>t, <1>8, <2>2, <2>3, <2>4, OtherSteps DEF JudgesLock, Installing
  <1>9. ASSUME NEW p \in Commands, RemovesOldLock(p) PROVE UpdateInv'
    <2>1. UpdateTypeOK'
      BY <1>t, <1>9 DEF RemovesOldLock, Moves, UpdateTypeOK, CommandRecord, CommandPcs, FreeLock
    <2>2. /\ ulock' = FreeLock /\ installed' = installed
          /\ \A q \in Commands : /\ cmd'[q].at = IF q = p THEN "creating" ELSE cmd[q].at
                                 /\ cmd'[q].latest = cmd[q].latest
                                 /\ cmd'[q].ok = cmd[q].ok
      BY <1>t, <1>9 DEF RemovesOldLock, Moves, CommandRecord
    <2>3. LockIsOwned' /\ AgedIsDead' /\ LockHasInstaller'
      BY <2>2 DEF LockIsOwned, AgedIsDead, LockHasInstaller, FreeLock
    <2>4. KnowsRelease'
      BY <1>9, <2>2 DEF UpdateInv, KnowsRelease, RemovesOldLock, InCommand, Releases
    <2>5. ~robbed' => ~robbed /\ (ulock = FreeLock \/ cmd[ulock.owner].at = "killed")
      BY <1>9 DEF RemovesOldLock, UpdateInv, AgedIsDead
    <2>6. ~robbed' => \A q \in Commands : cmd[q].at \notin Installing \cup {"orphaned"}
      BY <2>5 DEF UpdateInv, InstallsAlone, OrphanHolds, Installing, FreeLock
    <2>7. InstallsAlone' /\ OrphanHolds'
      BY <2>2, <2>6 DEF InstallsAlone, OrphanHolds, Installing
    <2> QED
      BY <2>1, <2>3, <2>4, <2>7 DEF UpdateInv
  <1>10. ASSUME NEW p \in Commands,
                InstallSucceeds(p) \/ InstallFails(p) \/ Verifies(p) \/ RecordsInstall(p)
         PROVE  UpdateInv'
    <2>1. cmd[p].at \in Installing /\ cmd[p].latest \in Releases /\ cmd[p].state \in UpdateState
      BY <1>t, <1>10 DEF InstallSucceeds, InstallFails, Verifies, RecordsInstall, InCommand,
                         Installing, UpdateInv, KnowsRelease, CommandRecord
    <2>0. PICK a \in Installing, b \in BOOLEAN : Becomes(p, [cmd[p] EXCEPT !.at = a, !.ok = b])
      <3>1. [cmd[p] EXCEPT !.at = "verifying", !.ok = cmd[p].ok] = [cmd[p] EXCEPT !.at = "verifying"]
        BY <1>t DEF CommandRecord
      <3>2. [cmd[p] EXCEPT !.at = "releasing", !.ok = cmd[p].ok] = [cmd[p] EXCEPT !.at = "releasing"]
        BY <1>t DEF CommandRecord
      <3>3. cmd[p].ok \in BOOLEAN
        BY <1>t, CommandFields
      <3>4. CASE InstallSucceeds(p)
        BY <3>4 DEF InstallSucceeds, Becomes, Installing
      <3>5. CASE InstallFails(p)
        BY <3>1, <3>3, <3>5 DEF InstallFails, Moves, Becomes, Installing
      <3>6. CASE Verifies(p)
        BY <3>3, <3>6 DEF Verifies, Becomes, Installing
      <3>7. CASE RecordsInstall(p)
        BY <3>2, <3>3, <3>7 DEF RecordsInstall, Moves, Becomes, Installing
      <3> QED
        BY <1>10, <3>4, <3>5, <3>6, <3>7
    <2>12. a \in CommandPcs
      BY DEF CommandPcs
    <2>13. [cmd[p] EXCEPT !.at = a, !.ok = b] \in CommandRecord
      BY <1>t, <2>12, CommandInstalls
    <2>2. installed' \in Releases /\ cmd' \in [Commands -> CommandRecord]
      BY <1>t, <1>10, <2>0, <2>1, <2>13
      DEF InstallSucceeds, InstallFails, Verifies, RecordsInstall, Becomes
    <2>3. shared' \in UpdateState
      BY <1>t, <1>10, <2>1 DEF InstallSucceeds, InstallFails, Verifies, RecordsInstall, Saves,
                               UpdateState
    <2>4. UNCHANGED <<published, ulock, robbed>>
      BY <1>10 DEF InstallSucceeds, InstallFails, Verifies, RecordsInstall
    <2>5. UpdateTypeOK'
      BY <1>t, <2>2, <2>3, <2>4 DEF UpdateTypeOK, CommandRecord
    <2>14. /\ cmd'[p].at = a /\ cmd'[p].ok = b /\ cmd'[p].latest = cmd[p].latest
           /\ \A q \in Commands \ {p} : cmd'[q] = cmd[q]
      <3> DEFINE d == [cmd[p] EXCEPT !.at = a, !.ok = b]
      <3>1. d.at = a /\ d.ok = b /\ d.latest = cmd[p].latest
        <4>1. cmd[p] \in CommandRecord
          BY <1>t
        <4> QED
          <5>1. [cmd[p] EXCEPT !.at = a, !.ok = b].at = a
            BY <4>1, <2>12 DEF CommandRecord
          <5>2. [cmd[p] EXCEPT !.at = a, !.ok = b].ok = b
            BY <4>1, <2>12 DEF CommandRecord
          <5>3. [cmd[p] EXCEPT !.at = a, !.ok = b].latest = cmd[p].latest
            BY <4>1, <2>12 DEF CommandRecord
          <5> QED
            BY <5>1, <5>2, <5>3
      <3>2. cmd' = [cmd EXCEPT ![p] = d]
        BY <2>0 DEF Becomes
      <3> HIDE DEF d
      <3> QED
        BY <1>t, <3>1, <3>2
    <2>15. a \in {"recording", "releasing"} /\ b
             => installed' = cmd[p].latest \/ (cmd[p].at = "recording" /\ cmd[p].ok)
      <3>1. CASE InstallSucceeds(p) \/ InstallFails(p)
        <4>1. cmd'[p].at = "verifying"
          <5>1. PICK d \in {[cmd[p] EXCEPT !.at = "verifying", !.ok = TRUE],
                            [cmd[p] EXCEPT !.at = "verifying"]} : cmd' = [cmd EXCEPT ![p] = d]
            BY <3>1 DEF InstallSucceeds, InstallFails, Becomes, Moves
          <5>2. d.at = "verifying"
            BY <1>t, <5>1 DEF CommandRecord
          <5> QED
            BY <1>t, <5>1, <5>2
        <4> QED
          BY <2>14, <4>1
      <3>2. CASE Verifies(p)
        <4>1. cmd'[p].ok => installed' = cmd[p].latest
          BY <1>t, <3>2 DEF Verifies, Becomes, CommandRecord
        <4> QED
          BY <2>14, <4>1
      <3>3. CASE RecordsInstall(p)
        <4>1. cmd[p].at = "recording" /\ cmd'[p].ok = cmd[p].ok
          BY <1>t, <3>3 DEF RecordsInstall, Moves, InCommand, CommandRecord
        <4> QED
          BY <2>14, <4>1
      <3> QED
        BY <1>10, <3>1, <3>2, <3>3
    <2>6. /\ cmd'[p].at \in Installing /\ cmd'[p].latest = cmd[p].latest
          /\ cmd'[p].at \in {"recording", "releasing"} /\ cmd'[p].ok
                => installed' = cmd'[p].latest \/ (cmd[p].at = "recording" /\ cmd[p].ok)
          /\ \A q \in Commands \ {p} : cmd'[q] = cmd[q]
      BY <2>14, <2>15
    <2>7. cmd[p].at = "recording" => installed' = installed
      BY <1>10 DEF InstallSucceeds, InstallFails, Verifies, RecordsInstall, InCommand
    <2>8. LockIsOwned' /\ AgedIsDead' /\ LockHasInstaller'
      BY <2>1, <2>4, <2>6 DEF UpdateInv, LockIsOwned, AgedIsDead, LockHasInstaller, Installing,
                              FreeLock
    <2>9. KnowsRelease'
      BY <2>1, <2>6 DEF UpdateInv, KnowsRelease, Releases
    <2>10. InstallsAlone'
      BY <2>1, <2>4, <2>6, <2>7 DEF UpdateInv, InstallsAlone, Installing
    <2>11. OrphanHolds'
      BY <2>4, <2>6 DEF UpdateInv, OrphanHolds, Installing
    <2> QED
      BY <2>5, <2>8, <2>9, <2>10, <2>11 DEF UpdateInv
  <1>11. ASSUME NEW p \in Commands, ReleasesLock(p) PROVE UpdateInv'
    <2>1. UpdateTypeOK'
      BY <1>t, <1>11 DEF ReleasesLock, Moves, UpdateTypeOK, CommandRecord, CommandPcs, FreeLock
    <2>2. /\ ulock' = FreeLock /\ installed' = installed
          /\ \A q \in Commands : /\ cmd'[q].at = IF q = p THEN "ended" ELSE cmd[q].at
                                 /\ cmd'[q].latest = cmd[q].latest
                                 /\ cmd'[q].ok = cmd[q].ok
      BY <1>t, <1>11 DEF ReleasesLock, Moves, CommandRecord
    <2>3. LockIsOwned' /\ AgedIsDead' /\ LockHasInstaller' /\ KnowsRelease'
      BY <2>2 DEF UpdateInv, LockIsOwned, AgedIsDead, LockHasInstaller, KnowsRelease, FreeLock,
                  Installing, Releases
    <2>4. ~robbed' => ~robbed /\ ulock.owner = p
      BY <1>11 DEF ReleasesLock, InCommand, UpdateInv, InstallsAlone, Installing
    <2>5. InstallsAlone' /\ OrphanHolds'
      BY <1>11, <2>2, <2>4 DEF UpdateInv, InstallsAlone, OrphanHolds, Installing, ReleasesLock,
                               InCommand
    <2> QED
      BY <2>1, <2>3, <2>5 DEF UpdateInv
  <1>12. ASSUME NEW p \in Commands, Killed(p) \/ OrphanEnds(p) PROVE UpdateInv'
    <2>1. cmd[p].at = "orphaned" => cmd[p].latest \in Releases
      BY DEF UpdateInv, KnowsRelease
    <2>2. UpdateTypeOK'
      BY <1>t, <1>12, <2>1 DEF Killed, OrphanEnds, InCommand, Moves, UpdateTypeOK, CommandRecord,
                               CommandPcs
    <2>3. /\ cmd'[p].at = IF cmd[p].at = "installing" THEN "orphaned" ELSE "killed"
          /\ cmd[p].at # "killed"
          /\ \A q \in Commands \ {p} : cmd'[q] = cmd[q]
          /\ cmd'[p].latest = cmd[p].latest
          /\ UNCHANGED <<ulock, robbed>>
          /\ installed' = installed \/ cmd[p].at = "orphaned"
      BY <1>t, <1>12 DEF Killed, OrphanEnds, InCommand, Moves, CommandRecord
    <2>4. LockIsOwned' /\ AgedIsDead' /\ LockHasInstaller'
      BY <2>3 DEF UpdateInv, LockIsOwned, AgedIsDead, LockHasInstaller, Installing, FreeLock
    <2>5. KnowsRelease'
      BY <2>3 DEF UpdateInv, KnowsRelease, Installing, Releases
    <2>6. InstallsAlone' /\ OrphanHolds'
      BY <2>3 DEF UpdateInv, InstallsAlone, OrphanHolds, Installing
    <2> QED
      BY <2>2, <2>4, <2>5, <2>6 DEF UpdateInv
  <1>13. CASE LockAges
    <2>1. UpdateTypeOK'
      BY <1>t, <1>13 DEF LockAges, UpdateTypeOK, CommandRecord
    <2>2. /\ ulock'.owner = ulock.owner /\ ulock.owner \in Commands
          /\ cmd[ulock.owner].at = "killed" /\ UNCHANGED <<cmd, installed, robbed>>
      BY <1>t, <1>13 DEF LockAges, InCommand, UpdateInv, LockIsOwned
    <2>3. LockIsOwned' /\ AgedIsDead' /\ LockHasInstaller'
      BY <2>2 DEF LockIsOwned, AgedIsDead, LockHasInstaller
    <2>4. KnowsRelease' /\ InstallsAlone' /\ OrphanHolds'
      BY <2>2 DEF UpdateInv, KnowsRelease, InstallsAlone, OrphanHolds, Installing, Releases
    <2> QED
      BY <2>1, <2>3, <2>4 DEF UpdateInv
  <1>14. CASE Publishes \/ TimePasses \/ UNCHANGED updatevars
    <2>1. UNCHANGED <<installed, ulock, cmd, robbed>>
      BY <1>14 DEF Publishes, TimePasses, updatevars
    <2>2. published' \in Releases /\ shared' \in UpdateState
      <3>1. published' \in Releases
        BY <1>t, <1>14 DEF Publishes, TimePasses, updatevars, Releases
      <3>2. shared' \in UpdateState
        BY <1>t, <1>14, StateFails DEF Publishes, TimePasses, updatevars
      <3> QED
        BY <3>1, <3>2
    <2>3. UpdateTypeOK'
      BY <1>t, <2>1, <2>2 DEF UpdateTypeOK, CommandRecord
    <2> QED
      BY <2>1, <2>3 DEF UpdateInv, LockIsOwned, KnowsRelease, AgedIsDead, LockHasInstaller,
                        InstallsAlone, OrphanHolds, FreeLock
  <1> QED
    BY <1>1, <1>2, <1>3, <1>4, <1>5, <1>6, <1>7, <1>8, <1>9, <1>10, <1>11, <1>12, <1>13, <1>14
    DEF UpdateNext, CommandStep

LEMMA UpdateInvariant == UpdateSpec => []UpdateInv
  BY UpdateBegins, UpdateSteps, PTL DEF UpdateSpec

\* An install is alone and what it verified stays in place until it is recorded, for any
\* number of commands that start, take over, fail and are killed (acquireUpdateLock).
THEOREM InstallsStayAlone == UpdateSpec => []InstallsAlone
  <1>1. UpdateInv => InstallsAlone
    BY DEF UpdateInv
  <1> QED
    BY <1>1, UpdateInvariant, PTL

\* No command that goes its own way to the end leaves the lock behind (installLatest's
\* finally), whatever was robbed.
THEOREM LockKeepsInstaller == UpdateSpec => []LockHasInstaller
  <1>1. UpdateInv => LockHasInstaller
    BY DEF UpdateInv
  <1> QED
    BY <1>1, UpdateInvariant, PTL

----------------------------------------------------------------------------
(***************************************************************************)
(* The election of a debugger.                                             *)
(***************************************************************************)
Pending == {"window", "looking", "reading", "claiming", "withdrawing"}
Away == {"new", "withdrawn", "released", "gone"}
Beaten == {"withdrawing", "withdrawn", "released", "gone", "killed"}

\* The file of a contender says where it is.
MarksFit ==
    \A c \in Contenders :
        /\ Contends(c, "created") => mark[c] = "empty"
        /\ elect[c].at \in Pending => mark[c] = "pending"
        /\ Contends(c, "owner") => mark[c] = "owned"
        /\ elect[c].at \in Away => mark[c] = "none"

\* A contender reads the files of others.
FilesFit ==
    \A c \in Contenders :
        /\ elect[c].names \subseteq Contenders \ {c}
        /\ Contends(c, "reading") => elect[c].file \in Contenders \ {c}

\* c owns the target, or will without looking at d again.
Past(c, d) ==
    \/ elect[c].at \in {"claiming", "owner"}
    \/ /\ elect[c].at \in {"looking", "reading"} /\ ~elect[c].refused /\ d \notin elect[c].names
       /\ ~(Contends(c, "reading") /\ elect[c].file = d)

\* d has not listed the directory yet and will find c there, decided or of a smaller token;
\* or it has still to look at c, or is refused, or has left.
Yields(d, c) ==
    \/ elect[d].at \in {"new", "created"} \cup Beaten
    \/ Contends(d, "window") /\ (c < d \/ c \in waiting[d] \/ Contends(c, "owner"))
    \/ /\ elect[d].at \in {"looking", "reading"}
       /\ \/ elect[d].refused
          \/ /\ c \in elect[d].names \/ (Contends(d, "reading") /\ elect[d].file = c)
             /\ c < d \/ Contends(c, "owner")

PastIsYieldedTo ==
    "slow" \notin mishaps =>
        \A c, d \in Contenders : c # d /\ Past(c, d) => Yields(d, c)

ElectionInv == ElectionTypeOK /\ MarksFit /\ FilesFit /\ PastIsYieldedTo

ContenderRecord == [at : ElectionPcs, names : SUBSET Contenders,
                    file : Contenders \cup {NoFile}, refused : BOOLEAN]

USE ContenderAssumption

LEMMA ElectionBegins == ElectionInit => ElectionInv
  <1> SUFFICES ASSUME ElectionInit PROVE ElectionInv
    OBVIOUS
  <1>1. NewContender \in ContenderRecord
    BY DEF NewContender, ContenderRecord, ElectionPcs
  <1>2. ElectionTypeOK
    BY <1>1 DEF ElectionInit, ElectionTypeOK, ContenderRecord, Marks, Mishaps
  <1>3. \A c \in Contenders : /\ elect[c].at = "new" /\ elect[c].names = {} /\ mark[c] = "none"
    BY DEF ElectionInit, NewContender
  <1>4. MarksFit /\ FilesFit /\ PastIsYieldedTo
    BY <1>3 DEF MarksFit, FilesFit, PastIsYieldedTo, Past, Contends, Pending, Away
  <1> QED
    BY <1>2, <1>4 DEF ElectionInv

\* A contender moves on.
LEMMA Turned ==
  ASSUME elect \in [Contenders -> ContenderRecord], NEW c \in Contenders, NEW to \in ElectionPcs,
         Turns(c, to)
  PROVE  /\ elect' \in [Contenders -> ContenderRecord]
         /\ elect'[c].at = to /\ elect'[c].names = elect[c].names
         /\ elect'[c].file = elect[c].file /\ elect'[c].refused = elect[c].refused
         /\ \A d \in Contenders \ {c} : elect'[d] = elect[d]
  <1> DEFINE x == [elect[c] EXCEPT !.at = to]
  <1>1. /\ x \in ContenderRecord /\ x.at = to /\ x.names = elect[c].names
        /\ x.file = elect[c].file /\ x.refused = elect[c].refused
    BY DEF ContenderRecord
  <1>2. elect' = [elect EXCEPT ![c] = x]
    BY DEF Turns
  <1> HIDE DEF x
  <1> QED
    BY <1>1, <1>2

\* Two contenders are not concerned by the step of a third.
LEMMA Bystanders ==
  ASSUME PastIsYieldedTo, "slow" \notin mishaps, NEW c \in Contenders, NEW d \in Contenders, c # d,
         elect'[c] = elect[c], elect'[d] = elect[d], c \in waiting[d] => c \in waiting'[d],
         Past(c, d)'
  PROVE  Yields(d, c)'
  <1>1. Past(c, d)
    BY DEF Past, Contends
  <1>2. Yields(d, c)
    BY <1>1 DEF PastIsYieldedTo
  <1> QED
    BY <1>2 DEF Yields, Contends

\* The parts of a step by e: what it does to e's standing towards the others, and to theirs
\* towards e.
LEMMA StepByOne ==
  ASSUME PastIsYieldedTo, NEW e \in Contenders, mishaps \subseteq mishaps',
         \A d \in Contenders \ {e} : elect'[d] = elect[d],
         \A c, d \in Contenders : c # e /\ d # e /\ c \in waiting[d] => c \in waiting'[d],
         "slow" \notin mishaps' =>
            \A d \in Contenders \ {e} :
                (Past(e, d)' => Yields(d, e)') /\ (Past(d, e)' => Yields(e, d)')
  PROVE  PastIsYieldedTo'
  <1> SUFFICES ASSUME "slow" \notin mishaps', NEW c \in Contenders, NEW d \in Contenders, c # d,
                      Past(c, d)'
               PROVE  Yields(d, c)'
    BY DEF PastIsYieldedTo
  <1>1. CASE c = e
    BY <1>1 DEF Past, Yields, Contends
  <1>2. CASE d = e
    BY <1>2 DEF Past, Yields, Contends
  <1>3. CASE c # e /\ d # e
    <2>1. "slow" \notin mishaps
      OBVIOUS
    <2> QED
      BY <1>3, <2>1, Bystanders DEF Past, Yields, Contends
  <1> QED
    BY <1>1, <1>2, <1>3

\* A contender that lists the directory, or looks at a file or reads it.
LEMMA Relisted ==
  ASSUME NEW y \in ContenderRecord, NEW to \in ElectionPcs, NEW n \in SUBSET Contenders
  PROVE  [y EXCEPT !.at = to, !.names = n] \in ContenderRecord
  BY DEF ContenderRecord

LEMMA LookedAt ==
  ASSUME NEW y \in ContenderRecord, NEW to \in ElectionPcs, NEW n \in SUBSET Contenders,
         NEW f \in Contenders \cup {NoFile}
  PROVE  [y EXCEPT !.names = n, !.file = f, !.at = to] \in ContenderRecord
  BY DEF ContenderRecord

LEMMA ElectionSteps == ElectionInv /\ [ElectionNext]_electionvars => ElectionInv'
  <1> SUFFICES ASSUME ElectionInv, [ElectionNext]_electionvars PROVE ElectionInv'
    OBVIOUS
  <1>t. /\ mark \in [Contenders -> Marks] /\ elect \in [Contenders -> ContenderRecord]
        /\ waiting \in [Contenders -> SUBSET Contenders] /\ mishaps \subseteq Mishaps
    BY DEF ElectionInv, ElectionTypeOK, ContenderRecord
  <1>1. ASSUME NEW e \in Contenders, CreatesMark(e) PROVE ElectionInv'
    <2>1. /\ elect' \in [Contenders -> ContenderRecord]
          /\ elect[e].at = "new" /\ elect'[e].at = "created" /\ elect'[e].names = elect[e].names
          /\ \A d \in Contenders \ {e} : elect'[d] = elect[d]
      BY <1>t, <1>1, Turned DEF CreatesMark, Contends, ElectionPcs
    <2>2. /\ mark' \in [Contenders -> Marks] /\ mark'[e] = "empty"
          /\ \A d \in Contenders \ {e} : mark'[d] = mark[d]
          /\ waiting' = waiting /\ mishaps' = mishaps
      BY <1>t, <1>1 DEF CreatesMark, Marks
    <2>3. ElectionTypeOK' /\ MarksFit' /\ FilesFit'
      BY <1>t, <2>1, <2>2
      DEF ElectionInv, ElectionTypeOK, MarksFit, FilesFit, Contends, ContenderRecord, Pending, Away
    <2>4. ASSUME NEW d \in Contenders \ {e}
          PROVE  (Past(e, d)' => Yields(d, e)') /\ (Past(d, e)' => Yields(e, d)')
      BY <2>1 DEF Past, Yields, Contends
    <2>5. PastIsYieldedTo'
      BY <2>1, <2>2, <2>4, StepByOne DEF ElectionInv
    <2> QED
      BY <2>3, <2>5 DEF ElectionInv
  <1>2. ASSUME NEW e \in Contenders, WritesPending(e) PROVE ElectionInv'
    <2>1. /\ elect' \in [Contenders -> ContenderRecord]
          /\ elect[e].at = "created" /\ elect'[e].at = "window" /\ elect'[e].names = elect[e].names
          /\ \A d \in Contenders \ {e} : elect'[d] = elect[d]
      BY <1>t, <1>2, Turned DEF WritesPending, Contends, ElectionPcs
    <2>2. /\ mark' \in [Contenders -> Marks] /\ mark'[e] = "pending"
          /\ \A d \in Contenders \ {e} : mark'[d] = mark[d] /\ waiting'[d] = waiting[d]
          /\ waiting'[e] = {d \in Contenders : Undecided(d)}
          /\ waiting' \in [Contenders -> SUBSET Contenders] /\ mishaps' = mishaps
      BY <1>t, <1>2 DEF WritesPending, Marks
    <2>3. ElectionTypeOK' /\ MarksFit' /\ FilesFit'
      BY <1>t, <2>1, <2>2
      DEF ElectionInv, ElectionTypeOK, MarksFit, FilesFit, Contends, ContenderRecord, Pending, Away
    <2>4. PastIsYieldedTo'
      BY <2>1, <2>2 DEF ElectionInv, PastIsYieldedTo, Past, Yields, Contends, Undecided, Beaten
    <2> QED
      BY <2>3, <2>4 DEF ElectionInv
  <1>3. ASSUME NEW e \in Contenders, ListsDirectory(e) PROVE ElectionInv'
    <2> DEFINE n == {d \in Contenders \ {e} : mark[d] # "none"}
               x == [elect[e] EXCEPT !.at = "looking", !.names = n]
    <2>8. n \in SUBSET Contenders /\ (\A d \in n : mark[d] # "none" /\ d # e)
          /\ \A d \in Contenders \ {e} : mark[d] # "none" => d \in n
      OBVIOUS
    <2>1. /\ elect[e].at = "window" /\ elect' = [elect EXCEPT ![e] = x]
          /\ mark' = mark /\ waiting' = [waiting EXCEPT ![e] = {}]
          /\ mishaps \subseteq mishaps' /\ mishaps' \subseteq Mishaps
          /\ "slow" \notin mishaps' => "slow" \notin mishaps /\ waiting[e] = {}
      BY <1>t, <1>3 DEF ListsDirectory, Contends, Mishaps
    <2> HIDE DEF n
    <2>0. /\ x \in ContenderRecord /\ x.at = "looking" /\ x.names = n
          /\ x.refused = elect[e].refused
      <3>1. elect[e] \in ContenderRecord /\ "looking" \in ElectionPcs
        BY <1>t DEF ElectionPcs
      <3>2. n \in SUBSET Contenders
        BY <2>8
      <3> QED
        <4> DEFINE y == elect[e]
        <4>1. y \in ContenderRecord
          BY <3>1
        <4> HIDE DEF y
        <4>2. [y EXCEPT !.at = "looking", !.names = n] \in ContenderRecord
          BY <3>1, <3>2, <4>1, Relisted
        <4>3. /\ [y EXCEPT !.at = "looking", !.names = n].at = "looking"
              /\ [y EXCEPT !.at = "looking", !.names = n].names = n
              /\ [y EXCEPT !.at = "looking", !.names = n].refused = y.refused
          BY <4>1 DEF ContenderRecord
        <4> QED
          BY <4>2, <4>3 DEF y
    <2> HIDE DEF x
    <2>2. /\ elect' \in [Contenders -> ContenderRecord] /\ elect'[e] = x
          /\ \A d \in Contenders \ {e} : elect'[d] = elect[d] /\ waiting'[d] = waiting[d]
          /\ waiting' \in [Contenders -> SUBSET Contenders]
      BY <1>t, <2>0, <2>1
    <2>3. ElectionTypeOK'
      BY <1>t, <2>1, <2>2 DEF ElectionTypeOK, ContenderRecord
    <2>9. MarksFit'
      BY <2>0, <2>1, <2>2 DEF ElectionInv, MarksFit, Contends, Pending, Away
    <2>10. FilesFit'
      <3>1. elect'[e].names \subseteq Contenders \ {e} /\ elect'[e].at = "looking"
        BY <2>0, <2>2, <2>8
      <3> QED
        BY <2>2, <3>1 DEF ElectionInv, FilesFit, Contends
    <2>4. MarksFit' /\ FilesFit'
      BY <2>9, <2>10
    <2>5. ASSUME NEW d \in Contenders \ {e}, "slow" \notin mishaps', Past(e, d)'
          PROVE  Yields(d, e)'
      <3>1. mark[d] = "none"
        BY <2>0, <2>2, <2>5, <2>8 DEF Past, Contends
      <3>2. elect[d].at \in Away \cup {"killed"}
        BY <1>t, <3>1 DEF ElectionInv, MarksFit, Contends, Pending, ContenderRecord, ElectionPcs, Away
      <3> QED
        BY <2>2, <3>2 DEF Yields, Away, Beaten
    <2>6. ASSUME NEW d \in Contenders \ {e}, "slow" \notin mishaps', Past(d, e)'
          PROVE  Yields(e, d)'
      <3>1. Past(d, e)
        BY <2>2, <2>6 DEF Past, Contends
      <3>2. d < e \/ Contends(d, "owner")
        BY <2>1, <2>6, <3>1 DEF ElectionInv, PastIsYieldedTo, Yields, Contends, Beaten
      <3>3. mark[d] # "none"
        BY <3>1 DEF ElectionInv, MarksFit, Past, Contends, Pending
      <3> QED
        BY <2>0, <2>2, <2>8, <3>2, <3>3 DEF Yields, Contends
    <2>7. PastIsYieldedTo'
      BY <2>1, <2>2, <2>5, <2>6, StepByOne DEF ElectionInv
    <2> QED
      BY <2>3, <2>4, <2>7 DEF ElectionInv
  <1>4. ASSUME NEW e \in Contenders, NEW f \in Contenders, LooksAt(e, f) PROVE ElectionInv'
    <2> DEFINE n == elect[e].names \ {f}
               g == IF mark[f] = "none" THEN NoFile ELSE f
               a == IF mark[f] = "none" THEN "looking" ELSE "reading"
               x == [elect[e] EXCEPT !.names = n, !.file = g, !.at = a]
    <2>8. n \in SUBSET Contenders /\ g \in Contenders \cup {NoFile} /\ a \in ElectionPcs
      BY <1>t DEF ContenderRecord, ElectionPcs
    <2>9. elect' = [elect EXCEPT ![e] = x]
      BY <1>t, <1>4 DEF LooksAt, ContenderRecord
    <2> HIDE DEF n, g, a
    <2>10. /\ x \in ContenderRecord /\ x.names = n /\ x.refused = elect[e].refused
           /\ x.file = g /\ x.at = a
      <3>1. elect[e] \in ContenderRecord
        BY <1>t
      <3> QED
        <4> DEFINE y == elect[e]
        <4>1. y \in ContenderRecord
          BY <3>1
        <4> HIDE DEF y
        <4>2. [y EXCEPT !.names = n, !.file = g, !.at = a] \in ContenderRecord
          BY <2>8, <4>1, LookedAt
        <4>3. /\ [y EXCEPT !.names = n, !.file = g, !.at = a].at = a
              /\ [y EXCEPT !.names = n, !.file = g, !.at = a].names = n
              /\ [y EXCEPT !.names = n, !.file = g, !.at = a].file = g
              /\ [y EXCEPT !.names = n, !.file = g, !.at = a].refused = y.refused
          BY <4>1 DEF ContenderRecord
        <4> QED
          BY <4>2, <4>3 DEF y
    <2> HIDE DEF x
    <2>0. /\ x \in ContenderRecord /\ x.names = elect[e].names \ {f} /\ x.refused = elect[e].refused
          /\ x.file = IF mark[f] = "none" THEN NoFile ELSE f
          /\ x.at = IF mark[f] = "none" THEN "looking" ELSE "reading"
      BY <2>10 DEF n, g, a
    <2>1. /\ elect[e].at = "looking" /\ f \in elect[e].names /\ elect' = [elect EXCEPT ![e] = x]
          /\ UNCHANGED <<mark, waiting, mishaps>>
      BY <1>4, <2>9 DEF LooksAt, Contends
    <2>2. /\ elect' \in [Contenders -> ContenderRecord] /\ elect'[e] = x
          /\ \A d \in Contenders \ {e} : elect'[d] = elect[d]
      BY <1>t, <2>0, <2>1
    <2>3. ElectionTypeOK'
      BY <1>t, <2>1, <2>2 DEF ElectionTypeOK, ContenderRecord
    <2>4. MarksFit' /\ FilesFit'
      <3>1. \A d \in Contenders \ {e} : elect'[d] = elect[d] /\ mark'[d] = mark[d]
        BY <2>1, <2>2
      <3>2. MarksFit'
        <4>1. x.at \in {"looking", "reading"} /\ mark'[e] = mark[e]
          BY <2>0, <2>1
        <4> QED
          BY <2>1, <2>2, <3>1, <4>1 DEF ElectionInv, MarksFit, Contends, Pending, Away
      <3>3. \A d \in Contenders : elect[d].names \subseteq Contenders \ {d}
        BY DEF ElectionInv, FilesFit
      <3>4. /\ x.names \subseteq Contenders \ {e} /\ f \in Contenders \ {e}
            /\ x.at = "reading" => x.file = f
        BY <2>0, <2>1, <3>3
      <3>5. FilesFit'
        BY <2>2, <3>1, <3>4 DEF ElectionInv, FilesFit, Contends
      <3> QED
        BY <3>2, <3>5
    <2>5. ASSUME NEW d \in Contenders \ {e}, "slow" \notin mishaps', Past(e, d)'
          PROVE  Yields(d, e)'
      <3>1. CASE Past(e, d)
        BY <2>1, <2>2, <2>5, <3>1 DEF ElectionInv, PastIsYieldedTo, Yields, Contends, Past
      <3>2. CASE ~Past(e, d)
        <4>1. d = f /\ mark[d] = "none"
          BY <2>0, <2>1, <2>2, <2>5, <3>2 DEF Past, Contends
        <4>2. elect[d].at \in Away \cup {"killed"}
          BY <1>t, <4>1 DEF ElectionInv, MarksFit, Contends, Pending, ContenderRecord, ElectionPcs, Away
        <4> QED
          BY <2>2, <4>2 DEF Yields, Away, Beaten
      <3> QED
        BY <3>1, <3>2
    <2>6. ASSUME NEW d \in Contenders \ {e}, "slow" \notin mishaps', Past(d, e)'
          PROVE  Yields(e, d)'
      <3>1. Past(d, e)
        BY <2>2, <2>6 DEF Past, Contends
      <3>2. elect[e].refused \/ (d \in elect[e].names /\ (d < e \/ Contends(d, "owner")))
        BY <2>1, <2>6, <3>1 DEF ElectionInv, PastIsYieldedTo, Yields, Contends, Beaten
      <3>3. mark[d] # "none"
        BY <3>1 DEF ElectionInv, MarksFit, Past, Contends, Pending
      <3> QED
        BY <2>0, <2>2, <3>2, <3>3 DEF Yields, Contends
    <2>7. PastIsYieldedTo'
      BY <2>1, <2>2, <2>5, <2>6, StepByOne DEF ElectionInv
    <2> QED
      BY <2>3, <2>4, <2>7 DEF ElectionInv
  <1>5. ASSUME NEW e \in Contenders, ReadsMark(e) PROVE ElectionInv'
    <2> DEFINE y == elect[e]
               f == y.file
               r == y.refused \/ Refuses(e, f)
               x == [y EXCEPT !.at = "looking", !.file = NoFile, !.refused = r]
    <2>1. y \in ContenderRecord /\ y.at = "reading" /\ f \in Contenders \ {e} /\ r \in BOOLEAN
      BY <1>t, <1>5 DEF ReadsMark, Contends, ElectionInv, FilesFit, ContenderRecord
    <2>2. elect' = [elect EXCEPT ![e] = x]
      BY <1>5 DEF ReadsMark
    <2>3. /\ mark' = IF OwnerIsAlive(f) THEN mark ELSE [mark EXCEPT ![f] = "none"]
          /\ mishaps \subseteq mishaps' /\ mishaps' \subseteq Mishaps /\ waiting' = waiting
      BY <1>t, <1>5 DEF ReadsMark, Mishaps
    <2>4. \A d \in Contenders :
             \/ mark'[d] = mark[d]
             \/ /\ mark'[d] = "none" /\ d # e
                /\ elect[d].at \in {"new", "gone", "killed"}
      <3> HIDE DEF f
      <3>1. CASE OwnerIsAlive(f)
        BY <2>3, <3>1
      <3>2. CASE ~OwnerIsAlive(f)
        <4>1. /\ mark' = [mark EXCEPT ![f] = "none"] /\ f \in Contenders \ {e}
              /\ elect[f].at \in {"new", "gone", "killed"}
          BY <2>1, <2>3, <3>2 DEF OwnerIsAlive
        <4> QED
          BY <1>t, <4>1
      <3> QED
        BY <3>1, <3>2
    <2>5. mark' \in [Contenders -> Marks]
      BY <1>t, <2>3 DEF Marks
    <2> HIDE DEF y, f, r
    <2>6. /\ x.at = "looking" /\ x.names = y.names /\ x.refused = r
      BY <2>1 DEF ContenderRecord
    <2>7. x \in ContenderRecord
      BY <2>1 DEF ContenderRecord, ElectionPcs
    <2> HIDE DEF x
    <2>8. /\ elect' \in [Contenders -> ContenderRecord] /\ elect'[e] = x
          /\ \A d \in Contenders \ {e} : elect'[d] = elect[d]
      BY <1>t, <2>2, <2>7
    <2>9. ElectionTypeOK'
      BY <1>t, <2>3, <2>5, <2>8 DEF ElectionTypeOK, ContenderRecord
    <2>10. MarksFit'
      BY <2>1, <2>4, <2>6, <2>8 DEF ElectionInv, MarksFit, Contends, Pending, Away, y
    <2>11. FilesFit'
      BY <2>6, <2>8 DEF ElectionInv, FilesFit, Contends, y
    <2>12. ASSUME NEW d \in Contenders \ {e}, "slow" \notin mishaps', Past(e, d)'
           PROVE  Yields(d, e)'
      <3>0. "slow" \notin mishaps /\ e \in Nat /\ d \in Nat
        BY <2>3, <2>12
      <3>1. ~y.refused /\ ~Refuses(e, f) /\ d \notin y.names
        BY <2>6, <2>8, <2>12 DEF Past, Contends, r
      <3>2. CASE d # f
        <4>1. Past(e, d)
          BY <2>1, <3>1, <3>2 DEF Past, Contends, y, f
        <4>2. Yields(d, e)
          BY <3>0, <4>1 DEF ElectionInv, PastIsYieldedTo
        <4> QED
          BY <2>1, <2>3, <2>8, <4>2 DEF Yields, Contends, y
      <3>3. CASE d = f /\ ~OwnerIsAlive(d)
        BY <2>8, <3>3 DEF Yields, OwnerIsAlive, Beaten
      <3>4. CASE d = f /\ OwnerIsAlive(d)
        <4>1. mark[d] = "pending" /\ e < d
          BY <3>0, <3>1, <3>4 DEF Refuses
        <4>2. elect[d].at \in Pending
          BY <1>t, <3>4, <4>1 DEF ElectionInv, MarksFit, Contends, Pending, Away, OwnerIsAlive,
                                  ContenderRecord, ElectionPcs
        <4>3. ~Past(d, e)
          <5> SUFFICES ASSUME Past(d, e) PROVE FALSE
            OBVIOUS
          <5>1. Yields(e, d)
            BY <3>0 DEF ElectionInv, PastIsYieldedTo
          <5>2. d < e \/ Contends(d, "owner")
            BY <2>1, <3>1, <5>1 DEF Yields, Contends, Beaten, y
          <5> QED
            BY <3>0, <4>1, <4>2, <5>2 DEF Contends, Pending
        <4> QED
          BY <2>8, <4>1, <4>2, <4>3 DEF Past, Yields, Contends, Pending, Beaten
      <3> QED
        BY <3>2, <3>3, <3>4
    <2>13. ASSUME NEW d \in Contenders \ {e}, "slow" \notin mishaps', Past(d, e)'
           PROVE  Yields(e, d)'
      <3>1. Past(d, e)
        BY <2>8, <2>13 DEF Past, Contends
      <3>2. Yields(e, d)
        BY <2>3, <2>13, <3>1 DEF ElectionInv, PastIsYieldedTo
      <3>3. CASE f # d \/ y.refused
        BY <2>1, <2>6, <2>8, <3>2, <3>3 DEF Yields, Contends, Beaten, y, f, r
      <3>4. CASE f = d /\ ~y.refused
        <4>1. d < e \/ Contends(d, "owner")
          BY <2>1, <3>2, <3>4 DEF Yields, Contends, Beaten, y
        <4>2. OwnerIsAlive(d)
          BY <3>1 DEF Past, OwnerIsAlive
        <4>3. Contends(d, "owner") => mark[d] = "owned"
          BY DEF ElectionInv, MarksFit
        <4>4. r
          BY <3>4, <4>1, <4>2, <4>3 DEF r, Refuses
        <4> QED
          BY <2>6, <2>8, <4>4 DEF Yields
      <3> QED
        BY <3>3, <3>4
    <2>14. PastIsYieldedTo'
      BY <2>3, <2>8, <2>12, <2>13, StepByOne DEF ElectionInv
    <2> QED
      BY <2>9, <2>10, <2>11, <2>14 DEF ElectionInv
  <1>6. ASSUME NEW e \in Contenders, ReachesVerdict(e) PROVE ElectionInv'
    <2> DEFINE to == IF elect[e].refused THEN "withdrawing" ELSE "claiming"
    <2>1. /\ elect[e].at = "looking" /\ elect[e].names = {} /\ Turns(e, to)
          /\ UNCHANGED <<mark, waiting, mishaps>>
      BY <1>6 DEF ReachesVerdict, Contends
    <2>2. to \in ElectionPcs
      BY DEF ElectionPcs
    <2>3. /\ elect' \in [Contenders -> ContenderRecord]
          /\ elect'[e].at = to /\ elect'[e].names = elect[e].names
          /\ elect'[e].refused = elect[e].refused
          /\ \A d \in Contenders \ {e} : elect'[d] = elect[d]
      BY <1>t, <2>1, <2>2, Turned
    <2>4. ElectionTypeOK' /\ MarksFit' /\ FilesFit'
      BY <1>t, <2>1, <2>3
      DEF ElectionInv, ElectionTypeOK, MarksFit, FilesFit, Contends, ContenderRecord, Pending, Away
    <2>5. ASSUME NEW d \in Contenders \ {e}, "slow" \notin mishaps', Past(e, d)'
          PROVE  Yields(d, e)'
      <3>1. Past(e, d)
        BY <2>1, <2>3, <2>5 DEF Past, Contends
      <3>2. Yields(d, e)
        BY <2>1, <2>5, <3>1 DEF ElectionInv, PastIsYieldedTo
      <3> QED
        BY <2>1, <2>3, <3>2 DEF Yields, Contends
    <2>6. ASSUME NEW d \in Contenders \ {e}, "slow" \notin mishaps', Past(d, e)'
          PROVE  Yields(e, d)'
      <3>1. Past(d, e)
        BY <2>3, <2>6 DEF Past, Contends
      <3>2. Yields(e, d)
        BY <2>1, <2>6, <3>1 DEF ElectionInv, PastIsYieldedTo
      <3>3. elect[e].refused
        BY <2>1, <3>2 DEF Yields, Contends, Beaten
      <3> QED
        BY <2>3, <3>3 DEF Yields, Beaten
    <2>7. PastIsYieldedTo'
      BY <2>1, <2>3, <2>5, <2>6, StepByOne DEF ElectionInv
    <2> QED
      BY <2>4, <2>7 DEF ElectionInv
  <1>7. ASSUME NEW e \in Contenders, ClaimsTarget(e) PROVE ElectionInv'
    <2>1. elect[e].at = "claiming" /\ Turns(e, "owner") /\ mishaps' = mishaps
      BY <1>7 DEF ClaimsTarget, Contends
    <2>2. /\ elect' \in [Contenders -> ContenderRecord]
          /\ elect'[e].at = "owner" /\ elect'[e].names = elect[e].names
          /\ \A d \in Contenders \ {e} : elect'[d] = elect[d]
      BY <1>t, <2>1, Turned DEF ElectionPcs
    <2>3. /\ mark' \in [Contenders -> Marks] /\ mark'[e] = "owned"
          /\ \A d \in Contenders \ {e} : mark'[d] = mark[d]
          /\ \A d \in Contenders : waiting'[d] = waiting[d] \ {e}
          /\ waiting' \in [Contenders -> SUBSET Contenders]
      BY <1>t, <1>7 DEF ClaimsTarget, VerdictIsKnown, Marks
    <2>4. ElectionTypeOK' /\ MarksFit' /\ FilesFit'
      BY <1>t, <2>1, <2>2, <2>3
      DEF ElectionInv, ElectionTypeOK, MarksFit, FilesFit, Contends, ContenderRecord, Pending, Away
    <2>5. ASSUME NEW d \in Contenders \ {e}, "slow" \notin mishaps'
          PROVE  Yields(d, e)' /\ ~Past(d, e)'
      <3>1. Past(e, d)
        BY <2>1 DEF Past
      <3>2. Yields(d, e)
        BY <2>1, <2>5, <3>1 DEF ElectionInv, PastIsYieldedTo
      <3>3. ~Yields(e, d)
        BY <2>1 DEF Yields, Contends, Beaten
      <3>4. ~Past(d, e)
        BY <2>1, <2>5, <3>3 DEF ElectionInv, PastIsYieldedTo
      <3> QED
        BY <2>2, <3>2, <3>4 DEF Yields, Past, Contends
    <2>6. PastIsYieldedTo'
      BY <2>1, <2>2, <2>3, <2>5, StepByOne DEF ElectionInv
    <2> QED
      BY <2>4, <2>6 DEF ElectionInv
  <1>8. ASSUME NEW e \in Contenders,
               \/ DecisionFails(e) \/ Withdraws(e) \/ ReleasesTarget(e) \/ ContenderExits(e)
               \/ ContenderKilled(e)
        PROVE  ElectionInv'
    <2>1. /\ elect' \in [Contenders -> ContenderRecord]
          /\ elect'[e].at \in Beaten /\ elect'[e].names \subseteq elect[e].names
          /\ \A d \in Contenders \ {e} : elect'[d] = elect[d]
      <3>1. CASE \E to \in Beaten : Turns(e, to)
        BY <1>t, <3>1, Turned DEF Beaten, ElectionPcs
      <3>2. CASE ContenderKilled(e)
        <4> DEFINE x == [NewContender EXCEPT !.at = "killed"]
        <4>1. x \in ContenderRecord /\ x.at = "killed" /\ x.names = {}
          BY DEF NewContender, ContenderRecord, ElectionPcs
        <4>2. elect' = [elect EXCEPT ![e] = x]
          BY <3>2 DEF ContenderKilled
        <4> HIDE DEF x
        <4> QED
          BY <1>t, <4>1, <4>2 DEF Beaten
      <3> QED
        BY <1>8, <3>1, <3>2 DEF DecisionFails, Withdraws, ReleasesTarget, ContenderExits, Beaten
    <2>2. /\ mark' \in [Contenders -> Marks] /\ waiting' \in [Contenders -> SUBSET Contenders]
          /\ mishaps \subseteq mishaps' /\ mishaps' \subseteq Mishaps
          /\ \A d \in Contenders \ {e} : mark'[d] = mark[d]
          /\ \A c, d \in Contenders : c # e /\ c \in waiting[d] => c \in waiting'[d]
      BY <1>t, <1>8 DEF DecisionFails, Withdraws, ReleasesTarget, ContenderExits, ContenderKilled,
                        VerdictIsKnown, Marks, Mishaps
    <2>3. /\ elect'[e].at = "withdrawing" => mark'[e] = "pending"
          /\ elect'[e].at \in Away => mark'[e] = "none"
      <3>1. CASE DecisionFails(e)
        BY <1>t, <3>1, Turned DEF DecisionFails, ElectionInv, MarksFit, Pending, Away, ElectionPcs
      <3>2. CASE Withdraws(e) \/ ReleasesTarget(e)
        BY <1>t, <3>2, Turned DEF Withdraws, ReleasesTarget, ElectionPcs
      <3>3. CASE ContenderExits(e)
        BY <1>t, <3>3, Turned DEF ContenderExits, ElectionInv, MarksFit, Away, ElectionPcs
      <3>4. CASE ContenderKilled(e)
        BY <1>t, <3>4 DEF ContenderKilled, NewContender, Away
      <3> QED
        BY <1>8, <3>1, <3>2, <3>3, <3>4
    <2>4. ElectionTypeOK'
      BY <2>1, <2>2 DEF ElectionTypeOK, ContenderRecord
    <2>5. MarksFit' /\ FilesFit'
      BY <2>1, <2>2, <2>3 DEF ElectionInv, MarksFit, FilesFit, Contends, Pending, Away, Beaten
    <2>6. ASSUME NEW d \in Contenders \ {e} PROVE Yields(e, d)' /\ ~Past(e, d)'
      BY <2>1 DEF Yields, Past, Beaten
    <2>7. PastIsYieldedTo'
      BY <2>1, <2>2, <2>6, StepByOne DEF ElectionInv
    <2> QED
      BY <2>4, <2>5, <2>7 DEF ElectionInv
  <1>9. CASE UNCHANGED electionvars
    BY <1>9 DEF electionvars, ElectionInv, ElectionTypeOK, MarksFit, FilesFit, PastIsYieldedTo,
                Past, Yields, Contends
  <1> QED
    BY <1>1, <1>2, <1>3, <1>4, <1>5, <1>6, <1>7, <1>8, <1>9 DEF ElectionNext, ContenderStep

LEMMA ElectionInvariant == ElectionSpec => []ElectionInv
  BY ElectionBegins, ElectionSteps, PTL DEF ElectionSpec

\* "Only one local cf-inspector process may actively debug a given target at a time"
\* (README.md:20), for any number of processes that start, list, read, withdraw and are killed
\* in any order, unless one was slower than the whole window of a later one.
THEOREM TargetHasOneDebugger == ElectionSpec => []OneDebugger
  <1>1. ElectionInv => OneDebugger
    <2> SUFFICES ASSUME ElectionInv, "slow" \notin mishaps, NEW c \in Contenders,
                        NEW d \in Contenders, Contends(c, "owner"), Contends(d, "owner"), c # d
                 PROVE  FALSE
      BY DEF OneDebugger
    <2>1. Past(c, d)
      BY DEF Past, Contends
    <2>2. Yields(d, c)
      BY <2>1 DEF ElectionInv, PastIsYieldedTo
    <2> QED
      BY <2>2 DEF Yields, Contends, Beaten
  <1> QED
    BY <1>1, ElectionInvariant, PTL

----------------------------------------------------------------------------
(***************************************************************************)
(* An election of two.                                                     *)
(***************************************************************************)
\* Only a contender that looks at the files of others is refused, by one of them; and
\* without a mishap only such a one withdraws.
RefusalsFit ==
    \A c \in Contenders :
        /\ elect[c].refused =>
              /\ elect[c].at \in {"looking", "reading", "withdrawing", "withdrawn", "gone"}
              /\ \E d \in Contenders \ {c} : elect[d].at # "new"
        /\ mishaps = {} /\ elect[c].at \in {"withdrawing", "withdrawn", "gone"} =>
              elect[c].refused

Left(c) == elect[c].at \in {"withdrawn", "gone"}
OnlyTwo(c, d) == \A e \in Contenders \ {c, d} : elect[e].at = "new"

\* d cannot lose any more: it owns the target or will, having listed the directory after c
\* had left, or it has still to wait for c.
CannotLose(d, c) ==
    \/ elect[d].at \in {"created", "claiming", "owner", "released", "killed"}
    \/ Contends(d, "window") /\ (c \in waiting[d] \/ Left(c))
    \/ Contends(d, "looking") /\ ~elect[d].refused /\ elect[d].names = {} /\ Left(c)

\* Of two the one that comes first by its token is only refused by one that cannot lose.
FirstLosesToWinner ==
    mishaps = {} =>
        \A c, d \in Contenders :
            c < d /\ OnlyTwo(c, d) /\ elect[c].refused => CannotLose(d, c)

\* Those that have come, of however many may come.
Came == {c \in Contenders : ~Contends(c, "new")}

DuelInv == ElectionInv /\ RefusalsFit /\ FirstLosesToWinner /\ IsFiniteSet(Came)

\* One contender moves, and is heard of from then on.
LEMMA OneMoves ==
  ASSUME ElectionInv, NEW e \in Contenders, ContenderStep(e)
  PROVE  /\ \A d \in Contenders \ {e} : elect'[d] = elect[d]
         /\ elect'[e].at # "new" /\ elect' \in [Contenders -> ContenderRecord]
         /\ mishaps \subseteq mishaps'
         /\ \A c, d \in Contenders : c # e /\ d # e /\ c \in waiting[d] => c \in waiting'[d]
  <1>t. /\ mark \in [Contenders -> Marks] /\ elect \in [Contenders -> ContenderRecord]
        /\ waiting \in [Contenders -> SUBSET Contenders]
    BY DEF ElectionInv, ElectionTypeOK, ContenderRecord
  <1>1. /\ \A d \in Contenders \ {e} : elect'[d] = elect[d]
        /\ mishaps \subseteq mishaps'
        /\ \A c, d \in Contenders : c # e /\ d # e /\ c \in waiting[d] => c \in waiting'[d]
    BY <1>t DEF ContenderStep, CreatesMark, WritesPending, ListsDirectory, LooksAt, ReadsMark,
                ReachesVerdict, ClaimsTarget, DecisionFails, Withdraws, ReleasesTarget,
                ContenderExits, ContenderKilled, VerdictIsKnown, Turns
  <1>2. elect'[e].at # "new"
    <2>1. CASE \E to \in ElectionPcs \ {"new"} : Turns(e, to)
      BY <1>t, <2>1, Turned
    <2>2. CASE ListsDirectory(e)
      BY <1>t, <2>2 DEF ListsDirectory, ContenderRecord
    <2>3. CASE \E d \in Contenders : LooksAt(e, d)
      BY <1>t, <2>3 DEF LooksAt, ContenderRecord
    <2>4. CASE ReadsMark(e)
      BY <1>t, <2>4 DEF ReadsMark, ContenderRecord
    <2>5. CASE ContenderKilled(e)
      BY <1>t, <2>5 DEF ContenderKilled, NewContender
    <2> QED
      BY <2>1, <2>2, <2>3, <2>4, <2>5
      DEF ContenderStep, CreatesMark, WritesPending, ReachesVerdict, ClaimsTarget, DecisionFails,
          Withdraws, ReleasesTarget, ContenderExits, ElectionPcs
  <1>3. elect' \in [Contenders -> ContenderRecord]
    BY ElectionSteps DEF ElectionInv, ElectionTypeOK, ContenderRecord, ElectionNext
  <1> QED
    BY <1>1, <1>2, <1>3

\* What the step makes of the contender's verdict.
LEMMA VerdictOfStep ==
  ASSUME ElectionInv, RefusalsFit, NEW e \in Contenders, ContenderStep(e)
  PROVE  /\ elect'[e].refused =>
              /\ elect'[e].at \in {"looking", "reading", "withdrawing", "withdrawn", "gone"}
              /\ elect[e].refused \/ (ReadsMark(e) /\ Refuses(e, elect[e].file))
         /\ mishaps' = {} /\ elect'[e].at \in {"withdrawing", "withdrawn", "gone"} =>
              elect'[e].refused
  <1>t. elect \in [Contenders -> ContenderRecord]
    BY DEF ElectionInv, ElectionTypeOK, ContenderRecord
  <1>0. mishaps' = {} => mishaps = {}
    BY OneMoves
  <1>r. /\ elect[e].refused =>
             elect[e].at \in {"looking", "reading", "withdrawing", "withdrawn", "gone"}
        /\ mishaps = {} /\ elect[e].at \in {"withdrawing", "withdrawn", "gone"} =>
             elect[e].refused
    BY DEF RefusalsFit
  <1>1. CASE CreatesMark(e) \/ WritesPending(e) \/ ReachesVerdict(e) \/ ClaimsTarget(e)
               \/ DecisionFails(e) \/ Withdraws(e) \/ ReleasesTarget(e) \/ ContenderExits(e)
    <2>1. PICK to \in ElectionPcs : Turns(e, to)
      BY <1>1 DEF CreatesMark, WritesPending, ReachesVerdict, ClaimsTarget, DecisionFails,
                  Withdraws, ReleasesTarget, ContenderExits, ElectionPcs
    <2>2. elect'[e].at = to /\ elect'[e].refused = elect[e].refused
      BY <1>t, <2>1, Turned
    <2>3. CASE CreatesMark(e) \/ WritesPending(e) \/ ClaimsTarget(e) \/ ReleasesTarget(e)
      <3>1. ~elect[e].refused
        BY <1>r, <2>3 DEF CreatesMark, WritesPending, ClaimsTarget, ReleasesTarget, Contends
      <3>2. elect'[e].at \in {"created", "window", "owner", "released"}
        BY <1>t, <2>3, Turned
           DEF CreatesMark, WritesPending, ClaimsTarget, ReleasesTarget, ElectionPcs
      <3> QED
        BY <2>2, <3>1, <3>2
    <2>4. CASE DecisionFails(e)
      <3>1. mishaps' # {} /\ ~elect[e].refused
        BY <1>r, <2>4 DEF DecisionFails
      <3> QED
        BY <2>2, <3>1
    <2>5. CASE Withdraws(e) \/ ContenderExits(e)
      <3>1. /\ elect[e].at \in {"withdrawing", "withdrawn"}
            /\ elect'[e].at \in {"withdrawn", "gone"}
        BY <1>t, <2>5, Turned DEF Withdraws, ContenderExits, Contends, ElectionPcs
      <3> QED
        BY <1>0, <1>r, <2>2, <3>1
    <2>6. CASE ReachesVerdict(e)
      <3>1. elect'[e].at = IF elect[e].refused THEN "withdrawing" ELSE "claiming"
        BY <1>t, <2>6, Turned DEF ReachesVerdict, ElectionPcs
      <3> QED
        BY <2>2, <3>1
    <2> QED
      BY <1>1, <2>3, <2>4, <2>5, <2>6
  <1>2. CASE ListsDirectory(e)
    <2>1. ~elect[e].refused
      BY <1>r, <1>2 DEF ListsDirectory, Contends
    <2>2. elect'[e].at = "looking" /\ elect'[e].refused = elect[e].refused
      BY <1>t, <1>2 DEF ListsDirectory, ContenderRecord
    <2> QED
      BY <2>1, <2>2
  <1>3. CASE \E d \in Contenders : LooksAt(e, d)
    <2>1. elect'[e].at \in {"looking", "reading"} /\ elect'[e].refused = elect[e].refused
      BY <1>t, <1>3 DEF LooksAt, ContenderRecord
    <2> QED
      BY <2>1
  <1>4. CASE ReadsMark(e)
    <2>1. /\ elect'[e].at = "looking"
          /\ elect'[e].refused = (elect[e].refused \/ Refuses(e, elect[e].file))
      BY <1>t, <1>4 DEF ReadsMark, ContenderRecord
    <2> QED
      BY <1>4, <2>1
  <1>5. CASE ContenderKilled(e)
    <2>1. elect'[e].at = "killed" /\ elect'[e].refused = FALSE
      BY <1>t, <1>5 DEF ContenderKilled, NewContender
    <2> QED
      BY <2>1
  <1> QED
    BY <1>1, <1>2, <1>3, <1>4, <1>5 DEF ContenderStep

LEMMA RefusalsStayFit ==
  ASSUME ElectionInv, RefusalsFit, NEW e \in Contenders, ContenderStep(e)
  PROVE  RefusalsFit'
  <1>1. /\ \A d \in Contenders \ {e} : elect'[d] = elect[d]
        /\ elect'[e].at # "new" /\ (mishaps' = {} => mishaps = {})
    BY OneMoves
  <1>2. \A d \in Contenders : elect[d].at # "new" => elect'[d].at # "new"
    BY <1>1
  <1>3. ASSUME NEW c \in Contenders \ {e}
        PROVE  /\ elect'[c].refused =>
                    /\ elect'[c].at \in {"looking", "reading", "withdrawing", "withdrawn", "gone"}
                    /\ \E d \in Contenders \ {c} : elect'[d].at # "new"
               /\ mishaps' = {} /\ elect'[c].at \in {"withdrawing", "withdrawn", "gone"} =>
                    elect'[c].refused
    BY <1>1, <1>2 DEF RefusalsFit
  <1>4. elect'[e].refused => \E d \in Contenders \ {e} : elect'[d].at # "new"
    <2>1. CASE elect[e].refused
      BY <1>2, <2>1 DEF RefusalsFit
    <2>2. CASE ReadsMark(e) /\ Refuses(e, elect[e].file)
      <3>1. elect[e].file \in Contenders \ {e}
        BY <2>2 DEF ReadsMark, ElectionInv, FilesFit
      <3>2. elect[elect[e].file].at # "new"
        BY <2>2 DEF Refuses, OwnerIsAlive
      <3> QED
        BY <1>2, <3>1, <3>2
    <2> QED
      BY <2>1, <2>2, VerdictOfStep
  <1> QED
    BY <1>3, <1>4, VerdictOfStep DEF RefusalsFit

\* The one that cannot lose moves.
LEMMA WinnerMoves ==
  ASSUME ElectionInv, RefusalsFit, NEW c \in Contenders, NEW d \in Contenders, c # d,
         OnlyTwo(c, d), elect[c].refused, CannotLose(d, c), mishaps = {}, mishaps' = {},
         ContenderStep(d)
  PROVE  CannotLose(d, c)'
  <1>t. /\ mark \in [Contenders -> Marks] /\ elect \in [Contenders -> ContenderRecord]
        /\ waiting \in [Contenders -> SUBSET Contenders]
    BY DEF ElectionInv, ElectionTypeOK, ContenderRecord
  <1>1. elect'[c] = elect[c]
    BY OneMoves
  <1>2. /\ elect[c].at \in {"looking", "reading", "withdrawing", "withdrawn", "gone"}
        /\ elect[d].refused =>
             elect[d].at \in {"looking", "reading", "withdrawing", "withdrawn", "gone"}
    BY DEF RefusalsFit
  <1>3. CASE WritesPending(d)
    <2>1. elect'[d].at = "window" /\ waiting'[d] = {x \in Contenders : Undecided(x)}
      BY <1>t, <1>3, Turned DEF WritesPending, ElectionPcs
    <2> QED
      BY <1>1, <1>2, <2>1 DEF CannotLose, Contends, Left, Undecided
  <1>4. CASE ListsDirectory(d)
    <2>1. /\ elect[d].at = "window" /\ elect'[d].at = "looking"
          /\ elect'[d].names = {x \in Contenders \ {d} : mark[x] # "none"}
          /\ elect'[d].refused = elect[d].refused
      BY <1>t, <1>4 DEF ListsDirectory, ContenderRecord, Contends
    <2>2. waiting[d] = {}
      BY <1>4 DEF ListsDirectory
    <2>3. Left(c) /\ ~elect[d].refused
      BY <1>2, <2>1, <2>2 DEF CannotLose, Contends
    <2>4. \A x \in Contenders \ {d} : mark[x] = "none"
      BY <2>3 DEF ElectionInv, MarksFit, OnlyTwo, Left, Away
    <2> QED
      BY <1>1, <2>1, <2>3, <2>4 DEF CannotLose, Contends, Left
  <1>5. CASE ReachesVerdict(d)
    <2>1. elect[d].at = "looking" /\ ~elect[d].refused
      BY <1>5 DEF ReachesVerdict, CannotLose, Contends
    <2>2. elect'[d].at = "claiming"
      BY <1>t, <1>5, <2>1, Turned DEF ReachesVerdict, ElectionPcs
    <2> QED
      BY <2>2 DEF CannotLose
  <1>6. CASE ClaimsTarget(d) \/ ReleasesTarget(d)
    <2>1. elect'[d].at \in {"owner", "released"}
      BY <1>t, <1>6, Turned DEF ClaimsTarget, ReleasesTarget, ElectionPcs
    <2> QED
      BY <2>1 DEF CannotLose
  <1>7. CASE ContenderKilled(d)
    <2>1. elect'[d].at = "killed"
      BY <1>t, <1>7 DEF ContenderKilled, NewContender
    <2> QED
      BY <2>1 DEF CannotLose
  <1>8. ~DecisionFails(d)
    BY DEF DecisionFails
  <1>9. /\ ~CreatesMark(d) /\ ~ReadsMark(d) /\ ~Withdraws(d) /\ ~ContenderExits(d)
        /\ \A x \in Contenders : ~LooksAt(d, x)
    BY DEF CreatesMark, ReadsMark, Withdraws, ContenderExits, LooksAt, CannotLose, Contends
  <1> QED
    BY <1>3, <1>4, <1>5, <1>6, <1>7, <1>8, <1>9 DEF ContenderStep

\* The one that is refused moves.
LEMMA LoserMoves ==
  ASSUME ElectionInv, RefusalsFit, NEW c \in Contenders, NEW d \in Contenders, c < d,
         OnlyTwo(c, d), elect'[c].refused, mishaps = {}, mishaps' = {}, ContenderStep(c),
         elect[c].refused => CannotLose(d, c)
  PROVE  CannotLose(d, c)'
  <1>0. c # d /\ c \in Nat /\ d \in Nat
    OBVIOUS
  <1>t. /\ mark \in [Contenders -> Marks] /\ elect \in [Contenders -> ContenderRecord]
        /\ waiting \in [Contenders -> SUBSET Contenders]
    BY DEF ElectionInv, ElectionTypeOK, ContenderRecord
  <1>1. elect'[d] = elect[d]
    BY <1>0, OneMoves
  <1>2. CASE elect[c].refused
    <2>1. CannotLose(d, c)
      BY <1>2
    <2>2. Left(c) => Left(c)'
      <3>1. ASSUME Left(c) PROVE ContenderExits(c)
        BY <3>1 DEF ContenderStep, CreatesMark, WritesPending, ListsDirectory, LooksAt,
              ReadsMark, ReachesVerdict, ClaimsTarget, DecisionFails, Withdraws,
              ReleasesTarget, ContenderExits, ContenderKilled, Left, Contends
      <3> QED
        BY <1>t, <3>1, Turned DEF ContenderExits, Left, ElectionPcs
    <2>3. c \in waiting[d] => c \in waiting'[d] \/ Left(c)'
      <3>1. CASE Withdraws(c)
        BY <1>t, <3>1, Turned DEF Withdraws, Left, ElectionPcs
      <3>2. CASE ClaimsTarget(c) \/ ContenderKilled(c)
        <4>1. ~elect'[c].refused
          BY <1>t, <3>2, VerdictOfStep, Turned
             DEF ClaimsTarget, ContenderKilled, NewContender, ElectionPcs
        <4> QED
          BY <4>1
      <3>3. CASE ~Withdraws(c) /\ ~ClaimsTarget(c) /\ ~ContenderKilled(c)
        BY <1>0, <1>t, <3>3 DEF ContenderStep, CreatesMark, WritesPending, ListsDirectory,
              LooksAt, ReadsMark, ReachesVerdict, DecisionFails, ReleasesTarget, ContenderExits
      <3> QED
        BY <3>1, <3>2, <3>3
    <2> QED
      BY <1>1, <2>1, <2>2, <2>3 DEF CannotLose, Contends
  <1>3. CASE ~elect[c].refused
    <2>1. ReadsMark(c) /\ Refuses(c, elect[c].file)
      BY <1>3, VerdictOfStep
    <2>2. elect[c].file = d
      BY <2>1 DEF ReadsMark, ElectionInv, FilesFit, Refuses, OwnerIsAlive, OnlyTwo
    <2>3. OwnerIsAlive(d) /\ mark[d] # "pending" /\ mark[d] # "none"
      BY <1>0, <2>1, <2>2 DEF Refuses, ReadsMark
    <2>4. elect[d].at \in {"created", "owner"}
      BY <1>t, <2>3 DEF ElectionInv, MarksFit, OwnerIsAlive, Pending, Away, ContenderRecord,
                        ElectionPcs
    <2> QED
      BY <1>1, <2>4 DEF CannotLose
  <1> QED
    BY <1>2, <1>3

LEMMA DuelSteps == DuelInv /\ [ElectionNext]_electionvars => DuelInv'
  <1> SUFFICES ASSUME DuelInv, [ElectionNext]_electionvars PROVE DuelInv'
    OBVIOUS
  <1>1. ElectionInv'
    BY ElectionSteps DEF DuelInv
  <1>2. CASE UNCHANGED electionvars
    <2>1. RefusalsFit' /\ FirstLosesToWinner'
      BY <1>2 DEF electionvars, DuelInv, RefusalsFit, FirstLosesToWinner, CannotLose, OnlyTwo,
                  Left, Contends
    <2>2. Came' = Came
      BY <1>2 DEF electionvars, Came, Contends
    <2> QED
      BY <1>1, <2>1, <2>2 DEF DuelInv
  <1>3. ASSUME NEW e \in Contenders, ContenderStep(e) PROVE DuelInv'
    <2>0. ElectionInv /\ RefusalsFit /\ FirstLosesToWinner
      BY DEF DuelInv
    <2>1. /\ \A d \in Contenders \ {e} : elect'[d] = elect[d]
          /\ elect'[e].at # "new" /\ (mishaps' = {} => mishaps = {})
          /\ \A c, d \in Contenders : c # e /\ d # e /\ c \in waiting[d] => c \in waiting'[d]
      BY <1>3, <2>0, OneMoves
    <2>2. RefusalsFit'
      BY <1>3, <2>0, RefusalsStayFit
    <2>3. ASSUME mishaps' = {}, NEW c \in Contenders, NEW d \in Contenders, c < d,
                 OnlyTwo(c, d)', elect'[c].refused
          PROVE  CannotLose(d, c)'
      <3>1. /\ c # d /\ mishaps = {} /\ e \in {c, d}
            /\ elect[c].refused /\ OnlyTwo(c, d) => CannotLose(d, c)
        BY <2>0, <2>1, <2>3 DEF OnlyTwo, FirstLosesToWinner
      <3>2. OnlyTwo(c, d)
        BY <2>1, <2>3, <3>1 DEF OnlyTwo
      <3>3. CASE e = c
        BY <1>3, <2>0, <2>3, <3>1, <3>2, <3>3, LoserMoves
      <3>4. CASE e = d
        <4>1. elect[c].refused
          BY <2>1, <2>3, <3>1, <3>4
        <4> QED
          BY <1>3, <2>0, <2>3, <3>1, <3>2, <3>4, <4>1, WinnerMoves
      <3> QED
        BY <3>1, <3>3, <3>4
    <2>4. FirstLosesToWinner'
      BY <2>3 DEF FirstLosesToWinner
    <2>5. IsFiniteSet(Came')
      <3>1. Came' = Came \cup {e}
        BY <2>1 DEF Came, Contends
      <3> QED
        BY <3>1, FS_AddElement DEF DuelInv
    <2> QED
      BY <1>1, <2>2, <2>4, <2>5 DEF DuelInv
  <1> QED
    BY <1>2, <1>3 DEF ElectionNext

\* An election of two is not lost by both, for any number of processes that may come: when
\* both have been heard, and none was killed and nothing of Mishaps happened, one of them got
\* the target.
THEOREM TwoElectOne == ElectionSpec => []SomeoneOfTwoWins
  <1>1. ElectionInit => DuelInv
    <2> SUFFICES ASSUME ElectionInit
                 PROVE  RefusalsFit /\ FirstLosesToWinner /\ IsFiniteSet(Came)
      BY ElectionBegins DEF DuelInv
    <2>1. \A c \in Contenders : elect[c].at = "new" /\ ~elect[c].refused
      BY DEF ElectionInit, NewContender
    <2>2. Came = {}
      BY <2>1 DEF Came, Contends
    <2> QED
      BY <2>1, <2>2, FS_EmptySet DEF RefusalsFit, FirstLosesToWinner
  <1>2. DuelInv => SomeoneOfTwoWins
    <2>0. \A c \in Contenders : c \notin Came <=> elect[c].at = "new"
      BY DEF Came, Contends
    <2> SUFFICES ASSUME DuelInv, mishaps = {}, Cardinality(Came) \in {1, 2},
                        \A c \in Came : elect[c].at \in {"withdrawn", "gone"}
                 PROVE  FALSE
      BY DEF SomeoneOfTwoWins, Contends, Came
    <2>1. Came \subseteq Contenders /\ \A c \in Came : elect[c].refused
      BY DEF DuelInv, RefusalsFit, Came
    <2>2. \A c \in Came : \E d \in Came : d # c
      BY <2>0, <2>1 DEF DuelInv, RefusalsFit
    <2>3. IsFiniteSet(Came) /\ Came # {} /\ Cardinality(Came) # 1
      BY <2>2, FS_EmptySet, FS_Singleton DEF DuelInv
    <2>4. PICK c \in Came, d \in Came : c < d /\ Came = {c, d}
      <3>1. PICK a \in Came, b \in Came : a # b
        BY <2>2, <2>3
      <3>2. Cardinality(Came \ {a}) = 1 /\ IsFiniteSet(Came \ {a})
        BY <2>3, <3>1, FS_RemoveElement
      <3>3. Came \ {a} = {b}
        BY <3>1, <3>2, FS_Singleton
      <3>4. Came = {a, b} /\ (a < b \/ b < a)
        BY <2>1, <3>1, <3>3
      <3> QED
        BY <3>4
    <2>5. CannotLose(d, c)
      BY <2>0, <2>1, <2>4 DEF DuelInv, FirstLosesToWinner, OnlyTwo
    <2> QED
      BY <2>5 DEF CannotLose, Contends
  <1> QED
    BY <1>1, <1>2, DuelSteps, PTL DEF ElectionSpec

(***************************************************************************)
(* The tunnels of cf-hana.                                                 *)
(***************************************************************************)
ClientRecord == [at : ClientPcs, try : 1..MaxCandidates, seen : Entries, loop : BOOLEAN]

\* Places inside the candidate loop; with a tunnel of the current candidate; before it.
LoopPcs == {"claim", "examine", "takeover", "reclaim", "waiting"} \cup EstablishingPcs
SpawnedPcs == {"connecting", "publishing", "publishingError", "discarding"}
UnspawnedPcs == {"new", "reaping", "cached", "refreshing", "evicting", "reusing", "direct",
                 "claim", "examine", "takeover", "reclaim", "waiting", "spawning", "givingUp"}
Unspawned(d) == d.at \in UnspawnedPcs \/ (d.at = "ending" /\ ~d.loop)

\* What is true of a client c in the state d while the tunnels are as s says.
Sound(c, d, s) ==
    /\ d.at \in LoopPcs => d.loop
    /\ d.at = "takeover" => d.seen.status = "establishing"
    /\ d.at = "reaping" /\ d.seen.status = "ready" => s[d.seen.by] = "down"
    /\ d.at \in SpawnedPcs => s[<<c, d.try>>] # "none"
    /\ \A k \in 1..MaxCandidates :
           k > d.try \/ (k = d.try /\ Unspawned(d)) => s[<<c, k>>] = "none"

ClientsSound == \A c \in Clients : Sound(c, client[c], ssh)

\* The cache file is the marker of whoever establishes.
MarkerIsEstablishers ==
    slips = {} => \A c \in Clients : Establishes(c) => entry = OwnMarker(c)

\* A ready record is of a tunnel that was spawned.
RecordIsOfTunnel == entry.status = "ready" => ssh[entry.by] # "none"

TunnelInv == /\ TunnelTypeOK /\ ClientsSound /\ MarkerIsEstablishers /\ RecordIsOfTunnel
             /\ RunningTunnelIsListed

USE ClientAssumption, CandidateAssumption

LEMMA EntryCases ==
  ASSUME NEW e \in Entries
  PROVE  /\ e = NoEntry \/ (e.status \in {"establishing", "ready"} /\ e.by \in SshTunnels)
         /\ NoEntry.status = "none"
         /\ e.status = "ready" => e.by \in SshTunnels /\ e = [status |-> "ready", by |-> e.by]
  BY DEF Entries, NoEntry

LEMMA MarkerType ==
  ASSUME NEW c \in Clients, NEW k \in 1..MaxCandidates, NEW s \in {"establishing", "ready"}
  PROVE  /\ <<c, k>> \in SshTunnels
         /\ [status |-> s, by |-> <<c, k>>] \in Entries
  BY DEF SshTunnels, Entries

LEMMA TunnelBegins == TunnelInit => TunnelInv
  <1> SUFFICES ASSUME TunnelInit PROVE TunnelInv
    OBVIOUS
  <1>1. /\ entry = NoEntry /\ NoEntry.status = "none" /\ NoEntry \in Entries
        /\ \A t \in SshTunnels : ssh[t] = "none"
        /\ \A c \in Clients : client[c] = [at |-> "new", try |-> 1, seen |-> NoEntry, loop |-> FALSE]
        /\ client \in [Clients -> ClientRecord]
    BY DEF TunnelInit, NoEntry, Entries, ClientRecord, ClientPcs
  <1>2. TunnelTypeOK
    BY <1>1 DEF TunnelInit, TunnelTypeOK, ClientRecord
  <1>3. ClientsSound
    <2> SUFFICES ASSUME NEW c \in Clients PROVE Sound(c, client[c], ssh)
      BY DEF ClientsSound
    <2>1. client[c].at = "new" /\ client[c].seen = NoEntry
      BY <1>1
    <2>2. \A k \in 1..MaxCandidates : ssh[<<c, k>>] = "none"
      BY <1>1, MarkerType
    <2> QED
      BY <2>1, <2>2 DEF Sound, LoopPcs, EstablishingPcs, SpawnedPcs
  <1>4. MarkerIsEstablishers /\ RecordIsOfTunnel /\ RunningTunnelIsListed
    BY <1>1 DEF MarkerIsEstablishers, RecordIsOfTunnel, RunningTunnelIsListed, Establishes,
                EstablishingPcs, Alive
  <1> QED
    BY <1>2, <1>3, <1>4 DEF TunnelInv

\* What a client believes stays true while tunnels only end.
LEMMA SoundWhileTunnelsEnd ==
  ASSUME NEW c \in Clients, NEW d \in ClientRecord, NEW s, NEW u, Sound(c, d, s),
         \A t \in SshTunnels : u[t] = s[t] \/ (s[t] = "up" /\ u[t] = "down")
  PROVE  Sound(c, d, u)
  <1>1. d.seen.status = "ready" => d.seen.by \in SshTunnels
    BY EntryCases DEF ClientRecord
  <1>2. d.try \in 1..MaxCandidates
    BY DEF ClientRecord
  <1> QED
    BY <1>1, <1>2, MarkerType DEF Sound

(***************************************************************************)
(* A step of one client that starts no tunnel: what it must leave behind.  *)
(***************************************************************************)
LEMMA ClientMoves ==
  ASSUME TunnelInv, NEW c \in Clients, NEW d \in ClientRecord,
         client' = [client EXCEPT ![c] = d],
         entry' \in Entries, ssh' \in [SshTunnels -> {"none", "up", "down"}],
         abandoned' \subseteq SshTunnels, slips' \subseteq Slips,
         slips \subseteq slips', abandoned \subseteq abandoned',
         \A t \in SshTunnels : ssh'[t] = ssh[t] \/ (ssh[t] = "up" /\ ssh'[t] = "down"),
         Sound(c, d, ssh'),
         entry'.status = "ready" => entry' = entry \/ ssh'[entry'.by] # "none",
         slips' = {} => \A e \in Clients \ {c} : Establishes(e) => entry' = entry,
         slips' = {} /\ d.at \in EstablishingPcs
           => entry' = [status |-> "establishing", by |-> <<c, d.try>>],
         slips' = {} /\ entry.status = "ready" /\ entry' # entry /\ ssh'[entry.by] = "up"
           => entry.by \in abandoned' \/ (d.at = "ending" /\ d.seen.by = entry.by),
         \A t \in SshTunnels : slips' = {} /\ InHand(c, t) /\ ssh'[t] = "up"
           => \/ t \in abandoned' \/ entry' = [status |-> "ready", by |-> t]
              \/ d.at \in EstablishingPcs /\ t = <<c, d.try>>
              \/ d.at = "ending" /\ t = d.seen.by
  PROVE  TunnelInv'
  <1>t. /\ entry \in Entries /\ ssh \in [SshTunnels -> {"none", "up", "down"}]
        /\ client \in [Clients -> ClientRecord]
    BY DEF TunnelInv, TunnelTypeOK, ClientRecord
  <1>c. client'[c] = d /\ \A e \in Clients \ {c} : client'[e] = client[e]
    BY <1>t
  <1>1. TunnelTypeOK'
    BY <1>t DEF TunnelTypeOK, ClientRecord
  <1>2. ClientsSound'
    <2>1. ASSUME NEW e \in Clients \ {c} PROVE Sound(e, client[e], ssh')
      <3>1. Sound(e, client[e], ssh) /\ client[e] \in ClientRecord
        BY <1>t DEF TunnelInv, ClientsSound
      <3> QED
        BY <3>1, SoundWhileTunnelsEnd
    <2> QED
      BY <1>c, <2>1 DEF ClientsSound
  <1>3. MarkerIsEstablishers'
    <2> SUFFICES ASSUME slips' = {}, NEW e \in Clients, client'[e].at \in EstablishingPcs
                 PROVE  entry' = [status |-> "establishing", by |-> <<e, client'[e].try>>]
      BY DEF MarkerIsEstablishers, Establishes, OwnMarker, Own
    <2>1. CASE e = c
      BY <1>c, <2>1
    <2>2. CASE e # c
      BY <1>c, <2>2 DEF TunnelInv, MarkerIsEstablishers, Establishes, OwnMarker, Own
    <2> QED
      BY <2>1, <2>2
  <1>4. RecordIsOfTunnel'
    BY <1>t, EntryCases DEF TunnelInv, RecordIsOfTunnel
  <1>5. RunningTunnelIsListed'
    <2> SUFFICES ASSUME slips' = {}, NEW t \in SshTunnels, ssh'[t] = "up"
                 PROVE  \/ t \in abandoned' \/ entry' = [status |-> "ready", by |-> t]
                        \/ \E e \in Clients :
                              \/ client'[e].at \in EstablishingPcs /\ t = <<e, client'[e].try>>
                              \/ client'[e].at = "ending" /\ t = client'[e].seen.by
      BY DEF RunningTunnelIsListed, Alive, InHand, Establishes, Own, ClientAt
    <2>1. \/ t \in abandoned \/ entry = [status |-> "ready", by |-> t]
          \/ \E e \in Clients : InHand(e, t)
      BY DEF TunnelInv, RunningTunnelIsListed, Alive
    <2>2. CASE t \in abandoned
      BY <2>2
    <2>3. CASE entry = [status |-> "ready", by |-> t]
      BY <1>c, <2>3
    <2>4. CASE \E e \in Clients : InHand(e, t)
      <3>1. PICK e \in Clients : InHand(e, t)
        BY <2>4
      <3>2. CASE e = c
        BY <1>c, <3>1, <3>2
      <3>3. CASE e # c
        BY <1>c, <3>1, <3>3 DEF InHand, Establishes, Own, ClientAt
      <3> QED
        BY <3>2, <3>3
    <2> QED
      BY <2>1, <2>2, <2>3, <2>4
  <1> QED
    BY <1>1, <1>2, <1>3, <1>4, <1>5 DEF TunnelInv

\* A removal or a write that did not slip hit what was meant, and no other client is
\* establishing.
LEMMA HitsWhatWasMeant ==
  ASSUME TunnelInv, NEW c \in Clients, NEW meant, Hits(c, meant)
  PROVE  /\ slips \subseteq slips' /\ slips' \subseteq Slips
         /\ slips' = {} => /\ entry \in {NoEntry, meant}
                          /\ \A e \in Clients \ {c} : ~Establishes(e)
  <1>1. slips \subseteq Slips
    BY DEF TunnelInv, TunnelTypeOK
  <1>2. slips \subseteq slips' /\ slips' \subseteq Slips
    BY <1>1 DEF Hits, Slips
  <1>3. ASSUME slips' = {} PROVE entry \in {NoEntry, meant}
    BY <1>3 DEF Hits
  <1>4. ASSUME slips' = {}, NEW e \in Clients \ {c}, Establishes(e) PROVE FALSE
    <2>1. slips = {}
      BY <1>2, <1>4
    <2>2. entry = [status |-> "establishing", by |-> <<e, client[e].try>>]
      BY <1>4, <2>1 DEF TunnelInv, MarkerIsEstablishers, OwnMarker, Own
    <2>3. entry.by # Own(c) /\ OwnerOf(entry) = e
      BY <2>2 DEF Own, OwnerOf
    <2>4. entry.status = "establishing" /\ ~StaleMarker(entry)
      BY <1>4, <2>2, <2>3 DEF StaleMarker
    <2> QED
      BY <1>4, <2>3, <2>4 DEF Hits
  <1> QED
    BY <1>2, <1>3, <1>4

\* Another candidate has no tunnel yet.
LEMMA NextIsSound ==
  ASSUME TunnelInv, NEW c \in Clients, client[c].loop, NextCandidate(c), NEW u,
         \A t \in SshTunnels : u[t] = ssh[t] \/ (ssh[t] = "up" /\ u[t] = "down")
  PROVE  \E d \in ClientRecord : /\ client' = [client EXCEPT ![c] = d]
                                 /\ d.at \in {"claim", "failed"} /\ Sound(c, d, u)
  <1> DEFINE x == client[c]
             d == IF x.try < MaxCandidates THEN [x EXCEPT !.at = "claim", !.try = x.try + 1]
                  ELSE [x EXCEPT !.at = "failed"]
  <1>1. x \in ClientRecord /\ Sound(c, x, ssh)
    BY DEF TunnelInv, TunnelTypeOK, ClientRecord, ClientsSound
  <1>3. x.try \in 1..MaxCandidates /\ x.loop
    BY <1>1 DEF ClientRecord
  <1>2. client' = [client EXCEPT ![c] = d]
    <2>1. CASE x.try < MaxCandidates
      <3>1. client' = [client EXCEPT ![c].at = "claim", ![c].try = client[c].try + 1]
        BY <1>1, <2>1 DEF NextCandidate, TunnelInv, TunnelTypeOK, ClientRecord
      <3> QED
        BY <2>1, <3>1
    <2>2. CASE ~(x.try < MaxCandidates)
      BY <2>2 DEF NextCandidate, Advances
    <2> QED
      BY <2>1, <2>2
  <1>4. CASE x.try < MaxCandidates
    <2>0. d = [x EXCEPT !.at = "claim", !.try = x.try + 1]
      BY <1>4
    <2>3. x.try + 1 \in 1..MaxCandidates
      BY <1>3, <1>4
    <2>4. /\ d.at = "claim" /\ d.try = x.try + 1 /\ d.loop
      BY <1>1, <1>3, <2>0 DEF ClientRecord
    <2>5. d \in ClientRecord
      BY <1>1, <2>0, <2>3 DEF ClientRecord, ClientPcs
    <2>1. /\ d \in ClientRecord /\ d.at = "claim" /\ d.try = x.try + 1 /\ d.loop
      BY <2>4, <2>5
    <2> HIDE DEF d
    <2>2. Sound(c, d, ssh)
      <3>1. \A k \in 1..MaxCandidates : k >= d.try => ssh[<<c, k>>] = "none"
        BY <1>1, <1>3, <2>1 DEF Sound
      <3> QED
        BY <1>3, <2>1, <2>3, <3>1 DEF Sound, SpawnedPcs
    <2> QED
      BY <1>2, <2>1, <2>2, SoundWhileTunnelsEnd
  <1>5. CASE ~(x.try < MaxCandidates)
    <2>1. /\ d \in ClientRecord /\ d.at = "failed" /\ d.try = x.try
      BY <1>1, <1>3, <1>5 DEF ClientRecord, ClientPcs
    <2>2. Sound(c, d, ssh)
      BY <1>1, <2>1 DEF Sound, LoopPcs, EstablishingPcs, SpawnedPcs, Unspawned, UnspawnedPcs
    <2> HIDE DEF d
    <2> QED
      BY <1>2, <2>1, <2>2, SoundWhileTunnelsEnd
  <1> QED
    BY <1>4, <1>5

\* A client that neither establishes nor kills a tunnel goes on, without a change to what
\* is shared.
LEMMA QuietMoves ==
  ASSUME TunnelInv, NEW c \in Clients, NEW d \in ClientRecord,
         client' = [client EXCEPT ![c] = d], UNCHANGED <<entry, ssh, abandoned, slips>>,
         client[c].at \notin EstablishingPcs \cup {"ending"}, d.at \notin EstablishingPcs,
         Sound(c, d, ssh)
  PROVE  TunnelInv'
  <1>t. /\ entry \in Entries /\ ssh \in [SshTunnels -> {"none", "up", "down"}]
        /\ abandoned \subseteq SshTunnels /\ slips \subseteq Slips
    BY DEF TunnelInv, TunnelTypeOK
  <1>1. \A t \in SshTunnels : ~InHand(c, t)
    BY DEF InHand, Establishes, ClientAt
  <1> QED
    BY <1>t, <1>1, ClientMoves

\* A client that establishes goes on with its tunnel, without a change to what is shared.
LEMMA EstablisherMoves ==
  ASSUME TunnelInv, NEW c \in Clients, NEW to \in EstablishingPcs, Establishes(c),
         Advances(c, to), UNCHANGED <<entry, ssh, abandoned, slips>>,
         to \in SpawnedPcs => client[c].at \in SpawnedPcs,
         to \in UnspawnedPcs => client[c].at \in UnspawnedPcs
  PROVE  TunnelInv'
  <1> DEFINE d == [client[c] EXCEPT !.at = to]
  <1>t. /\ entry \in Entries /\ ssh \in [SshTunnels -> {"none", "up", "down"}]
        /\ abandoned \subseteq SshTunnels /\ slips \subseteq Slips
        /\ client[c] \in ClientRecord /\ Sound(c, client[c], ssh)
    BY DEF TunnelInv, TunnelTypeOK, ClientRecord, ClientsSound
  <1>1. /\ d \in ClientRecord /\ d.at = to /\ d.try = client[c].try /\ d.loop = client[c].loop
    BY <1>t DEF ClientRecord, ClientPcs
  <1>2. client' = [client EXCEPT ![c] = d]
    BY DEF Advances
  <1>3. Sound(c, d, ssh)
    BY <1>t, <1>1 DEF Sound, LoopPcs, EstablishingPcs, Unspawned, Establishes
  <1>4. slips = {} => entry = [status |-> "establishing", by |-> <<c, d.try>>]
    BY <1>1 DEF TunnelInv, MarkerIsEstablishers, OwnMarker, Own
  <1>5. \A t \in SshTunnels : InHand(c, t) => t = <<c, d.try>>
    BY <1>1 DEF InHand, Establishes, EstablishingPcs, ClientAt, Own
  <1> HIDE DEF d
  <1> QED
    BY <1>t, <1>1, <1>2, <1>3, <1>4, <1>5, ClientMoves

\* A client removes the entry, and what it removed leads to no tunnel that is still needed.
LEMMA RemovalMoves ==
  ASSUME TunnelInv, NEW c \in Clients, NEW d \in ClientRecord, NEW meant,
         client' = [client EXCEPT ![c] = d], RemovesEntry(c, meant), ssh' = ssh,
         abandoned \subseteq abandoned', abandoned' \subseteq SshTunnels,
         d.at \notin EstablishingPcs, Sound(c, d, ssh),
         slips' = {} /\ entry.status = "ready" /\ entry = meant /\ ssh[entry.by] = "up"
           => entry.by \in abandoned' \/ (d.at = "ending" /\ d.seen.by = entry.by),
         \A t \in SshTunnels : InHand(c, t) /\ ssh[t] = "up" => d.at = "ending" /\ t = d.seen.by
  PROVE  TunnelInv'
  <1>t. ssh \in [SshTunnels -> {"none", "up", "down"}]
    BY DEF TunnelInv, TunnelTypeOK
  <1>1. entry' = NoEntry /\ NoEntry.status = "none" /\ NoEntry \in Entries
    BY DEF RemovesEntry, NoEntry, Entries
  <1>2. /\ slips \subseteq slips' /\ slips' \subseteq Slips
        /\ slips' = {} => /\ entry \in {NoEntry, meant}
                          /\ \A e \in Clients \ {c} : ~Establishes(e)
    BY HitsWhatWasMeant DEF RemovesEntry
  <1> QED
    BY <1>t, <1>1, <1>2, ClientMoves

(***************************************************************************)
(* The actions.                                                            *)
(***************************************************************************)
LEMMA Advanced ==
  ASSUME NEW x \in ClientRecord, NEW to \in ClientPcs
  PROVE  LET d == [x EXCEPT !.at = to]
         IN  d \in ClientRecord /\ d.at = to /\ d.try = x.try /\ d.seen = x.seen /\ d.loop = x.loop
  BY DEF ClientRecord

LEMMA QuietAdvance ==
  ASSUME TunnelInv, NEW c \in Clients,
         NEW to \in ClientPcs \ (EstablishingPcs \cup {"takeover", "reaping", "ending"}),
         Advances(c, to), UNCHANGED <<entry, ssh, abandoned, slips>>,
         client[c].at \notin EstablishingPcs \cup {"ending"},
         to \in LoopPcs => client[c].at \in LoopPcs,
         to \in UnspawnedPcs => client[c].at \in UnspawnedPcs
  PROVE  TunnelInv'
  <1> DEFINE d == [client[c] EXCEPT !.at = to]
  <1>t. client[c] \in ClientRecord /\ Sound(c, client[c], ssh)
    BY DEF TunnelInv, TunnelTypeOK, ClientRecord, ClientsSound
  <1>1. d \in ClientRecord /\ d.at = to /\ d.try = client[c].try /\ d.loop = client[c].loop
    BY <1>t, Advanced
  <1>2. client' = [client EXCEPT ![c] = d]
    BY DEF Advances
  <1>3. Sound(c, d, ssh)
    BY <1>t, <1>1 DEF Sound, SpawnedPcs, EstablishingPcs, Unspawned
  <1> HIDE DEF d
  <1> QED
    BY <1>1, <1>2, <1>3, QuietMoves

LEMMA QuietRead ==
  ASSUME TunnelInv, NEW c \in Clients,
         NEW to \in {"refreshing", "evicting", "reusing", "reclaim", "takeover", "waiting"},
         ReadsEntry(c, to), UNCHANGED <<entry, ssh, abandoned, slips>>,
         client[c].at \in UnspawnedPcs \ EstablishingPcs,
         to \in LoopPcs => client[c].at \in LoopPcs,
         to = "takeover" => entry.status = "establishing"
  PROVE  TunnelInv'
  <1> DEFINE d == [client[c] EXCEPT !.at = to, !.seen = entry]
  <1>t. client[c] \in ClientRecord /\ Sound(c, client[c], ssh) /\ entry \in Entries
    BY DEF TunnelInv, TunnelTypeOK, ClientRecord, ClientsSound
  <1>0. to \in ClientPcs
    BY DEF ClientPcs
  <1>1. /\ d \in ClientRecord /\ d.at = to /\ d.try = client[c].try /\ d.seen = entry
        /\ d.loop = client[c].loop
    BY <1>t, <1>0 DEF ClientRecord
  <1>2. client' = [client EXCEPT ![c] = d]
    BY DEF ReadsEntry
  <1>3. Sound(c, d, ssh)
    BY <1>t, <1>1 DEF Sound, SpawnedPcs, Unspawned
  <1> HIDE DEF d
  <1>4. client[c].at # "ending" /\ d.at \notin EstablishingPcs
    BY <1>1 DEF UnspawnedPcs, EstablishingPcs
  <1> QED
    BY <1>1, <1>2, <1>3, <1>4, QuietMoves

LEMMA LoopSteps ==
  ASSUME TunnelInv, NEW c \in Clients, EndsWait(c) \/ TriesDirect(c)
  PROVE  TunnelInv'
  <1>t. client[c] \in ClientRecord /\ Sound(c, client[c], ssh) /\ entry \in Entries
    BY DEF TunnelInv, TunnelTypeOK, ClientRecord, ClientsSound
  <1>u. UNCHANGED <<entry, ssh, abandoned, slips>>
    BY DEF EndsWait, TriesDirect
  <1>1. CASE EndsWait(c) /\ entry.status = "ready"
    BY <1>1, <1>u, QuietRead DEF EndsWait, ClientAt, UnspawnedPcs, EstablishingPcs, LoopPcs
  <1>2. CASE EndsWait(c) /\ entry.status # "ready"
    <2>1. client[c].at = "waiting" /\ client[c].loop /\ NextCandidate(c)
      BY <1>2, <1>t DEF EndsWait, ClientAt, Sound, LoopPcs
    <2>2. PICK d \in ClientRecord : /\ client' = [client EXCEPT ![c] = d]
                                    /\ d.at \in {"claim", "failed"} /\ Sound(c, d, ssh)
      BY <2>1, NextIsSound
    <2> QED
      BY <1>u, <2>1, <2>2, QuietMoves DEF EstablishingPcs
  <1>3. CASE TriesDirect(c) /\ \E to \in {"connected", "failed"} : Advances(c, to)
    BY <1>3, <1>u, QuietAdvance
    DEF TriesDirect, ClientAt, UnspawnedPcs, EstablishingPcs, LoopPcs, ClientPcs
  <1>4. CASE TriesDirect(c) /\ client' = [client EXCEPT ![c].at = "claim", ![c].loop = TRUE]
    <2> DEFINE d == [client[c] EXCEPT !.at = "claim", !.loop = TRUE]
    <2>1. d \in ClientRecord /\ d.at = "claim" /\ d.try = client[c].try /\ d.loop
      BY <1>t DEF ClientRecord, ClientPcs
    <2>2. client' = [client EXCEPT ![c] = d]
      BY <1>4
    <2>3. client[c].at = "direct"
      BY <1>4 DEF TriesDirect, ClientAt
    <2>4. Sound(c, d, ssh)
      BY <1>t, <2>1, <2>3 DEF Sound, SpawnedPcs, Unspawned, UnspawnedPcs
    <2> HIDE DEF d
    <2> QED
      BY <1>u, <2>1, <2>2, <2>3, <2>4, QuietMoves DEF EstablishingPcs
  <1> QED
    BY <1>1, <1>2, <1>3, <1>4 DEF TriesDirect

LEMMA ReadingSteps ==
  ASSUME TunnelInv, NEW c \in Clients,
         \/ ReapsNothing(c) \/ ReadsSuperseded(c) \/ ReadsCached(c) \/ Reuses(c) \/ ExaminesEntry(c)
  PROVE  TunnelInv'
  <1>1. CASE ReapsNothing(c)
    BY <1>1, QuietAdvance
    DEF ReapsNothing, ClientAt, UnspawnedPcs, EstablishingPcs, LoopPcs, ClientPcs
  <1>2. CASE ReadsSuperseded(c)
    BY <1>2, QuietRead DEF ReadsSuperseded, ClientAt, UnspawnedPcs, EstablishingPcs, LoopPcs
  <1>3. CASE ReadsCached(c) /\ Advances(c, "direct")
    BY <1>3, QuietAdvance
    DEF ReadsCached, ClientAt, UnspawnedPcs, EstablishingPcs, LoopPcs, ClientPcs
  <1>4. CASE ReadsCached(c) /\ \E to \in {"evicting", "reusing"} : ReadsEntry(c, to)
    BY <1>4, QuietRead DEF ReadsCached, ClientAt, UnspawnedPcs, EstablishingPcs, LoopPcs
  <1>5. CASE Reuses(c)
    <2>1. PICK to \in {"connected", "failed", "evicting"} : Advances(c, to)
      BY <1>5 DEF Reuses
    <2> QED
      BY <1>5, <2>1, QuietAdvance
      DEF Reuses, ClientAt, UnspawnedPcs, EstablishingPcs, LoopPcs, ClientPcs
  <1>6. CASE ExaminesEntry(c)
    <2>1. PICK to \in {"reclaim", "reusing", "takeover", "waiting"} :
              ReadsEntry(c, to) /\ (to = "takeover" => entry.status = "establishing")
      BY <1>6 DEF ExaminesEntry
    <2> QED
      BY <1>6, <2>1, QuietRead
      DEF ExaminesEntry, ClientAt, UnspawnedPcs, EstablishingPcs, LoopPcs
  <1> QED
    BY <1>1, <1>2, <1>3, <1>4, <1>5, <1>6 DEF ReadsCached

LEMMA RemovingSteps ==
  ASSUME TunnelInv, NEW c \in Clients,
         \/ RemovesReaped(c) \/ RefreshesTunnel(c) \/ EvictsUnusable(c) \/ TakesOver(c)
         \/ GivesUp(c) \/ Discards(c)
  PROVE  TunnelInv'
  <1> DEFINE x == client[c]
  <1>t. /\ x \in ClientRecord /\ Sound(c, x, ssh) /\ entry \in Entries /\ abandoned \subseteq SshTunnels
        /\ ssh \in [SshTunnels -> {"none", "up", "down"}]
    BY DEF TunnelInv, TunnelTypeOK, ClientRecord, ClientsSound
  <1>h. /\ NoEntry.status = "none" /\ OwnMarker(c).status = "establishing"
        /\ OwnMarker(c).by = Own(c)
    BY DEF NoEntry, OwnMarker
  <1>1. CASE RemovesReaped(c) \/ TakesOver(c) \/ (RefreshesTunnel(c) /\ x.seen.status # "ready")
    <2>1. PICK to \in {"cached", "reclaim", "direct"} :
            /\ Advances(c, to) /\ RemovesEntry(c, x.seen) /\ UNCHANGED <<ssh, abandoned>>
            /\ x.at \in {"reaping", "takeover", "refreshing"}
            /\ to \in LoopPcs => x.at = "takeover"
            /\ x.at = "refreshing" => x.seen.status # "ready"
      BY <1>1 DEF RemovesReaped, TakesOver, RefreshesTunnel, ClientAt, LoopPcs, EstablishingPcs
    <2> DEFINE d == [x EXCEPT !.at = to]
    <2>2. d \in ClientRecord /\ d.at = to /\ d.try = x.try /\ d.loop = x.loop
      BY <1>t DEF ClientRecord, ClientPcs
    <2>3. client' = [client EXCEPT ![c] = d]
      BY <2>1 DEF Advances
    <2>4. Sound(c, d, ssh)
      BY <1>t, <2>1, <2>2 DEF Sound, SpawnedPcs, Unspawned, UnspawnedPcs, LoopPcs
    <2>5. x.seen.status = "ready" => ssh[x.seen.by] = "down"
      BY <1>t, <2>1 DEF Sound
    <2>6. \A t \in SshTunnels : ~InHand(c, t)
      BY <2>1 DEF InHand, Establishes, EstablishingPcs, ClientAt
    <2> HIDE DEF d
    <2> QED
      BY <1>t, <2>1, <2>2, <2>3, <2>4, <2>5, <2>6, RemovalMoves DEF EstablishingPcs
  <1>2. CASE RefreshesTunnel(c) /\ x.seen.status = "ready"
    <2> DEFINE d == [x EXCEPT !.at = "ending"]
    <2>1. /\ x.at = "refreshing" /\ RemovesEntry(c, x.seen) /\ UNCHANGED <<ssh, abandoned>>
          /\ client' = [client EXCEPT ![c] = d]
      BY <1>2 DEF RefreshesTunnel, ClientAt, Advances
    <2>2. /\ d \in ClientRecord /\ d.at = "ending" /\ d.try = x.try /\ d.loop = x.loop
          /\ d.seen = x.seen
      BY <1>t DEF ClientRecord, ClientPcs
    <2>4. Sound(c, d, ssh)
      BY <1>t, <2>1, <2>2 DEF Sound, SpawnedPcs, Unspawned, UnspawnedPcs, LoopPcs, EstablishingPcs
    <2>6. \A t \in SshTunnels : ~InHand(c, t)
      BY <2>1 DEF InHand, Establishes, EstablishingPcs, ClientAt
    <2> HIDE DEF d
    <2> QED
      BY <1>t, <2>1, <2>2, <2>4, <2>6, RemovalMoves DEF EstablishingPcs
  <1>3. CASE EvictsUnusable(c)
    <2>1. /\ x.at = "evicting" /\ RemovesEntry(c, x.seen) /\ ssh' = ssh
          /\ abandoned \subseteq abandoned' /\ abandoned' \subseteq SshTunnels
          /\ entry.status = "ready" /\ ssh[entry.by] = "up" => entry.by \in abandoned'
      BY <1>3, <1>t, EntryCases DEF EvictsUnusable, Evicts, ClientAt, Alive
    <2>2. \A t \in SshTunnels : ~InHand(c, t)
      BY <2>1 DEF InHand, Establishes, EstablishingPcs, ClientAt
    <2>3. PICK d \in ClientRecord : /\ client' = [client EXCEPT ![c] = d] /\ Sound(c, d, ssh)
                                    /\ d.at \in {"claim", "failed", "direct"}
      <3>1. CASE x.loop
        BY <1>3, <3>1, NextIsSound DEF EvictsUnusable
      <3>2. CASE ~x.loop
        <4> DEFINE d == [x EXCEPT !.at = "direct"]
        <4>1. d \in ClientRecord /\ d.at = "direct" /\ d.try = x.try /\ d.loop = x.loop
          BY <1>t DEF ClientRecord, ClientPcs
        <4>2. client' = [client EXCEPT ![c] = d]
          BY <1>3, <3>2 DEF EvictsUnusable, Advances
        <4>3. Sound(c, d, ssh)
          BY <1>t, <2>1, <4>1 DEF Sound, SpawnedPcs, Unspawned, UnspawnedPcs, LoopPcs, EstablishingPcs
        <4> HIDE DEF d
        <4> QED
          BY <4>1, <4>2, <4>3
      <3> QED
        BY <3>1, <3>2
    <2> QED
      BY <2>1, <2>2, <2>3, RemovalMoves DEF EstablishingPcs
  <1>4. CASE GivesUp(c)
    <2>1. /\ x.at = "givingUp" /\ RemovesEntry(c, OwnMarker(c)) /\ NextCandidate(c)
          /\ UNCHANGED <<ssh, abandoned>>
      BY <1>4 DEF GivesUp, ClientAt
    <2>2. x.loop /\ ssh[Own(c)] = "none"
      BY <1>t, <2>1 DEF Sound, LoopPcs, EstablishingPcs, Unspawned, UnspawnedPcs, Own, ClientRecord
    <2>3. PICK d \in ClientRecord : /\ client' = [client EXCEPT ![c] = d] /\ Sound(c, d, ssh)
                                    /\ d.at \in {"claim", "failed"}
      BY <2>1, <2>2, NextIsSound
    <2>4. \A t \in SshTunnels : InHand(c, t) => t = Own(c)
      BY <2>1 DEF InHand, ClientAt
    <2> QED
      BY <1>t, <1>h, <2>1, <2>2, <2>3, <2>4, RemovalMoves DEF EstablishingPcs
  <1>5. CASE Discards(c)
    <2> DEFINE d == [x EXCEPT !.at = "ending", !.seen = OwnMarker(c)]
    <2>1. /\ x.at = "discarding" /\ RemovesEntry(c, OwnMarker(c)) /\ UNCHANGED <<ssh, abandoned>>
          /\ client' = [client EXCEPT ![c] = d]
      BY <1>5 DEF Discards, ClientAt
    <2>2. OwnMarker(c) \in Entries
      BY <1>t, MarkerType DEF OwnMarker, Own, ClientRecord
    <2>3. /\ d \in ClientRecord /\ d.at = "ending" /\ d.try = x.try /\ d.loop = x.loop
          /\ d.seen = OwnMarker(c)
      BY <1>t, <2>2 DEF ClientRecord, ClientPcs
    <2>4. Sound(c, d, ssh)
      BY <1>t, <2>1, <2>3 DEF Sound, SpawnedPcs, Unspawned, UnspawnedPcs, LoopPcs, EstablishingPcs
    <2>5. \A t \in SshTunnels : InHand(c, t) => t = d.seen.by
      BY <1>h, <2>1, <2>3 DEF InHand, ClientAt
    <2> HIDE DEF d
    <2> QED
      BY <1>t, <1>h, <2>1, <2>3, <2>4, <2>5, RemovalMoves DEF EstablishingPcs
  <1> QED
    BY <1>1, <1>2, <1>3, <1>4, <1>5

LEMMA WritingSteps ==
  ASSUME TunnelInv, NEW c \in Clients,
         \/ WritesMarker(c, "claim", "examine") \/ WritesMarker(c, "reclaim", "waiting")
         \/ PublishesTunnel(c)
  PROVE  TunnelInv'
  <1> DEFINE x == client[c]
  <1>t. /\ x \in ClientRecord /\ Sound(c, x, ssh) /\ entry \in Entries /\ abandoned \subseteq SshTunnels
        /\ ssh \in [SshTunnels -> {"none", "up", "down"}] /\ slips \subseteq Slips
        /\ x.try \in 1..MaxCandidates
    BY DEF TunnelInv, TunnelTypeOK, ClientRecord, ClientsSound
  <1>1. ASSUME NEW from \in {"claim", "reclaim"}, NEW otherwise \in {"examine", "waiting"},
               WritesMarker(c, from, otherwise)
        PROVE  TunnelInv'
    <2>1. CASE entry = NoEntry
      <3> DEFINE d == [x EXCEPT !.at = "spawning"]
      <3>1. /\ x.at = from /\ entry' = [status |-> "establishing", by |-> <<c, x.try>>]
            /\ client' = [client EXCEPT ![c] = d] /\ UNCHANGED <<ssh, abandoned, slips>>
        BY <1>1, <2>1 DEF WritesMarker, ClientAt, Advances, OwnMarker, Own
      <3>2. /\ d \in ClientRecord /\ d.at = "spawning" /\ d.try = x.try /\ d.loop = x.loop
        BY <1>t DEF ClientRecord, ClientPcs, EstablishingPcs
      <3>3. Sound(c, d, ssh)
        BY <1>t, <3>1, <3>2 DEF Sound, SpawnedPcs, Unspawned, UnspawnedPcs, LoopPcs
      <3>4. entry' \in Entries
        BY <1>t, <3>1, MarkerType
      <3>5. slips = {} => \A e \in Clients : ~Establishes(e)
        BY <2>1 DEF TunnelInv, MarkerIsEstablishers, OwnMarker, NoEntry
      <3>6. \A t \in SshTunnels : ~InHand(c, t)
        BY <3>1 DEF InHand, Establishes, EstablishingPcs, ClientAt
      <3>7. entry.status # "ready" /\ entry'.status # "ready"
        BY <2>1, <3>1 DEF NoEntry
      <3> HIDE DEF d
      <3> QED
        BY <1>t, <3>1, <3>2, <3>3, <3>4, <3>5, <3>6, <3>7, ClientMoves
    <2>2. CASE entry # NoEntry
      <3>1. /\ x.at = from /\ Advances(c, otherwise) /\ UNCHANGED <<entry, ssh, abandoned, slips>>
        BY <1>1, <2>2 DEF WritesMarker, ClientAt
      <3> QED
        BY <3>1, QuietAdvance DEF UnspawnedPcs, EstablishingPcs, LoopPcs, ClientPcs
    <2> QED
      BY <2>1, <2>2
  <1>2. CASE PublishesTunnel(c)
    <2>1. PICK to \in {"connected", "failed"} : Advances(c, to)
      BY <1>2 DEF PublishesTunnel
    <2> DEFINE d == [x EXCEPT !.at = to]
    <2>2. /\ x.at \in {"publishing", "publishingError"} /\ Hits(c, OwnMarker(c))
          /\ entry' = [status |-> "ready", by |-> <<c, x.try>>]
          /\ client' = [client EXCEPT ![c] = d] /\ UNCHANGED <<ssh, abandoned>>
      BY <1>2, <2>1 DEF PublishesTunnel, Advances, Own
    <2>3. /\ d \in ClientRecord /\ d.at = to /\ d.try = x.try /\ d.loop = x.loop
      BY <1>t DEF ClientRecord, ClientPcs
    <2>4. Sound(c, d, ssh)
      BY <1>t, <2>2, <2>3
      DEF Sound, SpawnedPcs, Unspawned, UnspawnedPcs, LoopPcs, EstablishingPcs
    <2>5. /\ entry' \in Entries /\ ssh[<<c, x.try>>] # "none" /\ entry'.by = <<c, x.try>>
      BY <1>t, <2>2, MarkerType DEF Sound, SpawnedPcs
    <2>6. /\ slips \subseteq slips' /\ slips' \subseteq Slips
          /\ slips' = {} => /\ entry.status # "ready"
                            /\ \A e \in Clients \ {c} : ~Establishes(e)
      BY <2>2, HitsWhatWasMeant DEF NoEntry, OwnMarker
    <2>7. \A t \in SshTunnels : InHand(c, t) => entry' = [status |-> "ready", by |-> t]
      BY <2>2 DEF InHand, ClientAt, Own
    <2>8. d.at \notin EstablishingPcs
      BY <2>3 DEF EstablishingPcs
    <2> HIDE DEF d
    <2> QED
      BY <1>t, <2>2, <2>3, <2>4, <2>5, <2>6, <2>7, <2>8, ClientMoves
  <1> QED
    BY <1>1, <1>2

\* Ending a tunnel ends that one and nothing else.
LEMMA EndsOne ==
  ASSUME ssh \in [SshTunnels -> {"none", "up", "down"}], NEW t, Ends(t)
  PROVE  /\ ssh' \in [SshTunnels -> {"none", "up", "down"}]
         /\ \A r \in SshTunnels : ssh'[r] = ssh[r] \/ (ssh[r] = "up" /\ ssh'[r] = "down")
         /\ t \in SshTunnels => ssh'[t] # "up"
  BY DEF Ends, Alive

LEMMA EndingSteps ==
  ASSUME TunnelInv, NEW c \in Clients, ReapsEntry(c) \/ EndsTunnel(c)
  PROVE  TunnelInv'
  <1> DEFINE x == client[c]
  <1>t. /\ x \in ClientRecord /\ Sound(c, x, ssh) /\ entry \in Entries /\ abandoned \subseteq SshTunnels
        /\ ssh \in [SshTunnels -> {"none", "up", "down"}] /\ slips \subseteq Slips
    BY DEF TunnelInv, TunnelTypeOK, ClientRecord, ClientsSound
  <1>u. UNCHANGED <<entry, abandoned, slips>>
    BY DEF ReapsEntry, EndsTunnel
  <1>1. CASE ReapsEntry(c)
    <2> DEFINE d == [x EXCEPT !.at = "reaping", !.seen = entry]
               t == IF entry.status = "ready" THEN entry.by ELSE NoTunnel
    <2>1. x.at = "new" /\ client' = [client EXCEPT ![c] = d] /\ Ends(t)
      BY <1>1 DEF ReapsEntry, ClientAt, ReadsEntry
    <2>2. /\ d \in ClientRecord /\ d.at = "reaping" /\ d.try = x.try /\ d.loop = x.loop
          /\ d.seen = entry
      BY <1>t DEF ClientRecord, ClientPcs
    <2>3. /\ ssh' \in [SshTunnels -> {"none", "up", "down"}]
          /\ \A r \in SshTunnels : ssh'[r] = ssh[r] \/ (ssh[r] = "up" /\ ssh'[r] = "down")
          /\ t \in SshTunnels => ssh'[t] # "up"
      BY <1>t, <2>1, EndsOne
    <2>4. entry.status = "ready" => entry.by \in SshTunnels /\ ssh'[entry.by] = "down"
      <3>1. entry.status = "ready" => entry.by \in SshTunnels /\ ssh[entry.by] # "none"
        BY <1>t, EntryCases DEF TunnelInv, RecordIsOfTunnel
      <3> QED
        BY <2>3, <3>1
    <2>5. Sound(c, x, ssh')
      BY <1>t, <2>3, SoundWhileTunnelsEnd
    <2>6. Sound(c, d, ssh')
      BY <2>1, <2>2, <2>4, <2>5
      DEF Sound, SpawnedPcs, Unspawned, UnspawnedPcs, LoopPcs, EstablishingPcs
    <2>7. \A r \in SshTunnels : ~InHand(c, r)
      BY <2>1 DEF InHand, Establishes, EstablishingPcs, ClientAt
    <2>8. d.at \notin EstablishingPcs
      BY <2>2 DEF EstablishingPcs
    <2> HIDE DEF d, t
    <2> QED
      BY <1>t, <1>u, <2>1, <2>2, <2>3, <2>6, <2>7, <2>8, ClientMoves
  <1>2. CASE EndsTunnel(c)
    <2> DEFINE t == x.seen.by
    <2>1. x.at = "ending" /\ Ends(t)
      BY <1>2 DEF EndsTunnel, ClientAt
    <2>3. /\ ssh' \in [SshTunnels -> {"none", "up", "down"}]
          /\ \A r \in SshTunnels : ssh'[r] = ssh[r] \/ (ssh[r] = "up" /\ ssh'[r] = "down")
          /\ t \in SshTunnels => ssh'[t] # "up"
      BY <1>t, <2>1, EndsOne
    <2>4. PICK d \in ClientRecord : /\ client' = [client EXCEPT ![c] = d] /\ Sound(c, d, ssh')
                                    /\ d.at \in {"claim", "failed", "direct"}
      <3>1. CASE x.loop
        BY <1>2, <2>3, <3>1, NextIsSound DEF EndsTunnel
      <3>2. CASE ~x.loop
        <4> DEFINE d == [x EXCEPT !.at = "direct"]
        <4>1. d \in ClientRecord /\ d.at = "direct" /\ d.try = x.try /\ d.loop = x.loop
          BY <1>t DEF ClientRecord, ClientPcs
        <4>2. client' = [client EXCEPT ![c] = d]
          BY <1>2, <3>2 DEF EndsTunnel, Advances
        <4>3. Sound(c, d, ssh)
          BY <1>t, <2>1, <3>2, <4>1
          DEF Sound, SpawnedPcs, Unspawned, UnspawnedPcs, LoopPcs, EstablishingPcs
        <4> HIDE DEF d
        <4> QED
          BY <2>3, <4>1, <4>2, <4>3, SoundWhileTunnelsEnd
      <3> QED
        BY <3>1, <3>2
    <2>5. \A r \in SshTunnels : InHand(c, r) => ssh'[r] # "up"
      BY <2>1, <2>3 DEF InHand, Establishes, EstablishingPcs, ClientAt
    <2>6. d.at \notin EstablishingPcs
      BY <2>4 DEF EstablishingPcs
    <2> HIDE DEF t
    <2> QED
      BY <1>t, <1>u, <2>3, <2>4, <2>5, <2>6, ClientMoves
  <1> QED
    BY <1>1, <1>2

LEMMA LeavingSteps ==
  ASSUME TunnelInv, NEW c \in Clients, PublishingFails(c) \/ ClientKilled(c)
  PROVE  TunnelInv'
  <1> DEFINE x == client[c]
  <1>t. /\ x \in ClientRecord /\ Sound(c, x, ssh) /\ entry \in Entries /\ abandoned \subseteq SshTunnels
        /\ ssh \in [SshTunnels -> {"none", "up", "down"}] /\ slips \subseteq Slips
        /\ x.try \in 1..MaxCandidates
    BY DEF TunnelInv, TunnelTypeOK, ClientRecord, ClientsSound
  <1>u. UNCHANGED <<entry, ssh, slips>>
    BY DEF PublishingFails, ClientKilled
  <1>1. PICK to \in {"connected", "failed", "killed"} : Advances(c, to)
    BY DEF PublishingFails, ClientKilled
  <1>2. /\ abandoned \subseteq abandoned' /\ abandoned' \subseteq SshTunnels
        /\ \A t \in SshTunnels : InHand(c, t) /\ ssh[t] = "up" => t \in abandoned'
    <2>1. CASE PublishingFails(c)
      <3>1. Own(c) \in SshTunnels
        BY <1>t, MarkerType DEF Own
      <3> QED
        BY <1>t, <2>1, <3>1 DEF PublishingFails, InHand, ClientAt
    <2>2. CASE ClientKilled(c)
      BY <1>t, <2>2 DEF ClientKilled, Alive
    <2> QED
      BY <2>1, <2>2
  <1> DEFINE d == [x EXCEPT !.at = to]
  <1>3. /\ d \in ClientRecord /\ d.at = to /\ d.try = x.try /\ d.loop = x.loop
    BY <1>t DEF ClientRecord, ClientPcs
  <1>4. client' = [client EXCEPT ![c] = d]
    BY <1>1 DEF Advances
  <1>5. Sound(c, d, ssh)
    BY <1>t, <1>3 DEF Sound, SpawnedPcs, Unspawned, UnspawnedPcs, LoopPcs, EstablishingPcs
  <1>6. d.at \notin EstablishingPcs
    BY <1>3 DEF EstablishingPcs
  <1> HIDE DEF d
  <1> QED
    BY <1>t, <1>u, <1>2, <1>3, <1>4, <1>5, <1>6, ClientMoves

LEMMA CandidateSteps ==
  ASSUME TunnelInv, NEW c \in Clients, SpawnFails(c) \/ ConnectsThrough(c)
  PROVE  TunnelInv'
  <1>1. CASE SpawnFails(c)
    BY <1>1, EstablisherMoves
    DEF SpawnFails, ClientAt, Establishes, EstablishingPcs, SpawnedPcs, UnspawnedPcs
  <1>2. CASE ConnectsThrough(c)
    <2>1. PICK to \in {"publishing", "publishingError", "discarding"} : Advances(c, to)
      BY <1>2 DEF ConnectsThrough
    <2> QED
      BY <1>2, <2>1, EstablisherMoves
      DEF ConnectsThrough, ClientAt, Establishes, EstablishingPcs, SpawnedPcs, UnspawnedPcs
  <1> QED
    BY <1>1, <1>2

LEMMA SpawningStep ==
  ASSUME TunnelInv, NEW c \in Clients, SpawnSucceeds(c)
  PROVE  TunnelInv'
  <1> DEFINE x == client[c]
             d == [x EXCEPT !.at = "connecting"]
             o == <<c, x.try>>
  <1>t. /\ x \in ClientRecord /\ Sound(c, x, ssh) /\ entry \in Entries
        /\ client \in [Clients -> ClientRecord]
        /\ ssh \in [SshTunnels -> {"none", "up", "down"}] /\ x.try \in 1..MaxCandidates
    BY DEF TunnelInv, TunnelTypeOK, ClientRecord, ClientsSound
  <1>1. /\ x.at = "spawning" /\ client' = [client EXCEPT ![c] = d] /\ ssh' = [ssh EXCEPT ![o] = "up"]
        /\ UNCHANGED <<entry, abandoned, slips>>
    BY DEF SpawnSucceeds, ClientAt, Advances, Own
  <1>2. /\ d \in ClientRecord /\ d.at = "connecting" /\ d.try = x.try /\ d.loop = x.loop
    BY <1>t DEF ClientRecord, ClientPcs, EstablishingPcs
  <1>3. o \in SshTunnels
    BY <1>t, MarkerType
  <1>4. ssh[o] = "none" /\ x.loop
    BY <1>t, <1>1 DEF Sound, Unspawned, UnspawnedPcs, LoopPcs, EstablishingPcs
  <1> HIDE DEF d
  <1>c. client'[c] = d /\ \A e \in Clients \ {c} : client'[e] = client[e]
    BY <1>t, <1>1
  <1>s. \A t \in SshTunnels : ssh'[t] = IF t = o THEN "up" ELSE ssh[t]
    BY <1>t, <1>1
  <1>5. TunnelTypeOK'
    <2>1. ssh' \in [SshTunnels -> {"none", "up", "down"}]
      BY <1>t, <1>1
    <2>2. client' \in [Clients -> ClientRecord]
      BY <1>t, <1>1, <1>2
    <2> QED
      BY <1>1, <2>1, <2>2 DEF TunnelInv, TunnelTypeOK, ClientRecord
  <1>6. ClientsSound'
    <2>1. Sound(c, d, ssh')
      <3>1. \A k \in 1..MaxCandidates : k > d.try => ssh'[<<c, k>>] = "none"
        <4> SUFFICES ASSUME NEW k \in 1..MaxCandidates, k > x.try PROVE ssh'[<<c, k>>] = "none"
          BY <1>2
        <4>1. ssh[<<c, k>>] = "none" /\ <<c, k>> \in SshTunnels /\ <<c, k>> # o
          <5>1. ssh[<<c, k>>] = "none"
            BY <1>t DEF Sound
          <5>2. <<c, k>> \in SshTunnels
            BY MarkerType
          <5>3. k # x.try
            BY <1>t
          <5> QED
            BY <5>1, <5>2, <5>3
        <4> QED
          BY <1>s, <4>1
      <3> QED
        BY <1>2, <1>3, <1>4, <1>s, <3>1
        DEF Sound, Unspawned, UnspawnedPcs, LoopPcs, EstablishingPcs, SpawnedPcs
    <2>2. ASSUME NEW e \in Clients \ {c} PROVE Sound(e, client[e], ssh')
      <3> DEFINE y == client[e]
      <3>1. Sound(e, y, ssh) /\ y \in ClientRecord
        BY <1>t DEF TunnelInv, ClientsSound
      <3>2. \A k \in 1..MaxCandidates : ssh'[<<e, k>>] = ssh[<<e, k>>]
        <4> SUFFICES ASSUME NEW k \in 1..MaxCandidates PROVE ssh'[<<e, k>>] = ssh[<<e, k>>]
          OBVIOUS
        <4>1. <<e, k>> \in SshTunnels /\ <<e, k>> # o
          BY MarkerType
        <4> QED
          BY <1>s, <4>1
      <3>3. y.try \in 1..MaxCandidates
        BY <3>1 DEF ClientRecord
      <3>4. y.seen.status = "ready" => y.seen.by \in SshTunnels
        BY <3>1, EntryCases DEF ClientRecord
      <3>5. y.seen.status = "ready" /\ ssh[y.seen.by] = "down" => ssh'[y.seen.by] = "down"
        BY <1>s, <1>4, <3>4
      <3> HIDE DEF y
      <3>6. Sound(e, y, ssh')
        BY <3>1, <3>2, <3>3, <3>5 DEF Sound
      <3> QED
        BY <3>6 DEF y
    <2> QED
      BY <1>c, <2>1, <2>2 DEF ClientsSound
  <1>7. MarkerIsEstablishers'
    <2> SUFFICES ASSUME slips = {}, NEW e \in Clients, client'[e].at \in EstablishingPcs
                 PROVE  entry = [status |-> "establishing", by |-> <<e, client'[e].try>>]
      BY <1>1 DEF MarkerIsEstablishers, Establishes, OwnMarker, Own
    <2>1. client[e].at \in EstablishingPcs /\ client'[e].try = client[e].try
      BY <1>1, <1>2, <1>c DEF EstablishingPcs
    <2> QED
      BY <2>1 DEF TunnelInv, MarkerIsEstablishers, Establishes, OwnMarker, Own
  <1>8. RecordIsOfTunnel'
    BY <1>t, <1>1, <1>s, EntryCases DEF TunnelInv, RecordIsOfTunnel
  <1>9. RunningTunnelIsListed'
    <2> SUFFICES ASSUME slips = {}, NEW t \in SshTunnels, ssh'[t] = "up"
                 PROVE  \/ t \in abandoned \/ entry = [status |-> "ready", by |-> t]
                        \/ \E e \in Clients :
                              \/ client'[e].at \in EstablishingPcs /\ t = <<e, client'[e].try>>
                              \/ client'[e].at = "ending" /\ t = client'[e].seen.by
      BY <1>1 DEF RunningTunnelIsListed, Alive, InHand, Establishes, Own, ClientAt
    <2>1. CASE t = o
      BY <1>2, <1>c, <2>1 DEF EstablishingPcs
    <2>2. CASE t # o
      <3>1. \/ t \in abandoned \/ entry = [status |-> "ready", by |-> t]
            \/ \E e \in Clients : InHand(e, t)
        BY <1>s, <2>2 DEF TunnelInv, RunningTunnelIsListed, Alive
      <3>2. ASSUME NEW e \in Clients, InHand(e, t)
            PROVE  /\ e # c
                   /\ \/ client[e].at \in EstablishingPcs /\ t = <<e, client[e].try>>
                      \/ client[e].at = "ending" /\ t = client[e].seen.by
        BY <1>1, <2>2, <3>2 DEF InHand, Establishes, Own, ClientAt
      <3> QED
        BY <1>c, <3>1, <3>2
    <2> QED
      BY <2>1, <2>2
  <1> QED
    BY <1>5, <1>6, <1>7, <1>8, <1>9 DEF TunnelInv

LEMMA TunnelEndStep ==
  ASSUME TunnelInv, NEW t \in SshTunnels, TunnelEnds(t)
  PROVE  TunnelInv'
  <1>t. /\ entry \in Entries /\ ssh \in [SshTunnels -> {"none", "up", "down"}]
        /\ client \in [Clients -> ClientRecord]
    BY DEF TunnelInv, TunnelTypeOK, ClientRecord
  <1>1. UNCHANGED <<entry, client, abandoned, slips>>
    BY DEF TunnelEnds
  <1>2. /\ ssh' \in [SshTunnels -> {"none", "up", "down"}]
        /\ \A r \in SshTunnels : ssh'[r] = ssh[r] \/ (ssh[r] = "up" /\ ssh'[r] = "down")
    BY <1>t, EndsOne DEF TunnelEnds
  <1>3. TunnelTypeOK'
    BY <1>1, <1>2 DEF TunnelInv, TunnelTypeOK
  <1>4. ClientsSound'
    <2>1. ASSUME NEW c \in Clients PROVE Sound(c, client[c], ssh')
      <3>1. Sound(c, client[c], ssh) /\ client[c] \in ClientRecord
        BY <1>t DEF TunnelInv, ClientsSound
      <3> QED
        BY <1>2, <3>1, SoundWhileTunnelsEnd
    <2> QED
      BY <1>1, <2>1 DEF ClientsSound
  <1>5. MarkerIsEstablishers'
    BY <1>1 DEF TunnelInv, MarkerIsEstablishers, Establishes, OwnMarker, Own
  <1>6. RecordIsOfTunnel'
    BY <1>t, <1>1, <1>2, EntryCases DEF TunnelInv, RecordIsOfTunnel
  <1>7. RunningTunnelIsListed'
    BY <1>1, <1>2 DEF TunnelInv, RunningTunnelIsListed, Alive, InHand, Establishes, Own, ClientAt
  <1> QED
    BY <1>3, <1>4, <1>5, <1>6, <1>7 DEF TunnelInv

LEMMA TunnelSteps == TunnelInv /\ [TunnelNext]_tunnelvars => TunnelInv'
  <1> SUFFICES ASSUME TunnelInv, [TunnelNext]_tunnelvars PROVE TunnelInv'
    OBVIOUS
  <1>1. ASSUME NEW c \in Clients, ClientStep(c) PROVE TunnelInv'
    BY <1>1, ReadingSteps, LoopSteps, RemovingSteps, WritingSteps, EndingSteps, LeavingSteps,
       CandidateSteps, SpawningStep DEF ClientStep
  <1>2. CASE UNCHANGED tunnelvars
    BY <1>2 DEF tunnelvars, TunnelInv, TunnelTypeOK, ClientsSound, MarkerIsEstablishers,
                RecordIsOfTunnel, RunningTunnelIsListed, Alive, InHand, Establishes, OwnMarker,
                Own, ClientAt
  <1> QED
    BY <1>1, <1>2, TunnelEndStep DEF TunnelNext

LEMMA TunnelInvariant == TunnelSpec => []TunnelInv
  BY TunnelBegins, TunnelSteps, PTL DEF TunnelSpec

\* "Attempts to become the sole establisher for a host" (cache.ts:215), for any number of
\* processes: the exclusive marker does it, as long as nothing slips.
THEOREM OneEstablisher == TunnelSpec => []SoleEstablisher
  <1>1. TunnelInv => SoleEstablisher
    BY DEF TunnelInv, MarkerIsEstablishers, SoleEstablisher, OwnMarker, Own
  <1> QED
    BY <1>1, TunnelInvariant, PTL

\* No SSH tunnel runs unattended (cache.ts:351), for any number of processes, candidates and
\* tunnels that end by themselves, as long as nothing slips.
THEOREM TunnelsAreAttended == TunnelSpec => []RunningTunnelIsListed
  <1>1. TunnelInv => RunningTunnelIsListed
    BY DEF TunnelInv
  <1> QED
    BY <1>1, TunnelInvariant, PTL
=============================================================================
