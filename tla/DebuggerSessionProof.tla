----------------------- MODULE DebuggerSessionProof ------------------------
(***************************************************************************)
(* Proofs about DebuggerSession for any number of sessions, ports and stop *)
(* commands: the type invariant, that the state file behaves as the        *)
(* registry of SessionRegistry, and what cleanups may and may not take     *)
(* away.  Nothing is assumed about crashes, stalls, forced stops or        *)
(* failing inspections.                                                    *)
(***************************************************************************)
EXTENDS DebuggerSession, TLAPS

\* A controller's place and the status it has written go together.  Stop commands and
\* prunes may remove a record, but only its own controller writes a status.
BeforeReady == {"starting", "logging-in", "tunneling"}
Follows(c) ==
    Listed(c) =>
        /\ pc[c] \notin Unregistered
        /\ pc[c] \in Startup \ {"assert"} => record[c].status \in BeforeReady
        /\ pc[c] \in {"assert", "ready", "setStopping"} => record[c].status = "ready"
StatusFollowsController == \A c \in Sessions : Follows(c)

\* A port that is about to be probed or registered has been chosen.
Chosen(c) == pc[c] \in {"probe", "persist"} => port[c] \in Ports
CandidateChosen == \A c \in Sessions : Chosen(c)

RegistryInv == TypeOK /\ CandidateChosen /\ StatusFollowsController
---------------------------------------------------------------------------
USE DEF ControllerPcs, Unregistered, Startup, FinalizingPcs

LEMMA NoStopType ==
    /\ NoStop \in [at : StopPcs, of : Sessions, seen : Session \cup {NoSession},
                   force : BOOLEAN, keepIntent : BOOLEAN, sure : BOOLEAN]
    /\ NoPrune \in [at : {"idle", "persist", "homes"}, of : Sessions,
                    seen : Session \cup {NoSession}]
<1>1. Anyone \in Sessions
    BY SessionAssumption DEF Anyone
<1> QED
    BY <1>1 DEF NoStop, NoPrune, StopPcs

LEMMA TypeInit == Init => TypeOK
    BY NoStopType DEF Init, TypeOK, Pcs, TunnelStates, CloseStates

\* The part of the type invariant that is about the state file and its directory.
FileType ==
    /\ record \in [Sessions -> Session \cup {NoSession}]
    /\ intent \in SUBSET Sessions /\ home \in SUBSET Sessions
    /\ old \in SUBSET Sessions
    /\ asked \in SUBSET Sessions /\ forced \in SUBSET Sessions

\* One field of a listed record changes: the result is a record again.
LEMMA RecordWrite ==
    ASSUME record \in [Sessions -> Session \cup {NoSession}], NEW c \in Sessions, Listed(c)
    PROVE  /\ \A st \in Statuses : [record EXCEPT ![c].status = st]
                                     \in [Sessions -> Session \cup {NoSession}]
           /\ [record EXCEPT ![c].tunnelPid = TRUE] \in [Sessions -> Session \cup {NoSession}]
           /\ [record EXCEPT ![c].stopRequested = TRUE] \in [Sessions -> Session \cup {NoSession}]
<1>1. record[c] \in Session
    BY DEF Listed, NoSession
<1> QED
    BY <1>1 DEF Session

LEMMA GotoType ==
    ASSUME pc \in [Sessions -> Pcs], NEW c \in Sessions, NEW from, NEW to \in Pcs, Goto(c, from, to)
    PROVE  pc' \in [Sessions -> Pcs]
    BY DEF Goto

LEMMA EndsType ==
    ASSUME TypeOK, NEW c \in Sessions, NEW from, NEW to \in Pcs, Ends(c, from, to)
    PROVE  /\ pc' \in [Sessions -> Pcs]
           /\ port' \in [Sessions -> Ports \cup {NoPort}]
           /\ excluded' \in [Sessions -> SUBSET Ports]
           /\ close' \in [Sessions -> CloseStates]
           /\ asked' \in SUBSET Sessions /\ forced' \in SUBSET Sessions
    BY GotoType DEF Ends, TypeOK, CloseStates

LEMMA RegistrationType ==
    ASSUME TypeOK, CandidateChosen, NEW c \in Sessions,
           \/ SelectCandidate(c) \/ NoCandidate(c) \/ ProbeBusy(c) \/ ProbeFree(c)
           \/ PersistRegistration(c) \/ PersistRefused(c) \/ LosesTarget(c)
           \/ AbortUnregistered(c)
    PROVE  TypeOK'
<1> USE DEF TypeOK, fileVars, historyVars, Pcs
<1>1. CASE SelectCandidate(c)
    BY <1>1, GotoType DEF SelectCandidate
<1>2. CASE NoCandidate(c)
    BY <1>2, EndsType DEF NoCandidate
<1>3. CASE ProbeBusy(c) \/ PersistRefused(c)
    <2>1. port[c] \in Ports
        BY <1>3 DEF CandidateChosen, Chosen, ProbeBusy, PersistRefused, Goto
    <2> QED
        BY <1>3, <2>1, GotoType DEF ProbeBusy, PersistRefused, Exclude
<1>4. CASE ProbeFree(c)
    BY <1>4, GotoType DEF ProbeFree
<1>5. CASE PersistRegistration(c)
    <2>1. port[c] \in Ports
        BY <1>5 DEF CandidateChosen, Chosen, PersistRegistration, Goto
    <2>2. [NoSession EXCEPT !.status = "starting", !.port = port[c]] \in Session
        BY <2>1 DEF NoSession, Session, Statuses
    <2> QED
        BY <1>5, <2>2, GotoType DEF PersistRegistration
<1>6. CASE LosesTarget(c)
    BY <1>6, EndsType DEF LosesTarget
<1>7. CASE AbortUnregistered(c)
    BY <1>7, EndsType DEF AbortUnregistered
<1> QED
    BY <1>1, <1>2, <1>3, <1>4, <1>5, <1>6, <1>7

LEMMA TransitionType ==
    ASSUME TypeOK, NEW c \in Sessions, NEW from, NEW to \in Pcs, NEW status \in Statuses,
           Transition(c, from, to, status)
    PROVE  TypeOK'
<1>1. record' \in [Sessions -> Session \cup {NoSession}]
    <2>1. CASE record' = record
        BY <2>1 DEF TypeOK
    <2>2. CASE Listed(c) /\ record' = [record EXCEPT ![c].status = status]
        BY <2>2, RecordWrite DEF TypeOK
    <2> QED
        BY <2>1, <2>2 DEF Transition, StartupBlocked
<1>2. pc' \in [Sessions -> Pcs]
    BY GotoType DEF Transition, TypeOK, Pcs
<1> QED
    BY <1>1, <1>2 DEF Transition, TypeOK, fileVars, historyVars

LEMMA StartupType ==
    ASSUME TypeOK, NEW c \in Sessions,
           \/ PrepareHome(c) \/ LogIn(c) \/ BeginTunnel(c) \/ SpawnTunnel(c)
           \/ RecordTunnelPid(c) \/ VerifyTunnel(c) \/ CommitReady(c) \/ AssertRunning(c)
           \/ StartupFails(c)
    PROVE  TypeOK'
<1>1. CASE LogIn(c) \/ BeginTunnel(c) \/ CommitReady(c)
    BY <1>1, TransitionType DEF LogIn, BeginTunnel, CommitReady, Pcs, Statuses
<1>2. CASE RecordTunnelPid(c)
    <2>1. record' \in [Sessions -> Session \cup {NoSession}]
        <3>1. CASE record' = record
            BY <3>1 DEF TypeOK
        <3>2. CASE Listed(c) /\ record' = [record EXCEPT ![c].tunnelPid = TRUE]
            BY <3>2, RecordWrite DEF TypeOK
        <3> QED
            BY <1>2, <3>1, <3>2 DEF RecordTunnelPid, StartupBlocked
    <2> QED
        BY <1>2, <2>1, GotoType DEF RecordTunnelPid, TypeOK, Pcs, fileVars, historyVars
<1>3. CASE PrepareHome(c) \/ SpawnTunnel(c) \/ VerifyTunnel(c) \/ AssertRunning(c)
    BY <1>3, GotoType DEF PrepareHome, SpawnTunnel, VerifyTunnel, AssertRunning, TypeOK, Pcs,
       fileVars, historyVars, TunnelStates
<1>4. CASE StartupFails(c)
    BY <1>4 DEF StartupFails, TypeOK, Pcs, fileVars, historyVars
<1> QED
    BY <1>1, <1>2, <1>3, <1>4

LEMMA UnlistType ==
    ASSUME TypeOK, NEW c \in Sessions, Unlist(c)
    PROVE  /\ record' \in [Sessions -> Session \cup {NoSession}]
           /\ old' \in SUBSET Sessions
    BY DEF Unlist, TypeOK

LEMMA DisposeType ==
    ASSUME TypeOK, NEW c \in Sessions,
           \/ BeginDispose(c) \/ SetStopping(c) \/ KillTunnel(c) \/ TunnelOutlives(c)
           \/ ForgetSession(c) \/ RemoveHome(c) \/ ClearIntent(c)
    PROVE  TypeOK'
<1> USE DEF TypeOK, Pcs, fileVars, historyVars
<1>1. CASE BeginDispose(c)
    BY <1>1 DEF BeginDispose, Goto
<1>2. CASE SetStopping(c)
    <2>1. record' \in [Sessions -> Session \cup {NoSession}]
        BY <1>2, RecordWrite DEF SetStopping, Statuses
    <2> QED
        BY <1>2, <2>1, GotoType DEF SetStopping
<1>3. CASE KillTunnel(c)
    BY <1>3, GotoType DEF KillTunnel, TunnelStates
<1>4. CASE TunnelOutlives(c)
    BY <1>4, EndsType DEF TunnelOutlives
<1>5. CASE ForgetSession(c)
    BY <1>5, GotoType, UnlistType DEF ForgetSession
<1>6. CASE RemoveHome(c)
    BY <1>6, GotoType DEF RemoveHome
<1>7. CASE ClearIntent(c)
    BY <1>7, EndsType DEF ClearIntent
<1> QED
    BY <1>1, <1>2, <1>3, <1>4, <1>5, <1>6, <1>7

LEMMA CloseType ==
    ASSUME TypeOK, NEW c \in Sessions, CloseTunnel(c) \/ JudgeClose(c) \/ ClearAfterClose(c)
    PROVE  TypeOK'
    BY DEF CloseTunnel, JudgeClose, ClearAfterClose, TypeOK, CloseStates, controllerVars,
       fileVars, historyVars

LEMMA EnvironmentType ==
    ASSUME TypeOK, NEW c \in Sessions,
           TunnelBinds(c) \/ TunnelDies(c) \/ Expire(c) \/ Crash(c) \/ DoctorRemovesHome(c)
    PROVE  TypeOK'
<1> USE DEF TypeOK, controllerVars, fileVars, historyVars
<1>1. CASE TunnelBinds(c) \/ TunnelDies(c)
    BY <1>1 DEF TunnelBinds, TunnelDies, TunnelStates
<1>2. CASE Expire(c) \/ DoctorRemovesHome(c)
    BY <1>2 DEF Expire, DoctorRemovesHome
<1>3. CASE Crash(c)
    BY <1>3, EndsType DEF Crash, Pcs
<1> QED
    BY <1>1, <1>2, <1>3

\* What one stop command knows.
StopRecord == [at : StopPcs, of : Sessions, seen : Session \cup {NoSession},
               force : BOOLEAN, keepIntent : BOOLEAN, sure : BOOLEAN]

LEMMA StopMoves ==
    ASSUME stop \in [Stoppers -> StopRecord], NEW s \in Stoppers, NEW from, NEW to \in StopPcs,
           NEW keep \in BOOLEAN,
           \/ StopAt(s, from, to) \/ StopEnds(s, from) \/ StopRemoves(s, from, keep)
    PROVE  stop' \in [Stoppers -> StopRecord]
<1>1. CASE StopAt(s, from, to)
    BY <1>1 DEF StopAt, StopRecord
<1>2. CASE StopEnds(s, from)
    BY <1>2, NoStopType DEF StopEnds, StopRecord
<1>3. CASE StopRemoves(s, from, keep)
    BY <1>3 DEF StopRemoves, StopRecord, StopPcs
<1> QED
    BY <1>1, <1>2, <1>3

LEMMA RequestType ==
    ASSUME TypeOK, NEW c \in Sessions, Listed(c), RequestStop(c)
    PROVE  /\ record' \in [Sessions -> Session \cup {NoSession}]
           /\ intent' \in SUBSET Sessions
           /\ asked' \in SUBSET Sessions
    BY RecordWrite DEF RequestStop, TypeOK

LEMMA StopType ==
    ASSUME TypeOK, NEW s \in Stoppers, StopStep(s)
    PROVE  TypeOK'
<1>1. stop \in [Stoppers -> StopRecord] /\ stop[s].of \in Sessions
    BY DEF TypeOK, StopRecord
<1>2. TypeOK' <=> /\ pc' \in [Sessions -> Pcs]
                  /\ port' \in [Sessions -> Ports \cup {NoPort}]
                  /\ excluded' \in [Sessions -> SUBSET Ports]
                  /\ tunnel' \in [Sessions -> TunnelStates]
                  /\ close' \in [Sessions -> CloseStates]
                  /\ FileType'
                  /\ stop' \in [Stoppers -> StopRecord]
                  /\ prune' \in [at : {"idle", "persist", "homes"}, of : Sessions,
                                 seen : Session \cup {NoSession}]
    BY DEF TypeOK, FileType, StopRecord
<1> USE DEF controllerVars, fileVars, historyVars
<1>3. ASSUME NEW c \in Sessions, NEW force \in BOOLEAN, StopBegins(s, c, force)
      PROVE  TypeOK'
    <2>1. record[c] \in Session \cup {NoSession}
        BY DEF TypeOK
    <2>2. stop' \in [Stoppers -> StopRecord]
        BY <1>1, <1>3, <2>1, NoStopType DEF StopBegins, StopRecord, StopPcs
    <2> QED
        BY <1>2, <1>3, <2>2 DEF StopBegins, TypeOK, FileType
<1>4. ASSUME \/ FindsOwned(s) \/ FindsGone(s) \/ FindsUnproven(s) \/ ConfirmsOwned(s)
             \/ FindsEnded(s) \/ LosesOwnership(s) \/ SignalsTunnel(s)
             \/ LeavesToController(s) \/ StopRemovesHome(s) \/ StopClearsIntent(s)
      PROVE  stop' \in [Stoppers -> StopRecord]
    <2>1. stop[s].keepIntent \in BOOLEAN
        BY <1>1 DEF StopRecord
    <2> QED
        BY <1>1, <1>4, <2>1, StopMoves DEF FindsOwned, FindsGone, FindsUnproven, ConfirmsOwned,
           FindsEnded, LosesOwnership, SignalsTunnel, LeavesToController, StopRemovesHome,
           StopClearsIntent, StopPcs
<1>5. CASE \/ FindsOwned(s) \/ FindsGone(s) \/ FindsUnproven(s) \/ ConfirmsOwned(s)
           \/ FindsEnded(s) \/ LosesOwnership(s) \/ LeavesToController(s)
    BY <1>1, <1>2, <1>4, <1>5 DEF FindsOwned, FindsGone, FindsUnproven, ConfirmsOwned,
       FindsEnded, LosesOwnership, LeavesToController, TypeOK, FileType
<1>6. CASE SignalsTunnel(s) \/ StopRemovesHome(s) \/ StopClearsIntent(s)
    BY <1>1, <1>2, <1>4, <1>6 DEF SignalsTunnel, StopRemovesHome, StopClearsIntent, TypeOK,
       FileType, TunnelStates
<1>7. CASE MarksStop(s)
    <2>1. stop' \in [Stoppers -> StopRecord]
        BY <1>1, <1>7, StopMoves DEF MarksStop, StopPcs
    <2> QED
        BY <1>1, <1>2, <1>7, <2>1, RequestType DEF MarksStop, TypeOK, FileType
<1>8. CASE ClaimsStop(s)
    <2>1. CASE Listed(stop[s].of)
        <3>1. record[stop[s].of] \in Session
            BY <1>1, <2>1 DEF TypeOK, Listed, NoSession
        <3>2. [record[stop[s].of] EXCEPT !.stopRequested = TRUE] \in Session
            BY <3>1 DEF Session
        <3>3. stop' \in [Stoppers -> StopRecord]
            BY <1>1, <1>8, <2>1, <3>2 DEF ClaimsStop, StopRecord, StopPcs
        <3> QED
            BY <1>1, <1>2, <1>8, <2>1, <3>3, RequestType DEF ClaimsStop, TypeOK, FileType
    <2>2. CASE ~Listed(stop[s].of)
        <3>1. stop' \in [Stoppers -> StopRecord]
            BY <1>1, <1>8, <2>2, StopMoves DEF ClaimsStop, StopPcs
        <3> QED
            BY <1>1, <1>2, <1>8, <2>2, <3>1 DEF ClaimsStop, TypeOK, FileType
    <2> QED
        BY <2>1, <2>2
<1>9. CASE TakesOver(s)
    <2>1. ASSUME NEW keep \in BOOLEAN, NEW sure \in BOOLEAN
          PROVE  [stop[s] EXCEPT !.at = "settle", !.keepIntent = keep, !.sure = sure] \in StopRecord
        BY <1>1 DEF StopRecord, StopPcs
    <2>2. PICK keep \in BOOLEAN, sure \in BOOLEAN :
             stop' = [stop EXCEPT ![s] = [@ EXCEPT !.at = "settle", !.keepIntent = keep,
                                                    !.sure = sure]]
        BY <1>9, Zenon DEF TakesOver
    <2>3. stop' \in [Stoppers -> StopRecord]
        BY <1>1, <2>1, <2>2
    <2> QED
        BY <1>2, <1>9, <2>3 DEF TakesOver, TypeOK, FileType
<1>10. CASE StopForgets(s)
    <2>1. stop' \in [Stoppers -> StopRecord]
        BY <1>1, <1>10, StopMoves DEF StopForgets, StopPcs
    <2> QED
        BY <1>1, <1>2, <1>10, <2>1, UnlistType DEF StopForgets, TypeOK, FileType
<1> QED
    BY <1>3, <1>5, <1>6, <1>7, <1>8, <1>9, <1>10 DEF StopStep

LEMMA PruneType ==
    ASSUME TypeOK, PruneStep
    PROVE  TypeOK'
<1> USE DEF TypeOK, controllerVars, fileVars, historyVars
<1>1. ASSUME NEW c \in Sessions, PruneInspects(c) PROVE TypeOK'
    BY <1>1 DEF PruneInspects
<1>2. CASE PruneRemoves
    BY <1>2, UnlistType, NoStopType DEF PruneRemoves
<1>3. CASE PruneKeeps \/ PruneRemovesHome
    BY <1>3, NoStopType DEF PruneKeeps, PruneRemovesHome
<1> QED
    BY <1>1, <1>2, <1>3 DEF PruneStep

LEMMA TypeStep == TypeOK /\ CandidateChosen /\ [Next]_vars => TypeOK'
<1> SUFFICES ASSUME TypeOK, CandidateChosen, [Next]_vars PROVE TypeOK'
    OBVIOUS
<1>1. ASSUME NEW c \in Sessions, ControllerStep(c) PROVE TypeOK'
    BY <1>1, RegistrationType, StartupType, DisposeType, CloseType
       DEF ControllerStep, DisposeAfterExit
<1>2. ASSUME NEW c \in Sessions, EnvironmentStep(c) PROVE TypeOK'
    BY <1>2, DisposeType, EnvironmentType DEF EnvironmentStep, Interrupt
<1>3. CASE UNCHANGED vars
    BY <1>3 DEF vars, controllerVars, fileVars, historyVars, TypeOK
<1> QED
    BY <1>1, <1>2, <1>3, StopType, PruneType DEF Next
---------------------------------------------------------------------------
\* What the steps that are not a controller's own do to the records.
StopMarks(c) == Listed(c) /\ record' = [record EXCEPT ![c].stopRequested = TRUE]
OutsideStep ==
    /\ UNCHANGED <<pc, port>>
    /\ \/ UNCHANGED record
       \/ \E c \in Sessions : Unlist(c) \/ StopMarks(c)

LEMMA StopIsOutside ==
    ASSUME TypeOK, NEW s \in Stoppers, StopStep(s)
    PROVE  OutsideStep
<1>1. stop[s].of \in Sessions
    BY DEF TypeOK
<1> USE DEF OutsideStep, controllerVars, fileVars
<1>2. CASE MarksStop(s) \/ ClaimsStop(s)
    BY <1>1, <1>2 DEF MarksStop, ClaimsStop, RequestStop, StopMarks
<1>3. CASE StopForgets(s)
    BY <1>1, <1>3 DEF StopForgets
<1>4. CASE \E c \in Sessions, force \in BOOLEAN : StopBegins(s, c, force)
    BY <1>4 DEF StopBegins
<1>5. CASE \/ FindsOwned(s) \/ FindsGone(s) \/ FindsUnproven(s) \/ ConfirmsOwned(s)
           \/ FindsEnded(s) \/ LosesOwnership(s) \/ SignalsTunnel(s) \/ LeavesToController(s)
           \/ TakesOver(s) \/ StopRemovesHome(s) \/ StopClearsIntent(s)
    BY <1>5 DEF FindsOwned, FindsGone, FindsUnproven, ConfirmsOwned, FindsEnded,
       LosesOwnership, SignalsTunnel, LeavesToController, TakesOver, StopRemovesHome,
       StopClearsIntent
<1> QED
    BY <1>2, <1>3, <1>4, <1>5 DEF StopStep

LEMMA PruneIsOutside ==
    ASSUME TypeOK, PruneStep
    PROVE  OutsideStep
<1>1. prune.of \in Sessions
    BY DEF TypeOK
<1> QED
    BY <1>1 DEF PruneStep, PruneInspects, PruneRemoves, PruneKeeps, PruneRemovesHome,
       OutsideStep, controllerVars, fileVars

\* The environment lets a tunnel or a limit go by, or kills a controller.
LEMMA EnvironmentIsOutside ==
    ASSUME NEW c \in Sessions,
           TunnelBinds(c) \/ TunnelDies(c) \/ Expire(c) \/ DoctorRemovesHome(c)
    PROVE  OutsideStep
    BY DEF TunnelBinds, TunnelDies, Expire, DoctorRemovesHome, OutsideStep, controllerVars,
       fileVars

LEMMA OutsideKeepsInv ==
    ASSUME TypeOK, CandidateChosen, StatusFollowsController, OutsideStep
    PROVE  CandidateChosen' /\ StatusFollowsController'
<1>1. CandidateChosen'
    BY DEF CandidateChosen, Chosen, OutsideStep
<1>2. ASSUME NEW d \in Sessions PROVE Follows(d)'
    <2>1. Follows(d)
        BY DEF StatusFollowsController
    <2>2. CASE UNCHANGED record
        BY <2>1, <2>2 DEF OutsideStep, Follows, Listed
    <2>3. ASSUME NEW c \in Sessions, Unlist(c) PROVE Follows(d)'
        BY <2>1, <2>3 DEF OutsideStep, Follows, Listed, Unlist, TypeOK, NoSession
    <2>4. ASSUME NEW c \in Sessions, StopMarks(c) PROVE Follows(d)'
        <3>1. record'[d].status = record[d].status
            BY <2>4 DEF StopMarks, Listed, TypeOK, Session, NoSession
        <3> QED
            BY <2>1, <3>1 DEF OutsideStep, Follows, Listed
    <2> QED
        BY <2>2, <2>3, <2>4 DEF OutsideStep
<1> QED
    BY <1>1, <1>2 DEF StatusFollowsController
---------------------------------------------------------------------------
\* What a controller's own step does to its place and its record.  A status is written
\* with the place it belongs to; every other step leaves the record alone.
Ended == {"exited", "retained", "dead"}
Registers(c) ==
    /\ ~SameTargetListed(c) /\ ~Reserved(port[c])
    /\ pc[c] = "persist" /\ pc' = [pc EXCEPT ![c] = "home"]
    /\ record' = [record EXCEPT ![c] = [NoSession EXCEPT !.status = "starting", !.port = port[c]]]
WritesStatus(c, to, status) ==
    /\ ~StartupBlocked(c)
    /\ pc[c] \in Startup \ {"assert"} /\ pc' = [pc EXCEPT ![c] = to]
    /\ record' = [record EXCEPT ![c].status = status]
RecordsPid(c) ==
    /\ Listed(c)
    /\ pc[c] = "recordPid" /\ pc' = [pc EXCEPT ![c] = "verify"]
    /\ record' = [record EXCEPT ![c].tunnelPid = TRUE]
StopsItself(c) ==
    /\ Listed(c)
    /\ pc[c] = "setStopping" /\ pc' = [pc EXCEPT ![c] = "kill"]
    /\ record' = [record EXCEPT ![c].status = "stopping"]
Forgets(c) == pc[c] = "forget" /\ pc' = [pc EXCEPT ![c] = "rmHome"] /\ Unlist(c)
Moves(c) ==
    /\ UNCHANGED record
    /\ \/ UNCHANGED pc
       \/ \E to \in FinalizingPcs \cup Ended : pc' = [pc EXCEPT ![c] = to]
       \/ pc[c] \in Unregistered /\ \E to \in Unregistered : pc' = [pc EXCEPT ![c] = to]
       \/ pc[c] \in Startup \ {"commit", "assert"}
            /\ \E to \in Startup \ {"assert"} : pc' = [pc EXCEPT ![c] = to]
       \/ /\ pc[c] \in {"assert", "ready"}
          /\ \E to \in {"ready", "setStopping"} : pc' = [pc EXCEPT ![c] = to]

OwnStep(c) ==
    \/ Registers(c) \/ RecordsPid(c) \/ StopsItself(c) \/ Forgets(c) \/ Moves(c)
    \/ WritesStatus(c, "remote", "logging-in") \/ WritesStatus(c, "spawn", "tunneling")
    \/ WritesStatus(c, "assert", "ready")

LEMMA TransitionIsOwn ==
    ASSUME NEW c \in Sessions, NEW from \in Startup \ {"assert"}, NEW to, NEW status,
           Transition(c, from, to, status)
    PROVE  WritesStatus(c, to, status) \/ Moves(c)
<1>1. CASE StartupBlocked(c) \/ (status = "ready" /\ ~record[c].tunnelPid)
    BY <1>1 DEF Transition, Goto, Moves
<1>2. CASE ~(StartupBlocked(c) \/ (status = "ready" /\ ~record[c].tunnelPid))
    BY <1>2 DEF Transition, Goto, WritesStatus
<1> QED
    BY <1>1, <1>2

LEMMA ControllerIsOwn ==
    ASSUME NEW c \in Sessions, ControllerStep(c) \/ Interrupt(c) \/ Crash(c)
    PROVE  OwnStep(c)
<1> USE DEF OwnStep, controllerVars, fileVars
<1>1. CASE LogIn(c) \/ BeginTunnel(c) \/ CommitReady(c)
    BY <1>1, TransitionIsOwn DEF LogIn, BeginTunnel, CommitReady
<1>2. CASE PersistRegistration(c)
    BY <1>2 DEF PersistRegistration, Goto, Registers
<1>3. CASE RecordTunnelPid(c)
    BY <1>3 DEF RecordTunnelPid, Goto, RecordsPid, Moves, StartupBlocked
<1>4. CASE SetStopping(c)
    BY <1>4 DEF SetStopping, Goto, StopsItself, Moves
<1>5. CASE ForgetSession(c)
    BY <1>5 DEF ForgetSession, Goto, Forgets
<1>6. CASE \/ SelectCandidate(c) \/ NoCandidate(c) \/ ProbeBusy(c) \/ ProbeFree(c)
           \/ PersistRefused(c) \/ LosesTarget(c) \/ AbortUnregistered(c)
    BY <1>6 DEF SelectCandidate, NoCandidate, ProbeBusy, ProbeFree, PersistRefused,
       LosesTarget, AbortUnregistered, Ends, Goto, Moves, Ended
<1>7. CASE \/ PrepareHome(c) \/ SpawnTunnel(c) \/ VerifyTunnel(c) \/ AssertRunning(c)
           \/ StartupFails(c)
    BY <1>7 DEF PrepareHome, SpawnTunnel, VerifyTunnel, AssertRunning, StartupFails, Goto, Moves
<1>8. CASE \/ BeginDispose(c) \/ KillTunnel(c) \/ TunnelOutlives(c) \/ RemoveHome(c)
           \/ ClearIntent(c) \/ Crash(c)
    BY <1>8 DEF BeginDispose, KillTunnel, TunnelOutlives, RemoveHome, ClearIntent, Crash,
       Ends, Goto, Moves, Ended
<1>9. CASE CloseTunnel(c) \/ JudgeClose(c) \/ ClearAfterClose(c)
    BY <1>9 DEF CloseTunnel, JudgeClose, ClearAfterClose, Moves
<1> QED
    BY <1>1, <1>2, <1>3, <1>4, <1>5, <1>6, <1>7, <1>8, <1>9
       DEF ControllerStep, DisposeAfterExit, Interrupt

LEMMA OwnKeepsStatus ==
    ASSUME TypeOK, StatusFollowsController, NEW c \in Sessions, OwnStep(c)
    PROVE  StatusFollowsController'
<1>1. ASSUME NEW d \in Sessions, d # c PROVE Follows(d)'
    <2>1. pc'[d] = pc[d] /\ record'[d] = record[d]
        BY <1>1 DEF TypeOK, OwnStep, Registers, RecordsPid, StopsItself, Forgets, Moves,
           WritesStatus, Unlist
    <2> QED
        BY <2>1 DEF StatusFollowsController, Follows, Listed
<1>2. Follows(c)'
    <2>1. Follows(c)
        BY DEF StatusFollowsController
    <2> USE DEF TypeOK, Follows, Listed
    <2>2. CASE Registers(c)
        BY <2>2 DEF Registers, BeforeReady, NoSession
    <2>3. CASE RecordsPid(c)
        BY <2>1, <2>3, RecordWrite DEF RecordsPid, Session, NoSession
    <2>4. CASE StopsItself(c) \/ Forgets(c)
        BY <2>4 DEF StopsItself, Forgets, Unlist, NoSession
    <2>5. CASE \/ WritesStatus(c, "remote", "logging-in") \/ WritesStatus(c, "spawn", "tunneling")
               \/ WritesStatus(c, "assert", "ready")
        <3>1. record[c] \in Session
            BY <2>5 DEF WritesStatus, StartupBlocked, NoSession
        <3> QED
            BY <2>5, <3>1 DEF WritesStatus, BeforeReady, Session
    <2>6. CASE Moves(c)
        BY <2>1, <2>6 DEF Moves, Ended
    <2> QED
        BY <2>2, <2>3, <2>4, <2>5, <2>6 DEF OwnStep
<1> QED
    BY <1>1, <1>2 DEF StatusFollowsController

LEMMA OwnKeepsCandidate ==
    ASSUME TypeOK, CandidateChosen, NEW c \in Sessions,
           ControllerStep(c) \/ Interrupt(c) \/ Crash(c)
    PROVE  CandidateChosen'
<1> USE DEF TypeOK, CandidateChosen, Chosen
<1>1. CASE SelectCandidate(c)
    BY <1>1 DEF SelectCandidate, Goto
<1>2. CASE ProbeFree(c)
    BY <1>2 DEF ProbeFree, Goto
<1>3. CASE ProbeBusy(c) \/ PersistRefused(c)
    BY <1>3 DEF ProbeBusy, PersistRefused, Goto, Exclude
<1>4. CASE \/ NoCandidate(c) \/ LosesTarget(c) \/ AbortUnregistered(c) \/ TunnelOutlives(c)
           \/ ClearIntent(c) \/ Crash(c)
    BY <1>4 DEF NoCandidate, LosesTarget, AbortUnregistered, TunnelOutlives, ClearIntent,
       Crash, Ends, Goto
<1>5. CASE \/ PersistRegistration(c) \/ PrepareHome(c) \/ SpawnTunnel(c) \/ VerifyTunnel(c)
           \/ AssertRunning(c) \/ StartupFails(c)
    BY <1>5 DEF PersistRegistration, PrepareHome, SpawnTunnel, VerifyTunnel, AssertRunning,
       StartupFails, Goto
<1>6. CASE LogIn(c) \/ BeginTunnel(c) \/ CommitReady(c) \/ RecordTunnelPid(c)
    BY <1>6 DEF LogIn, BeginTunnel, CommitReady, Transition, RecordTunnelPid, Goto
<1>7. CASE \/ BeginDispose(c) \/ SetStopping(c) \/ KillTunnel(c) \/ ForgetSession(c)
           \/ RemoveHome(c)
    BY <1>7 DEF BeginDispose, SetStopping, KillTunnel, ForgetSession, RemoveHome, Goto
<1>8. CASE CloseTunnel(c) \/ JudgeClose(c) \/ ClearAfterClose(c)
    BY <1>8 DEF CloseTunnel, JudgeClose, ClearAfterClose, controllerVars
<1> QED
    BY <1>1, <1>2, <1>3, <1>4, <1>5, <1>6, <1>7, <1>8
       DEF ControllerStep, DisposeAfterExit, Interrupt

\* Every step is a controller's own, or one from outside, or changes nothing.
LEMMA StepKinds ==
    ASSUME TypeOK, Next
    PROVE  \/ \E c \in Sessions : ControllerStep(c) \/ Interrupt(c) \/ Crash(c)
           \/ OutsideStep
    BY StopIsOutside, PruneIsOutside, EnvironmentIsOutside DEF Next, EnvironmentStep

LEMMA Inductive == RegistryInv /\ [Next]_vars => RegistryInv'
<1> SUFFICES ASSUME RegistryInv, [Next]_vars PROVE RegistryInv'
    OBVIOUS
<1>1. TypeOK'
    BY TypeStep DEF RegistryInv
<1>2. CASE UNCHANGED vars
    BY <1>1, <1>2 DEF RegistryInv, vars, controllerVars, fileVars, CandidateChosen, Chosen,
       StatusFollowsController, Follows, Listed
<1>3. ASSUME NEW c \in Sessions, ControllerStep(c) \/ Interrupt(c) \/ Crash(c)
      PROVE  RegistryInv'
    BY <1>1, <1>3, ControllerIsOwn, OwnKeepsStatus, OwnKeepsCandidate DEF RegistryInv
<1>4. CASE OutsideStep
    BY <1>1, <1>4, OutsideKeepsInv DEF RegistryInv
<1> QED
    BY <1>2, <1>3, <1>4, StepKinds DEF RegistryInv

LEMMA InvInit == Init => RegistryInv
    BY TypeInit DEF Init, RegistryInv, CandidateChosen, Chosen, StatusFollowsController,
       Follows, Listed, NoSession

LEMMA AlwaysInv == Spec => []RegistryInv
<1> QED
    BY InvInit, Inductive, PTL DEF Spec

\* Every variable keeps its type: in particular a record that a stop or a prune has
\* removed is never written to again by the controller that lost it.
THEOREM TypeCorrect == Spec => []TypeOK
<1>1. RegistryInv => TypeOK
    BY DEF RegistryInv
<1> QED
    BY <1>1, AlwaysInv, PTL
---------------------------------------------------------------------------
(***************************************************************************)
(* The state file implements the registry.  Every step changes at most one *)
(* record, so what a registry step does to the three registry variables is *)
(* read off the old and the new record of that one session.                *)
(***************************************************************************)
PhaseOf(r) == IF r.status = "none" THEN "none"
              ELSE IF r.status \in {"ready", "stopping"} THEN "ready" ELSE "starting"
AskedToStop(r) == r.stopRequested \/ r.status = "stopping"

LEMMA PhaseView ==
    /\ Phase = [c \in Sessions |-> PhaseOf(record[c])]
    /\ Stopping = {c \in Sessions : AskedToStop(record[c])}
    BY DEF Phase, Stopping, PhaseOf, AskedToStop, Listed

LEMMA OneRecord ==
    ASSUME TypeOK, NEW c \in Sessions, NEW r, record' = [record EXCEPT ![c] = r]
    PROVE  /\ Phase' = [Phase EXCEPT ![c] = PhaseOf(r)]
           /\ LocalPort' = [LocalPort EXCEPT ![c] = r.port]
           /\ Stopping' = IF AskedToStop(r) THEN Stopping \cup {c} ELSE Stopping \ {c}
<1>1. /\ record'[c] = r
      /\ \A d \in Sessions \ {c} : record'[d] = record[d]
    BY DEF TypeOK
<1>2. Phase' = [d \in Sessions |-> PhaseOf(record'[d])]
    BY DEF Phase, PhaseOf, Listed
<1>3. Phase' = [Phase EXCEPT ![c] = PhaseOf(r)]
    BY <1>1, <1>2, PhaseView
<1>4. LocalPort' = [LocalPort EXCEPT ![c] = r.port]
    <2>1. LocalPort' = [d \in Sessions |-> record'[d].port]
        BY DEF LocalPort
    <2>2. LocalPort = [d \in Sessions |-> record[d].port]
        BY DEF LocalPort
    <2> QED
        BY <1>1, <2>1, <2>2
<1>5. Stopping' = {d \in Sessions : AskedToStop(record'[d])}
    BY DEF Stopping, AskedToStop
<1>6. Stopping' = IF AskedToStop(r) THEN Stopping \cup {c} ELSE Stopping \ {c}
    BY <1>1, <1>5, PhaseView
<1> QED
    BY <1>3, <1>4, <1>6

\* Nobody registers in the step, and nobody gives up before it registered.
KeepsRegistered == \A d \in Sessions : pc'[d] \in Unregistered <=> pc[d] \in Unregistered

LEMMA SameOver ==
    ASSUME TypeOK, KeepsRegistered, NEW c \in Sessions, NEW r,
           record' = [record EXCEPT ![c] = r], r.status = "none" <=> ~Listed(c)
    PROVE  Over' = Over
<1>1. \A d \in Sessions : Listed(d)' <=> Listed(d)
    BY DEF Listed, TypeOK
<1> QED
    BY <1>1 DEF Over, KeepsRegistered

\* A step that leaves what the registry shows of one record alone is a stutter.
LEMMA SameView ==
    ASSUME TypeOK, NEW c \in Sessions, NEW r, record' = [record EXCEPT ![c] = r],
           PhaseOf(r) = PhaseOf(record[c]), r.port = record[c].port,
           AskedToStop(r) <=> AskedToStop(record[c]), KeepsRegistered
    PROVE  UNCHANGED <<Phase, LocalPort, Stopping, Over>>
<1>1. Phase[c] = PhaseOf(r) /\ LocalPort[c] = r.port /\ (c \in Stopping <=> AskedToStop(r))
    BY PhaseView DEF LocalPort
<1>2. Phase' = Phase
    <2>1. Phase' = [Phase EXCEPT ![c] = Phase[c]]
        BY <1>1, OneRecord
    <2>2. Phase = [d \in Sessions |-> Phase[d]]
        BY DEF Phase
    <2> QED
        BY <2>1, <2>2
<1>3. LocalPort' = LocalPort
    <2>1. LocalPort' = [LocalPort EXCEPT ![c] = LocalPort[c]]
        BY <1>1, OneRecord
    <2>2. LocalPort = [d \in Sessions |-> LocalPort[d]]
        BY DEF LocalPort
    <2> QED
        BY <2>1, <2>2
<1>4. Stopping' = Stopping
    <2>1. Stopping' = IF AskedToStop(r) THEN Stopping \cup {c} ELSE Stopping \ {c}
        BY OneRecord
    <2> QED
        BY <1>1, <2>1
<1>5. Over' = Over
    <2>1. r.status = "none" <=> ~Listed(c)
        BY DEF PhaseOf, Listed
    <2> QED
        BY <2>1, SameOver
<1> QED
    BY <1>2, <1>3, <1>4, <1>5

\* A removal, by whoever: Forget, or a stutter when the record was gone already.
LEMMA UnlistView ==
    ASSUME TypeOK, StatusFollowsController, KeepsRegistered, NEW c \in Sessions, Unlist(c)
    PROVE  Registry!Next \/ UNCHANGED <<Phase, LocalPort, Stopping, Over>>
<1>0. record' = [record EXCEPT ![c] = NoSession]
    BY DEF Unlist
<1>1. CASE ~Listed(c)
    <2>1. record[c] = NoSession
        BY <1>1 DEF TypeOK, Listed, Session, Statuses
    <2> QED
        BY <1>0, <2>1, SameView
<1>2. CASE Listed(c)
    <2>1. ~AskedToStop(NoSession) /\ PhaseOf(NoSession) = "none" /\ NoSession.port = NoPort
        BY DEF AskedToStop, PhaseOf, NoSession
    <2>2. /\ Phase' = [Phase EXCEPT ![c] = "none"]
          /\ LocalPort' = [LocalPort EXCEPT ![c] = NoPort]
          /\ Stopping' = Stopping \ {c}
        BY <1>0, <2>1, OneRecord
    <2>3. Phase[c] # "none"
        BY <1>2 DEF Phase
    <2>4. Phase' = [d \in Sessions |-> IF d \in {c} THEN "none" ELSE Phase[d]]
        BY <2>2 DEF Phase
    <2>5. LocalPort' = [d \in Sessions |-> IF d \in {c} THEN NoPort ELSE LocalPort[d]]
        BY <2>2 DEF LocalPort
    <2>6. Over' = Over \cup {c}
        <3>1. pc[c] \notin Unregistered
            BY <1>2 DEF StatusFollowsController, Follows
        <3>2. ~Listed(c)' /\ \A d \in Sessions \ {c} : Listed(d)' <=> Listed(d)
            BY <1>0 DEF Listed, TypeOK, NoSession
        <3> QED
            BY <3>1, <3>2 DEF Over, KeepsRegistered
    <2>7. Registry!Forget({c})
        BY <2>2, <2>3, <2>4, <2>5, <2>6 DEF Registry!Forget, Registry!Listed
    <2> QED
        BY <2>7 DEF Registry!Next
<1> QED
    BY <1>1, <1>2

\* A request to stop, by a stop command or by the controller that disposes itself.
LEMMA AskView ==
    ASSUME TypeOK, NEW c \in Sessions, Listed(c), NEW r, record' = [record EXCEPT ![c] = r],
           PhaseOf(r) = PhaseOf(record[c]), r.port = record[c].port, AskedToStop(r),
           KeepsRegistered
    PROVE  Registry!Next
<1>1. Phase[c] # "none" /\ Phase[c] = PhaseOf(r) /\ LocalPort[c] = r.port
    BY PhaseView DEF LocalPort, Listed, PhaseOf
<1>2. Phase' = Phase /\ LocalPort' = LocalPort
    <2>1. Phase' = [Phase EXCEPT ![c] = Phase[c]] /\ LocalPort' = [LocalPort EXCEPT ![c] = LocalPort[c]]
        BY <1>1, OneRecord
    <2>2. Phase = [d \in Sessions |-> Phase[d]] /\ LocalPort = [d \in Sessions |-> LocalPort[d]]
        BY DEF Phase, LocalPort
    <2> QED
        BY <2>1, <2>2
<1>3. Stopping' = Stopping \cup {c}
    BY OneRecord
<1>4. Over' = Over
    <2>1. r.status = "none" <=> ~Listed(c)
        BY DEF PhaseOf, Listed
    <2> QED
        BY <2>1, SameOver
<1>5. Registry!AskToStop(c)
    BY <1>1, <1>2, <1>3, <1>4 DEF Registry!AskToStop, Registry!Listed
<1> QED
    BY <1>5 DEF Registry!Next

\* A status written during startup: the session becomes ready, or nothing is seen of it.
LEMMA StatusView ==
    ASSUME TypeOK, StatusFollowsController, NEW c \in Sessions, NEW to, NEW status,
           WritesStatus(c, to, status), status \in {"logging-in", "tunneling", "ready"},
           to \in Startup
    PROVE  Registry!Next \/ UNCHANGED <<Phase, LocalPort, Stopping, Over>>
<1> DEFINE r == [record[c] EXCEPT !.status = status]
<1>1. Listed(c) /\ ~AskedToStop(record[c]) /\ record[c] \in Session
    BY DEF WritesStatus, StartupBlocked, AskedToStop, TypeOK, Listed, NoSession
<1>2. record[c].status \in BeforeReady
    BY <1>1 DEF WritesStatus, StatusFollowsController, Follows
<1>3. record' = [record EXCEPT ![c] = r]
    BY DEF WritesStatus
<1>4. r.status = status /\ r.port = record[c].port /\ ~AskedToStop(r)
    BY <1>1 DEF AskedToStop, Session
<1>0. KeepsRegistered
    BY DEF KeepsRegistered, WritesStatus, TypeOK
<1> HIDE DEF r
<1>5. CASE status # "ready"
    <2>1. PhaseOf(r) = PhaseOf(record[c])
        BY <1>2, <1>4, <1>5 DEF PhaseOf, BeforeReady
    <2> QED
        BY <1>0, <1>1, <1>3, <1>4, <2>1, SameView
<1>6. CASE status = "ready"
    <2>1. Phase[c] = "starting" /\ c \notin Stopping /\ PhaseOf(r) = "ready"
        BY <1>1, <1>2, <1>4, <1>6, PhaseView DEF PhaseOf, BeforeReady
    <2>2. Phase' = [Phase EXCEPT ![c] = "ready"] /\ Stopping' = Stopping
        <3>1. Phase' = [Phase EXCEPT ![c] = PhaseOf(r)] /\ Stopping' = Stopping \ {c}
            BY <1>3, <1>4, OneRecord
        <3> QED
            BY <2>1, <3>1
    <2>3. LocalPort' = LocalPort
        <3>1. LocalPort' = [LocalPort EXCEPT ![c] = LocalPort[c]]
            BY <1>3, <1>4, OneRecord DEF LocalPort
        <3>2. LocalPort = [d \in Sessions |-> LocalPort[d]]
            BY DEF LocalPort
        <3> QED
            BY <3>1, <3>2
    <2>4. Over' = Over
        <3>1. r.status # "none"
            BY <1>4, <1>6
        <3> QED
            BY <1>0, <1>1, <1>3, <3>1, SameOver
    <2>5. Registry!BecomeReady(c)
        BY <2>1, <2>2, <2>3, <2>4 DEF Registry!BecomeReady
    <2> QED
        BY <2>5 DEF Registry!Next
<1> QED
    BY <1>5, <1>6

LEMMA RegisterView ==
    ASSUME TypeOK, CandidateChosen, NEW c \in Sessions, Registers(c)
    PROVE  Registry!Next
<1> DEFINE r == [NoSession EXCEPT !.status = "starting", !.port = port[c]]
<1>1. r.status = "starting" /\ r.port = port[c] /\ ~AskedToStop(r) /\ PhaseOf(r) = "starting"
    BY DEF NoSession, AskedToStop, PhaseOf
<1>2. port[c] \in Ports
    BY DEF Registers, CandidateChosen, Chosen
<1>3. record' = [record EXCEPT ![c] = r]
    BY DEF Registers
<1> HIDE DEF r
<1>4. \A d \in Sessions : Phase[d] # "none" =>
          Listed(d) /\ Target[d] # Target[c] /\ LocalPort[d] # port[c]
    BY DEF Registers, SameTargetListed, Reserved, Phase, LocalPort
<1>5. ~Listed(c)
    BY DEF Registers, SameTargetListed
<1>6. Phase[c] = "none" /\ c \notin Stopping
    BY <1>5 DEF Phase, Stopping, TypeOK, Listed, Session, Statuses, NoSession
<1>7. /\ Phase' = [Phase EXCEPT ![c] = "starting"]
      /\ LocalPort' = [LocalPort EXCEPT ![c] = port[c]]
      /\ Stopping' = Stopping
    <2>1. /\ Phase' = [Phase EXCEPT ![c] = PhaseOf(r)]
          /\ LocalPort' = [LocalPort EXCEPT ![c] = r.port]
          /\ Stopping' = Stopping \ {c}
        BY <1>1, <1>3, OneRecord
    <2> QED
        BY <1>1, <1>6, <2>1
<1>8. c \notin Over /\ Over' = Over
    <2>1. pc[c] = "persist" /\ pc' = [pc EXCEPT ![c] = "home"]
        BY DEF Registers
    <2>2. Listed(c)' /\ \A d \in Sessions \ {c} : Listed(d)' <=> Listed(d)
        BY <1>1, <1>3 DEF Listed, TypeOK
    <2> QED
        BY <2>1, <2>2 DEF Over, TypeOK
<1>9. Registry!Register(c, port[c])
    BY <1>4, <1>6, <1>7, <1>8 DEF Registry!Register, Registry!Listed
<1> QED
    BY <1>2, <1>9 DEF Registry!Next

LEMMA OwnView ==
    ASSUME TypeOK, CandidateChosen, StatusFollowsController, NEW c \in Sessions, OwnStep(c)
    PROVE  Registry!Next \/ UNCHANGED <<Phase, LocalPort, Stopping, Over>>
<1>1. CASE Moves(c)
    <2>1. UNCHANGED <<Phase, LocalPort, Stopping>> /\ \A d \in Sessions : Listed(d)' <=> Listed(d)
        BY <1>1 DEF Moves, Phase, LocalPort, Stopping, Listed
    <2>2. CASE KeepsRegistered
        BY <2>1, <2>2 DEF Over, KeepsRegistered
    <2>3. CASE ~KeepsRegistered
        <3>1. /\ pc[c] \in Unregistered /\ pc'[c] \notin Unregistered
              /\ \A d \in Sessions \ {c} : pc'[d] = pc[d]
            BY <1>1, <2>3 DEF Moves, KeepsRegistered, Ended, TypeOK
        <3>2. ~Listed(c)
            BY <3>1 DEF StatusFollowsController, Follows
        <3>3. Over' = Over \cup {c} /\ Phase[c] = "none"
            BY <2>1, <3>1, <3>2 DEF Over, Phase
        <3>4. Registry!GiveUp(c)
            BY <2>1, <3>3 DEF Registry!GiveUp, Registry!Listed
        <3> QED
            BY <3>4 DEF Registry!Next
    <2> QED
        BY <2>2, <2>3
<1>2. CASE RecordsPid(c)
    <2> DEFINE r == [record[c] EXCEPT !.tunnelPid = TRUE]
    <2>1. record[c] \in Session
        BY <1>2 DEF RecordsPid, TypeOK, Listed, NoSession
    <2>2. record' = [record EXCEPT ![c] = r]
        BY <1>2 DEF RecordsPid
    <2>3. /\ PhaseOf(r) = PhaseOf(record[c]) /\ r.port = record[c].port
          /\ AskedToStop(r) <=> AskedToStop(record[c])
        BY <2>1 DEF PhaseOf, AskedToStop, Session
    <2>4. KeepsRegistered
        BY <1>2 DEF RecordsPid, KeepsRegistered, TypeOK
    <2> QED
        BY <2>2, <2>3, <2>4, SameView
<1>3. CASE StopsItself(c)
    <2> DEFINE r == [record[c] EXCEPT !.status = "stopping"]
    <2>1. record[c] \in Session /\ record[c].status = "ready"
        BY <1>3 DEF StopsItself, TypeOK, Listed, NoSession, StatusFollowsController, Follows
    <2>2. record' = [record EXCEPT ![c] = r]
        BY <1>3 DEF StopsItself
    <2>3. PhaseOf(r) = PhaseOf(record[c]) /\ r.port = record[c].port /\ AskedToStop(r)
        BY <2>1 DEF PhaseOf, AskedToStop, Session
    <2>4. KeepsRegistered
        BY <1>3 DEF StopsItself, KeepsRegistered, TypeOK
    <2> QED
        BY <1>3, <2>2, <2>3, <2>4, AskView DEF StopsItself
<1>4. CASE Forgets(c)
    <2>1. KeepsRegistered
        BY <1>4 DEF Forgets, KeepsRegistered, TypeOK
    <2> QED
        BY <1>4, <2>1, UnlistView DEF Forgets
<1>5. CASE \/ WritesStatus(c, "remote", "logging-in") \/ WritesStatus(c, "spawn", "tunneling")
           \/ WritesStatus(c, "assert", "ready")
    BY <1>5, StatusView
<1> QED
    BY <1>1, <1>2, <1>3, <1>4, <1>5, RegisterView DEF OwnStep

LEMMA OutsideView ==
    ASSUME TypeOK, StatusFollowsController, OutsideStep
    PROVE  Registry!Next \/ UNCHANGED <<Phase, LocalPort, Stopping, Over>>
<1>0. KeepsRegistered
    BY DEF OutsideStep, KeepsRegistered
<1>1. CASE UNCHANGED record
    BY <1>1 DEF OutsideStep, Phase, LocalPort, Stopping, Over, Listed
<1>2. ASSUME NEW c \in Sessions, StopMarks(c) PROVE Registry!Next
    <2> DEFINE r == [record[c] EXCEPT !.stopRequested = TRUE]
    <2>1. record[c] \in Session
        BY <1>2 DEF StopMarks, TypeOK, Listed, NoSession
    <2>2. record' = [record EXCEPT ![c] = r]
        BY <1>2 DEF StopMarks
    <2>3. PhaseOf(r) = PhaseOf(record[c]) /\ r.port = record[c].port /\ AskedToStop(r)
        BY <2>1 DEF PhaseOf, AskedToStop, Session
    <2> QED
        BY <1>0, <1>2, <2>2, <2>3, AskView DEF StopMarks
<1> QED
    BY <1>0, <1>1, <1>2, UnlistView DEF OutsideStep

\* Under any interleaving of starts, stops, prunes, expiries and crashes the state file
\* gives a target and a port to one session at a time, and a session that was asked to
\* stop before it was ready does not become ready; a session that has left the file is not
\* written back by whoever still works for it.
THEOREM Refinement == Spec => ImplementsRegistry
<1>1. Init => Registry!Init
    BY DEF Init, Registry!Init, Phase, LocalPort, Stopping, Over, Listed, NoSession
<1>2. RegistryInv /\ [Next]_vars => [Registry!Next]_(Registry!registryVars)
    <2> SUFFICES ASSUME RegistryInv, [Next]_vars
                 PROVE  Registry!Next \/ UNCHANGED <<Phase, LocalPort, Stopping, Over>>
        BY DEF Registry!registryVars
    <2>1. CASE UNCHANGED vars
        BY <2>1 DEF vars, controllerVars, fileVars, Phase, LocalPort, Stopping, Over, Listed
    <2>2. ASSUME NEW c \in Sessions, ControllerStep(c) \/ Interrupt(c) \/ Crash(c)
          PROVE  Registry!Next \/ UNCHANGED <<Phase, LocalPort, Stopping, Over>>
        BY <2>2, ControllerIsOwn, OwnView DEF RegistryInv
    <2>3. CASE OutsideStep
        BY <2>3, OutsideView DEF RegistryInv
    <2> QED
        BY <2>1, <2>2, <2>3, StepKinds DEF RegistryInv
<1> QED
    BY <1>1, <1>2, AlwaysInv, PTL DEF Spec, ImplementsRegistry, Registry!Spec
---------------------------------------------------------------------------
(***************************************************************************)
(* What a session leaves behind, and who may take what from it.  A stop    *)
(* command and a prune go by what they read some steps ago, so their part  *)
(* of the invariant says which of it still holds: only facts that no later *)
(* step can undo.                                                          *)
(***************************************************************************)
BeforeTunnel == Unregistered \cup {"home", "login", "remote", "spawn"}

\* Nothing of a session exists before the step that creates it.
Fresh(c) ==
    /\ pc[c] \in Unregistered => c \notin home /\ c \notin intent
    /\ pc[c] \in BeforeTunnel => tunnel[c] = "none"
    /\ pc[c] \in Unregistered \cup Startup => close[c] = "open"

\* Each step of finalizeTunnelLifecycle is final: nobody brings back what it removed.
Cleaned(c) ==
    /\ pc[c] \in {"forget", "rmHome", "clear", "exited"} => ~TunnelAlive(c)
    /\ pc[c] \in {"rmHome", "clear", "exited"} => ~Listed(c)
    /\ pc[c] \in {"clear", "exited"} => c \notin home
    /\ pc[c] = "exited" => c \notin intent

KeepsHome(c) ==
    pc[c] \in (Startup \ {"home"}) \cup {"ready"} /\ Listed(c) => c \in home

\* The tunnel pid is written before "ready", and stays until the tunnel has ended.
KeepsTunnel(c) ==
    /\ record[c].status = "ready" => record[c].tunnelPid
    /\ pc[c] \in {"assert", "ready"} /\ TunnelAlive(c) /\ c \notin forced => record[c].tunnelPid

\* Every trace of a stop request, in the file, in the directory or in what the handler of
\* the tunnel's end has read, goes back to a stop command.
AskedFor(c) ==
    Running(c) =>
        /\ record[c].stopRequested \/ c \in intent \/ close[c] = "sidecar" => c \in asked
        /\ pc[c] = "ready" /\ close[c] \in {"clear", "expected"} => c \in asked

SessionOK(c) == Fresh(c) /\ Cleaned(c) /\ KeepsHome(c) /\ KeepsTunnel(c) /\ AskedFor(c)

\* Facts about a session that last: it has been registered; its record is gone for good;
\* it will not become ready; its record may be removed.
Begun(c) == pc[c] \notin Unregistered
Gone(c) == Begun(c) /\ ~Listed(c)
Doomed(c) ==
    /\ Begun(c) /\ pc[c] \notin {"assert", "ready"}
    /\ pc[c] \in Startup => StartupBlocked(c)
Sealed(c) == TunnelGone(c) \/ c \in forced \/ Doomed(c)

StopKnows(s) ==
    LET c == stop[s].of IN
    /\ stop[s].at # "idle" => Begun(c)
    /\ stop[s].at = "owns" => stop[s].seen.tunnelPid
    /\ stop[s].at \in {"claim", "settle"} => stop[s].seen.tunnelPid \/ Doomed(c)
    /\ stop[s].at = "remove" => Sealed(c)
    /\ stop[s].at \in {"rmHome", "clear"} => Gone(c)
PruneKnows ==
    /\ prune.at # "idle" => Begun(prune.of)
    /\ prune.at = "homes" => Gone(prune.of)

CleanupInv ==
    /\ \A c \in Sessions : SessionOK(c)
    /\ \A s \in Stoppers : StopKnows(s)
    /\ PruneKnows

\* The step does not touch the session.
Same(c) ==
    /\ pc'[c] = pc[c] /\ record'[c] = record[c] /\ tunnel'[c] = tunnel[c] /\ close'[c] = close[c]
    /\ c \in home' <=> c \in home
    /\ c \in intent' <=> c \in intent
    /\ c \in asked' <=> c \in asked
    /\ c \in forced' <=> c \in forced

LEMMA SameKeeps ==
    ASSUME NEW c \in Sessions, SessionOK(c), Same(c)
    PROVE  SessionOK(c)'
    BY DEF Same, SessionOK, Fresh, Cleaned, KeepsHome, KeepsTunnel, AskedFor, BeforeTunnel,
       TunnelAlive, Listed, Running

Lasting(c) ==
    /\ Begun(c) => Begun(c)'
    /\ Gone(c) => Gone(c)'
    /\ Doomed(c) => Doomed(c)'
    /\ Sealed(c) => Sealed(c)'

LEMMA SameLasts ==
    ASSUME NEW c \in Sessions, Same(c)
    PROVE  Lasting(c)
    BY DEF Same, Lasting, Begun, Gone, Doomed, Sealed, TunnelGone, Listed, StartupBlocked

LEMMA OwnFrame ==
    ASSUME TypeOK, NEW c \in Sessions, ControllerStep(c) \/ EnvironmentStep(c)
    PROVE  /\ UNCHANGED <<stop, prune>>
           /\ \A d \in Sessions \ {c} : Same(d)
<1> USE DEF TypeOK, Same, controllerVars, fileVars, historyVars
<1>1. CASE \/ SelectCandidate(c) \/ NoCandidate(c) \/ ProbeBusy(c) \/ ProbeFree(c)
           \/ PersistRegistration(c) \/ PersistRefused(c) \/ LosesTarget(c) \/ AbortUnregistered(c)
    BY <1>1 DEF SelectCandidate, NoCandidate, ProbeBusy, ProbeFree, PersistRegistration,
       PersistRefused, LosesTarget, AbortUnregistered, Ends, Goto
<1>2. CASE \/ PrepareHome(c) \/ SpawnTunnel(c) \/ RecordTunnelPid(c) \/ VerifyTunnel(c)
           \/ AssertRunning(c) \/ StartupFails(c)
    BY <1>2 DEF PrepareHome, SpawnTunnel, RecordTunnelPid, VerifyTunnel, AssertRunning,
       StartupFails, Goto
<1>3. CASE LogIn(c) \/ BeginTunnel(c) \/ CommitReady(c)
    BY <1>3 DEF LogIn, BeginTunnel, CommitReady, Transition, Goto
<1>4. CASE \/ BeginDispose(c) \/ SetStopping(c) \/ KillTunnel(c) \/ TunnelOutlives(c)
           \/ ForgetSession(c) \/ RemoveHome(c) \/ ClearIntent(c)
    BY <1>4 DEF BeginDispose, SetStopping, KillTunnel, TunnelOutlives, ForgetSession,
       RemoveHome, ClearIntent, Ends, Goto, Unlist
<1>5. CASE CloseTunnel(c) \/ JudgeClose(c) \/ ClearAfterClose(c)
    BY <1>5 DEF CloseTunnel, JudgeClose, ClearAfterClose
<1>6. CASE TunnelBinds(c) \/ TunnelDies(c) \/ Expire(c) \/ Crash(c) \/ DoctorRemovesHome(c)
    BY <1>6 DEF TunnelBinds, TunnelDies, Expire, Crash, DoctorRemovesHome, Ends, Goto
<1> QED
    BY <1>1, <1>2, <1>3, <1>4, <1>5, <1>6
       DEF ControllerStep, EnvironmentStep, DisposeAfterExit, Interrupt

LEMMA OwnKeepsSession ==
    ASSUME TypeOK, NEW c \in Sessions, Follows(c), SessionOK(c),
           ControllerStep(c) \/ EnvironmentStep(c)
    PROVE  SessionOK(c)' /\ Lasting(c)
<1> USE DEF TypeOK, SessionOK, Fresh, Cleaned, KeepsHome, KeepsTunnel, AskedFor, BeforeTunnel,
        TunnelAlive, TunnelGone, Listed, Running, Lasting, Begun, Gone, Doomed, Sealed, Follows,
        StartupBlocked, controllerVars, fileVars, historyVars, Goto, TunnelStates, CloseStates
<1>1. CASE \/ SelectCandidate(c) \/ ProbeBusy(c) \/ ProbeFree(c) \/ PersistRefused(c)
    BY <1>1 DEF SelectCandidate, ProbeBusy, ProbeFree, PersistRefused
<1>2. CASE NoCandidate(c) \/ LosesTarget(c) \/ AbortUnregistered(c)
    BY <1>2 DEF NoCandidate, LosesTarget, AbortUnregistered, Ends
<1>3. CASE PersistRegistration(c)
    BY <1>3 DEF PersistRegistration, NoSession
<1>4. CASE PrepareHome(c) \/ SpawnTunnel(c) \/ VerifyTunnel(c) \/ AssertRunning(c)
    BY <1>4 DEF PrepareHome, SpawnTunnel, VerifyTunnel, AssertRunning
<1>5. CASE StartupFails(c)
    BY <1>5 DEF StartupFails
<1>6. CASE RecordTunnelPid(c)
    BY <1>6 DEF RecordTunnelPid, Session, NoSession
<1>7. CASE LogIn(c) \/ BeginTunnel(c) \/ CommitReady(c)
    BY <1>7 DEF LogIn, BeginTunnel, CommitReady, Transition, Session, NoSession
<1>8. CASE BeginDispose(c) \/ KillTunnel(c) \/ RemoveHome(c)
    BY <1>8 DEF BeginDispose, KillTunnel, RemoveHome
<1>9. CASE SetStopping(c)
    BY <1>9 DEF SetStopping, Session, NoSession
<1>10. CASE ForgetSession(c)
    BY <1>10 DEF ForgetSession, Unlist, NoSession
<1>11. CASE TunnelOutlives(c) \/ ClearIntent(c) \/ Crash(c)
    BY <1>11 DEF TunnelOutlives, ClearIntent, Crash, Ends
<1>12. CASE CloseTunnel(c) \/ ClearAfterClose(c)
    BY <1>12 DEF CloseTunnel, ClearAfterClose
<1>13. CASE JudgeClose(c)
    BY <1>13 DEF JudgeClose, ExpectedStop, Finalizing
<1>14. CASE TunnelBinds(c) \/ TunnelDies(c) \/ Expire(c) \/ DoctorRemovesHome(c)
    BY <1>14 DEF TunnelBinds, TunnelDies, Expire, DoctorRemovesHome
<1> QED
    BY <1>1, <1>2, <1>3, <1>4, <1>5, <1>6, <1>7, <1>8, <1>9, <1>10, <1>11, <1>12, <1>13, <1>14
       DEF ControllerStep, EnvironmentStep, DisposeAfterExit, Interrupt

\* What a stop command does to the session it is about, and that it touches no other.
StopTouches(c) ==
    /\ UNCHANGED <<pc, close, prune>>
    /\ \A d \in Sessions \ {c} : Same(d)

LEMMA StopFrame ==
    ASSUME TypeOK, NEW s \in Stoppers, StopStep(s),
           ~ \E c \in Sessions, force \in BOOLEAN : StopBegins(s, c, force)
    PROVE  /\ StopTouches(stop[s].of)
           /\ \A t \in Stoppers \ {s} : stop'[t] = stop[t]
           /\ stop'[s].at # "idle" => stop'[s].of = stop[s].of
<1> USE DEF TypeOK, Same, StopTouches, controllerVars, fileVars, historyVars, StopAt, StopEnds,
        StopRemoves, NoStop, StopPcs
<1>1. CASE \/ FindsOwned(s) \/ FindsGone(s) \/ FindsUnproven(s) \/ ConfirmsOwned(s)
           \/ FindsEnded(s) \/ LosesOwnership(s) \/ SignalsTunnel(s) \/ LeavesToController(s)
    BY <1>1 DEF FindsOwned, FindsGone, FindsUnproven, ConfirmsOwned, FindsEnded, LosesOwnership,
       SignalsTunnel, LeavesToController
<1>2. CASE MarksStop(s) \/ ClaimsStop(s)
    BY <1>2 DEF MarksStop, ClaimsStop, RequestStop
<1>3. CASE TakesOver(s)
    BY <1>3 DEF TakesOver
<1>4. CASE StopForgets(s) \/ StopRemovesHome(s) \/ StopClearsIntent(s)
    BY <1>4 DEF StopForgets, StopRemovesHome, StopClearsIntent, Unlist
<1> QED
    BY <1>1, <1>2, <1>3, <1>4 DEF StopStep

\* What a stop command does to its session keeps the session's invariant, and every fact
\* that lasts; what it writes down of the session is true.
LEMMA StopKeepsSession ==
    ASSUME TypeOK, NEW s \in Stoppers, NEW c \in Sessions, stop[s].of = c,
           StopKnows(s), Follows(c), SessionOK(c), StopStep(s),
           ~ \E d \in Sessions, force \in BOOLEAN : StopBegins(s, d, force)
    PROVE  SessionOK(c)' /\ Lasting(c) /\ StopKnows(s)'
<1>f. stop'[s].at # "idle" => stop'[s].of = c
    BY StopFrame
<1> USE DEF TypeOK, SessionOK, Fresh, Cleaned, KeepsHome, KeepsTunnel, AskedFor, BeforeTunnel,
        TunnelAlive, TunnelGone, Listed, Running, Lasting, Begun, Gone, Doomed, Sealed, Follows,
        StartupBlocked, StopKnows, controllerVars, fileVars, historyVars, TunnelStates, CloseStates,
        StopAt, StopEnds, StopRemoves, NoStop, StopPcs
<1>1. CASE \/ FindsOwned(s) \/ FindsUnproven(s) \/ ConfirmsOwned(s) \/ LosesOwnership(s)
           \/ LeavesToController(s)
    BY <1>f, <1>1 DEF FindsOwned, FindsUnproven, ConfirmsOwned, LosesOwnership, LeavesToController
<1>2. CASE FindsGone(s)
    BY <1>f, <1>2 DEF FindsGone, SeesGone
<1>3. CASE FindsEnded(s)
    BY <1>f, <1>3 DEF FindsEnded
<1>4. CASE SignalsTunnel(s)
    BY <1>f, <1>4 DEF SignalsTunnel
<1>5. CASE MarksStop(s)
    BY <1>f, <1>5 DEF MarksStop, RequestStop, NoSession, Session
<1>6. CASE ClaimsStop(s)
    BY <1>f, <1>6 DEF ClaimsStop, RequestStop, NoSession, Session
<1>7. CASE TakesOver(s)
    BY <1>f, <1>7 DEF TakesOver
<1>8. CASE StopForgets(s)
    BY <1>f, <1>8 DEF StopForgets, Unlist, NoSession
<1>9. CASE StopRemovesHome(s)
    BY <1>f, <1>9 DEF StopRemovesHome
<1>10. CASE StopClearsIntent(s)
    BY <1>f, <1>10 DEF StopClearsIntent
<1> QED
    BY <1>1, <1>2, <1>3, <1>4, <1>5, <1>6, <1>7, <1>8, <1>9, <1>10 DEF StopStep

LEMMA BeginKeeps ==
    ASSUME TypeOK, NEW s \in Stoppers, NEW c \in Sessions, NEW force \in BOOLEAN,
           Follows(c), SessionOK(c), StopBegins(s, c, force)
    PROVE  /\ StopKnows(s)'
           /\ \A d \in Sessions : Same(d)
           /\ \A t \in Stoppers \ {s} : stop'[t] = stop[t]
           /\ UNCHANGED prune
<1>1. /\ stop'[s].at \in {"owns", "request"} /\ stop'[s].of = c
      /\ stop'[s].at = "owns" => record[c].status = "ready" /\ stop'[s].seen = record[c]
    <2>1. stop'[s] = [NoStop EXCEPT !.at = IF record[c].status = "ready" THEN "owns" ELSE "request",
                                    !.of = c, !.seen = record[c], !.force = force]
        BY DEF StopBegins, TypeOK
    <2> QED
        BY <2>1 DEF NoStop
<1>2. Begun(c)' /\ UNCHANGED record
    BY DEF StopBegins, Follows, Begun, controllerVars, fileVars
<1>3. StopKnows(s)'
    BY <1>1, <1>2 DEF StopKnows, SessionOK, KeepsTunnel
<1> QED
    BY <1>3 DEF StopBegins, Same, TypeOK, controllerVars, fileVars, historyVars

LEMMA PruneKeepsSession ==
    ASSUME TypeOK, NEW c \in Sessions, prune.of = c,
           PruneKnows, Follows(c), SessionOK(c), PruneRemoves \/ PruneKeeps \/ PruneRemovesHome
    PROVE  /\ SessionOK(c)' /\ Lasting(c) /\ PruneKnows'
           /\ \A d \in Sessions \ {c} : Same(d)
           /\ UNCHANGED stop
<1>0. ASSUME PruneRemoves PROVE prune'.at # "idle" => prune'.of = c
    <2>1. prune \in [at : {"idle", "persist", "homes"}, of : Sessions, seen : Session \cup {NoSession}]
        BY DEF TypeOK
    <2>2. [prune EXCEPT !.at = "homes", !.seen = NoSession].of = c
        BY <2>1
    <2>3. NoPrune.at = "idle"
        BY DEF NoPrune
    <2>4. prune' = NoPrune \/ prune' = [prune EXCEPT !.at = "homes", !.seen = NoSession]
        BY <1>0 DEF PruneRemoves
    <2> QED
        BY <2>2, <2>3, <2>4
<1> USE DEF TypeOK, SessionOK, Fresh, Cleaned, KeepsHome, KeepsTunnel, AskedFor, BeforeTunnel,
        TunnelAlive, TunnelGone, Listed, Running, Lasting, Begun, Gone, Doomed, Sealed, Follows,
        StartupBlocked, PruneKnows, Same, controllerVars, fileVars, historyVars, NoPrune
<1>1. CASE PruneRemoves
    <2>1. SessionOK(c)' /\ Lasting(c)
        BY <1>1 DEF PruneRemoves, Prunable, Stale, Unlist, NoSession
    <2>2. PruneKnows'
        <3>1. prune'.at # "idle" => prune'.of = c
            BY <1>0, <1>1
        <3>2. record'[c].status = "none" /\ Begun(c)'
            BY <1>1 DEF PruneRemoves, Unlist, NoSession
        <3> QED
            BY <3>1, <3>2
    <2>3. \A d \in Sessions \ {c} : Same(d)
        BY <1>1 DEF PruneRemoves, Unlist
    <2> QED
        BY <1>1, <2>1, <2>2, <2>3 DEF PruneRemoves
<1>2. CASE PruneKeeps \/ PruneRemovesHome
    BY <1>2 DEF PruneKeeps, PruneRemovesHome
<1> QED
    BY <1>1, <1>2

LEMMA InspectKeeps ==
    ASSUME TypeOK, NEW c \in Sessions, Follows(c), PruneInspects(c)
    PROVE  /\ PruneKnows' /\ UNCHANGED stop
           /\ \A d \in Sessions : Same(d)
    BY DEF PruneInspects, Stale, PruneKnows, Begun, Gone, Follows, Listed, Same, TypeOK,
       controllerVars, fileVars, historyVars

\* What a command or a prune has written down stays true while others move.
LEMMA KnowledgeLasts ==
    ASSUME TypeOK, \A c \in Sessions : Lasting(c)
    PROVE  /\ \A s \in Stoppers : StopKnows(s) /\ stop'[s] = stop[s] => StopKnows(s)'
           /\ PruneKnows /\ UNCHANGED prune => PruneKnows'
<1>1. ASSUME NEW s \in Stoppers, StopKnows(s), stop'[s] = stop[s] PROVE StopKnows(s)'
    <2>1. Lasting(stop[s].of)
        BY DEF TypeOK
    <2> QED
        BY <1>1, <2>1 DEF StopKnows, Lasting
<1>2. ASSUME PruneKnows, UNCHANGED prune PROVE PruneKnows'
    <2>1. Lasting(prune.of)
        BY DEF TypeOK
    <2> QED
        BY <1>2, <2>1 DEF PruneKnows, Lasting
<1> QED
    BY <1>1, <1>2

LEMMA CleanupInductive ==
    ASSUME RegistryInv, CleanupInv, [Next]_vars
    PROVE  CleanupInv'
<1> USE DEF RegistryInv, StatusFollowsController, CleanupInv
\* It is enough that one session at most is touched, and what its actor knows is right.
<1>1. SUFFICES ASSUME NEW c \in Sessions,
                      (SessionOK(c)' /\ Lasting(c)) \/ Same(c),
                      \A d \in Sessions \ {c} : Same(d),
                      \A s \in Stoppers : stop'[s] = stop[s] \/ StopKnows(s)',
                      UNCHANGED prune \/ PruneKnows'
               PROVE  CleanupInv'
    <2>1. ASSUME NEW c \in Sessions, ControllerStep(c) \/ EnvironmentStep(c) PROVE CleanupInv'
        BY <1>1, <2>1, OwnFrame, OwnKeepsSession
    <2>2. ASSUME NEW s \in Stoppers, StopStep(s) PROVE CleanupInv'
        <3>1. ASSUME NEW c \in Sessions, NEW force \in BOOLEAN, StopBegins(s, c, force)
              PROVE  CleanupInv'
            BY <1>1, <3>1, BeginKeeps
        <3>2. CASE ~ \E c \in Sessions, force \in BOOLEAN : StopBegins(s, c, force)
            <4>1. stop[s].of \in Sessions
                BY DEF TypeOK
            <4> QED
                BY <1>1, <2>2, <3>2, <4>1, StopFrame, StopKeepsSession DEF StopTouches
        <3> QED
            BY <3>1, <3>2
    <2>3. ASSUME NEW c \in Sessions, PruneInspects(c) PROVE CleanupInv'
        BY <1>1, <2>3, InspectKeeps
    <2>4. CASE PruneRemoves \/ PruneKeeps \/ PruneRemovesHome
        <3>1. prune.of \in Sessions
            BY DEF TypeOK
        <3> QED
            BY <1>1, <2>4, <3>1, PruneKeepsSession
    <2>5. CASE UNCHANGED vars
        <3>1. PICK c \in Sessions : TRUE
            BY SessionAssumption
        <3>2. UNCHANGED <<stop, prune>> /\ \A d \in Sessions : Same(d)
            BY <2>5 DEF vars, controllerVars, fileVars, historyVars, Same
        <3> QED
            BY <1>1, <3>1, <3>2
    <2> QED
        BY <2>1, <2>2, <2>3, <2>4, <2>5 DEF Next, PruneStep
<1>2. \A d \in Sessions : SessionOK(d)' /\ Lasting(d)
    BY <1>1, SameKeeps, SameLasts
<1> QED
    BY <1>1, <1>2, KnowledgeLasts

LEMMA CleanupInit == Init => CleanupInv
    BY NoStopType DEF Init, CleanupInv, SessionOK, Fresh, Cleaned, KeepsHome, KeepsTunnel,
       AskedFor, StopKnows, PruneKnows, NoStop, NoPrune, NoSession, Listed, TunnelAlive, BeforeTunnel

LEMMA AlwaysCleanup == Spec => []CleanupInv
    BY CleanupInit, CleanupInductive, AlwaysInv, PTL DEF Spec

\* While the tunnel of a ready session lives, its record keeps naming it, whatever stop
\* commands, prunes and expiries do at the same time and however old what they have read
\* is; only a forced stop may forget it.
THEOREM ReadyTunnelStaysListed == Spec => []ReadyTunnelListed
<1>1. CleanupInv => ReadyTunnelListed
    BY DEF CleanupInv, SessionOK, KeepsTunnel, ReadyTunnelListed
<1> QED
    BY <1>1, AlwaysCleanup, PTL

\* No stop command, prune or doctor removes the CF home of a session that is still listed
\* and working, for any number of them at the same time.
THEOREM LiveSessionsKeepTheirHome == Spec => []LiveSessionKeepsHome
<1>1. CleanupInv => LiveSessionKeepsHome
    BY DEF CleanupInv, SessionOK, KeepsHome, LiveSessionKeepsHome
<1> QED
    BY <1>1, AlwaysCleanup, PTL

\* A start command that ends without reporting a failed cleanup leaves no record, no home,
\* no stop-intent file and no tunnel, whoever helped to end it; and none comes back.
THEOREM EndsAreClean == Spec => []CleanEnd
<1>1. CleanupInv => CleanEnd
    BY DEF CleanupInv, SessionOK, Cleaned, CleanEnd
<1> QED
    BY <1>1, AlwaysCleanup, PTL

\* A clean exit is only ever reported for a session that a stop command asked to end.
THEOREM CleanExitsWereAskedFor == Spec => []UnaskedEndReported
<1>1. CleanupInv => UnaskedEndReported
    BY DEF CleanupInv, SessionOK, AskedFor, UnaskedEndReported, Running
<1> QED
    BY <1>1, AlwaysCleanup, PTL
=============================================================================
