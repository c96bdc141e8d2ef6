--------------------------- MODULE FileLockProof ---------------------------
(***************************************************************************)
(* Proofs about FileLock for every number of processes, tokens and hosts,  *)
(* under the two conditions the code cannot do without: no live owner lets *)
(* its lock file reach an age limit, and no process is killed while it     *)
(* holds the recovery lock.                                                *)
(***************************************************************************)
EXTENDS FileLock, TLAPS

Prompt == SlowOwners = {}
RecoveryRunsToItsEnd == CrashAt \cap RecoveryHeldPcs = {}

(***************************************************************************)
(* The inductive invariant, one part per fact the code relies on.          *)
(***************************************************************************)
MainOwnedPcs == {"write", "work", "releaseRead", "releaseUnlink"}

\* The main lock file is its creator's until the creator unlinks it.
MainOwned ==
    \A p \in Procs : pc[p] \in MainOwnedPcs =>
        /\ mine[p] \in Tokens
        /\ file["main"].id = mine[p]
        /\ file["main"].owner = p
        /\ pc[p] # "write" => file["main"].written

\* So is the recovery lock file ...
RecoveryOwned ==
    \A p \in Procs : pc[p] \in RecoveryHeldPcs =>
        /\ mine[p] \in Tokens
        /\ file["recovery"].id = mine[p]
        /\ file["recovery"].owner = p
        /\ pc[p] # "recWrite" => file["recovery"].written

\* ... and it is there only while its creator is at work on the main lock.
RecoveryAttended ==
    ~Absent("recovery") => pc[file["recovery"].owner] \in RecoveryHeldPcs

\* Only the file of a dead owner gets old.
AgedIsDead ==
    \A path \in Paths : ~Absent(path) /\ file[path].aged => ~Alive(file[path].owner)

\* What was read is forgotten when the inspection is over.
Inspecting == {"inspectStat", "removeRead", "abandonedStat", "abandonedCheck"}
SeenIsForgotten ==
    \A p \in Procs :
        /\ pc[p] \notin Inspecting => seen[p].token = NoToken
        /\ seen[p].token = NoToken => seen[p].owner = NoToken

\* An observed token names one owner, the one in the file that has this token.
ObservationPath(p) ==
    IF pc[p] \in AbandonedPcs THEN "recovery" ELSE "main"
SeenOwner ==
    \A p \in Procs : seen[p].token # NoToken =>
        /\ seen[p].owner \in Procs
        /\ file[ObservationPath(p)].id = seen[p].token
             => file[ObservationPath(p)].owner = seen[p].owner

\* What removeObservedLock is about to unlink: the file observed, whose owner is dead.
Observed(p) == IF seen[p].token # NoToken THEN seen[p].token ELSE seen[p].inode
RemovalIsOfTheDead ==
    \A p \in Procs :
        /\ pc[p] = "removeRead" =>
             /\ Observed(p) \in Tokens
             /\ file["main"].id = Observed(p) => ~Alive(file["main"].owner)
        /\ pc[p] = "removeUnlink" =>
             ~Absent("main") /\ ~Alive(file["main"].owner)

\* Nobody gets as far as unlinking another process's recovery file.
RecoveryNeverAbandoned ==
    \A p \in Procs :
        /\ pc[p] = "abandonedCheck" =>
             seen[p].token \in Tokens /\ file["recovery"].id # seen[p].token
        /\ pc[p] # "abandonedUnlink"

IInv ==
    /\ TypeOK
    /\ MainOwned
    /\ RecoveryOwned
    /\ RecoveryAttended
    /\ AgedIsDead
    /\ SeenIsForgotten
    /\ SeenOwner
    /\ RemovalIsOfTheDead
    /\ RecoveryNeverAbandoned
---------------------------------------------------------------------------
USE DEF Paths

\* A token that is free is not the one of a file, of a lock held or of an observation.
LEMMA NewTokenIsFree ==
    ASSUME Tokens \ InUse # {}
    PROVE  /\ NewToken \in Tokens
           /\ NewToken \notin InUse
    BY DEF NewToken

LEMMA ReadOwnerType ==
    ASSUME TypeOK, NEW path \in Paths
    PROVE  ReadOwner(path) \in Observation
<1>1. CASE ~Absent(path) /\ file[path].written
    <2>1. file[path] \in File
        BY <1>1 DEF TypeOK, Absent, NoFile
    <2>2. file[path].id \in Tokens /\ file[path].owner \in Procs
        BY <2>1 DEF File
    <2> QED
        BY <1>1, <2>2 DEF ReadOwner, Observation, NothingSeen
<1>2. CASE ~(~Absent(path) /\ file[path].written)
    BY <1>2 DEF ReadOwner, Observation, NothingSeen
<1> QED
    BY <1>1, <1>2

\* What readLockOwner returns is the owner record of the file that is there, or nothing.
LEMMA ReadOwnerFacts ==
    ASSUME TypeOK, NEW path \in Paths
    PROVE  \/ /\ ~Absent(path) /\ file[path].written
              /\ file[path].id \in Tokens /\ file[path].owner \in Procs
              /\ ReadOwner(path).token = file[path].id
              /\ ReadOwner(path).owner = file[path].owner
           \/ ReadOwner(path).token = NoToken /\ ReadOwner(path).owner = NoToken
<1>1. CASE ~Absent(path) /\ file[path].written
    <2>1. file[path] \in File
        BY <1>1 DEF TypeOK, Absent, NoFile
    <2> QED
        BY <1>1, <2>1 DEF File, ReadOwner, NothingSeen
<1>2. CASE ~(~Absent(path) /\ file[path].written)
    BY <1>2 DEF ReadOwner, NothingSeen
<1> QED
    BY <1>1, <1>2

LEMMA FreshType == ASSUME NEW p \in Procs, NEW t \in Tokens PROVE Fresh(p, t) \in File
    BY DEF Fresh, File

LEMMA NothingSeenType == NothingSeen \in Observation
    BY DEF NothingSeen, Observation

LEMMA TypeInit == Init => TypeOK
    BY DEF Init, TypeOK, Pcs, MainPcs, File, NoFile, Observation, NothingSeen

LEMMA TypeStep == TypeOK /\ [Next]_vars => TypeOK'
<1> SUFFICES ASSUME TypeOK, [Next]_vars PROVE TypeOK'
    OBVIOUS
<1> USE DEF TypeOK, Pcs, MainPcs, RecoveryPcs, AbandonedPcs, Goto
<1>1. ASSUME NEW p \in Procs, OpenMain(p) \/ OpenRecovery(p) PROVE TypeOK'
    BY <1>1, NewTokenIsFree, FreshType DEF OpenMain, OpenRecovery, OpenExclusive
<1>2. ASSUME NEW p \in Procs, MainBusy(p) \/ RecoveryBusy(p) \/ Call(p) \/ WorkEnds(p)
                              \/ Poll(p) \/ GiveUp(p)
      PROVE  TypeOK'
    BY <1>2 DEF MainBusy, RecoveryBusy, OpenExists, Call, WorkEnds, Poll, GiveUp
<1>3. ASSUME NEW p \in Procs, WriteMain(p) \/ WriteRecovery(p) PROVE TypeOK'
    <2> SUFFICES ASSUME NEW path \in Paths, ~Absent(path),
                        file' = [file EXCEPT ![path].written = TRUE, ![path].aged = FALSE],
                        mine' = mine, seen' = seen, removed' = removed, pc' \in [Procs -> Pcs]
                 PROVE  TypeOK'
        BY <1>3 DEF WriteMain, WriteRecovery, WriteOwner
    <2>1. file[path] \in File
        BY DEF Absent, NoFile
    <2> QED
        BY <2>1 DEF File
<1>4. ASSUME NEW p \in Procs, WriteMainFails(p) \/ WriteRecoveryFails(p) PROVE TypeOK'
    BY <1>4, NothingSeenType DEF WriteMainFails, WriteRecoveryFails, WriteFails
<1>5. ASSUME NEW p \in Procs, ReleaseMainRead(p) \/ ReleaseMainUnlink(p)
      PROVE  TypeOK'
    BY <1>5 DEF ReleaseMainRead, ReleaseMainUnlink, ReleaseRead, ReleaseUnlink
<1>6. ASSUME NEW p \in Procs, ReleaseRecoveryRead(p) \/ ReleaseRecoveryUnlink(p)
      PROVE  TypeOK'
    BY <1>6 DEF ReleaseRecoveryRead, ReleaseRecoveryUnlink, ReleaseRead, ReleaseUnlink,
                AfterReclaim
<1>7. ASSUME NEW p \in Procs, InspectRead(p) \/ AbandonedRead(p) PROVE TypeOK'
    BY <1>7, ReadOwnerType DEF InspectRead, AbandonedRead, ReadInto
<1>8. ASSUME NEW p \in Procs, InspectStat(p) PROVE TypeOK'
    <2>1. CASE ~Absent("main") /\ OwnerIsStale(p, "main")
        <3>1. file["main"] \in File
            BY <2>1 DEF Absent, NoFile
        <3>2. file["main"].id \in Tokens /\ file["main"].written \in BOOLEAN
            BY <3>1 DEF File
        <3>3. seen' = [seen EXCEPT ![p].inode = file["main"].id,
                                   ![p].written = file["main"].written]
            BY <1>8, <2>1 DEF InspectStat, StatInto
        <3>4. seen' \in [Procs -> Observation]
            <4>1. [seen[p] EXCEPT !.inode = file["main"].id,
                                  !.written = file["main"].written] \in Observation
                BY <3>2 DEF Observation
            <4> QED
                BY <3>3, <4>1
        <3> QED
            BY <1>8, <2>1, <3>4 DEF InspectStat, StatInto
    <2>2. CASE ~(~Absent("main") /\ OwnerIsStale(p, "main"))
        BY <1>8, <2>2, NothingSeenType DEF InspectStat, StatInto
    <2> QED
        BY <2>1, <2>2
<1>9. ASSUME NEW p \in Procs, RemoveRead(p) \/ RemoveUnlink(p) PROVE TypeOK'
    BY <1>9, NothingSeenType DEF RemoveRead, RemoveUnlink
<1>10. ASSUME NEW p \in Procs, AbandonedStat(p) \/ AbandonedCheck(p) \/ AbandonedUnlink(p)
       PROVE  TypeOK'
    BY <1>10, NothingSeenType DEF AbandonedStat, AbandonedCheck, AbandonedUnlink
<1>11. ASSUME NEW p \in Procs, Crash(p) PROVE TypeOK'
    BY <1>11, NothingSeenType DEF Crash
<1>12. ASSUME NEW path \in Paths, Age(path) PROVE TypeOK'
    BY <1>12, TokenAssumption DEF Age, File, NoFile, Absent
<1>13. CASE UNCHANGED vars
    BY <1>13 DEF vars
<1> QED
    BY <1>1, <1>2, <1>3, <1>4, <1>5, <1>6, <1>7, <1>8, <1>9, <1>10, <1>11, <1>12, <1>13
    DEF Next, Step, Holding, Recovering

\* The variables of withFileLock keep their types (lock.ts).
THEOREM TypeCorrect == Spec => []TypeOK
    BY TypeInit, TypeStep, PTL DEF Spec

---------------------------------------------------------------------------
LEMMA IInvStep ==
    ASSUME IInv, TypeOK', Prompt, RecoveryRunsToItsEnd, [Next]_vars
    PROVE  IInv'
<1> USE TokenAssumption, KindAssumption
<1> USE DEF IInv, TypeOK, MainOwned, RecoveryOwned, RecoveryAttended, AgedIsDead,
            SeenIsForgotten, SeenOwner, RemovalIsOfTheDead, RecoveryNeverAbandoned,
            Pcs, MainPcs, RecoveryPcs, AbandonedPcs, MainOwnedPcs, RecoveryHeldPcs,
            Inspecting, ObservationPath, Observed, Goto, Absent, Alive, NoFile, NothingSeen
<1>1. ASSUME NEW p \in Procs, Call(p) PROVE IInv'
    <2>1. MainOwned'
        BY <1>1 DEF Call
    <2>2. RecoveryOwned'
        BY <1>1 DEF Call
    <2>3. RecoveryAttended'
        BY <1>1 DEF Call
    <2>4. AgedIsDead'
        BY <1>1 DEF Call
    <2>5. SeenIsForgotten'
        BY <1>1 DEF Call
    <2>6. SeenOwner'
        BY <1>1 DEF Call
    <2>7. RemovalIsOfTheDead'
        BY <1>1 DEF Call
    <2>8. RecoveryNeverAbandoned'
        BY <1>1 DEF Call
    <2> QED
        BY <2>1, <2>2, <2>3, <2>4, <2>5, <2>6, <2>7, <2>8
<1>2. ASSUME NEW p \in Procs, OpenMain(p) PROVE IInv'
    <2>1. MainOwned'
        BY <1>2, NewTokenIsFree DEF OpenMain, OpenExclusive, Fresh, InUse
    <2>2. RecoveryOwned'
        BY <1>2, NewTokenIsFree DEF OpenMain, OpenExclusive, Fresh, InUse
    <2>3. RecoveryAttended'
        BY <1>2, NewTokenIsFree DEF OpenMain, OpenExclusive, Fresh, InUse
    <2>4. AgedIsDead'
        BY <1>2, NewTokenIsFree DEF OpenMain, OpenExclusive, Fresh, InUse
    <2>5. SeenIsForgotten'
        BY <1>2, NewTokenIsFree DEF OpenMain, OpenExclusive, Fresh, InUse
    <2>6. SeenOwner'
        BY <1>2, NewTokenIsFree DEF OpenMain, OpenExclusive, Fresh, InUse
    <2>7. RemovalIsOfTheDead'
        BY <1>2, NewTokenIsFree DEF OpenMain, OpenExclusive, Fresh, InUse
    <2>8. RecoveryNeverAbandoned'
        BY <1>2, NewTokenIsFree DEF OpenMain, OpenExclusive, Fresh, InUse
    <2> QED
        BY <2>1, <2>2, <2>3, <2>4, <2>5, <2>6, <2>7, <2>8
<1>3. ASSUME NEW p \in Procs, MainBusy(p) PROVE IInv'
    BY <1>3 DEF MainBusy, OpenExists
<1>4. ASSUME NEW p \in Procs, WriteMain(p) PROVE IInv'
    BY <1>4 DEF WriteMain, WriteOwner
<1>5. ASSUME NEW p \in Procs, WriteMainFails(p) PROVE IInv'
    BY <1>5 DEF WriteMainFails, WriteFails
<1>6. ASSUME NEW p \in Procs, WorkEnds(p) PROVE IInv'
    BY <1>6 DEF WorkEnds
<1>7. ASSUME NEW p \in Procs, ReleaseMainRead(p) PROVE IInv'
    <2>1. ReadOwner("main").token = mine[p]
        BY <1>7 DEF ReleaseMainRead, ReleaseRead, ReadOwner
    <2>2. /\ pc[p] = "releaseRead" /\ pc' = [pc EXCEPT ![p] = "releaseUnlink"]
          /\ UNCHANGED <<file, mine, seen>>
        BY <1>7, <2>1 DEF ReleaseMainRead, ReleaseRead
    <2> QED
        BY <2>2
<1>8. ASSUME NEW p \in Procs, ReleaseMainUnlink(p) PROVE IInv'
    BY <1>8 DEF ReleaseMainUnlink, ReleaseUnlink
<1>9. ASSUME NEW p \in Procs, Poll(p) PROVE IInv'
    BY <1>9 DEF Poll
<1>10. ASSUME NEW p \in Procs, GiveUp(p) PROVE IInv'
    <2>1. /\ pc[p] \in {"wait", "open"} /\ pc' = [pc EXCEPT ![p] = "idle"]
          /\ UNCHANGED <<file, mine, seen>>
        BY <1>10 DEF GiveUp
    <2> QED
        BY <2>1
<1>11. ASSUME NEW p \in Procs, OpenRecovery(p) PROVE IInv'
    BY <1>11, NewTokenIsFree DEF OpenRecovery, OpenExclusive, Fresh, InUse
<1>12. ASSUME NEW p \in Procs, RecoveryBusy(p) PROVE IInv'
    BY <1>12 DEF RecoveryBusy, OpenExists
<1>13. ASSUME NEW p \in Procs, WriteRecovery(p) PROVE IInv'
    BY <1>13 DEF WriteRecovery, WriteOwner
<1>14. ASSUME NEW p \in Procs, WriteRecoveryFails(p) PROVE IInv'
    BY <1>14 DEF WriteRecoveryFails, WriteFails
<1>15. ASSUME NEW p \in Procs, InspectRead(p) PROVE IInv'
    BY <1>15, ReadOwnerFacts DEF InspectRead, ReadInto
<1>16. ASSUME NEW p \in Procs, InspectStat(p) PROVE IInv'
    <2>1. CASE ~Absent("main") /\ OwnerIsStale(p, "main")
        <3>1. /\ pc[p] = "inspectStat" /\ pc' = [pc EXCEPT ![p] = "removeRead"]
              /\ seen'[p].token = seen[p].token /\ seen'[p].owner = seen[p].owner
              /\ seen'[p].inode = file["main"].id
              /\ \A q \in Procs \ {p} : seen'[q] = seen[q]
              /\ UNCHANGED <<file, mine>>
            BY <1>16, <2>1 DEF InspectStat, StatInto, Observation
        <3>2. file["main"].id \in Tokens
            BY <2>1 DEF File
        <3>3. file["main"].id = Observed(p)' => ~Alive(file["main"].owner)
            BY <2>1, <3>1 DEF OwnerIsStale, KnownDead, SameHost
        <3>4. Observed(p)' \in Tokens
            BY <3>1, <3>2 DEF Observation
        <3> QED
            BY <3>1, <3>3, <3>4
    <2>2. CASE ~(~Absent("main") /\ OwnerIsStale(p, "main"))
        <3>1. /\ pc[p] = "inspectStat" /\ pc' = [pc EXCEPT ![p] = "recReleaseRead"]
              /\ seen' = [seen EXCEPT ![p] = NothingSeen]
              /\ UNCHANGED <<file, mine>>
            BY <1>16, <2>2 DEF InspectStat, StatInto
        <3> QED
            BY <3>1
    <2> QED
        BY <2>1, <2>2
<1>17. ASSUME NEW p \in Procs, RemoveRead(p) PROVE IInv'
    <2>1. CASE StillObserved(p)
        <3>1. /\ pc[p] = "removeRead" /\ pc' = [pc EXCEPT ![p] = "removeUnlink"]
              /\ seen' = [seen EXCEPT ![p] = NothingSeen]
              /\ UNCHANGED <<file, mine>>
            BY <1>17, <2>1 DEF RemoveRead
        <3>2. ~Absent("main") /\ file["main"].id = Observed(p)
            BY <2>1, ReadOwnerFacts DEF StillObserved, Fingerprint
        <3> QED
            BY <3>1, <3>2
    <2>2. CASE ~StillObserved(p)
        <3>1. /\ pc[p] = "removeRead" /\ pc' = [pc EXCEPT ![p] = "recReleaseRead"]
              /\ seen' = [seen EXCEPT ![p] = NothingSeen]
              /\ UNCHANGED <<file, mine>>
            BY <1>17, <2>2 DEF RemoveRead
        <3> QED
            BY <3>1
    <2> QED
        BY <2>1, <2>2
<1>18. ASSUME NEW p \in Procs, RemoveUnlink(p) PROVE IInv'
    BY <1>18 DEF RemoveUnlink
<1>19. ASSUME NEW p \in Procs, ReleaseRecoveryRead(p) PROVE IInv'
    <2>1. ReadOwner("recovery").token = mine[p]
        BY <1>19 DEF ReleaseRecoveryRead, ReleaseRead, ReadOwner
    <2>2. /\ pc[p] = "recReleaseRead" /\ pc' = [pc EXCEPT ![p] = "recReleaseUnlink"]
          /\ UNCHANGED <<file, mine, seen>>
        BY <1>19, <2>1 DEF ReleaseRecoveryRead, ReleaseRead
    <2> QED
        BY <2>2
<1>20. ASSUME NEW p \in Procs, ReleaseRecoveryUnlink(p) PROVE IInv'
    BY <1>20 DEF ReleaseRecoveryUnlink, ReleaseUnlink, AfterReclaim
<1>21. ASSUME NEW p \in Procs, AbandonedRead(p) PROVE IInv'
    BY <1>21, ReadOwnerFacts DEF AbandonedRead, ReadInto
<1>22. ASSUME NEW p \in Procs, AbandonedStat(p) PROVE IInv'
    <2>1. CASE ~Absent("recovery") /\ OwnerIsStale(p, "recovery") /\ seen[p].token # NoToken
        <3>1. /\ pc[p] = "abandonedStat" /\ pc' = [pc EXCEPT ![p] = "abandonedCheck"]
              /\ UNCHANGED <<file, mine, seen>>
            BY <1>22, <2>1 DEF AbandonedStat
        <3>2. file["recovery"].id # seen[p].token
            BY <2>1, <3>1 DEF OwnerIsStale, KnownDead, SameHost
        <3>3. seen[p].token \in Tokens
            BY <2>1 DEF Observation
        <3> QED
            BY <3>1, <3>2, <3>3
    <2>2. CASE ~(~Absent("recovery") /\ OwnerIsStale(p, "recovery")
                   /\ seen[p].token # NoToken)
        <3>1. /\ pc[p] = "abandonedStat" /\ pc' = [pc EXCEPT ![p] = "wait"]
              /\ seen' = [seen EXCEPT ![p] = NothingSeen]
              /\ UNCHANGED <<file, mine>>
            BY <1>22, <2>2 DEF AbandonedStat
        <3> QED
            BY <3>1
    <2> QED
        BY <2>1, <2>2
<1>23. ASSUME NEW p \in Procs, AbandonedCheck(p) PROVE IInv'
    <2>1. /\ pc[p] = "abandonedCheck" /\ pc' = [pc EXCEPT ![p] = "wait"]
          /\ seen' = [seen EXCEPT ![p] = NothingSeen]
          /\ UNCHANGED <<file, mine>>
        BY <1>23, ReadOwnerFacts DEF AbandonedCheck
    <2> QED
        BY <2>1
<1>24. ASSUME NEW p \in Procs, AbandonedUnlink(p) PROVE IInv'
    BY <1>24 DEF AbandonedUnlink
<1>25. ASSUME NEW p \in Procs, Crash(p) PROVE IInv'
    BY <1>25 DEF Crash, RecoveryRunsToItsEnd
<1>26. ASSUME NEW path \in Paths, Age(path) PROVE IInv'
    BY <1>26 DEF Age, Prompt
<1>27. CASE UNCHANGED vars
    BY <1>27 DEF vars
<1> HIDE DEF IInv
<1>28. CASE \E p \in Procs : Holding(p) \/ Call(p) \/ Poll(p) \/ GiveUp(p) \/ Crash(p)
    BY <1>28, <1>1, <1>2, <1>4, <1>5, <1>6, <1>7, <1>8, <1>9, <1>10, <1>25 DEF Holding
<1>29. CASE \E p \in Procs : Recovering(p)
    BY <1>29, <1>3, <1>11, <1>12, <1>13, <1>14, <1>15, <1>16, <1>17, <1>18, <1>19, <1>20,
       <1>21, <1>22, <1>23, <1>24 DEF Recovering
<1> QED
    BY <1>26, <1>27, <1>28, <1>29 DEF Next, Step

LEMMA IInvInit == Init => IInv
<1> SUFFICES ASSUME Init PROVE IInv
    OBVIOUS
<1>1. TypeOK
    BY TypeInit
<1>2. MainOwned /\ RecoveryOwned /\ RecoveryNeverAbandoned /\ RemovalIsOfTheDead
    BY DEF Init, MainOwned, RecoveryOwned, RecoveryNeverAbandoned, RemovalIsOfTheDead,
           MainOwnedPcs, RecoveryHeldPcs, RecoveryPcs
<1>3. RecoveryAttended /\ AgedIsDead /\ SeenIsForgotten /\ SeenOwner
    BY DEF Init, RecoveryAttended, AgedIsDead, SeenIsForgotten, SeenOwner, Absent, NoFile,
           NothingSeen
<1> QED
    BY <1>1, <1>2, <1>3 DEF IInv

LEMMA Inductive == ASSUME Prompt, RecoveryRunsToItsEnd PROVE Spec => []IInv
<1>1. IInv /\ [Next]_vars => IInv'
    <2> SUFFICES ASSUME IInv, [Next]_vars PROVE IInv'
        OBVIOUS
    <2>1. TypeOK'
        BY TypeStep DEF IInv
    <2> QED
        BY <2>1, IInvStep
<1> QED
    BY <1>1, IInvInit, PTL DEF Spec

\* A process inside its work has its own lock file at the path, whoever recovers dead
\* owners' locks meanwhile (removeObservedLock, lock.ts).
THEOREM WorkStaysCovered ==
    ASSUME Prompt, RecoveryRunsToItsEnd
    PROVE  Spec => []WorkIsCovered
<1>1. IInv => WorkIsCovered
    BY DEF IInv, MainOwned, MainOwnedPcs, WorkIsCovered, Critical
<1> QED
    BY <1>1, Inductive, PTL

\* While a process holds the recovery lock nobody else removes its file (lock.ts).
THEOREM RecoveryStaysCovered ==
    ASSUME Prompt, RecoveryRunsToItsEnd
    PROVE  Spec => []RecoveryIsCovered
<1>1. IInv => RecoveryIsCovered
    BY DEF IInv, RecoveryOwned, RecoveryIsCovered
<1> QED
    BY <1>1, Inductive, PTL

---------------------------------------------------------------------------
(***************************************************************************)
(* FileLock implements ExclusiveLock: entering and leaving the work are    *)
(* the abstract lock's two actions, everything else stutters.              *)
(***************************************************************************)
LEMMA AtMostOneInside ==
    ASSUME IInv, NEW p \in Critical
    PROVE  Critical = {p} /\ Holder = p
<1>1. \A q \in Critical : q = p
    BY DEF IInv, MainOwned, MainOwnedPcs, Critical
<1>2. Critical = {p}
    BY <1>1
<1> QED
    BY <1>2 DEF Holder

\* The only steps that change who is inside: WriteMain, WorkEnds and Crash.
LEMMA CriticalStep ==
    ASSUME IInv, [Next]_vars
    PROVE  \/ Critical' = Critical
           \/ \E p \in Procs : /\ p \notin Critical /\ Critical' = Critical \cup {p}
                               /\ pc[p] = "write"
           \/ \E p \in Critical : Critical' = Critical \ {p}
<1> USE DEF Critical, Goto
<1>1. TypeOK
    BY DEF IInv
<1>2. ASSUME NEW p \in Procs, WriteMain(p) PROVE /\ p \notin Critical
                                                 /\ Critical' = Critical \cup {p}
                                                 /\ pc[p] = "write"
    BY <1>1, <1>2 DEF WriteMain, WriteOwner, TypeOK
<1>3. ASSUME NEW p \in Procs, WorkEnds(p) PROVE p \in Critical /\ Critical' = Critical \ {p}
    BY <1>1, <1>3 DEF WorkEnds, TypeOK
<1>4. ASSUME NEW p \in Procs, Crash(p) PROVE Critical' = Critical \ {p}
    BY <1>1, <1>4 DEF Crash, TypeOK
<1>5. ASSUME NEW p \in Procs, NEW from, NEW to,
             pc[p] = from, pc' = [pc EXCEPT ![p] = to], from # "work", to # "work"
      PROVE  Critical' = Critical
    BY <1>1, <1>5 DEF TypeOK
<1>6. ASSUME NEW p \in Procs, \/ Call(p) \/ OpenMain(p) \/ WriteMainFails(p)
                              \/ ReleaseMainUnlink(p) \/ Poll(p) \/ GiveUp(p) \/ MainBusy(p)
      PROVE  Critical' = Critical
    BY <1>5, <1>6 DEF Call, OpenMain, OpenExclusive, WriteMainFails, WriteFails,
       ReleaseMainUnlink, ReleaseUnlink, Poll, GiveUp, MainBusy, OpenExists
<1>7. ASSUME NEW p \in Procs, ReleaseMainRead(p) PROVE Critical' = Critical
    BY <1>5, <1>7 DEF ReleaseMainRead, ReleaseRead
<1>8. ASSUME NEW p \in Procs, \/ OpenRecovery(p) \/ RecoveryBusy(p) \/ WriteRecovery(p)
                              \/ WriteRecoveryFails(p) \/ InspectRead(p) \/ RemoveUnlink(p)
      PROVE  Critical' = Critical
    BY <1>5, <1>8 DEF OpenRecovery, OpenExclusive, RecoveryBusy, OpenExists, WriteRecovery,
       WriteOwner, WriteRecoveryFails, WriteFails, InspectRead, ReadInto, RemoveUnlink
<1>9. ASSUME NEW p \in Procs, InspectStat(p) \/ RemoveRead(p) PROVE Critical' = Critical
    BY <1>5, <1>9 DEF InspectStat, StatInto, RemoveRead
<1>10. ASSUME NEW p \in Procs, ReleaseRecoveryRead(p) \/ ReleaseRecoveryUnlink(p)
       PROVE  Critical' = Critical
    BY <1>5, <1>10 DEF ReleaseRecoveryRead, ReleaseRecoveryUnlink, ReleaseRead,
       ReleaseUnlink, AfterReclaim
<1>11. ASSUME NEW p \in Procs, \/ AbandonedRead(p) \/ AbandonedStat(p) \/ AbandonedCheck(p)
                               \/ AbandonedUnlink(p)
       PROVE  Critical' = Critical
    BY <1>5, <1>11 DEF AbandonedRead, ReadInto, AbandonedStat, AbandonedCheck,
       AbandonedUnlink
<1>12. ASSUME NEW path \in Paths, Age(path) PROVE Critical' = Critical
    BY <1>12 DEF Age
<1>13. CASE UNCHANGED vars
    BY <1>13 DEF vars
<1>14. CASE \E p \in Procs : Crash(p)
    <2>1. PICK p \in Procs : Crash(p)
        BY <1>14
    <2>2. CASE p \in Critical
        BY <1>4, <2>1, <2>2
    <2>3. CASE p \notin Critical
        BY <1>4, <2>1, <2>3
    <2> QED
        BY <2>2, <2>3
<1> HIDE DEF Critical
<1>15. CASE \E p \in Procs : Holding(p) \/ Call(p) \/ Poll(p) \/ GiveUp(p)
    BY <1>2, <1>3, <1>6, <1>7, <1>15 DEF Holding
<1>16. CASE \E p \in Procs : Recovering(p)
    BY <1>6, <1>8, <1>9, <1>10, <1>11, <1>16 DEF Recovering
<1> QED
    BY <1>12, <1>13, <1>14, <1>15, <1>16 DEF Next, Step

\* withFileLock, as its callers use it, is an exclusive lock: the refinement that the
\* run on three processes checks, for any number of them.
THEOREM Refinement ==
    ASSUME Prompt, RecoveryRunsToItsEnd
    PROVE  Spec => ImplementsExclusiveLock
<1>1. Init => Abstract!Init
    BY DEF Init, Abstract!Init, Holder, Critical
<1>2. IInv /\ IInv' /\ [Next]_vars => [Abstract!Next]_Holder
    <2> SUFFICES ASSUME IInv, IInv', [Next]_vars
                 PROVE  Abstract!Next \/ Holder' = Holder
        OBVIOUS
    <2>1. CASE Critical' = Critical
        BY <2>1 DEF Holder
    <2>2. ASSUME NEW p \in Procs, p \notin Critical, Critical' = Critical \cup {p},
                 pc[p] = "write"
          PROVE  Abstract!Next
        <3>1. Critical = {}
            BY <2>2 DEF IInv, MainOwned, MainOwnedPcs, Critical
        <3>2. Critical' = {p}
            BY <2>2, <3>1
        <3>3. Holder = NoToken /\ Holder' = p
            BY <3>1, <3>2 DEF Holder
        <3> QED
            BY <3>3 DEF Abstract!Next, Abstract!Acquire
    <2>3. ASSUME NEW p \in Critical, Critical' = Critical \ {p}
          PROVE  Abstract!Next
        <3>1. Critical = {p} /\ Holder = p
            BY AtMostOneInside
        <3>2. Critical' = {}
            BY <2>3, <3>1
        <3>3. Holder' = NoToken
            BY <3>2 DEF Holder
        <3>4. p \in Procs
            BY DEF Critical
        <3> QED
            BY <3>1, <3>3, <3>4 DEF Abstract!Next, Abstract!Leave
    <2> QED
        BY <2>1, <2>2, <2>3, CriticalStep
<1> QED
    BY <1>1, <1>2, Inductive, PTL DEF Spec, ImplementsExclusiveLock, Abstract!Spec
=============================================================================
