------------------------- MODULE ToolRecordsProof -------------------------
(***************************************************************************)
(* What the tools leave behind, for any number of commands at any point of *)
(* each other's work.  A mint of cf-metrics or cf-otel leaves the instance *)
(* as it found it and no key it has not told of, unless it was disturbed.  *)
(* A session of cf-explorer that is not stopped is listed.  A sync that    *)
(* completes has every org of every region it was asked for.  A command in *)
(* the shell of cf-explorer is answered with its own output.               *)
(***************************************************************************)
EXTENDS SamlToggle, ExplorerSession, TopologySync, RemoteShell, SequenceTheorems, TLAPS

(***************************************************************************)
(* The SAML toggle of cf-metrics and cf-otel.                              *)
(***************************************************************************)
\* Nothing but a mint that failed to restore it leaves the instance other than it was
\* found, and a mint that has the instance to itself knows what was wanted of it.
NoneCritical == \A m \in Mints : ~mint[m].critical

AsWanted == instance.applying = NoUpdate /\ instance.params = wanted

OnCourse(m) ==
    /\ mint[m].read = wanted
    /\ mint[m].at \in {"disable", "cleanUp"} => AsWanted
    /\ mint[m].at = "confirmOn" =>
          \/ instance.applying = wanted
          \/ instance.applying = NoUpdate /\ (instance.succeeded => instance.params = wanted)

NothingLost ==
    /\ Underway = {} => AsWanted
    /\ \A m \in Underway : OnCourse(m)

MintsOrderly ==
    /\ \A m, n \in Underway : m = n
    /\ \A m \in Mints : mint[m].at # "killed"
    /\ NoneCritical => NothingLost

\* A key has been named, and at the end of its mint it is returned or told.
KeysAreKnown ==
    \A m \in keys :
        /\ mint[m].named /\ mint[m].at \notin {"idle", "disable", "confirmOff", "create"}
        /\ mint[m].at = "done" =>
              \/ mint[m].keyTold
              \/ mint[m].minted /\ (mint[m].critical => m \notin Otel)

SamlInv == SamlTypeOK /\ KeysAreKnown /\ (disturbed = {} => MintsOrderly)

MintStep(m) ==
    \/ ReadsParams(m) \/ DisablesSaml(m) \/ DisableFails(m) \/ ConfirmsOff(m)
    \/ CreatesKey(m) \/ ReadsKey(m) \/ MintingFails(m)
    \/ RestoresParams(m) \/ RestoreFails(m) \/ ConfirmsOn(m)
    \/ DeletesKey(m) \/ DeleteFails(m) \/ LeavesKey(m) \/ MintIsKilled(m)

USE MintAssumption

LEMMA NoUpdateIsNone == NoUpdate \notin Params
  BY DEF NoUpdate, Params

\* The types.
LEMMA MintStepTypes ==
  ASSUME SamlTypeOK, NEW m \in Mints, MintStep(m)
  PROVE  SamlTypeOK'
  <1> USE DEF SamlTypeOK, Mint, MintPcs
  <1>1. mint[m] \in Mint /\ mint[m].read \in Params /\ SamlOff(m) \in Params
    BY DEF SamlOff, Params
  <1>2. instance.params \in Params
    OBVIOUS
  <1>a. ASSUME NEW next \in Params, Accepts(next)
        PROVE  instance' \in [params : Params, applying : Params \cup {NoUpdate},
                              succeeded : BOOLEAN]
    BY <1>a DEF Accepts
  <1>3. CASE ReadsParams(m)
    BY <1>1, <1>2, <1>3 DEF ReadsParams
  <1>4. CASE DisablesSaml(m)
    BY <1>1, <1>4, <1>a DEF DisablesSaml, MintAt
  <1>5. CASE DisableFails(m)
    BY <1>1, <1>5, <1>a DEF DisableFails, MintAt, FailsToIssue
  <1>6. CASE ConfirmsOff(m)
    BY <1>1, <1>6 DEF ConfirmsOff, MintAt
  <1>7. CASE CreatesKey(m)
    BY <1>1, <1>7 DEF CreatesKey
  <1>8. CASE ReadsKey(m)
    BY <1>1, <1>8 DEF ReadsKey
  <1>9. CASE MintingFails(m)
    BY <1>1, <1>9 DEF MintingFails, MintAt
  <1>10. CASE RestoresParams(m)
    BY <1>1, <1>10, <1>a DEF RestoresParams, MintAt
  <1>11. CASE RestoreFails(m)
    BY <1>1, <1>11, <1>a DEF RestoreFails, FailsToIssue
  <1>12. CASE ConfirmsOn(m)
    BY <1>1, <1>12 DEF ConfirmsOn, MintAt
  <1>13. CASE DeletesKey(m) \/ DeleteFails(m) \/ LeavesKey(m)
    <2>1. PICK told \in BOOLEAN : EndsMint(m, told)
      <3>1. (mint[m].minted /\ mint[m].critical /\ m \in Otel) \in BOOLEAN
        OBVIOUS
      <3> QED BY <1>13, <3>1 DEF DeletesKey, DeleteFails, LeavesKey
    <2>2. keys' \subseteq Mints
      BY <1>13 DEF DeletesKey, DeleteFails, LeavesKey
    <2> QED BY <1>1, <2>1, <2>2 DEF EndsMint
  <1>14. CASE MintIsKilled(m)
    BY <1>1, <1>14 DEF MintIsKilled
  <1> QED BY <1>3, <1>4, <1>5, <1>6, <1>7, <1>8, <1>9, <1>10, <1>11, <1>12, <1>13, <1>14
          DEF MintStep

LEMMA InstanceTypes ==
  ASSUME SamlTypeOK, UpdateEnds \/ AdministratorEdits
  PROVE  SamlTypeOK'
  <1>1. CASE UpdateEnds
    <2>1. instance.applying \in Params /\ instance.params \in Params
      BY <1>1 DEF UpdateEnds, SamlTypeOK
    <2>2. instance' \in [params : Params, applying : Params \cup {NoUpdate},
                         succeeded : BOOLEAN]
      <3>1. CASE instance' = [params |-> instance.applying, applying |-> NoUpdate,
                              succeeded |-> TRUE]
        BY <2>1, <3>1
      <3>2. CASE instance' = [instance EXCEPT !.applying = NoUpdate, !.succeeded = FALSE]
        BY <3>2 DEF SamlTypeOK
      <3> QED BY <1>1, <3>1, <3>2 DEF UpdateEnds
    <2> QED BY <1>1, <2>2 DEF UpdateEnds, SamlTypeOK
  <1>2. CASE AdministratorEdits
    <2>1. wanted' \in Params
      BY <1>2 DEF AdministratorEdits, SamlTypeOK, Params
    <2>2. [instance.params EXCEPT !.rest = wanted.rest + 1] \in Params
      BY <1>2 DEF AdministratorEdits, SamlTypeOK, Params
    <2> QED BY <1>2, <2>1, <2>2 DEF AdministratorEdits, SamlTypeOK
  <1> QED BY <1>1, <1>2

\* The keys.
LEMMA KeysStayKnown ==
  ASSUME SamlTypeOK, KeysAreKnown, NEW m \in Mints, MintStep(m)
  PROVE  KeysAreKnown'
  <1> USE DEF KeysAreKnown
  <1>1. mint \in [Mints -> Mint] /\ keys \subseteq Mints /\ mint[m] \in Mint
    BY DEF SamlTypeOK
  <1>2. \A n \in Mints \ {m} : mint'[n] = mint[n] /\ (n \in keys' => n \in keys)
    BY <1>1 DEF MintStep, ReadsParams, DisablesSaml, DisableFails, ConfirmsOff, CreatesKey,
                ReadsKey, MintingFails, RestoresParams, RestoreFails, ConfirmsOn, DeletesKey,
                DeleteFails, LeavesKey, EndsMint, MintIsKilled, MintAt
  <1>3. keys' \subseteq Mints
    BY <1>1 DEF MintStep, ReadsParams, DisablesSaml, DisableFails, ConfirmsOff, CreatesKey,
                ReadsKey, MintingFails, RestoresParams, RestoreFails, ConfirmsOn, DeletesKey,
                DeleteFails, LeavesKey, EndsMint, MintIsKilled, MintAt
  <1>4. SUFFICES ASSUME m \in keys'
                 PROVE  /\ mint'[m].named
                        /\ mint'[m].at \notin {"idle", "disable", "confirmOff", "create"}
                        /\ mint'[m].at = "done" =>
                              \/ mint'[m].keyTold
                              \/ mint'[m].minted /\ (mint'[m].critical => m \notin Otel)
    BY <1>2, <1>3
  <1>5. CASE CreatesKey(m)
    BY <1>1, <1>5 DEF CreatesKey, Mint
  <1>6. CASE DeletesKey(m) \/ DeleteFails(m) \/ LeavesKey(m)
    BY <1>1, <1>4, <1>6 DEF DeletesKey, DeleteFails, LeavesKey, EndsMint, Unusable, Mint
  <1>7. CASE ReadsParams(m) \/ DisablesSaml(m) \/ DisableFails(m) \/ ConfirmsOff(m)
    BY <1>1, <1>4, <1>7 DEF ReadsParams, DisablesSaml, DisableFails, ConfirmsOff, MintAt, Mint
  <1>8. CASE ReadsKey(m) \/ MintingFails(m) \/ RestoresParams(m) \/ RestoreFails(m)
                \/ ConfirmsOn(m) \/ MintIsKilled(m)
    BY <1>1, <1>4, <1>8 DEF ReadsKey, MintingFails, RestoresParams, RestoreFails, ConfirmsOn,
                            MintIsKilled, MintAt, Mint
  <1> QED BY <1>5, <1>6, <1>7, <1>8 DEF MintStep

\* What an undisturbed mint does to the instance.
LEMMA MintStaysOrderly ==
  ASSUME SamlTypeOK, disturbed = {} => MintsOrderly, NEW m \in Mints, MintStep(m),
         disturbed' = {}
  PROVE  MintsOrderly'
  <1>1. /\ mint \in [Mints -> Mint] /\ mint[m] \in Mint
        /\ mint[m].read \in Params /\ SamlOff(m) \in Params
    BY DEF SamlTypeOK, Mint, SamlOff, Params
  <1>2. disturbed = {} /\ MintsOrderly /\ wanted' = wanted
    BY DEF MintStep, ReadsParams, DisablesSaml, DisableFails, ConfirmsOff, CreatesKey,
           ReadsKey, MintingFails, RestoresParams, RestoreFails, ConfirmsOn, DeletesKey,
           DeleteFails, LeavesKey, EndsMint, MintIsKilled, SamlTypeOK
  <1>3. \A n \in Mints \ {m} : mint'[n] = mint[n]
    BY <1>1 DEF MintStep, ReadsParams, DisablesSaml, DisableFails, ConfirmsOff, CreatesKey,
                ReadsKey, MintingFails, RestoresParams, RestoreFails, ConfirmsOn, DeletesKey,
                DeleteFails, LeavesKey, EndsMint, MintIsKilled, MintAt
  <1>4. /\ mint' \in [Mints -> Mint]
        /\ mint[m].critical => mint'[m].critical
        /\ mint'[m].at # "killed"
        /\ mint[m].at # "idle" => mint'[m].read = mint[m].read
    <2> USE DEF Mint, MintPcs
    <2>1. SamlTypeOK'
      BY MintStepTypes
    <2>2. CASE MintIsKilled(m)
      BY <2>2 DEF MintIsKilled
    <2>3. CASE DeletesKey(m) \/ DeleteFails(m) \/ LeavesKey(m)
      BY <1>1, <2>1, <2>3 DEF DeletesKey, DeleteFails, LeavesKey, EndsMint, SamlTypeOK
    <2>4. CASE ReadsParams(m) \/ DisablesSaml(m) \/ DisableFails(m) \/ ConfirmsOff(m)
      BY <1>1, <2>1, <2>4 DEF ReadsParams, DisablesSaml, DisableFails, ConfirmsOff, MintAt,
                              SamlTypeOK
    <2>5. CASE CreatesKey(m) \/ ReadsKey(m) \/ MintingFails(m)
      BY <1>1, <2>1, <2>5 DEF CreatesKey, ReadsKey, MintingFails, MintAt, SamlTypeOK
    <2>6. CASE RestoresParams(m) \/ RestoreFails(m) \/ ConfirmsOn(m)
      BY <1>1, <2>1, <2>6 DEF RestoresParams, RestoreFails, ConfirmsOn, MintAt, SamlTypeOK
    <2> QED BY <2>2, <2>3, <2>4, <2>5, <2>6 DEF MintStep
  \* The mint that moves is the only one underway, before the step and after it.
  <1>5. Underway \subseteq {m} /\ Underway' \subseteq {m}
    <2>1. CASE ReadsParams(m)
      BY <2>1, <1>1, <1>2, <1>3 DEF ReadsParams, Underway
    <2>2. CASE ~ReadsParams(m)
      <3>1. m \in Underway
        BY <2>2, <1>1 DEF MintStep, DisablesSaml, DisableFails, ConfirmsOff, CreatesKey,
                ReadsKey, MintingFails, RestoresParams, RestoreFails, ConfirmsOn, DeletesKey,
                DeleteFails, LeavesKey, EndsMint, MintIsKilled, MintAt, Underway
      <3>2. Underway \subseteq {m}
        BY <3>1, <1>2 DEF MintsOrderly
      <3> QED BY <3>2, <1>3 DEF Underway
    <2> QED BY <2>1, <2>2
  <1>6. ASSUME NoneCritical'
        PROVE  NothingLost'
    <2>1. NoneCritical
      BY <1>3, <1>4, <1>6 DEF NoneCritical
    <2>2. /\ Underway = {} => AsWanted
          /\ m \in Underway => OnCourse(m)
      BY <2>1, <1>2 DEF MintsOrderly, NothingLost
    <2>3. ~mint'[m].critical
      BY <1>6 DEF NoneCritical
    <2>4. /\ m \in Underway <=> mint[m].at \notin {"idle", "done", "killed"}
          /\ m \in Underway' <=> mint'[m].at \notin {"idle", "done", "killed"}
      BY DEF Underway
    <2>5. SUFFICES /\ m \notin Underway' => AsWanted'
                   /\ m \in Underway' => OnCourse(m)'
      BY <1>5 DEF NothingLost
    <2>6. CASE ReadsParams(m)
      BY <2>6, <2>2, <2>4, <1>1, <1>2, <1>3 DEF ReadsParams, OnCourse, AsWanted, Mint
    <2>7. CASE DisablesSaml(m)
      BY <2>7, <2>2, <2>4, <1>1, <1>2, <1>4 DEF DisablesSaml, MintAt, OnCourse
    <2>8. CASE DisableFails(m)
      <3>1. instance' = instance
        BY <2>8, <1>2 DEF DisableFails
      <3> QED BY <2>8, <3>1, <2>2, <2>4, <1>1, <1>2
              DEF DisableFails, MintAt, OnCourse, AsWanted, Mint
    <2>9. CASE ConfirmsOff(m) \/ CreatesKey(m) \/ ReadsKey(m) \/ MintingFails(m)
      BY <2>9, <2>2, <2>4, <1>1, <1>2, <1>4
         DEF ConfirmsOff, CreatesKey, ReadsKey, MintingFails, MintAt, OnCourse, Mint
    <2>10. CASE RestoresParams(m)
      <3>1. instance' = [instance EXCEPT !.applying = mint[m].read] /\ mint[m].read = wanted
        BY <2>10, <2>2, <2>4 DEF RestoresParams, MintAt, Accepts, OnCourse
      <3>2. instance'.applying = wanted
        BY <3>1 DEF SamlTypeOK
      <3> QED BY <2>10, <3>1, <3>2, <2>4, <1>1, <1>2 DEF RestoresParams, MintAt, OnCourse, Mint
    <2>11. CASE RestoreFails(m)
      BY <2>11, <2>3, <1>1 DEF RestoreFails, Mint
    <2>12. CASE ConfirmsOn(m)
      <3>1. AsWanted /\ instance' = instance
        BY <2>12, <2>2, <2>4, <1>1, NoUpdateIsNone
           DEF ConfirmsOn, MintAt, UpdateSucceeded, OnCourse, AsWanted
      <3> QED BY <2>12, <3>1, <2>2, <2>4, <1>1, <1>2
              DEF ConfirmsOn, MintAt, OnCourse, AsWanted, Mint
    <2>13. CASE DeletesKey(m) \/ DeleteFails(m) \/ LeavesKey(m)
      <3>1. mint[m].at = "cleanUp" /\ mint'[m].at = "done" /\ instance' = instance
        BY <2>13, <1>1 DEF DeletesKey, DeleteFails, LeavesKey, EndsMint, Mint
      <3> QED BY <3>1, <2>2, <2>4, <1>2 DEF OnCourse, AsWanted
    <2>14. CASE MintIsKilled(m)
      BY <2>14 DEF MintIsKilled
    <2> QED BY <2>6, <2>7, <2>8, <2>9, <2>10, <2>11, <2>12, <2>13, <2>14 DEF MintStep
  <1>7. \A n \in Mints : mint'[n].at # "killed"
    BY <1>2, <1>3, <1>4 DEF MintsOrderly
  <1> QED BY <1>5, <1>6, <1>7 DEF MintsOrderly

LEMMA InstanceStaysOrderly ==
  ASSUME SamlTypeOK, disturbed = {} => MintsOrderly, UpdateEnds \/ AdministratorEdits,
         disturbed' = {}
  PROVE  MintsOrderly'
  <1>1. disturbed = {} /\ MintsOrderly /\ mint' = mint /\ Underway' = Underway
    BY DEF UpdateEnds, AdministratorEdits, Underway, SamlTypeOK
  <1>2. ASSUME NoneCritical
        PROVE  NothingLost'
    <2>1. NothingLost
      BY <1>1, <1>2 DEF MintsOrderly
    <2>2. CASE UpdateEnds
      <3>1. /\ instance.applying # NoUpdate
            /\ instance'.applying = NoUpdate
            /\ instance'.succeeded => instance'.params = instance.applying
            /\ wanted' = wanted
        <4>1. CASE instance' = [params |-> instance.applying, applying |-> NoUpdate,
                                succeeded |-> TRUE]
          BY <2>2, <4>1 DEF UpdateEnds
        <4>2. CASE instance' = [instance EXCEPT !.applying = NoUpdate, !.succeeded = FALSE]
          BY <2>2, <4>2 DEF UpdateEnds, SamlTypeOK
        <4> QED BY <2>2, <4>1, <4>2 DEF UpdateEnds
      <3> QED BY <2>1, <3>1, <1>1 DEF NothingLost, OnCourse, AsWanted
    <2>3. CASE AdministratorEdits
      <3>1. Underway = {} /\ AsWanted
        BY <1>1, <2>1, <2>3 DEF AdministratorEdits, NothingLost
      <3>2. wanted' = [wanted EXCEPT !.rest = wanted.rest + 1]
        BY <2>3 DEF AdministratorEdits
      <3>3. instance'.params = [wanted EXCEPT !.rest = wanted.rest + 1]
               /\ instance'.applying = NoUpdate
        BY <2>3, <3>1 DEF AdministratorEdits, AsWanted, SamlTypeOK
      <3> QED BY <3>1, <3>2, <3>3, <1>1 DEF NothingLost, AsWanted
    <2> QED BY <2>2, <2>3
  <1>3. NoneCritical' => NoneCritical
    BY <1>1 DEF NoneCritical
  <1> QED BY <1>1, <1>2, <1>3 DEF MintsOrderly

LEMMA SamlInvInit == SamlInit => SamlInv
  <1>1. SUFFICES ASSUME SamlInit PROVE SamlInv
    OBVIOUS
  <1>2. wanted \in Params
    BY <1>1 DEF SamlInit, Params
  <1>3. SamlTypeOK
    BY <1>1, <1>2 DEF SamlInit, SamlTypeOK, Mint, MintPcs
  <1>4. Underway = {} /\ AsWanted /\ \A m \in Mints : mint[m].at = "idle"
    BY <1>1 DEF SamlInit, Underway, AsWanted
  <1> QED BY <1>1, <1>3, <1>4 DEF SamlInit, SamlInv, KeysAreKnown, MintsOrderly, NothingLost

LEMMA SamlInvariance == SamlInv /\ [SamlNext]_samlvars => SamlInv'
  <1>1. SUFFICES ASSUME SamlInv, [SamlNext]_samlvars PROVE SamlInv'
    OBVIOUS
  <1>2. ASSUME NEW m \in Mints, MintStep(m) PROVE SamlInv'
    BY <1>1, <1>2, MintStepTypes, KeysStayKnown, MintStaysOrderly DEF SamlInv
  <1>3. CASE UpdateEnds \/ AdministratorEdits
    <2>1. KeysAreKnown'
      BY <1>1, <1>3 DEF SamlInv, KeysAreKnown, UpdateEnds, AdministratorEdits
    <2> QED BY <1>1, <1>3, <2>1, InstanceTypes, InstanceStaysOrderly DEF SamlInv
  <1>4. CASE UNCHANGED samlvars
    BY <1>1, <1>4 DEF samlvars, SamlInv, SamlTypeOK, KeysAreKnown, MintsOrderly, NothingLost,
                      NoneCritical, AsWanted, OnCourse, Underway
  <1> QED BY <1>1, <1>2, <1>3, <1>4 DEF SamlNext, MintStep

\* When every mint is over, and none said that it could not restore the instance, its
\* parameters are those its administrator wants, and a key that is left is the credential that
\* was returned or the error names it: for any number of mints one after the other, edits
\* between them, and any of their calls, confirmations and key operations failing.
THEOREM MintsEndAccountedFor == SamlSpec => [](SamlTypeOK /\ MintsAreAccountedFor)
  <1>1. SamlInv => MintsAreAccountedFor
    <2>1. SUFFICES ASSUME SamlInv, Underway = {}, disturbed = {}
                   PROVE  /\ instance.applying = NoUpdate /\ NoneCritical
                               => instance.params = wanted
                          /\ \A m \in keys : 
                                \/ mint[m].keyTold
                                \/ mint[m].minted /\ (mint[m].critical => m \notin Otel)
      BY DEF MintsAreAccountedFor, NoneCritical
    <2>2. MintsOrderly
      BY <2>1 DEF SamlInv
    <2>3. \A m \in keys : mint[m].at = "done"
      BY <2>1, <2>2 DEF SamlInv, SamlTypeOK, KeysAreKnown, MintsOrderly, Underway
    <2> QED BY <2>1, <2>2, <2>3 DEF SamlInv, KeysAreKnown, MintsOrderly, NothingLost, AsWanted
  <1> QED BY <1>1, SamlInvInit, SamlInvariance, PTL DEF SamlSpec, SamlInv

----------------------------------------------------------------------------
(***************************************************************************)
(* The sessions of cf-explorer.                                            *)
(***************************************************************************)
\* A broker that has found its session and was not told to stop is listed.
BrokerIsListed ==
    BrokerRuns(broker) /\ broker.shutdown = "none" /\ broker.startup \notin {"boot", "failing"}
        => record # NoRecord

\* So is a CF_HOME that is there or is about to be, or somebody is about to remove it.
HomeIsListed ==
    home \/ login \/ In("creating") => record # NoRecord \/ Cleaning

ExplorerInv == ExplorerTypeOK /\ (oversights = {} => BrokerIsListed /\ HomeIsListed)

BrokerRecord == [startup : StartupPcs, shutdown : ShutdownPcs]
StopperRecord == [at : StopperPcs, pid : {"nobody", "starter", "broker"}]

\* A patched record is still one.
LEMMA PatchedRecords ==
  ASSUME record \in Records,
         NEW status \in {"starting", "busy", "ready", "stale", "error"},
         NEW pid \in {"starter", "broker"}
  PROVE  /\ Patched("status", status) \in Records /\ Patched("pid", pid) \in Records
         /\ Patched("status", status) = NoRecord <=> record = NoRecord
         /\ Patched("pid", pid) = NoRecord <=> record = NoRecord
  <1>1. CASE record = NoRecord
    BY <1>1 DEF Patched
  <1>2. CASE record # NoRecord
    <2>1. record \in [status : {"starting", "busy", "ready", "stale", "error"},
                      pid : {"starter", "broker"}]
      BY <1>2 DEF Records
    <2>2. /\ [record EXCEPT !["status"] = status] \in Records
          /\ [record EXCEPT !["status"] = status].status # "none"
          /\ [record EXCEPT !["pid"] = pid] \in Records
          /\ [record EXCEPT !["pid"] = pid].status # "none"
      BY <2>1 DEF Records
    <2> QED
      BY <1>2, <2>2 DEF Patched, NoRecord
  <1> QED
    BY <1>1, <1>2

LEMMA ExplorerBegins == ExplorerInit => ExplorerInv
  <1> SUFFICES ASSUME ExplorerInit PROVE ExplorerInv
    OBVIOUS
  <1>1. ExplorerTypeOK
    BY DEF ExplorerInit, ExplorerTypeOK, Records, StarterPcs, StartupPcs, ShutdownPcs, StopperPcs
  <1>2. BrokerIsListed /\ HomeIsListed
    BY DEF ExplorerInit, BrokerIsListed, HomeIsListed, BrokerRuns, In
  <1> QED
    BY <1>1, <1>2 DEF ExplorerInv

StarterStep ==
    \/ Prunes \/ Registers \/ SpawnsBroker \/ RecordsPid \/ SeesReady \/ GivesUpWaiting
    \/ TerminatesBroker \/ StarterRemoves \/ StarterCleans \/ MarksStale \/ StarterKilled
StartupStep ==
    \/ RequiresSession("boot", "context") \/ RequiresSession("context", "creating")
    \/ CreatesHome \/ LoginEnds \/ (\E restarts \in BOOLEAN : SpawnsShell(restarts))
    \/ PublishesStatus("busy", "busy", "handshake") \/ Handshakes \/ Listens
    \/ PublishesStatus("publishing", "ready", "serving") \/ FailsStartup
ShutdownStep ==
    TimersFire \/ ShellExits \/ MarksOwnStale \/ BrokerRemoves \/ BrokerCleans \/ BrokerKilled
StopperStep(k) ==
    \/ Lists(k) \/ (\E answered \in BOOLEAN : AsksBroker(k, answered)) \/ EndsGrace(k)
    \/ TerminatesPid(k) \/ StopperRemoves(k) \/ StopperCleans(k) \/ StopperKilled(k)

\* The parts of the type, in the form in which the steps use them.
LEMMA ExplorerParts ==
  ASSUME ExplorerTypeOK
  PROVE  /\ record \in Records /\ starter \in StarterPcs /\ broker \in BrokerRecord
         /\ shell \in {"none", "up", "ended"} /\ stopper \in [Stoppers -> StopperRecord]
         /\ home \in BOOLEAN /\ socket \in BOOLEAN /\ login \in BOOLEAN /\ jammed \in BOOLEAN
         /\ oversights \subseteq Oversights
  BY DEF ExplorerTypeOK, BrokerRecord, StopperRecord

LEMMA ExplorerWhole ==
  ASSUME record' \in Records, starter' \in StarterPcs, broker' \in BrokerRecord,
         shell' \in {"none", "up", "ended"}, stopper' \in [Stoppers -> StopperRecord],
         home' \in BOOLEAN, socket' \in BOOLEAN, login' \in BOOLEAN, jammed' \in BOOLEAN,
         oversights' \subseteq Oversights
  PROVE  ExplorerTypeOK'
  BY DEF ExplorerTypeOK, BrokerRecord, StopperRecord

LEMMA StarterKeepsTypes ==
  ASSUME ExplorerTypeOK, StarterStep
  PROVE  ExplorerTypeOK'
  <1>t. /\ record \in Records /\ starter \in StarterPcs /\ broker \in BrokerRecord
        /\ shell \in {"none", "up", "ended"} /\ stopper \in [Stoppers -> StopperRecord]
        /\ home \in BOOLEAN /\ socket \in BOOLEAN /\ login \in BOOLEAN /\ jammed \in BOOLEAN
        /\ oversights \subseteq Oversights
    BY ExplorerParts
  <1>0. /\ Patched("pid", "broker") \in Records /\ Patched("status", "stale") \in Records
        /\ NoRecord \in Records /\ [status |-> "starting", pid |-> "starter"] \in Records
    BY <1>t, PatchedRecords DEF Records
  <1>1. record' \in Records
    BY <1>t, <1>0 DEF StarterStep, Prunes, Registers, SpawnsBroker, RecordsPid, SeesReady,
       GivesUpWaiting, TerminatesBroker, StarterRemoves, StarterCleans, MarksStale, StarterKilled,
       RemovesRecord
  <1>2. starter' \in StarterPcs
    BY <1>t DEF StarterStep, Prunes, Registers, SpawnsBroker, RecordsPid, SeesReady,
       GivesUpWaiting, TerminatesBroker, StarterRemoves, StarterCleans, MarksStale, StarterKilled,
       StarterPcs
  <1>3. broker' \in BrokerRecord
    BY <1>t DEF StarterStep, Prunes, Registers, SpawnsBroker, RecordsPid, SeesReady,
       GivesUpWaiting, TerminatesBroker, StarterRemoves, StarterCleans, MarksStale, StarterKilled,
       BrokerRecord, StartupPcs, ShutdownPcs
  <1>4. /\ shell' \in {"none", "up", "ended"} /\ stopper' \in [Stoppers -> StopperRecord]
        /\ home' \in BOOLEAN /\ socket' \in BOOLEAN /\ login' \in BOOLEAN /\ jammed' \in BOOLEAN
        /\ oversights' \subseteq Oversights
    BY <1>t DEF StarterStep, Prunes, Registers, SpawnsBroker, RecordsPid, SeesReady,
       GivesUpWaiting, TerminatesBroker, StarterRemoves, StarterCleans, MarksStale, StarterKilled,
       RemovesRecord, CleansFiles, Oversees, Cut, Oversights
  <1> QED
    BY <1>1, <1>2, <1>3, <1>4, ExplorerWhole

LEMMA StartupKeepsTypes ==
  ASSUME ExplorerTypeOK, StartupStep
  PROVE  ExplorerTypeOK'
  <1>t. /\ record \in Records /\ starter \in StarterPcs /\ broker \in BrokerRecord
        /\ shell \in {"none", "up", "ended"} /\ stopper \in [Stoppers -> StopperRecord]
        /\ home \in BOOLEAN /\ socket \in BOOLEAN /\ login \in BOOLEAN /\ jammed \in BOOLEAN
        /\ oversights \subseteq Oversights
    BY ExplorerParts
  <1>0. \A status \in {"busy", "ready", "stale", "error"} : Patched("status", status) \in Records
    BY <1>t, PatchedRecords
  <1>1. record' \in Records
    BY <1>t, <1>0 DEF StartupStep, RequiresSession, CreatesHome, LoginEnds, SpawnsShell,
       PublishesStatus, Handshakes, Listens, FailsStartup
  <1>2. broker' \in BrokerRecord
    BY <1>t DEF StartupStep, RequiresSession, CreatesHome, LoginEnds, SpawnsShell,
       PublishesStatus, Handshakes, Listens, FailsStartup, GoesTo, BrokerRecord, StartupPcs,
       ShutdownPcs
  <1>3. /\ starter' \in StarterPcs
        /\ shell' \in {"none", "up", "ended"} /\ stopper' \in [Stoppers -> StopperRecord]
        /\ home' \in BOOLEAN /\ socket' \in BOOLEAN /\ login' \in BOOLEAN /\ jammed' \in BOOLEAN
        /\ oversights' \subseteq Oversights
    BY <1>t DEF StartupStep, RequiresSession, CreatesHome, LoginEnds, SpawnsShell,
       PublishesStatus, Handshakes, Listens, FailsStartup, Oversees, Cut, Oversights
  <1> QED
    BY <1>1, <1>2, <1>3, ExplorerWhole

LEMMA ShutdownKeepsTypes ==
  ASSUME ExplorerTypeOK, ShutdownStep
  PROVE  ExplorerTypeOK'
  <1>t. /\ record \in Records /\ starter \in StarterPcs /\ broker \in BrokerRecord
        /\ shell \in {"none", "up", "ended"} /\ stopper \in [Stoppers -> StopperRecord]
        /\ home \in BOOLEAN /\ socket \in BOOLEAN /\ login \in BOOLEAN /\ jammed \in BOOLEAN
        /\ oversights \subseteq Oversights
    BY ExplorerParts
  <1>0. Patched("status", "stale") \in Records /\ NoRecord \in Records
    BY <1>t, PatchedRecords DEF Records
  <1>1. record' \in Records
    BY <1>t, <1>0 DEF ShutdownStep, TimersFire, ShellExits, MarksOwnStale, BrokerRemoves,
       BrokerCleans, BrokerKilled
  <1>2. broker' \in BrokerRecord
    <2>1. CASE BrokerEnds
      BY <2>1 DEF BrokerEnds, BrokerRecord, StartupPcs, ShutdownPcs
    <2>2. CASE \E pc \in ShutdownPcs : broker' = [broker EXCEPT !.shutdown = pc]
      BY <1>t, <2>2 DEF BrokerRecord
    <2> QED
      BY <1>t, <2>1, <2>2 DEF ShutdownStep, TimersFire, ShellExits, MarksOwnStale, BrokerRemoves,
         BrokerCleans, BrokerKilled, ShutdownPcs
  <1>3. /\ starter' \in StarterPcs
        /\ shell' \in {"none", "up", "ended"} /\ stopper' \in [Stoppers -> StopperRecord]
        /\ home' \in BOOLEAN /\ socket' \in BOOLEAN /\ login' \in BOOLEAN /\ jammed' \in BOOLEAN
        /\ oversights' \subseteq Oversights
    BY <1>t DEF ShutdownStep, TimersFire, ShellExits, MarksOwnStale, BrokerRemoves,
       BrokerCleans, BrokerKilled, CleansFiles, Oversees, Cut, Oversights
  <1> QED
    BY <1>1, <1>2, <1>3, ExplorerWhole

\* A stop command moves on alone.
LEMMA StopperMoves ==
  ASSUME ExplorerTypeOK, NEW k \in Stoppers, StopperStep(k)
  PROVE  /\ stopper' \in [Stoppers -> StopperRecord]
         /\ \A j \in Stoppers \ {k} : stopper'[j] = stopper[j]
  <1>t. record \in Records /\ stopper \in [Stoppers -> StopperRecord]
    BY ExplorerParts
  <1>1. ASSUME NEW pc \in StopperPcs, StopperTurns(k, pc)
        PROVE  /\ stopper' \in [Stoppers -> StopperRecord]
               /\ \A j \in Stoppers \ {k} : stopper'[j] = stopper[j]
    BY <1>t, <1>1 DEF StopperTurns, StopperRecord
  <1>2. CASE Lists(k)
    <2>1. PICK s \in StopperRecord : stopper' = [stopper EXCEPT ![k] = s]
      <3>1. record.pid \in {"nobody", "starter", "broker"}
        BY <1>t DEF Records, NoRecord
      <3>2. /\ [at |-> "done", pid |-> "nobody"] \in StopperRecord
            /\ [at |-> "asking", pid |-> record.pid] \in StopperRecord
        BY <3>1 DEF StopperRecord, StopperPcs
      <3> QED
        BY <1>2, <3>2 DEF Lists
    <2> QED
      BY <1>t, <2>1
  <1>3. CASE ~Lists(k)
    <2>1. \E pc \in StopperPcs : StopperTurns(k, pc)
      BY <1>3 DEF StopperStep, AsksBroker, EndsGrace, TerminatesPid, StopperRemoves,
                  StopperCleans, StopperKilled, StopperPcs
    <2> QED
      BY <1>1, <2>1
  <1> QED
    BY <1>2, <1>3

LEMMA StopperKeepsTypes ==
  ASSUME ExplorerTypeOK, NEW k \in Stoppers, StopperStep(k)
  PROVE  ExplorerTypeOK'
  <1>t. /\ record \in Records /\ starter \in StarterPcs /\ broker \in BrokerRecord
        /\ shell \in {"none", "up", "ended"}
        /\ home \in BOOLEAN /\ socket \in BOOLEAN /\ login \in BOOLEAN /\ jammed \in BOOLEAN
        /\ oversights \subseteq Oversights
    BY ExplorerParts
  <1>1. record' \in Records
    BY <1>t DEF StopperStep, Lists, AsksBroker, EndsGrace, TerminatesPid, StopperRemoves,
                StopperCleans, StopperKilled, RemovesRecord, Records
  <1>2. broker' \in BrokerRecord
    BY <1>t DEF StopperStep, Lists, AsksBroker, EndsGrace, TerminatesPid, StopperRemoves,
                StopperCleans, StopperKilled, Terminates, BrokerRecord, ShutdownPcs
  <1>3. /\ starter' \in StarterPcs /\ shell' \in {"none", "up", "ended"}
        /\ home' \in BOOLEAN /\ socket' \in BOOLEAN /\ login' \in BOOLEAN /\ jammed' \in BOOLEAN
        /\ oversights' \subseteq Oversights
    BY <1>t DEF StopperStep, Lists, AsksBroker, EndsGrace, TerminatesPid, StopperRemoves,
                StopperCleans, StopperKilled, Terminates, CleansFiles, RemovesRecord, Oversees,
                Cut, Oversights, StarterPcs
  <1> QED
    BY <1>1, <1>2, <1>3, StopperMoves, ExplorerWhole

\* What keeps a listing: the record stays; or it is removed by someone who then removes the
\* files, and nobody runs unlisted.
LEMMA StarterKeepsListing ==
  ASSUME ExplorerTypeOK, BrokerIsListed, HomeIsListed, oversights = {}, oversights' = {},
         StarterStep
  PROVE  BrokerIsListed' /\ HomeIsListed'
  <1>t. /\ record \in Records /\ starter \in StarterPcs /\ broker \in BrokerRecord
        /\ home \in BOOLEAN /\ login \in BOOLEAN
    BY ExplorerParts
  <1> USE DEF BrokerIsListed, HomeIsListed, BrokerRuns, In, Cleaning, StopperAt
  <1>0. /\ Patched("pid", "broker") = NoRecord <=> record = NoRecord
        /\ Patched("status", "stale") = NoRecord <=> record = NoRecord
        /\ [status |-> "starting", pid |-> "starter"] # NoRecord
    BY <1>t, PatchedRecords DEF NoRecord
  <1>1. CASE Prunes
    BY <1>1 DEF Prunes, Oversees
  <1>2. CASE Registers
    BY <1>0, <1>2 DEF Registers
  <1>3. CASE SpawnsBroker
    BY <1>t, <1>3 DEF SpawnsBroker, BrokerRecord
  <1>4. CASE RecordsPid \/ SeesReady \/ GivesUpWaiting \/ MarksStale
    BY <1>0, <1>4 DEF RecordsPid, SeesReady, GivesUpWaiting, MarksStale
  <1>5. CASE TerminatesBroker
    BY <1>t, <1>5 DEF TerminatesBroker, BrokerRecord
  <1>6. CASE StarterRemoves
    BY <1>6 DEF StarterRemoves, RemovesRecord, Oversees
  <1>7. CASE StarterCleans
    BY <1>t, <1>7 DEF StarterCleans, CleansFiles, Oversees
  <1>8. CASE StarterKilled
    BY <1>8 DEF StarterKilled, Oversees, Cut
  <1> QED
    BY <1>1, <1>2, <1>3, <1>4, <1>5, <1>6, <1>7, <1>8 DEF StarterStep

LEMMA StartupKeepsListing ==
  ASSUME ExplorerTypeOK, BrokerIsListed, HomeIsListed, oversights = {}, oversights' = {},
         StartupStep
  PROVE  BrokerIsListed' /\ HomeIsListed'
  <1>t. /\ record \in Records /\ broker \in BrokerRecord /\ home \in BOOLEAN /\ login \in BOOLEAN
    BY ExplorerParts
  <1>0. \A status \in {"busy", "ready", "stale", "error"} :
           Patched("status", status) = NoRecord <=> record = NoRecord
    BY <1>t, PatchedRecords
  <1>a. \A pc : GoesTo(pc) => broker'.startup = pc /\ broker'.shutdown = broker.shutdown
    BY <1>t DEF GoesTo, BrokerRecord
  <1> USE DEF BrokerIsListed, HomeIsListed, BrokerRuns, In, Cleaning, StopperAt
  <1>1. CASE \E from \in {"boot", "context"}, to \in {"context", "creating"} :
                RequiresSession(from, to)
    <2>1. /\ broker'.shutdown = broker.shutdown
          /\ broker'.startup # "failing" => record # NoRecord
      BY <1>1, <1>a DEF RequiresSession
    <2> QED
      BY <1>1, <2>1 DEF RequiresSession
  <1>2. CASE CreatesHome
    BY <1>2, <1>a DEF CreatesHome
  <1>3. CASE LoginEnds
    BY <1>3, <1>a DEF LoginEnds
  <1>4. CASE \E restarts \in BOOLEAN : SpawnsShell(restarts)
    BY <1>4, <1>a, <1>0 DEF SpawnsShell
  <1>5. CASE PublishesStatus("busy", "busy", "handshake")
               \/ PublishesStatus("publishing", "ready", "serving")
    BY <1>5, <1>a, <1>0 DEF PublishesStatus
  <1>6. CASE Handshakes \/ Listens
    BY <1>6, <1>a DEF Handshakes, Listens
  <1>7. CASE FailsStartup
    BY <1>7, <1>0 DEF FailsStartup, Oversees, Cut
  <1> QED
    BY <1>1, <1>2, <1>3, <1>4, <1>5, <1>6, <1>7 DEF StartupStep

LEMMA ShutdownKeepsListing ==
  ASSUME ExplorerTypeOK, BrokerIsListed, HomeIsListed, oversights = {}, oversights' = {},
         ShutdownStep
  PROVE  BrokerIsListed' /\ HomeIsListed'
  <1>t. /\ record \in Records /\ broker \in BrokerRecord /\ home \in BOOLEAN /\ login \in BOOLEAN
    BY ExplorerParts
  <1>0. Patched("status", "stale") = NoRecord <=> record = NoRecord
    BY <1>t, PatchedRecords
  <1>b. \A pc : broker' = [broker EXCEPT !.shutdown = pc] =>
                  broker'.shutdown = pc /\ broker'.startup = broker.startup
    BY <1>t DEF BrokerRecord
  <1> USE DEF BrokerIsListed, HomeIsListed, BrokerRuns, In, Cleaning, StopperAt
  <1>1. CASE TimersFire
    BY <1>1, <1>b DEF TimersFire
  <1>2. CASE ShellExits
    BY <1>2, <1>b DEF ShellExits
  <1>3. CASE MarksOwnStale
    BY <1>3, <1>b, <1>0 DEF MarksOwnStale
  <1>4. CASE BrokerRemoves
    BY <1>4, <1>b DEF BrokerRemoves, BrokerEnds
  <1>5. CASE BrokerCleans
    BY <1>t, <1>5 DEF BrokerCleans, BrokerEnds, CleansFiles, Oversees
  <1>6. CASE BrokerKilled
    BY <1>6 DEF BrokerKilled, BrokerEnds, Oversees, Cut
  <1> QED
    BY <1>1, <1>2, <1>3, <1>4, <1>5, <1>6 DEF ShutdownStep

LEMMA StopperKeepsListing ==
  ASSUME ExplorerTypeOK, BrokerIsListed, HomeIsListed, oversights = {}, oversights' = {},
         NEW k \in Stoppers, StopperStep(k)
  PROVE  BrokerIsListed' /\ HomeIsListed'
  <1>t. /\ record \in Records /\ broker \in BrokerRecord /\ home \in BOOLEAN /\ login \in BOOLEAN
        /\ stopper \in [Stoppers -> StopperRecord]
    BY ExplorerParts
  <1>s. \A j \in Stoppers \ {k} : stopper'[j] = stopper[j]
    BY StopperMoves
  <1>b. broker' = [broker EXCEPT !.shutdown = "removing"] =>
           broker'.shutdown = "removing" /\ broker'.startup = broker.startup
    BY <1>t DEF BrokerRecord
  <1>c. \A pc : StopperTurns(k, pc) => stopper'[k].at = pc
    BY <1>t DEF StopperTurns, StopperRecord
  <1> USE DEF BrokerIsListed, HomeIsListed, BrokerRuns, In, Cleaning, StopperAt
  <1>1. CASE Lists(k) \/ (\E answered \in BOOLEAN : AsksBroker(k, answered)) \/ EndsGrace(k)
    <2>1. /\ UNCHANGED <<record, starter, home, login>> /\ stopper[k].at # "cleaning"
          /\ \/ broker' = broker
             \/ broker' = [broker EXCEPT !.shutdown = "removing"] /\ broker.shutdown = "none"
      BY <1>1 DEF Lists, AsksBroker, EndsGrace
    <2> QED
      BY <2>1, <1>s, <1>b
  <1>2. CASE TerminatesPid(k)
    <2>1. /\ UNCHANGED <<record, home, login>> /\ stopper[k].at # "cleaning"
          /\ \/ broker' = broker
             \/ broker' = [broker EXCEPT !.shutdown = "removing"] /\ broker.shutdown = "none"
      BY <1>2 DEF TerminatesPid, Terminates
    <2>2. starter = "cleaning" => starter' = "cleaning"
      BY <1>2 DEF TerminatesPid, Terminates, Oversees, Cut
    <2> QED
      BY <2>1, <2>2, <1>s, <1>b
  <1>3. CASE StopperRemoves(k)
    BY <1>3, <1>s, <1>c DEF StopperRemoves, RemovesRecord, Oversees
  <1>4. CASE StopperCleans(k)
    BY <1>t, <1>4 DEF StopperCleans, CleansFiles, Oversees
  <1>5. CASE StopperKilled(k)
    <2>1. stopper[k].at # "cleaning" /\ UNCHANGED <<record, starter, broker, home, login>>
      BY <1>5 DEF StopperKilled, Oversees, Cut
    <2> QED
      BY <2>1, <1>s
  <1> QED
    BY <1>1, <1>2, <1>3, <1>4, <1>5 DEF StopperStep

LEMMA ExplorerSteps == ExplorerInv /\ [ExplorerNext]_explorervars => ExplorerInv'
  <1> SUFFICES ASSUME ExplorerInv, [ExplorerNext]_explorervars PROVE ExplorerInv'
    OBVIOUS
  <1>1. ASSUME StarterStep \/ StartupStep \/ ShutdownStep PROVE ExplorerInv'
    <2>1. ExplorerTypeOK'
      BY <1>1, StarterKeepsTypes, StartupKeepsTypes, ShutdownKeepsTypes DEF ExplorerInv
    <2>2. oversights' = {} => oversights = {}
      BY <1>1 DEF StarterStep, Prunes, Registers, SpawnsBroker, RecordsPid, SeesReady,
         GivesUpWaiting, TerminatesBroker, StarterRemoves, StarterCleans, MarksStale,
         StarterKilled, StartupStep, RequiresSession, CreatesHome, LoginEnds, SpawnsShell,
         PublishesStatus, Handshakes, Listens, FailsStartup, ShutdownStep, TimersFire,
         ShellExits, MarksOwnStale, BrokerRemoves, BrokerCleans, BrokerKilled, RemovesRecord,
         CleansFiles, Oversees
    <2> QED
      BY <1>1, <2>1, <2>2, StarterKeepsListing, StartupKeepsListing, ShutdownKeepsListing
      DEF ExplorerInv
  <1>2. ASSUME NEW k \in Stoppers, StopperStep(k) PROVE ExplorerInv'
    <2>1. ExplorerTypeOK'
      BY <1>2, StopperKeepsTypes DEF ExplorerInv
    <2>2. oversights' = {} => oversights = {}
      BY <1>2 DEF StopperStep, Lists, AsksBroker, EndsGrace, TerminatesPid, StopperRemoves,
         StopperCleans, StopperKilled, Terminates, RemovesRecord, CleansFiles, Oversees
    <2> QED
      BY <1>2, <2>1, <2>2, StopperKeepsListing DEF ExplorerInv
  <1>3. CASE UNCHANGED explorervars
    BY <1>3 DEF explorervars, ExplorerInv, ExplorerTypeOK, BrokerIsListed, HomeIsListed, BrokerRuns,
                In, Cleaning, StopperAt
  <1> QED
    BY <1>1, <1>2, <1>3
    DEF ExplorerNext, StarterStep, StartupStep, ShutdownStep, StopperStep

\* "Persistent CF_HOME folders are treated as sensitive and removed on session stop"
\* (README.md:412), for any number of stop commands.
THEOREM ExplorerLeavesNothingUnlisted ==
  ExplorerSpec => [](ExplorerTypeOK /\ LeftoversAreListed)
  <1>1. ExplorerInv => LeftoversAreListed
    BY DEF ExplorerInv, LeftoversAreListed, BrokerIsListed, HomeIsListed, BrokerRuns, In
  <1> QED
    BY <1>1, ExplorerBegins, ExplorerSteps, PTL DEF ExplorerSpec, ExplorerInv

----------------------------------------------------------------------------
(***************************************************************************)
(* The topology snapshot of cf-sync.                                       *)
(***************************************************************************)
\* A region that counts as completed is there as a whole, unless something of it was lost.
CompletedAreWhole ==
    \A r \in runtime.completed \ runtime.failures :
        r \in DOMAIN runtime.nodes /\ runtime.nodes[r] = Wholly

\* A sync that collects into its own state has a region before it or behind it.
NothingIsSkipped ==
    \A s \in Syncs :
        /\ sync[s].at = "collecting" => sync[s].region \in Regions
        /\ SyncAt(s, {"choosing", "collecting"}) /\ Owns(s) =>
              /\ Requested(s) \subseteq runtime.completed \cup sync[s].left
              /\ runtime.status # "completed"

\* What is completed is the snapshot, and has what was asked for.
CompletedIsStable ==
    runtime.status = "completed" =>
        /\ \A r \in Regions \ behind : AgreeIn(r, stable, runtime.nodes)
        /\ Requested(runtime.by) \subseteq runtime.completed

\* What is still to be written as the snapshot agrees with the runtime state that was written,
\* a sync's in everything; and it is the snapshot that is there but for the fetched region,
\* or the refreshed parts.
SectionFits ==
    /\ section # NoSection /\ runtime.status = "completed" =>
          \A r \in Regions \ section.behind : AgreeIn(r, section.nodes, runtime.nodes)
    /\ section.by \in Syncs =>
          /\ runtime.by = section.by /\ runtime.status = "completed"
          /\ section.nodes = runtime.nodes
    /\ section.by \in Fetchers =>
          /\ fetch[section.by] \in Regions
          /\ \A r \in Regions \ {fetch[section.by]} : Node(section.nodes, r) = Node(stable, r)
    /\ section.by \in Targeted =>
          \A r \in Regions, o \in Orgs :
             Node(stable, r)[o] # "missing" => Node(section.nodes, r)[o] # "missing"

TopologyInv == /\ TopologyTypeOK /\ CompletedAreWhole /\ NothingIsSkipped /\ CompletedIsStable
               /\ SectionFits

People == Syncs \cup {Nobodys, Earlier}
RuntimeState == [by : People, status : {"none", "running", "completed", "failed"},
                 completed : SUBSET Regions, nodes : Structures, failures : SUBSET Regions]
SyncState == [at : SyncPcs, read : People, left : SUBSET Regions,
              region : Regions \cup {NoRegion}]
SectionState == [by : Syncs \cup Fetchers \cup Targeted \cup {Nobodys}, nodes : Structures,
                 behind : SUBSET Regions]

USE OnlyAssumption

\* A structure is a function on a set of regions.
LEMMA StructureShape ==
  ASSUME NEW x
  PROVE  x \in Structures <=> DOMAIN x \subseteq Regions /\ x \in [DOMAIN x -> [Orgs -> Extents]]
  <1>1. ASSUME x \in Structures
        PROVE  DOMAIN x \subseteq Regions /\ x \in [DOMAIN x -> [Orgs -> Extents]]
    <2>1. PICK rs \in SUBSET Regions : x \in [rs -> [Orgs -> Extents]]
      BY <1>1 DEF Structures
    <2> QED
      BY <2>1
  <1>2. ASSUME DOMAIN x \subseteq Regions, x \in [DOMAIN x -> [Orgs -> Extents]]
        PROVE  x \in Structures
    BY <1>2 DEF Structures
  <1> QED
    BY <1>1, <1>2

\* What laying one structure over another makes of them.
LEMMA LaidOverShape ==
  ASSUME NEW over \in Structures, NEW under \in Structures
  PROVE  /\ LaidOver(over, under) \in Structures
         /\ \A r \in DOMAIN over : /\ r \in DOMAIN LaidOver(over, under)
                                   /\ LaidOver(over, under)[r] = over[r]
  <1> DEFINE x == LaidOver(over, under)
  <1>1. DOMAIN over \subseteq Regions /\ over \in [DOMAIN over -> [Orgs -> Extents]]
    BY StructureShape
  <1>2. DOMAIN under \subseteq Regions /\ under \in [DOMAIN under -> [Orgs -> Extents]]
    BY StructureShape
  <1>3. DOMAIN x = DOMAIN over \cup DOMAIN under
    BY DEF LaidOver
  <1>4. \A r \in DOMAIN x : x[r] = IF r \in DOMAIN over THEN over[r] ELSE under[r]
    BY DEF LaidOver
  <1>5. x \in [DOMAIN x -> [Orgs -> Extents]]
    <2>1. \A r \in DOMAIN x : x[r] \in [Orgs -> Extents]
      BY <1>1, <1>2, <1>3, <1>4
    <2>2. x = [r \in DOMAIN x |-> x[r]]
      BY DEF LaidOver
    <2> HIDE DEF x
    <2> QED
      BY <2>1, <2>2
  <1> HIDE DEF x
  <1>6. x \in Structures
    BY <1>1, <1>2, <1>3, <1>5, StructureShape
  <1> QED
    BY <1>3, <1>4, <1>6 DEF x

LEMMA WithRegionShape ==
  ASSUME NEW nodes \in Structures, NEW r \in Regions, NEW node \in [Orgs -> Extents]
  PROVE  /\ WithRegion(nodes, r, node) \in Structures
         /\ DOMAIN WithRegion(nodes, r, node) = DOMAIN nodes \cup {r}
         /\ WithRegion(nodes, r, node)[r] = node
         /\ \A q \in DOMAIN nodes \ {r} : WithRegion(nodes, r, node)[q] = nodes[q]
  <1> DEFINE one == [x \in {r} |-> node]
  <1>1. one \in Structures
    BY StructureShape
  <1>2. WithRegion(nodes, r, node) \in Structures
    BY <1>1, LaidOverShape DEF WithRegion
  <1> QED
    BY <1>2 DEF WithRegion, LaidOver

\* A part of a whole region is laid over it: it stays whole, unless the part was lost.
LEMMA PartShape ==
  ASSUME NEW node \in [Orgs -> Extents], NEW what \in Kinds, NEW o \in Orgs
  PROVE  /\ Part(node, what, o) \in [Orgs -> Extents]
         /\ node = Wholly /\ what \notin {"spaceFails", "orgFails"}
               => Part(node, what, o) = Wholly
  <1>1. CASE what = "space"
    BY <1>1 DEF Part, Extents, Wholly
  <1>2. CASE what \in {"spaceFails", "orgFails"}
    BY <1>2 DEF Part, Extents
  <1>3. CASE what = "org"
    BY <1>3 DEF Part, Extents, Wholly
  <1>4. CASE what = "orgs"
    BY <1>4 DEF Part, Extents, Wholly
  <1> QED
    BY <1>1, <1>2, <1>3, <1>4 DEF Kinds

LEMMA NodeShape ==
  ASSUME NEW nodes \in Structures, NEW r \in Regions
  PROVE  Node(nodes, r) \in [Orgs -> Extents]
  BY StructureShape DEF Node, Unseen, Extents

LEMMA CollectionShape ==
  ASSUME NEW node \in Collections
  PROVE  node \in [Orgs -> Extents]
  BY DEF Collections, Wholly, Unseen, Extents

\* The parts of the type, in the form in which the steps use them.
LEMMA TopologyParts ==
  ASSUME TopologyTypeOK
  PROVE  /\ syncLock \in [by : People, written : BOOLEAN]
         /\ runtime \in RuntimeState /\ stable \in Structures /\ sync \in [Syncs -> SyncState]
         /\ fetch \in [Fetchers -> Regions \cup {"new", "done"}] /\ refreshed \subseteq Targeted
         /\ section \in SectionState /\ behind \subseteq Regions
  BY DEF TopologyTypeOK, RuntimeState, SyncState, SectionState, People

LEMMA TopologyWhole ==
  ASSUME syncLock' \in [by : People, written : BOOLEAN],
         runtime' \in RuntimeState, stable' \in Structures, sync' \in [Syncs -> SyncState],
         fetch' \in [Fetchers -> Regions \cup {"new", "done"}], refreshed' \subseteq Targeted,
         section' \in SectionState, behind' \subseteq Regions
  PROVE  TopologyTypeOK'
  BY DEF TopologyTypeOK, RuntimeState, SyncState, SectionState, People

LEMMA StatesAreWellFormed ==
  /\ NoState \in RuntimeState /\ NewSync \in SyncState /\ Wholly \in [Orgs -> Extents]
  /\ Empty \in Structures /\ Unseen \in [Orgs -> Extents] /\ NoSection \in SectionState
  <1>1. Wholly \in [Orgs -> Extents] /\ Unseen \in [Orgs -> Extents]
    BY DEF Wholly, Unseen, Extents
  <1>2. Empty \in Structures
    BY StructureShape DEF Empty
  <1>3. NoState \in RuntimeState
    BY <1>2 DEF NoState, RuntimeState, People
  <1>4. NewSync \in SyncState
    BY DEF NewSync, SyncState, SyncPcs, People
  <1>5. NoSection \in SectionState
    BY <1>2 DEF NoSection, SectionState
  <1> QED
    BY <1>1, <1>2, <1>3, <1>4, <1>5

LEMMA TopologyBegins == TopologyInit => TopologyInv
  <1> SUFFICES ASSUME TopologyInit PROVE TopologyInv
    OBVIOUS
  <1>1. EarlierState.nodes \in Structures /\ EarlierState \in RuntimeState
    <2>1. EarlierState.nodes \in [Regions -> [Orgs -> Extents]] /\ DOMAIN EarlierState.nodes = Regions
      BY StatesAreWellFormed DEF EarlierState
    <2>2. EarlierState.nodes \in Structures
      BY <2>1, StructureShape
    <2> QED
      BY <2>2 DEF EarlierState, RuntimeState, People
  <1>2. [NoState EXCEPT !.by = Earlier, !.status = "running"] \in RuntimeState
    BY StatesAreWellFormed DEF RuntimeState, People
  <1>3. /\ runtime \in RuntimeState /\ stable \in Structures
        /\ syncLock \in [by : People, written : BOOLEAN]
    <2>1. /\ NoSyncLock \in [by : People, written : BOOLEAN]
          /\ [by |-> Earlier, written |-> TRUE] \in [by : People, written : BOOLEAN]
      BY DEF NoSyncLock, People
    <2>2. NoState.nodes \in Structures
      BY StatesAreWellFormed DEF NoState
    <2>3. CASE runtime \in {NoState, EarlierState} /\ syncLock = NoSyncLock /\ stable = runtime.nodes
      BY <1>1, <2>1, <2>2, <2>3, StatesAreWellFormed
    <2>4. CASE /\ runtime = [NoState EXCEPT !.by = Earlier, !.status = "running"]
               /\ syncLock = [by |-> Earlier, written |-> TRUE]
               /\ stable = EarlierState.nodes
      BY <1>1, <1>2, <2>1, <2>4
    <2> QED
      BY <2>3, <2>4 DEF TopologyInit
  <1>4. TopologyTypeOK
    BY <1>3, StatesAreWellFormed
    DEF TopologyInit, TopologyTypeOK, RuntimeState, SyncState, SectionState, People
  <1>5. /\ CompletedAreWhole
        /\ runtime.status = "completed" => stable = runtime.nodes /\ runtime.completed = Regions
    <2>1. CASE runtime = EarlierState /\ stable = runtime.nodes
      BY <2>1 DEF EarlierState, CompletedAreWhole
    <2>2. CASE runtime = NoState
      BY <2>2 DEF NoState, CompletedAreWhole
    <2>3. CASE runtime = [NoState EXCEPT !.by = Earlier, !.status = "running"]
      BY <2>3 DEF NoState, CompletedAreWhole
    <2> QED
      BY <2>1, <2>2, <2>3 DEF TopologyInit
  <1>6. CompletedIsStable
    BY <1>5 DEF CompletedIsStable, Requested, AgreeIn, Node
  <1>7. NothingIsSkipped
    BY DEF TopologyInit, NothingIsSkipped, SyncAt, NewSync
  <1>8. SectionFits
    BY NamesAssumption DEF TopologyInit, SectionFits, NoSection
  <1> QED
    BY <1>4, <1>5, <1>6, <1>7, <1>8 DEF TopologyInv

\* A sync moves on.
LEMMA SyncGone ==
  ASSUME sync \in [Syncs -> SyncState], NEW s \in Syncs, NEW to \in SyncPcs, SyncGoes(s, to)
  PROVE  /\ sync' \in [Syncs -> SyncState]
         /\ sync'[s].at = to /\ sync'[s].left = sync[s].left
         /\ \A t \in Syncs \ {s} : sync'[t] = sync[t]
  BY DEF SyncGoes, SyncState

LEMMA SyncForgotten ==
  ASSUME sync \in [Syncs -> SyncState], NEW s \in Syncs, NEW to \in SyncPcs, SyncForgets(s, to)
  PROVE  /\ sync' \in [Syncs -> SyncState] /\ sync'[s].at = to
         /\ \A t \in Syncs \ {s} : sync'[t] = sync[t]
  <1>1. [NewSync EXCEPT !.at = to] \in SyncState /\ [NewSync EXCEPT !.at = to].at = to
    BY StatesAreWellFormed DEF SyncState, NewSync
  <1> QED
    BY <1>1 DEF SyncForgets

LEMMA SyncFields ==
  ASSUME sync \in [Syncs -> SyncState], NEW s \in Syncs
  PROVE  /\ sync[s].at \in SyncPcs /\ sync[s].read \in People
         /\ sync[s].left \subseteq Regions /\ sync[s].region \in Regions \cup {NoRegion}
         /\ sync[s] = [at |-> sync[s].at, read |-> sync[s].read, left |-> sync[s].left,
                       region |-> sync[s].region]
  <1>1. sync[s] \in SyncState
    OBVIOUS
  <1> DEFINE y == sync[s]
  <1> HIDE DEF y
  <1>2. ASSUME y \in SyncState
        PROVE  /\ y.at \in SyncPcs /\ y.read \in People
               /\ y.left \subseteq Regions /\ y.region \in Regions \cup {NoRegion}
               /\ y = [at |-> y.at, read |-> y.read, left |-> y.left, region |-> y.region]
    BY <1>2 DEF SyncState
  <1> QED
    BY <1>1, <1>2 DEF y

\* What is to be written fits while nobody writes, and when nothing is to be.
LEMMA SectionRests ==
  ASSUME SectionFits, UNCHANGED <<runtime, stable, section, fetch>>
  PROVE  SectionFits'
  BY DEF SectionFits

LEMMA SectionIsOver ==
  ASSUME section' = NoSection
  PROVE  SectionFits'
  BY NamesAssumption DEF SectionFits, NoSection

----------------------------------------------------------------------------
\* The steps that leave the state and the snapshot alone, and begin no collection.
LockStep(s) ==
    \/ TriesSyncLock(s) \/ RetriesSyncLock(s) \/ WritesSyncLock(s) \/ ReadsSyncLock(s)
    \/ WeighsSyncLock(s) \/ RemovesSyncLock(s) \/ WaiterReturns(s) \/ ReleasesSyncLock(s)
    \/ SyncKilled(s)

LEMMA LockStepShape ==
  ASSUME TopologyTypeOK, NEW s \in Syncs, LockStep(s)
  PROVE  /\ TopologyTypeOK' /\ UNCHANGED <<runtime, snapshotvars, fetch>>
         /\ \A t \in Syncs \ {s} : sync'[t] = sync[t]
         /\ sync'[s].at \notin {"choosing", "collecting"}
  <1>t. /\ syncLock \in [by : People, written : BOOLEAN]
        /\ runtime \in RuntimeState /\ stable \in Structures /\ sync \in [Syncs -> SyncState]
        /\ fetch \in [Fetchers -> Regions \cup {"new", "done"}] /\ refreshed \subseteq Targeted
        /\ section \in SectionState /\ behind \subseteq Regions
    BY TopologyParts
  <1>0. UNCHANGED <<runtime, snapshotvars, fetch, refreshed>>
    BY DEF LockStep, TriesSyncLock, RetriesSyncLock, WritesSyncLock, ReadsSyncLock,
       WeighsSyncLock, RemovesSyncLock, WaiterReturns, ReleasesSyncLock, SyncKilled,
       CreatesSyncLock
  <1>1. syncLock' \in [by : People, written : BOOLEAN]
    <2>1. \/ syncLock' \in {syncLock, NoSyncLock, [by |-> s, written |-> FALSE]}
          \/ syncLock' = [syncLock EXCEPT !.written = TRUE]
      BY DEF LockStep, TriesSyncLock, RetriesSyncLock, WritesSyncLock, ReadsSyncLock,
         WeighsSyncLock, RemovesSyncLock, WaiterReturns, ReleasesSyncLock, SyncKilled,
         CreatesSyncLock
    <2>2. /\ NoSyncLock \in [by : People, written : BOOLEAN]
          /\ [by |-> s, written |-> FALSE] \in [by : People, written : BOOLEAN]
          /\ [syncLock EXCEPT !.written = TRUE] \in [by : People, written : BOOLEAN]
      BY <1>t DEF NoSyncLock, People
    <2> QED
      BY <1>t, <2>1, <2>2
  <1>2. /\ sync' \in [Syncs -> SyncState] /\ \A t \in Syncs \ {s} : sync'[t] = sync[t]
        /\ sync'[s].at \notin {"choosing", "collecting"}
    <2>1. CASE \E to \in SyncPcs \ {"choosing", "collecting"} : SyncGoes(s, to)
      BY <1>t, <2>1, SyncGone
    <2>2. CASE \E to \in SyncPcs \ {"choosing", "collecting"} : SyncForgets(s, to)
      BY <1>t, <2>2, SyncForgotten
    <2>3. CASE \E q \in People :
                  sync' = [sync EXCEPT ![s].at = "weighing", ![s].read = q]
      <3>1. PICK q \in People : sync' = [sync EXCEPT ![s].at = "weighing", ![s].read = q]
        BY <2>3
      <3>2. "weighing" \in SyncPcs
        BY DEF SyncPcs
      <3> QED
        BY <1>t, <3>1, <3>2 DEF SyncState
    <2>4. CASE \E q \in People :
                  sync' = [sync EXCEPT ![s].at = "removing", ![s].read = q]
      <3>1. PICK q \in People : sync' = [sync EXCEPT ![s].at = "removing", ![s].read = q]
        BY <2>4
      <3>2. "removing" \in SyncPcs
        BY DEF SyncPcs
      <3> QED
        BY <1>t, <3>1, <3>2 DEF SyncState
    <2>5. syncLock.by \in People /\ Nobodys \in People /\ runtime.by \in People
             /\ sync[s].read \in People
      BY <1>t DEF RuntimeState, SyncState, People
    <2>6. CASE ReadsSyncLock(s)
      BY <2>1, <2>3, <2>5, <2>6 DEF ReadsSyncLock, SyncPcs
    <2>7. CASE WeighsSyncLock(s)
      BY <2>2, <2>4, <2>5, <2>7 DEF WeighsSyncLock, SyncPcs
    <2> QED
      BY <2>1, <2>2, <2>6, <2>7
      DEF LockStep, TriesSyncLock, RetriesSyncLock, WritesSyncLock, RemovesSyncLock,
          WaiterReturns, ReleasesSyncLock, SyncKilled, CreatesSyncLock, SyncPcs
  <1> QED
    BY <1>0, <1>1, <1>2, <1>t, TopologyWhole DEF snapshotvars

LEMMA LockStepKeeps ==
  ASSUME TopologyInv, NEW s \in Syncs, LockStep(s)
  PROVE  TopologyInv'
  <1>1. /\ TopologyTypeOK' /\ UNCHANGED <<runtime, snapshotvars, fetch>>
        /\ \A t \in Syncs \ {s} : sync'[t] = sync[t]
        /\ sync'[s].at \notin {"choosing", "collecting"}
    BY LockStepShape DEF TopologyInv
  <1>2. NothingIsSkipped'
    BY <1>1 DEF TopologyInv, NothingIsSkipped, SyncAt, Owns
  <1> QED
    BY <1>1, <1>2, SectionRests DEF TopologyInv, CompletedAreWhole, CompletedIsStable, snapshotvars

\* The sync that owns the state, and the one that takes it for stale.
LEMMA StatusFails ==
  ASSUME TopologyInv, NEW s \in Syncs, MarksRuntime(s) \/ FailsSync(s)
  PROVE  TopologyInv'
  <1>t. /\ syncLock \in [by : People, written : BOOLEAN]
        /\ runtime \in RuntimeState /\ stable \in Structures /\ sync \in [Syncs -> SyncState]
        /\ fetch \in [Fetchers -> Regions \cup {"new", "done"}] /\ refreshed \subseteq Targeted
        /\ section \in SectionState /\ behind \subseteq Regions
    BY TopologyParts DEF TopologyInv
  <1>0. UNCHANGED <<syncLock, stable, section, behind, fetch, refreshed>>
    BY DEF MarksRuntime, FailsSync, snapshotvars
  <1>1. /\ sync' \in [Syncs -> SyncState] /\ \A t \in Syncs \ {s} : sync'[t] = sync[t]
        /\ sync'[s].at \notin {"choosing", "collecting"}
    BY <1>t, SyncForgotten DEF MarksRuntime, FailsSync, SyncPcs
  <1>2. /\ runtime' \in RuntimeState
        /\ runtime'.by = runtime.by /\ runtime'.completed = runtime.completed
        /\ runtime'.nodes = runtime.nodes /\ runtime'.failures = runtime.failures
        /\ runtime'.status = "completed" => runtime.status = "completed"
    <2>1. CASE runtime' = runtime
      BY <1>t, <2>1
    <2>2. CASE runtime' = [runtime EXCEPT !.status = "failed"]
      BY <1>t, <2>2 DEF RuntimeState
    <2> QED
      BY <2>1, <2>2 DEF MarksRuntime, FailsSync
  <1>3. NothingIsSkipped'
    BY <1>1, <1>2 DEF TopologyInv, NothingIsSkipped, SyncAt, Owns
  <1>4. CompletedAreWhole' /\ CompletedIsStable'
    BY <1>0, <1>2 DEF TopologyInv, CompletedAreWhole, CompletedIsStable
  <1>5. SectionFits'
    <2>1. runtime' = runtime \/ section' = NoSection
      BY <1>0 DEF MarksRuntime, FailsSync, Unlocked
    <2> QED
      BY <1>0, <2>1, SectionRests, SectionIsOver DEF TopologyInv
  <1> QED
    BY <1>0, <1>1, <1>2, <1>3, <1>4, <1>5, <1>t, TopologyWhole DEF TopologyInv

LEMMA InitializingKeeps ==
  ASSUME TopologyInv, NEW s \in Syncs, InitializesRuntime(s)
  PROVE  TopologyInv'
  <1>t. /\ syncLock \in [by : People, written : BOOLEAN]
        /\ runtime \in RuntimeState /\ stable \in Structures /\ sync \in [Syncs -> SyncState]
        /\ fetch \in [Fetchers -> Regions \cup {"new", "done"}] /\ refreshed \subseteq Targeted
        /\ section \in SectionState /\ behind \subseteq Regions
    BY TopologyParts DEF TopologyInv
  <1>1. /\ runtime' \in RuntimeState /\ runtime'.by = s /\ runtime'.status = "running"
        /\ runtime'.completed = {} /\ UNCHANGED <<syncLock, snapshotvars, fetch, refreshed>>
    <2>1. runtime' = [NoState EXCEPT !.by = s, !.status = "running"]
      BY DEF InitializesRuntime
    <2>2. s \in People
      BY DEF People
    <2> QED
      BY <2>1, <2>2, StatesAreWellFormed DEF InitializesRuntime, RuntimeState, NoState
  <1>2. /\ sync' \in [Syncs -> SyncState] /\ \A t \in Syncs \ {s} : sync'[t] = sync[t]
        /\ sync'[s].left = Requested(s) /\ sync'[s].at = "choosing"
    <2>1. Requested(s) \subseteq Regions /\ Nobodys \in People
      BY DEF Requested, People
    <2>2. sync' = [sync EXCEPT ![s].at = "choosing", ![s].left = Requested(s),
                               ![s].read = Nobodys]
      BY DEF InitializesRuntime
    <2>3. "choosing" \in SyncPcs
      BY DEF SyncPcs
    <2> QED
      BY <1>t, <2>1, <2>2, <2>3 DEF SyncState
  <1>3. NothingIsSkipped'
    BY <1>1, <1>2 DEF TopologyInv, NothingIsSkipped, Owns, SyncAt
  <1>4. CompletedAreWhole' /\ CompletedIsStable'
    BY <1>1 DEF CompletedAreWhole, CompletedIsStable
  <1>5. SectionFits'
    BY <1>1, SectionIsOver DEF InitializesRuntime, Unlocked, snapshotvars
  <1> QED
    BY <1>1, <1>2, <1>3, <1>4, <1>5, <1>t, TopologyWhole DEF TopologyInv, snapshotvars

LEMMA ChoosingKeeps ==
  ASSUME TopologyInv, NEW s \in Syncs, NEW r \in Regions, SkipsRegion(s, r) \/ CollectsRegion(s, r)
  PROVE  TopologyInv'
  <1>t. /\ syncLock \in [by : People, written : BOOLEAN]
        /\ runtime \in RuntimeState /\ stable \in Structures /\ sync \in [Syncs -> SyncState]
        /\ fetch \in [Fetchers -> Regions \cup {"new", "done"}] /\ refreshed \subseteq Targeted
        /\ section \in SectionState /\ behind \subseteq Regions
    BY TopologyParts DEF TopologyInv
  <1>0. UNCHANGED <<syncLock, runtime, snapshotvars, fetch, refreshed>> /\ sync[s].at = "choosing"
    BY DEF SkipsRegion, CollectsRegion, SyncAt
  <1>1. /\ sync' \in [Syncs -> SyncState] /\ \A t \in Syncs \ {s} : sync'[t] = sync[t]
        /\ \/ sync'[s].left = sync[s].left
           \/ sync'[s].left = sync[s].left \ {r} /\ r \in runtime.completed
        /\ sync'[s].at = "collecting" => sync'[s].region \in Regions
    <2>0. sync[s].left \ {r} \subseteq Regions
      BY <1>t, SyncFields
    <2>1. CASE SkipsRegion(s, r)
      <3>1. sync' = [sync EXCEPT ![s].left = sync[s].left \ {r}] /\ r \in runtime.completed
        BY <2>1 DEF SkipsRegion
      <3> QED
        BY <1>t, <1>0, <2>0, <3>1 DEF SyncState
    <2>2. CASE CollectsRegion(s, r)
      <3>1. sync' = [sync EXCEPT ![s].at = "collecting", ![s].region = r]
        BY <2>2 DEF CollectsRegion
      <3>2. "collecting" \in SyncPcs
        BY DEF SyncPcs
      <3> QED
        BY <1>t, <3>1, <3>2 DEF SyncState
    <2> QED
      BY <2>1, <2>2
  <1>2. NothingIsSkipped'
    BY <1>0, <1>1 DEF TopologyInv, NothingIsSkipped, SyncAt, Owns
  <1> QED
    BY <1>0, <1>1, <1>2, <1>t, TopologyWhole, SectionRests
    DEF TopologyInv, CompletedAreWhole, CompletedIsStable, snapshotvars

\* A region is merged into a state.
LEMMA RegionMergedShape ==
  ASSUME NEW state \in RuntimeState, NEW r \in Regions, NEW node \in [Orgs -> Extents],
         \A q \in state.completed \ state.failures :
            q \in DOMAIN state.nodes /\ state.nodes[q] = Wholly
  PROVE  /\ RegionMerged(state, r, node) \in RuntimeState
         /\ RegionMerged(state, r, node).by = state.by
         /\ RegionMerged(state, r, node).status = state.status
         /\ RegionMerged(state, r, node).completed = state.completed \cup {r}
         /\ RegionMerged(state, r, node).nodes = WithRegion(state.nodes, r, node)
         /\ \A q \in RegionMerged(state, r, node).completed
                        \ RegionMerged(state, r, node).failures :
               /\ q \in DOMAIN RegionMerged(state, r, node).nodes
               /\ RegionMerged(state, r, node).nodes[q] = Wholly
  <1> DEFINE x == RegionMerged(state, r, node)
             n == WithRegion(state.nodes, r, node)
             f == IF node = Wholly THEN state.failures \ {r} ELSE state.failures \cup {r}
  <1>0. state.nodes \in Structures /\ state.failures \subseteq Regions /\ state.completed \subseteq Regions
    BY DEF RuntimeState
  <1>1. state.nodes \in Structures /\ f \subseteq Regions /\ state.completed \cup {r} \subseteq Regions
    BY <1>0
  <1>2. /\ n \in Structures /\ DOMAIN n = DOMAIN state.nodes \cup {r} /\ n[r] = node
        /\ \A q \in DOMAIN state.nodes \ {r} : n[q] = state.nodes[q]
    <2> DEFINE m == state.nodes
    <2>1. m \in Structures
      BY <1>0
    <2> HIDE DEF m, x, f
    <2>2. /\ WithRegion(m, r, node) \in Structures
          /\ DOMAIN WithRegion(m, r, node) = DOMAIN m \cup {r}
          /\ WithRegion(m, r, node)[r] = node
          /\ \A q \in DOMAIN m \ {r} : WithRegion(m, r, node)[q] = m[q]
      BY <2>1, WithRegionShape
    <2> QED
      BY <2>2 DEF m
  <1>3. x = [state EXCEPT !.completed = state.completed \cup {r}, !.nodes = n, !.failures = f]
    BY DEF RegionMerged
  <1>f. /\ r \notin f => node = Wholly
        /\ \A q \in Regions \ {r} : q \in f <=> q \in state.failures
    OBVIOUS
  <1> HIDE DEF x, n, f
  <1>4. /\ x \in RuntimeState /\ x.by = state.by /\ x.status = state.status
        /\ x.completed = state.completed \cup {r} /\ x.nodes = n /\ x.failures = f
    BY <1>1, <1>2, <1>3 DEF RuntimeState
  <1>5. ASSUME NEW q \in x.completed \ x.failures
        PROVE  q \in DOMAIN n /\ n[q] = Wholly
    <2>1. q \in Regions
      BY <1>1, <1>4
    <2> QED
      BY <1>2, <1>4, <1>5, <1>f, <2>1
  <1> QED
    BY <1>4, <1>5 DEF x, n

LEMMA MergingKeeps ==
  ASSUME TopologyInv, NEW s \in Syncs, MergesRegion(s)
  PROVE  TopologyInv'
  <1>t. /\ syncLock \in [by : People, written : BOOLEAN]
        /\ runtime \in RuntimeState /\ stable \in Structures /\ sync \in [Syncs -> SyncState]
        /\ fetch \in [Fetchers -> Regions \cup {"new", "done"}] /\ refreshed \subseteq Targeted
        /\ section \in SectionState /\ behind \subseteq Regions
    BY TopologyParts DEF TopologyInv
  <1>0. UNCHANGED <<syncLock, stable, section, behind, fetch, refreshed>> /\ sync[s].at = "collecting"
    BY DEF MergesRegion, SyncAt, snapshotvars
  <1>1. /\ sync' \in [Syncs -> SyncState] /\ \A t \in Syncs \ {s} : sync'[t] = sync[t]
        /\ sync'[s].left = sync[s].left \ {sync[s].region} /\ sync'[s].at = "choosing"
    <2>1. sync' = [sync EXCEPT ![s].at = "choosing", ![s].region = NoRegion,
                               ![s].left = sync[s].left \ {sync[s].region}]
      BY DEF MergesRegion
    <2>2. sync[s].left \ {sync[s].region} \subseteq Regions
      BY <1>t, SyncFields
    <2>3. "choosing" \in SyncPcs
      BY DEF SyncPcs
    <2> QED
      BY <1>t, <2>1, <2>2, <2>3 DEF SyncState
  <1>r. sync[s].region \in Regions
    BY <1>0 DEF TopologyInv, NothingIsSkipped
  <1>s. SectionFits'
    BY <1>0, SectionIsOver DEF MergesRegion, Unlocked
  <1>2. CASE ~Owns(s)
    <2>1. runtime' = runtime
      BY <1>2 DEF MergesRegion
    <2>2. NothingIsSkipped'
      BY <1>1, <1>2, <2>1 DEF TopologyInv, NothingIsSkipped, SyncAt, Owns
    <2> QED
      BY <1>0, <1>1, <1>s, <1>t, <2>1, <2>2, TopologyWhole
      DEF TopologyInv, CompletedAreWhole, CompletedIsStable
  <1>3. CASE Owns(s)
    <2>1. PICK node \in Collections : runtime' = RegionMerged(runtime, sync[s].region, node)
      BY <1>3 DEF MergesRegion
    <2>2. /\ runtime' \in RuntimeState
          /\ runtime'.by = runtime.by /\ runtime'.status = runtime.status
          /\ runtime'.completed = runtime.completed \cup {sync[s].region}
          /\ CompletedAreWhole'
      BY <1>t, <1>r, <2>1, RegionMergedShape, CollectionShape DEF TopologyInv, CompletedAreWhole
    <2>3. runtime.status # "completed" /\ Requested(s) \subseteq runtime.completed \cup sync[s].left
      BY <1>0, <1>3 DEF TopologyInv, NothingIsSkipped, SyncAt
    <2>4. NothingIsSkipped'
      <3>1. \A t \in Syncs \ {s} : runtime.by # t
        BY <1>3 DEF Owns
      <3> QED
        BY <1>1, <2>2, <2>3, <3>1 DEF TopologyInv, NothingIsSkipped, Owns, SyncAt
    <2>5. CompletedIsStable'
      BY <2>2, <2>3 DEF CompletedIsStable
    <2> QED
      BY <1>0, <1>1, <1>s, <1>t, <2>2, <2>4, <2>5, TopologyWhole DEF TopologyInv
  <1> QED
    BY <1>2, <1>3

\* A region that is put into a structure leaves the others as they are.
LEMMA NodesBeside ==
  ASSUME NEW nodes \in Structures, NEW q \in Regions, NEW node \in [Orgs -> Extents],
         NEW r \in Regions
  PROVE  Node(WithRegion(nodes, q, node), r) = IF r = q THEN node ELSE Node(nodes, r)
  <1> DEFINE w == WithRegion(nodes, q, node)
  <1>1. /\ DOMAIN w = DOMAIN nodes \cup {q} /\ w[q] = node
        /\ \A x \in DOMAIN nodes \ {q} : w[x] = nodes[x]
    BY WithRegionShape
  <1> HIDE DEF w
  <1>2. Node(w, r) = IF r = q THEN node ELSE Node(nodes, r)
    BY <1>1 DEF Node
  <1> QED
    BY <1>2 DEF w

LEMMA AgreeBeside ==
  ASSUME NEW one \in Structures, NEW other \in Structures, NEW r \in Regions, NEW q \in Regions,
         NEW node \in [Orgs -> Extents], NEW node2 \in [Orgs -> Extents]
  PROVE  /\ q # r /\ AgreeIn(q, one, other) =>
               /\ AgreeIn(q, one, WithRegion(other, r, node))
               /\ AgreeIn(q, WithRegion(one, r, node2), WithRegion(other, r, node))
         /\ q = r /\ node = node2 =>
               AgreeIn(q, WithRegion(one, r, node2), WithRegion(other, r, node))
  <1> DEFINE x == WithRegion(one, r, node2)
             y == WithRegion(other, r, node)
  <1>a. DOMAIN x = DOMAIN one \cup {r} /\ DOMAIN y = DOMAIN other \cup {r}
    BY WithRegionShape
  <1>b. Node(x, q) = IF q = r THEN node2 ELSE Node(one, q)
    BY NodesBeside
  <1>c. Node(y, q) = IF q = r THEN node ELSE Node(other, q)
    BY NodesBeside
  <1> HIDE DEF x, y
  <1>2. /\ q # r /\ AgreeIn(q, one, other) => AgreeIn(q, one, y) /\ AgreeIn(q, x, y)
        /\ q = r /\ node = node2 => AgreeIn(q, x, y)
    BY <1>a, <1>b, <1>c DEF AgreeIn
  <1> QED
    BY <1>2 DEF x, y

\* A refresh may leave an org in part, it does not forget one.
LEMMA PartForgetsNothing ==
  ASSUME NEW node \in [Orgs -> Extents], NEW what \in Kinds, NEW o \in Orgs, NEW x \in Orgs,
         node[x] # "missing"
  PROVE  Part(node, what, o)[x] # "missing"
  <1>1. CASE what = "space"
    BY <1>1 DEF Part
  <1>2. CASE what \in {"spaceFails", "orgFails"}
    BY <1>2 DEF Part
  <1>3. CASE what = "org"
    BY <1>3 DEF Part
  <1>4. CASE what = "orgs"
    BY <1>4 DEF Part
  <1> QED
    BY <1>1, <1>2, <1>3, <1>4 DEF Kinds

LEMMA CompletionKeeps ==
  ASSUME TopologyInv, NEW s \in Syncs, CompletesSync(s)
  PROVE  TopologyInv'
  <1>t. /\ syncLock \in [by : People, written : BOOLEAN]
        /\ runtime \in RuntimeState /\ stable \in Structures /\ sync \in [Syncs -> SyncState]
        /\ fetch \in [Fetchers -> Regions \cup {"new", "done"}] /\ refreshed \subseteq Targeted
        /\ section \in SectionState /\ behind \subseteq Regions
    BY TopologyParts DEF TopologyInv
  <1> DEFINE final == IF s \in Partial THEN LaidOver(runtime.nodes, stable) ELSE runtime.nodes
             laid == IF s \in Partial THEN DOMAIN runtime.nodes ELSE Regions
  <1>0. /\ UNCHANGED <<syncLock, stable, fetch, refreshed>>
        /\ sync[s].at = "choosing" /\ sync[s].left = {} /\ Owns(s)
        /\ runtime' = [runtime EXCEPT !.status = "completed", !.nodes = final]
        /\ behind' = laid /\ section' = [by |-> s, nodes |-> final, behind |-> {}]
    BY DEF CompletesSync, SyncAt, WroteRuntime
  <1>1. /\ sync' \in [Syncs -> SyncState] /\ \A t \in Syncs \ {s} : sync'[t] = sync[t]
        /\ sync'[s].at = "publishing"
    BY <1>t, SyncGone DEF CompletesSync, SyncPcs
  <1>2. /\ final \in Structures /\ laid \subseteq Regions
        /\ \A r \in DOMAIN runtime.nodes : r \in DOMAIN final /\ final[r] = runtime.nodes[r]
        /\ \A r \in Regions \ laid : AgreeIn(r, stable, final)
    <2>1. runtime.nodes \in Structures
      BY <1>t DEF RuntimeState
    <2>2. DOMAIN runtime.nodes \subseteq Regions
      BY <2>1, StructureShape
    <2>3. ASSUME NEW r \in Regions \ laid PROVE AgreeIn(r, stable, final)
      BY <2>3 DEF AgreeIn, Node, LaidOver
    <2> QED
      BY <1>t, <2>1, <2>2, <2>3, LaidOverShape
  <1> HIDE DEF final, laid
  <1>3. /\ runtime' \in RuntimeState /\ runtime'.by = runtime.by /\ runtime'.nodes = final
        /\ runtime'.completed = runtime.completed /\ runtime'.failures = runtime.failures
        /\ runtime'.status = "completed"
    BY <1>0, <1>2, <1>t DEF RuntimeState
  <1>4. CompletedAreWhole'
    BY <1>2, <1>3 DEF TopologyInv, CompletedAreWhole
  <1>5. Requested(s) \subseteq runtime.completed
    BY <1>0 DEF TopologyInv, NothingIsSkipped, SyncAt
  <1>6. CompletedIsStable'
    BY <1>0, <1>2, <1>3, <1>5 DEF CompletedIsStable, Owns
  <1>7. NothingIsSkipped'
    BY <1>0, <1>1, <1>3 DEF TopologyInv, NothingIsSkipped, Owns, SyncAt
  <1>8. section' \in SectionState
    BY <1>0, <1>2 DEF SectionState
  <1>9. SectionFits'
    <2>1. section'.by = s /\ section'.nodes = final
      BY <1>0
    <2>2. \A r \in Regions : AgreeIn(r, section'.nodes, runtime'.nodes)
      BY <1>3, <2>1 DEF AgreeIn
    <2>3. s \notin Fetchers /\ s \notin Targeted
      BY NamesAssumption
    <2> QED
      BY <1>0, <1>3, <2>1, <2>2, <2>3 DEF SectionFits, Owns
  <1> QED
    BY <1>0, <1>1, <1>2, <1>3, <1>4, <1>6, <1>7, <1>8, <1>9, <1>t, TopologyWhole DEF TopologyInv

\* The snapshot is written after the runtime state, or it is not.
LEMMA SnapshotWritten ==
  ASSUME TopologyInv, NEW c, WritesSnapshot(c), c # Nobodys, UNCHANGED runtime
  PROVE  /\ stable' \in Structures /\ section' \in SectionState /\ behind' \subseteq Regions
         /\ CompletedAreWhole' /\ CompletedIsStable' /\ SectionFits'
  <1>1. section \in SectionState
    BY TopologyParts DEF TopologyInv
  <1>2. section # NoSection
    BY DEF WritesSnapshot, NoSection
  <1>3. /\ stable' = section.nodes /\ behind' = section.behind /\ section' = NoSection
    BY DEF WritesSnapshot
  <1>4. stable' \in Structures /\ section' \in SectionState /\ behind' \subseteq Regions
    BY <1>1, <1>3, StatesAreWellFormed DEF SectionState
  <1>5. CompletedAreWhole'
    BY DEF TopologyInv, CompletedAreWhole
  <1>6. CompletedIsStable'
    BY <1>2, <1>3 DEF TopologyInv, CompletedIsStable, SectionFits
  <1> QED
    BY <1>3, <1>4, <1>5, <1>6, SectionIsOver

LEMMA SnapshotThrown ==
  ASSUME TopologyInv, NEW c, Throws(c), UNCHANGED <<runtime, stable, behind>>
  PROVE  /\ stable' \in Structures /\ section' \in SectionState /\ behind' \subseteq Regions
         /\ CompletedAreWhole' /\ CompletedIsStable' /\ SectionFits'
  <1>1. stable \in Structures /\ behind \subseteq Regions
    BY TopologyParts DEF TopologyInv
  <1>2. section' = NoSection
    BY DEF Throws
  <1>3. CompletedAreWhole' /\ CompletedIsStable'
    BY DEF TopologyInv, CompletedAreWhole, CompletedIsStable
  <1> QED
    BY <1>1, <1>2, <1>3, StatesAreWellFormed, SectionIsOver

LEMMA PublishingKeeps ==
  ASSUME TopologyInv,
         \/ \E s \in Syncs : PublishesSync(s) \/ SnapshotFails(s)
         \/ \E f \in Fetchers : PublishesRegion(f) \/ FetchFails(f)
         \/ \E p \in Targeted : PublishesRefresh(p) \/ RefreshFails(p)
  PROVE  TopologyInv'
  <1>t. /\ syncLock \in [by : People, written : BOOLEAN]
        /\ runtime \in RuntimeState /\ stable \in Structures /\ sync \in [Syncs -> SyncState]
        /\ fetch \in [Fetchers -> Regions \cup {"new", "done"}] /\ refreshed \subseteq Targeted
        /\ section \in SectionState /\ behind \subseteq Regions
    BY TopologyParts DEF TopologyInv
  <1>1. PICK c \in Syncs \cup Fetchers \cup Targeted :
          /\ UNCHANGED <<syncLock, runtime>>
          /\ \/ WritesSnapshot(c)
             \/ Throws(c) /\ UNCHANGED <<stable, behind>>
    <2>1. ASSUME NEW s \in Syncs, PublishesSync(s) \/ SnapshotFails(s)
          PROVE  /\ UNCHANGED <<syncLock, runtime>>
                 /\ \/ WritesSnapshot(s)
                    \/ Throws(s) /\ UNCHANGED <<stable, behind>>
      BY <2>1 DEF PublishesSync, SnapshotFails
    <2>2. ASSUME NEW f \in Fetchers, PublishesRegion(f) \/ FetchFails(f)
          PROVE  /\ UNCHANGED <<syncLock, runtime>>
                 /\ \/ WritesSnapshot(f)
                    \/ Throws(f) /\ UNCHANGED <<stable, behind>>
      BY <2>2 DEF PublishesRegion, FetchFails
    <2>3. ASSUME NEW p \in Targeted, PublishesRefresh(p) \/ RefreshFails(p)
          PROVE  /\ UNCHANGED <<syncLock, runtime>>
                 /\ \/ WritesSnapshot(p)
                    \/ Throws(p) /\ UNCHANGED <<stable, behind>>
      BY <2>3 DEF PublishesRefresh, RefreshFails
    <2> QED
      BY <2>1, <2>2, <2>3
  <1>2. /\ stable' \in Structures /\ section' \in SectionState /\ behind' \subseteq Regions
        /\ CompletedAreWhole' /\ CompletedIsStable' /\ SectionFits'
    BY <1>1, SnapshotWritten, SnapshotThrown, NamesAssumption
  <1>3. /\ sync' \in [Syncs -> SyncState] /\ NothingIsSkipped'
        /\ fetch' \in [Fetchers -> Regions \cup {"new", "done"}] /\ refreshed' \subseteq Targeted
    <2>1. ASSUME NEW s \in Syncs, PublishesSync(s) \/ SnapshotFails(s)
          PROVE  /\ sync' \in [Syncs -> SyncState] /\ NothingIsSkipped'
                 /\ UNCHANGED <<fetch, refreshed>>
      <3>1. /\ sync' \in [Syncs -> SyncState] /\ \A t \in Syncs \ {s} : sync'[t] = sync[t]
            /\ sync'[s].at \in {"completed", "failing"}
        BY <1>t, <2>1, SyncGone DEF PublishesSync, SnapshotFails, SyncPcs
      <3>2. NothingIsSkipped'
        BY <1>1, <3>1 DEF TopologyInv, NothingIsSkipped, SyncAt, Owns
      <3> QED
        BY <2>1, <3>1, <3>2 DEF PublishesSync, SnapshotFails
    <2>2. ASSUME NEW f \in Fetchers, PublishesRegion(f) \/ FetchFails(f)
          PROVE  /\ UNCHANGED <<sync, refreshed>>
                 /\ fetch' \in [Fetchers -> Regions \cup {"new", "done"}]
      BY <1>t, <2>2 DEF PublishesRegion, FetchFails
    <2>3. ASSUME NEW p \in Targeted, PublishesRefresh(p) \/ RefreshFails(p)
          PROVE  UNCHANGED <<sync, fetch>> /\ refreshed' \subseteq Targeted
      BY <1>t, <2>3 DEF PublishesRefresh, RefreshFails
    <2>4. UNCHANGED sync => NothingIsSkipped'
      BY <1>1 DEF TopologyInv, NothingIsSkipped, SyncAt, Owns
    <2> QED
      BY <1>t, <2>1, <2>2, <2>3, <2>4
  <1> QED
    BY <1>1, <1>2, <1>3, <1>t, TopologyWhole DEF TopologyInv

\* The commands that do not sync.
LEMMA FetchBegins ==
  ASSUME TopologyInv, NEW f \in Fetchers, NEW r \in Regions, FetchesRegion(f, r)
  PROVE  TopologyInv'
  <1>t. /\ syncLock \in [by : People, written : BOOLEAN]
        /\ runtime \in RuntimeState /\ stable \in Structures /\ sync \in [Syncs -> SyncState]
        /\ fetch \in [Fetchers -> Regions \cup {"new", "done"}] /\ refreshed \subseteq Targeted
        /\ section \in SectionState /\ behind \subseteq Regions
    BY TopologyParts DEF TopologyInv
  <1>1. /\ UNCHANGED <<syncLock, runtime, stable, section, behind, sync, refreshed>>
        /\ fetch[f] = "new" /\ fetch' = [fetch EXCEPT ![f] = r]
    BY DEF FetchesRegion, snapshotvars
  <1>2. NothingIsSkipped' /\ CompletedAreWhole' /\ CompletedIsStable'
    BY <1>1 DEF TopologyInv, CompletedAreWhole, CompletedIsStable, NothingIsSkipped, SyncAt, Owns
  <1>3. SectionFits'
    <2>1. section.by \in Fetchers => section.by # f
      BY <1>1, NamesAssumption DEF TopologyInv, SectionFits
    <2>2. section.by \in Fetchers => fetch'[section.by] = fetch[section.by]
      BY <1>t, <1>1, <2>1
    <2> QED
      BY <1>1, <2>2 DEF TopologyInv, SectionFits
  <1>4. fetch' \in [Fetchers -> Regions \cup {"new", "done"}]
    BY <1>t, <1>1
  <1> QED
    BY <1>t, <1>1, <1>2, <1>3, <1>4, TopologyWhole DEF TopologyInv

LEMMA FetchKeeps ==
  ASSUME TopologyInv, NEW f \in Fetchers, PersistsRegion(f)
  PROVE  TopologyInv'
  <1>t. /\ syncLock \in [by : People, written : BOOLEAN]
        /\ runtime \in RuntimeState /\ stable \in Structures /\ sync \in [Syncs -> SyncState]
        /\ fetch \in [Fetchers -> Regions \cup {"new", "done"}] /\ refreshed \subseteq Targeted
        /\ section \in SectionState /\ behind \subseteq Regions
    BY TopologyParts DEF TopologyInv
  <1> DEFINE r == fetch[f]
  <1>0. UNCHANGED <<syncLock, stable, sync, refreshed>> /\ r \in Regions /\ section = NoSection
    BY DEF PersistsRegion, Unlocked
  <1>1. PICK node \in Collections :
          /\ runtime' = IF runtime = NoState THEN runtime ELSE RegionMerged(runtime, r, node)
          /\ IF runtime.status = "running"
             THEN UNCHANGED <<section, behind>> /\ fetch' = [fetch EXCEPT ![f] = "done"]
             ELSE /\ WroteRuntime(f, WithRegion(stable, r, node), behind \cup {r}, behind \ {r})
                  /\ UNCHANGED fetch
    BY DEF PersistsRegion
  <1> DEFINE n == WithRegion(stable, r, node)
  <1>2. /\ node \in [Orgs -> Extents] /\ n \in Structures
        /\ \A q \in Regions \ {r} : Node(n, q) = Node(stable, q)
    <2>1. node \in [Orgs -> Extents]
      BY CollectionShape
    <2> HIDE DEF r
    <2>2. n \in Structures
      BY <1>0, <1>t, <2>1, WithRegionShape
    <2>3. \A q \in Regions \ {r} : Node(n, q) = Node(stable, q)
      BY <1>0, <1>t, <2>1, NodesBeside
    <2> QED
      BY <2>1, <2>2, <2>3
  <1>3. /\ runtime' \in RuntimeState
        /\ runtime'.by = runtime.by /\ runtime'.status = runtime.status
        /\ runtime.completed \subseteq runtime'.completed
        /\ CompletedAreWhole'
        /\ runtime # NoState => runtime'.nodes = WithRegion(runtime.nodes, r, node)
    <2> HIDE DEF r
    <2> QED
      BY <1>t, <1>0, <1>1, <1>2, RegionMergedShape DEF TopologyInv, CompletedAreWhole
  <1>4. NothingIsSkipped'
    BY <1>0, <1>3 DEF TopologyInv, NothingIsSkipped, SyncAt, Owns
  <1>5. fetch' \in [Fetchers -> Regions \cup {"new", "done"}]
    BY <1>t, <1>1
  <1>6. CASE runtime.status = "running"
    <2>1. UNCHANGED <<section, behind>> /\ runtime'.status # "completed"
      BY <1>1, <1>3, <1>6
    <2>2. CompletedIsStable' /\ SectionFits'
      BY <1>0, <2>1, SectionIsOver DEF CompletedIsStable
    <2> QED
      BY <1>0, <1>3, <1>4, <1>5, <1>t, <2>1, <2>2, TopologyWhole DEF TopologyInv
  <1>7. CASE runtime.status # "running"
    <2>1. /\ section' = [by |-> f, nodes |-> n, behind |-> behind \ {r}]
          /\ behind' = behind \cup {r} /\ fetch' = fetch
      BY <1>1, <1>7 DEF WroteRuntime
    <2> HIDE DEF n
    <2>2. section' \in SectionState /\ behind' \subseteq Regions
      <3>1. behind \ {r} \subseteq Regions
        BY <1>t
      <3> QED
        BY <1>t, <1>0, <1>2, <2>1, <3>1 DEF SectionState
    <2>3. ASSUME runtime'.status = "completed"
          PROVE  /\ \A q \in Regions \ behind' : AgreeIn(q, stable', runtime'.nodes)
                 /\ \A q \in Regions \ (behind \ {r}) : AgreeIn(q, n, runtime'.nodes)
                 /\ Requested(runtime'.by) \subseteq runtime'.completed
      <3>1. runtime # NoState /\ runtime.status = "completed"
        <4>1. NoState.status # "completed"
          BY DEF NoState
        <4> QED
          BY <1>3, <2>3, <4>1
      <3>2. runtime.nodes \in Structures
        BY <1>t DEF RuntimeState
      <3>3. \A q \in Regions \ behind : AgreeIn(q, stable, runtime.nodes)
        BY <3>1 DEF TopologyInv, CompletedIsStable
      <3>4. Requested(runtime.by) \subseteq runtime.completed
        BY <3>1 DEF TopologyInv, CompletedIsStable
      <3>5. runtime'.nodes = WithRegion(runtime.nodes, r, node)
        BY <1>3, <3>1
      <3>6. \A q \in Regions \ behind' : AgreeIn(q, stable', runtime'.nodes)
        BY <1>t, <1>0, <1>2, <2>1, <3>2, <3>3, <3>5, AgreeBeside
      <3>7. \A q \in Regions \ (behind \ {r}) : AgreeIn(q, n, runtime'.nodes)
        BY <1>t, <1>0, <1>2, <3>2, <3>3, <3>5, AgreeBeside DEF n
      <3> QED
        BY <1>3, <3>4, <3>6, <3>7
    <2>4. CompletedIsStable'
      BY <2>3 DEF CompletedIsStable
    <2>5. SectionFits'
      <3>1. section'.by = f /\ section'.nodes = n /\ section'.behind = behind \ {r}
        BY <2>1
      <3>2. f \notin Syncs /\ f \notin Targeted
        BY NamesAssumption
      <3> QED
        BY <1>0, <1>2, <2>1, <2>3, <3>1, <3>2 DEF SectionFits
    <2> QED
      BY <1>0, <1>3, <1>4, <1>5, <1>t, <2>2, <2>4, <2>5, TopologyWhole DEF TopologyInv
  <1> QED
    BY <1>6, <1>7

LEMMA RefreshKeeps ==
  ASSUME TopologyInv, NEW p \in Targeted, NEW what \in Kinds, NEW r \in Regions, NEW o \in Orgs,
         Refreshes(p, what, r, o)
  PROVE  TopologyInv'
  <1>t. /\ syncLock \in [by : People, written : BOOLEAN]
        /\ runtime \in RuntimeState /\ stable \in Structures /\ sync \in [Syncs -> SyncState]
        /\ fetch \in [Fetchers -> Regions \cup {"new", "done"}] /\ refreshed \subseteq Targeted
        /\ section \in SectionState /\ behind \subseteq Regions
    BY TopologyParts DEF TopologyInv
  <1>0. /\ UNCHANGED <<syncLock, stable, sync, fetch>> /\ refreshed' \subseteq Targeted
        /\ section = NoSection
    BY <1>t DEF Refreshes, Unlocked
  <1> DEFINE m == Part(Node(runtime.nodes, r), what, o)
             k == Part(Node(stable, r), what, o)
             lost == IF what \in {"spaceFails", "orgFails"} THEN {r} ELSE {}
             n == WithRegion(runtime.nodes, r, m)
             w == WithRegion(stable, r, k)
  <1>1. /\ runtime' = IF runtime = NoState THEN runtime
                      ELSE [runtime EXCEPT !.nodes = n, !.failures = @ \cup lost]
        /\ IF runtime.status = "running" THEN UNCHANGED <<section, behind>>
           ELSE /\ section' = [by |-> p, nodes |-> w, behind |-> behind]
                /\ behind' = behind \cup {r}
    BY DEF Refreshes, PartMerged, WroteRuntime
  <1>2. runtime.nodes \in Structures
    BY <1>t DEF RuntimeState
  <1>3. /\ m \in [Orgs -> Extents] /\ k \in [Orgs -> Extents]
        /\ r \in DOMAIN runtime.nodes /\ runtime.nodes[r] = Wholly /\ lost = {} => m = Wholly
        /\ lost \subseteq Regions /\ (r \notin lost => lost = {})
    BY <1>t, <1>2, NodeShape, PartShape DEF Node
  <1>4. AgreeIn(r, stable, runtime.nodes) => m = k
    BY DEF AgreeIn
  <1>5. /\ n \in Structures /\ DOMAIN n = DOMAIN runtime.nodes \cup {r} /\ n[r] = m
        /\ \A q \in DOMAIN runtime.nodes \ {r} : n[q] = runtime.nodes[q]
    <2> HIDE DEF m
    <2> QED
      BY <1>2, <1>3, WithRegionShape
  <1>6. w \in Structures
    <2> HIDE DEF k
    <2> QED
      BY <1>t, <1>3, WithRegionShape
  <1>7. \A q \in Regions : AgreeIn(q, stable, runtime.nodes) =>
           AgreeIn(q, w, n) /\ (q # r => AgreeIn(q, stable, n))
    <2> HIDE DEF m, k
    <2> QED
      BY <1>t, <1>2, <1>3, <1>4, AgreeBeside
  <1>o. ASSUME NEW q \in Regions, NEW x \in Orgs, Node(stable, q)[x] # "missing"
        PROVE  Node(w, q)[x] # "missing"
    <2>1. Node(w, q) = IF q = r THEN k ELSE Node(stable, q)
      <3> HIDE DEF k
      <3> QED
        BY <1>t, <1>3, NodesBeside
    <2>2. q = r => k[x] # "missing"
      BY <1>o, <1>t, NodeShape, PartForgetsNothing
    <2> QED
      BY <1>o, <2>1, <2>2
  <1> HIDE DEF m, k, lost, n, w
  <1>8. /\ runtime' \in RuntimeState
        /\ runtime'.by = runtime.by /\ runtime'.status = runtime.status
        /\ runtime'.completed = runtime.completed
        /\ \/ runtime = NoState /\ runtime' = runtime
           \/ runtime'.nodes = n /\ runtime'.failures = runtime.failures \cup lost
    BY <1>t, <1>1, <1>3, <1>5 DEF RuntimeState
  <1>9. CompletedAreWhole'
    <2>1. CASE runtime' = runtime
      BY <2>1 DEF TopologyInv, CompletedAreWhole
    <2>2. CASE runtime'.nodes = n /\ runtime'.failures = runtime.failures \cup lost
      BY <1>3, <1>5, <1>8, <2>2 DEF TopologyInv, CompletedAreWhole
    <2> QED
      BY <1>8, <2>1, <2>2
  <1>10. NothingIsSkipped'
    BY <1>0, <1>8 DEF TopologyInv, NothingIsSkipped, SyncAt, Owns
  <1>11. CASE runtime.status = "running"
    <2>1. UNCHANGED <<section, behind>> /\ runtime'.status # "completed"
      BY <1>1, <1>8, <1>11
    <2>2. CompletedIsStable' /\ SectionFits'
      BY <1>0, <2>1, SectionIsOver DEF CompletedIsStable
    <2> QED
      BY <1>0, <1>t, <1>8, <1>9, <1>10, <2>1, <2>2, TopologyWhole DEF TopologyInv
  <1>12. CASE runtime.status # "running"
    <2>1. /\ section' = [by |-> p, nodes |-> w, behind |-> behind] /\ behind' = behind \cup {r}
      BY <1>1, <1>12
    <2>2. section' \in SectionState /\ behind' \subseteq Regions
      BY <1>t, <1>6, <2>1 DEF SectionState
    <2>3. ASSUME runtime'.status = "completed"
          PROVE  /\ \A q \in Regions \ behind' : AgreeIn(q, stable', runtime'.nodes)
                 /\ \A q \in Regions \ behind : AgreeIn(q, w, runtime'.nodes)
                 /\ Requested(runtime'.by) \subseteq runtime'.completed
      <3>1. runtime # NoState /\ runtime.status = "completed"
        <4>1. NoState.status # "completed"
          BY DEF NoState
        <4> QED
          BY <1>8, <2>3, <4>1
      <3>2. /\ \A q \in Regions \ behind : AgreeIn(q, stable, runtime.nodes)
            /\ Requested(runtime.by) \subseteq runtime.completed
        BY <3>1 DEF TopologyInv, CompletedIsStable
      <3>3. runtime'.nodes = n
        BY <1>8, <3>1
      <3> QED
        BY <1>0, <1>7, <1>8, <2>1, <3>2, <3>3
    <2>4. CompletedIsStable'
      BY <2>3 DEF CompletedIsStable
    <2>5. SectionFits'
      <3>1. section'.by = p /\ section'.nodes = w /\ section'.behind = behind
        BY <2>1
      <3>2. p \notin Syncs /\ p \notin Fetchers
        BY NamesAssumption
      <3> QED
        BY <1>0, <1>o, <2>3, <3>1, <3>2 DEF SectionFits
    <2> QED
      BY <1>0, <1>t, <1>8, <1>9, <1>10, <2>2, <2>4, <2>5, TopologyWhole DEF TopologyInv
  <1> QED
    BY <1>11, <1>12

LEMMA TopologySteps == TopologyInv /\ [TopologyNext]_topologyvars => TopologyInv'
  <1> SUFFICES ASSUME TopologyInv, [TopologyNext]_topologyvars PROVE TopologyInv'
    OBVIOUS
  <1>1. ASSUME NEW s \in Syncs, LockStep(s) PROVE TopologyInv'
    BY <1>1, LockStepKeeps
  <1>2. ASSUME NEW s \in Syncs, MarksRuntime(s) \/ FailsSync(s) PROVE TopologyInv'
    BY <1>2, StatusFails
  <1>3. ASSUME NEW s \in Syncs, InitializesRuntime(s) PROVE TopologyInv'
    BY <1>3, InitializingKeeps
  <1>4. ASSUME NEW s \in Syncs, NEW r \in Regions, SkipsRegion(s, r) \/ CollectsRegion(s, r)
        PROVE  TopologyInv'
    BY <1>4, ChoosingKeeps
  <1>5. ASSUME NEW s \in Syncs, MergesRegion(s) \/ CompletesSync(s) PROVE TopologyInv'
    BY <1>5, MergingKeeps, CompletionKeeps
  <1>6. ASSUME NEW f \in Fetchers, PersistsRegion(f) \/ \E r \in Regions : FetchesRegion(f, r)
        PROVE  TopologyInv'
    BY <1>6, FetchKeeps, FetchBegins
  <1>7. ASSUME NEW p \in Targeted, NEW what \in Kinds, NEW r \in Regions, NEW o \in Orgs,
               Refreshes(p, what, r, o)
        PROVE  TopologyInv'
    BY <1>7, RefreshKeeps
  <1>8. ASSUME \/ \E s \in Syncs : PublishesSync(s) \/ SnapshotFails(s)
               \/ \E f \in Fetchers : PublishesRegion(f) \/ FetchFails(f)
               \/ \E p \in Targeted : PublishesRefresh(p) \/ RefreshFails(p)
        PROVE  TopologyInv'
    BY <1>8, PublishingKeeps
  <1>9. CASE UNCHANGED topologyvars
    BY <1>9, SectionRests
    DEF topologyvars, snapshotvars, TopologyInv, TopologyTypeOK, CompletedAreWhole,
        NothingIsSkipped, CompletedIsStable, SyncAt, Owns
  <1> QED
    BY <1>1, <1>2, <1>3, <1>4, <1>5, <1>6, <1>7, <1>8, <1>9 DEF TopologyNext, LockStep

\* A sync that completes has every org of every region it was asked for, except where a
\* collection failed, and the snapshot agrees with what it reports in every region but those
\* of a section that was killed or failed, or is still, between its two files (structure.ts:315
\* and 317, 268 and 272): for any number of regions, orgs, syncs and other commands that go on
\* meanwhile.
THEOREM CompletedSyncsAreWhole == TopologySpec => [](TopologyTypeOK /\ CompletedSyncIsWhole)
  <1>1. TopologyInv => CompletedSyncIsWhole
    BY DEF TopologyInv, CompletedIsStable, CompletedAreWhole, CompletedSyncIsWhole
  <1> QED
    BY <1>1, TopologyBegins, TopologySteps, PTL DEF TopologySpec, TopologyInv

LEMMA StepsKeepOrgs ==
  TopologyInv /\ TopologyInv' /\ [TopologyNext]_topologyvars => [KeepsKnownOrgs]_topologyvars
  <1> SUFFICES ASSUME TopologyInv, TopologyInv', TopologyNext,
                      NEW r \in Regions, NEW o \in Orgs,
                      Node(stable, r)[o] # "missing", Node(stable', r)[o] = "missing"
               PROVE  \/ \E f \in Fetchers : fetch[f] = r /\ fetch'[f] = "done"
                      \/ \E s \in Syncs : /\ sync[s].at = "publishing" /\ sync'[s].at = "completed"
                                          /\ r \in Requested(s) => r \in runtime.failures
    BY DEF KeepsKnownOrgs
  <1>1. stable' # stable
    OBVIOUS
  <1>2. /\ sync \in [Syncs -> SyncState] /\ fetch \in [Fetchers -> Regions \cup {"new", "done"}]
        /\ SectionFits
    BY TopologyParts DEF TopologyInv
  <1>3. ASSUME NEW s \in Syncs, PublishesSync(s)
        PROVE  /\ sync[s].at = "publishing" /\ sync'[s].at = "completed"
               /\ r \in Requested(s) => r \in runtime.failures
    <2>1. sync[s].at = "publishing" /\ sync'[s].at = "completed"
      BY <1>2, <1>3, SyncGone DEF PublishesSync, SyncAt, SyncPcs
    <2>2. section.by = s /\ stable' = section.nodes
      BY <1>3 DEF PublishesSync, WritesSnapshot
    <2>3. runtime.by = s /\ runtime.status = "completed" /\ section.nodes = runtime.nodes
      BY <1>2, <2>2 DEF SectionFits
    <2>4. r \in Requested(s) \ runtime.failures => r \in DOMAIN stable' /\ stable'[r] = Wholly
      BY <2>2, <2>3 DEF TopologyInv, CompletedIsStable, CompletedAreWhole
    <2>5. ~(r \in DOMAIN stable' /\ stable'[r] = Wholly)
      BY DEF Node, Wholly
    <2> QED
      BY <2>1, <2>4, <2>5
  <1>4. ASSUME NEW f \in Fetchers, PublishesRegion(f)
        PROVE  fetch[f] = r /\ fetch'[f] = "done"
    <2>1. section.by = f /\ stable' = section.nodes /\ fetch' = [fetch EXCEPT ![f] = "done"]
      BY <1>4 DEF PublishesRegion, WritesSnapshot
    <2>2. \A q \in Regions \ {fetch[f]} : Node(stable', q) = Node(stable, q)
      BY <1>2, <2>1 DEF SectionFits
    <2> QED
      BY <1>2, <2>1, <2>2
  <1>5. ASSUME NEW p \in Targeted, PublishesRefresh(p)
        PROVE  FALSE
    BY <1>2, <1>5 DEF PublishesRefresh, WritesSnapshot, SectionFits
  <1>6. ASSUME NEW s \in Syncs,
               \/ LockStep(s) \/ MarksRuntime(s) \/ InitializesRuntime(s) \/ FailsSync(s)
               \/ MergesRegion(s) \/ CompletesSync(s) \/ SnapshotFails(s)
               \/ \E q \in Regions : SkipsRegion(s, q) \/ CollectsRegion(s, q)
        PROVE  FALSE
    <2>1. CASE LockStep(s)
      BY <1>1, <2>1, LockStepShape DEF TopologyInv, snapshotvars
    <2>2. CASE ~LockStep(s)
      BY <1>1, <1>6, <2>2
      DEF MarksRuntime, InitializesRuntime, FailsSync, MergesRegion, CompletesSync,
          SnapshotFails, SkipsRegion, CollectsRegion, snapshotvars
    <2> QED
      BY <2>1, <2>2
  <1>7. ASSUME NEW f \in Fetchers,
               PersistsRegion(f) \/ FetchFails(f) \/ \E q \in Regions : FetchesRegion(f, q)
        PROVE  FALSE
    BY <1>1, <1>7 DEF PersistsRegion, FetchFails, FetchesRegion, snapshotvars
  <1>8. ASSUME NEW p \in Targeted,
               \/ RefreshFails(p)
               \/ \E what \in Kinds, q \in Regions, x \in Named : Refreshes(p, what, q, x)
        PROVE  FALSE
    BY <1>1, <1>8 DEF RefreshFails, Refreshes
  <1> QED
    BY <1>3, <1>4, <1>5, <1>6, <1>7, <1>8 DEF TopologyNext, LockStep

\* No org leaves the snapshot by a refresh of a space or an org, by a recovery of the lock or
\* by a sync that collected its region: for any regions, orgs and commands side by side.
THEOREM KnownOrgsAreKept == TopologySpec => KnownOrgsStay
  <1>1. TopologyInv /\ [TopologyNext]_topologyvars => [KeepsKnownOrgs]_topologyvars
    BY TopologySteps, StepsKeepOrgs
  <1> QED
    BY <1>1, TopologyBegins, TopologySteps, PTL DEF TopologySpec, KnownOrgsStay

(***************************************************************************)
(* The persistent shell of cf-explorer.                                    *)
(***************************************************************************)
USE ShellAssumption

\* What has been received of the pending command, is on its way or will be printed.
Stream == buffer \o transit \o running

\* Where in the frame of its command a piece belongs.
Offset(p) ==
    CASE p.kind = "start" -> 0 [] p.kind \in {"line", "garbled"} -> p.n
      [] p.kind = "end" -> Lines + 1 [] p.kind = "code" -> Lines + 2

SilentOf(i, s) == \A k \in 1..Len(s) : s[k].of # i
EndsWithFrame(i, s) ==
    \E m \in 0..Len(s) :
       /\ Len(s) = m + Lines + 3
       /\ \A k \in 1..Len(s) : IF k <= m THEN s[k].of # i
                               ELSE s[k].of = i /\ Offset(s[k]) = k - m - 1

\* Nothing is printed of a command that was not sent.
IdsFit ==
    /\ \A k \in 1..Len(stdin) : stdin[k] <= executed
    /\ \A k \in 1..Len(transit) : transit[k].of <= executed
    /\ \A k \in 1..Len(running) : running[k].of <= executed
    /\ awaited # Nothing => awaited = executed

\* The pending command is the last that was sent: the shell has not come to it, or its
\* frame is the end of the stream, whatever comes before.
AwaitedFits ==
    awaited # Nothing =>
      \/ /\ Len(stdin) > 0 /\ stdin[Len(stdin)] = awaited
         /\ \A k \in 1..Len(stdin) : k < Len(stdin) => stdin[k] # awaited
         /\ SilentOf(awaited, Stream)
      \/ /\ stdin = <<>>
         /\ EndsWithFrame(awaited, Stream)

ShellInv == ShellTypeOK /\ IdsFit /\ AwaitedFits /\ AnswersAreOwn


ReplyKinds == {"none", "resolved", "stale", "timeout", "limit", "malformed", "failed"}
Reply == [kind : ReplyKinds, stdout : Seq(Pieces)]

\* The first of a kind that comes once.
LEMMA FoundOnce ==
  ASSUME NEW p, NEW S, NEW s \in Seq(S),
         \A j, k \in 1..Len(s) : s[j] = p /\ s[k] = p => j = k
  PROVE  \/ IndexOf(p, s) = 0
         \/ IndexOf(p, s) \in 1..Len(s) /\ s[IndexOf(p, s)] = p
  <1> DEFINE I == {k \in 1..Len(s) : s[k] = p}
  <1>1. IndexOf(p, s) = IF I # {} THEN Min(I) ELSE 0
    BY DEF IndexOf, SelectInSeq
  <1>2. CASE I = {}
    BY <1>1, <1>2
  <1>3. ASSUME NEW k \in I
        PROVE  IndexOf(p, s) = k
    <2>1. I = {k}
      BY <1>3
    <2>2. \E x \in I : \A y \in I : x <= y
      BY <2>1, LenProperties
    <2> HIDE DEF I
    <2>3. Min(I) = CHOOSE x \in I : \A y \in I : x <= y
      BY DEF Min
    <2>4. Min(I) \in I
      BY <2>2, <2>3
    <2> QED
      BY <1>1, <2>1, <2>4
  <1> QED
    BY <1>2, <1>3

\* A stretch of the stream in which the pending command's frame begins after m pieces.
FramedFrom(i, s, m) ==
    \A k \in 1..Len(s) : IF k <= m THEN s[k].of # i ELSE s[k].of = i /\ Offset(s[k]) = k - m - 1

\* What is cut out of it is the output of that command.
LEMMA FrameIsOwn ==
  ASSUME NEW i \in Ids, NEW s \in Seq(Pieces), NEW m \in Nat, FramedFrom(i, s, m)
  PROVE  /\ FrameOf(i, s) \in Reply
         /\ FrameOf(i, s).kind = "resolved" =>
               /\ Len(FrameOf(i, s).stdout) = Lines
               /\ \A n \in 1..Lines : FrameOf(i, s).stdout[n] \in {Line(i, n), Garbled(i, n)}
  <1> DEFINE start == IndexOf(Start(i), s)
             end == IndexOf(End(i), s)
  <1>1. Lines \in Nat /\ Len(s) \in Nat /\ \A k \in 1..Len(s) : s[k] \in Pieces
    BY LenProperties, ElementOfSeq
  <1>2. /\ Start(i).of = i /\ Offset(Start(i)) = 0
        /\ End(i).of = i /\ Offset(End(i)) = Lines + 1
    BY DEF Start, End, Piece, Offset
  <1>3. \A j, k \in 1..Len(s) : s[j].of = i /\ s[k].of = i /\ Offset(s[j]) = Offset(s[k]) => j = k
    BY <1>1 DEF FramedFrom
  <1>4. start = 0 \/ (start \in 1..Len(s) /\ start = m + 1)
    <2> DEFINE p == Start(i)
    <2>1. p.of = i /\ Offset(p) = 0
      BY <1>2
    <2> HIDE DEF p
    <2>2. \A j, k \in 1..Len(s) : s[j] = p /\ s[k] = p => j = k
      BY <1>3, <2>1
    <2>3. IndexOf(p, s) = 0 \/ (IndexOf(p, s) \in 1..Len(s) /\ s[IndexOf(p, s)] = p)
      BY <2>2, FoundOnce
    <2>4. ASSUME NEW k \in 1..Len(s), s[k] = p PROVE k = m + 1
      BY <1>1, <2>1, <2>4 DEF FramedFrom
    <2> QED
      BY <2>3, <2>4 DEF p
  <1>5. end = 0 \/ (end \in 1..Len(s) /\ end = m + Lines + 2)
    <2> DEFINE p == End(i)
    <2>1. p.of = i /\ Offset(p) = Lines + 1
      BY <1>2
    <2> HIDE DEF p
    <2>2. \A j, k \in 1..Len(s) : s[j] = p /\ s[k] = p => j = k
      BY <1>3, <2>1
    <2>3. IndexOf(p, s) = 0 \/ (IndexOf(p, s) \in 1..Len(s) /\ s[IndexOf(p, s)] = p)
      BY <2>2, FoundOnce
    <2>4. ASSUME NEW k \in 1..Len(s), s[k] = p PROVE k = m + Lines + 2
      BY <1>1, <2>1, <2>4 DEF FramedFrom
    <2> QED
      BY <2>3, <2>4 DEF p
  <1> DEFINE out == SubSeq(s, start + 1, end - 1)
  <1>6. FrameOf(i, s) \in {Unanswered, Rejected("malformed"), Rejected("failed")}
          \/ (start # 0 /\ end # 0 /\ FrameOf(i, s) = Resolved(out))
    BY DEF FrameOf
  <1>7. CASE FrameOf(i, s) \in {Unanswered, Rejected("malformed"), Rejected("failed")}
    <2>1. <<>> \in Seq(Pieces)
      BY EmptySeq
    <2>2. \A why \in {"none", "malformed", "failed"} :
             Rejected(why) \in Reply /\ Rejected(why).kind # "resolved"
      BY <2>1 DEF Rejected, Reply, ReplyKinds
    <2>3. Unanswered = Rejected("none")
      BY DEF Unanswered, Rejected
    <2>4. PICK why \in {"none", "malformed", "failed"} : FrameOf(i, s) = Rejected(why)
      BY <1>7, <2>3
    <2> QED
      BY <2>2, <2>4
  <1>8. CASE start # 0 /\ end # 0 /\ FrameOf(i, s) = Resolved(out)
    <2>1. start = m + 1 /\ end = m + Lines + 2 /\ end \in 1..Len(s)
      BY <1>4, <1>5, <1>8
    <2> HIDE DEF start, end
    <2>2. \A k \in (start + 1)..(end - 1) : s[k] \in Pieces
      BY <1>1, <2>1
    <2>3. /\ out \in Seq(Pieces) /\ Len(out) = Lines
          /\ \A n \in 1..Lines : out[n] = s[m + 1 + n]
      <3>1. start + 1 \in Int /\ end - 1 \in Int
        BY <1>1, <2>1
      <3>2. /\ out \in Seq(Pieces)
            /\ Len(out) = IF start + 1 <= end - 1 THEN (end - 1) - (start + 1) + 1 ELSE 0
            /\ \A n \in 1..((end - 1) - (start + 1) + 1) : out[n] = s[start + 1 + n - 1]
        BY <2>2, <3>1, SubSeqProperties
      <3> HIDE DEF out
      <3> QED
        BY <1>1, <2>1, <3>2
    <2> HIDE DEF out
    <2>4. ASSUME NEW n \in 1..Lines
          PROVE  out[n] \in {Line(i, n), Garbled(i, n)}
      <3>1. /\ out[n] \in Pieces /\ out[n].of = i /\ Offset(out[n]) = n
        <4>1. m + 1 + n \in 1..Len(s)
          BY <1>1, <2>1
        <4> QED
          BY <1>1, <2>3, <4>1 DEF FramedFrom
      <3>2. out[n].kind \in {"line", "garbled"} /\ out[n].n = n
        BY <1>1, <3>1 DEF Offset, Pieces
      <3> QED
        BY <3>1, <3>2 DEF Pieces, Line, Garbled, Piece
    <2>5. Resolved(out).kind = "resolved" /\ Resolved(out).stdout = out /\ Resolved(out) \in Reply
      BY <2>3 DEF Resolved, Reply, ReplyKinds
    <2> QED
      BY <1>8, <2>3, <2>4, <2>5
  <1> QED
    BY <1>6, <1>7, <1>8

\* The frame that a script prints.
LEMMA FrameShape ==
  ASSUME NEW i \in Ids, NEW code \in {0, 1}
  PROVE  /\ Frame(i, code) \in Seq(Pieces) /\ Len(Frame(i, code)) = Lines + 3
         /\ FramedFrom(i, Frame(i, code), 0)
  <1>1. Lines \in Nat
    OBVIOUS
  <1>2. /\ Start(i) \in Pieces /\ End(i) \in Pieces /\ Code(i, code) \in Pieces
        /\ \A n \in 1..Lines : Line(i, n) \in Pieces
    BY <1>1 DEF Pieces, Piece, Start, End, Code, Line
  <1>3. /\ Output(i) \in Seq(Pieces) /\ Len(Output(i)) = Lines
        /\ \A n \in 1..Lines : Output(i)[n] = Line(i, n)
    BY <1>1, <1>2 DEF Output
  <1> DEFINE head == <<Start(i)>>
             tail == <<End(i), Code(i, code)>>
  <1>4. /\ head \in Seq(Pieces) /\ Len(head) = 1 /\ head[1] = Start(i)
        /\ tail \in Seq(Pieces) /\ Len(tail) = 2 /\ tail[1] = End(i) /\ tail[2] = Code(i, code)
    BY <1>2
  <1> HIDE DEF head, tail
  <1>5. /\ head \o Output(i) \in Seq(Pieces) /\ Len(head \o Output(i)) = Lines + 1
        /\ \A k \in 1..(Lines + 1) :
              (head \o Output(i))[k] = IF k <= 1 THEN head[k] ELSE Output(i)[k - 1]
    <2>1. /\ head \o Output(i) \in Seq(Pieces) /\ Len(head \o Output(i)) = Len(head) + Len(Output(i))
          /\ \A k \in 1..(Len(head) + Len(Output(i))) :
                (head \o Output(i))[k] = IF k <= Len(head) THEN head[k] ELSE Output(i)[k - Len(head)]
      BY <1>3, <1>4, ConcatProperties
    <2>2. Len(head) + Len(Output(i)) = Lines + 1
      BY <1>1, <1>3, <1>4
    <2> QED
      BY <1>4, <2>1, <2>2
  <1> DEFINE begin == head \o Output(i)
  <1> HIDE DEF begin
  <1>6. /\ begin \o tail \in Seq(Pieces) /\ Len(begin \o tail) = Lines + 3
        /\ \A k \in 1..(Lines + 3) :
              (begin \o tail)[k] = IF k <= Lines + 1 THEN begin[k] ELSE tail[k - (Lines + 1)]
    <2>1. begin \in Seq(Pieces) /\ Len(begin) = Lines + 1
      BY <1>5 DEF begin
    <2>2. /\ begin \o tail \in Seq(Pieces) /\ Len(begin \o tail) = Len(begin) + Len(tail)
          /\ \A k \in 1..(Len(begin) + Len(tail)) :
                (begin \o tail)[k] = IF k <= Len(begin) THEN begin[k] ELSE tail[k - Len(begin)]
      BY <1>4, <2>1, ConcatProperties
    <2>3. Len(begin) + Len(tail) = Lines + 3
      BY <1>1, <1>4, <2>1
    <2> QED
      BY <2>1, <2>2, <2>3
  <1>7. Frame(i, code) = begin \o tail
    BY DEF Frame, begin, head, tail
  <1>8. ASSUME NEW k \in 1..(Lines + 3)
        PROVE  Frame(i, code)[k].of = i /\ Offset(Frame(i, code)[k]) = k - 1
    <2>1. CASE k = 1
      <3>1. Frame(i, code)[k] = Start(i)
        BY <1>1, <1>4, <1>5, <1>6, <1>7, <2>1 DEF begin
      <3> QED
        BY <2>1, <3>1 DEF Start, Piece, Offset
    <2>2. CASE k \in 2..(Lines + 1)
      <3>1. Frame(i, code)[k] = Line(i, k - 1)
        BY <1>1, <1>3, <1>5, <1>6, <1>7, <2>2 DEF begin
      <3> QED
        BY <2>2, <3>1 DEF Line, Piece, Offset
    <2>3. CASE k = Lines + 2
      <3>1. Frame(i, code)[k] = End(i)
        BY <1>1, <1>4, <1>6, <1>7, <2>3
      <3> QED
        BY <1>1, <2>3, <3>1 DEF End, Piece, Offset
    <2>4. CASE k = Lines + 3
      <3>1. Frame(i, code)[k] = Code(i, code)
        BY <1>1, <1>4, <1>6, <1>7, <2>4
      <3> QED
        BY <1>1, <2>4, <3>1 DEF Code, Piece, Offset
    <2> QED
      BY <1>1, <2>1, <2>2, <2>3, <2>4
  <1> QED
    BY <1>1, <1>6, <1>7, <1>8 DEF FramedFrom

\* The parts of the stream.
LEMMA PiecesJoined ==
  ASSUME NEW b \in Seq(Pieces), NEW t \in Seq(Pieces), NEW r \in Seq(Pieces)
  PROVE  /\ b \o t \o r \in Seq(Pieces)
         /\ Len(b \o t \o r) = Len(b) + Len(t) + Len(r)
         /\ {Len(b), Len(t), Len(r)} \subseteq Nat
         /\ \A k \in 1..(Len(b) + Len(t) + Len(r)) :
               (b \o t \o r)[k] = IF k <= Len(b) THEN b[k]
                                  ELSE IF k <= Len(b) + Len(t) THEN t[k - Len(b)]
                                  ELSE r[k - Len(b) - Len(t)]
  <1>1. {Len(b), Len(t), Len(r)} \subseteq Nat
    BY LenProperties
  <1> DEFINE bt == b \o t
  <1>2. /\ bt \in Seq(Pieces) /\ Len(bt) = Len(b) + Len(t)
        /\ \A k \in 1..(Len(b) + Len(t)) : bt[k] = IF k <= Len(b) THEN b[k] ELSE t[k - Len(b)]
    BY ConcatProperties
  <1> HIDE DEF bt
  <1>3. /\ bt \o r \in Seq(Pieces) /\ Len(bt \o r) = Len(bt) + Len(r)
        /\ \A k \in 1..(Len(bt) + Len(r)) :
              (bt \o r)[k] = IF k <= Len(bt) THEN bt[k] ELSE r[k - Len(bt)]
    <2>1. bt \in Seq(Pieces)
      BY <1>2
    <2> QED
      BY <2>1, ConcatProperties
  <1>4. /\ bt \o r \in Seq(Pieces) /\ Len(bt \o r) = Len(b) + Len(t) + Len(r)
        /\ \A k \in 1..(Len(b) + Len(t) + Len(r)) :
              (bt \o r)[k] = IF k <= Len(b) THEN b[k]
                             ELSE IF k <= Len(b) + Len(t) THEN t[k - Len(b)]
                             ELSE r[k - Len(b) - Len(t)]
    <2> SUFFICES ASSUME NEW k \in 1..(Len(b) + Len(t) + Len(r))
                 PROVE  (bt \o r)[k] = IF k <= Len(b) THEN b[k]
                                       ELSE IF k <= Len(b) + Len(t) THEN t[k - Len(b)]
                                       ELSE r[k - Len(b) - Len(t)]
      BY <1>2, <1>3
    <2>1. CASE k <= Len(bt)
      <3>1. (bt \o r)[k] = bt[k] /\ k \in 1..(Len(b) + Len(t))
        BY <1>1, <1>2, <1>3, <2>1
      <3> QED
        BY <1>1, <1>2, <3>1
    <2>2. CASE ~(k <= Len(bt))
      <3>1. (bt \o r)[k] = r[k - Len(bt)]
        BY <1>1, <1>2, <1>3, <2>2
      <3>2. k - Len(bt) = k - Len(b) - Len(t)
        BY <1>1, <1>2
      <3> QED
        BY <1>1, <1>2, <2>2, <3>1, <3>2
    <2> QED
      BY <2>1, <2>2
  <1> QED
    BY <1>1, <1>4 DEF bt

Alike(s, t) ==
    /\ Len(t) = Len(s)
    /\ \A k \in 1..Len(s) : t[k].of = s[k].of /\ Offset(t[k]) = Offset(s[k])

\* A stream that only loses characters stays as it was for the pending command.
LEMMA StaysFit ==
  ASSUME AwaitedFits, Alike(Stream, Stream'), stdin' = stdin, awaited' \in {awaited, Nothing}
  PROVE  AwaitedFits'
  <1> SUFFICES ASSUME awaited' # Nothing PROVE AwaitedFits'
    BY DEF AwaitedFits
  <1>1. awaited' = awaited
    OBVIOUS
  <1> DEFINE s == Stream
             t == Stream'
  <1>2. Alike(s, t)
    OBVIOUS
  <1> HIDE DEF s, t
  <1>3. SilentOf(awaited, s) => SilentOf(awaited, t)
    BY <1>2 DEF Alike, SilentOf
  <1>4. EndsWithFrame(awaited, s) => EndsWithFrame(awaited, t)
    BY <1>2 DEF Alike, EndsWithFrame
  <1>5. /\ SilentOf(awaited, Stream) => SilentOf(awaited', Stream')
        /\ EndsWithFrame(awaited, Stream) => EndsWithFrame(awaited', Stream')
    BY <1>1, <1>3, <1>4 DEF s, t
  <1>6. AwaitedFits' <=>
          \/ /\ Len(stdin') > 0 /\ stdin'[Len(stdin')] = awaited'
             /\ \A k \in 1..Len(stdin') : k < Len(stdin') => stdin'[k] # awaited'
             /\ SilentOf(awaited', Stream')
          \/ stdin' = <<>> /\ EndsWithFrame(awaited', Stream')
    BY DEF AwaitedFits, SilentOf, EndsWithFrame, Offset
  <1> QED
    BY <1>1, <1>5, <1>6 DEF AwaitedFits

LEMMA StreamFramed ==
  ASSUME AwaitedFits, awaited # Nothing, Stream \in Seq(Pieces)
  PROVE  \E m \in Nat : FramedFrom(awaited, Stream, m)
  <1>1. Len(Stream) \in Nat
    BY LenProperties
  <1>2. CASE SilentOf(awaited, Stream)
    <2>1. FramedFrom(awaited, Stream, Len(Stream))
      BY <1>1, <1>2 DEF SilentOf, FramedFrom
    <2> QED
      BY <1>1, <2>1
  <1>3. CASE EndsWithFrame(awaited, Stream)
    <2>1. PICK m \in 0..Len(Stream) :
             \A k \in 1..Len(Stream) :
                IF k <= m THEN Stream[k].of # awaited
                ELSE Stream[k].of = awaited /\ Offset(Stream[k]) = k - m - 1
      BY <1>3 DEF EndsWithFrame
    <2>2. FramedFrom(awaited, Stream, m) /\ m \in Nat
      BY <1>1, <2>1 DEF FramedFrom
    <2> QED
      BY <2>2
  <1> QED
    BY <1>2, <1>3 DEF AwaitedFits

LEMMA ShellBegins == ShellInit => ShellInv
  <1> SUFFICES ASSUME ShellInit PROVE ShellInv
    OBVIOUS
  <1>1. /\ <<>> \in Seq(Pieces) /\ <<>> \in Seq(Ids) /\ Len(<<>>) = 0
    BY EmptySeq
  <1>2. Unanswered \in Reply /\ Unanswered.kind = "none"
    BY <1>1 DEF Unanswered, Reply, ReplyKinds
  <1>3. ShellTypeOK
    <2>1. replies \in [Ids -> Reply]
      BY <1>2 DEF ShellInit
    <2>2. awaited \in Ids \cup {Nothing} /\ executed \in 0..Scripts
      BY DEF ShellInit
    <2>3. {buffer, running, transit} \subseteq Seq(Pieces) /\ stdin \in Seq(Ids)
      BY <1>1 DEF ShellInit
    <2> QED
      BY <2>1, <2>2, <2>3 DEF ShellInit, ShellTypeOK, Reply, ReplyKinds
  <1>4. IdsFit /\ AwaitedFits
    BY <1>1 DEF ShellInit, IdsFit, AwaitedFits
  <1>5. AnswersAreOwn
    BY <1>2 DEF ShellInit, AnswersAreOwn
  <1> QED
    BY <1>3, <1>4, <1>5 DEF ShellInv

\* An answer without an output.
LEMMA AnswersStayOwn ==
  ASSUME ShellTypeOK, AnswersAreOwn, NEW i \in Ids, NEW r \in Reply,
         r.kind = "resolved" =>
            /\ Len(r.stdout) = Lines
            /\ \A n \in 1..Lines : r.stdout[n] \in {Line(i, n), Garbled(i, n)},
         Replies(i, r)
  PROVE  replies' \in [Ids -> Reply] /\ AnswersAreOwn'
  <1>1. replies \in [Ids -> Reply] /\ replies' = [replies EXCEPT ![i] = r]
    BY DEF ShellTypeOK, Reply, ReplyKinds, Replies
  <1>2. replies' \in [Ids -> Reply] /\ replies'[i] = r /\ \A j \in Ids \ {i} : replies'[j] = replies[j]
    BY <1>1
  <1> QED
    BY <1>2 DEF AnswersAreOwn

LEMMA RejectedIsReply ==
  ASSUME NEW why \in ReplyKinds \ {"resolved"}
  PROVE  Rejected(why) \in Reply /\ Rejected(why).kind # "resolved"
  <1>1. <<>> \in Seq(Pieces)
    BY EmptySeq
  <1> QED
    BY <1>1 DEF Rejected, Reply

\* Steps that leave the stream alone, and what is pending or nothing.
LEMMA CommandEnds ==
  ASSUME ShellInv, UNCHANGED <<executed, buffer, stdin, running, transit>>,
         awaited' \in {awaited, Nothing},
         \/ replies' = replies
         \/ awaited # Nothing /\ \E why \in ReplyKinds \ {"resolved"} : Replies(awaited, Rejected(why)),
         exited' \in BOOLEAN, child' \in {"up", "terminating", "gone"}
  PROVE  ShellInv'
  <1>1. ShellTypeOK /\ IdsFit /\ AwaitedFits /\ AnswersAreOwn
    BY DEF ShellInv
  <1>2. replies' \in [Ids -> Reply] /\ AnswersAreOwn'
    <2>1. CASE replies' = replies
      BY <1>1, <2>1 DEF ShellTypeOK, Reply, ReplyKinds, AnswersAreOwn
    <2>2. ASSUME awaited # Nothing, NEW why \in ReplyKinds \ {"resolved"}, Replies(awaited, Rejected(why))
          PROVE  replies' \in [Ids -> Reply] /\ AnswersAreOwn'
      <3>1. awaited \in Ids
        BY <1>1, <2>2 DEF ShellTypeOK
      <3> QED
        BY <1>1, <2>2, <3>1, RejectedIsReply, AnswersStayOwn
    <2> QED
      BY <2>1, <2>2
  <1>3. ShellTypeOK'
    BY <1>1, <1>2 DEF ShellTypeOK, Reply, ReplyKinds
  <1>4. IdsFit'
    BY <1>1 DEF IdsFit
  <1>5. AwaitedFits'
    <2>1. Stream' = Stream
      BY DEF Stream
    <2>2. Alike(Stream, Stream')
      BY <2>1 DEF Alike
    <2> QED
      BY <1>1, <2>2, StaysFit
  <1> QED
    BY <1>2, <1>3, <1>4, <1>5 DEF ShellInv

LEMMA CommandGivenUp ==
  ASSUME ShellInv, CommandTimesOut \/ ChildEnds \/ \E closed \in BOOLEAN : MarksExited(closed)
  PROVE  ShellInv'
  <1>1. awaited \in Ids \cup {Nothing} /\ exited \in BOOLEAN /\ child \in {"up", "terminating", "gone"}
    BY DEF ShellInv, ShellTypeOK
  <1>2. CASE CommandTimesOut
    <2>1. /\ awaited # Nothing /\ Replies(awaited, Rejected("timeout")) /\ awaited' = Nothing
          /\ child' \in {child, "terminating"}
          /\ UNCHANGED <<executed, buffer, exited, stdin, running, transit>>
      BY <1>2 DEF CommandTimesOut, GivesUpCommand
    <2>2. "timeout" \in ReplyKinds \ {"resolved"}
      BY DEF ReplyKinds
    <2> QED
      BY <1>1, <2>1, <2>2, CommandEnds
  <1>3. CASE ChildEnds
    <2>1. /\ child' = "gone" /\ awaited' = awaited /\ replies' = replies /\ exited' = exited
          /\ UNCHANGED <<executed, buffer, stdin, running, transit>>
      BY <1>3 DEF ChildEnds
    <2> QED
      BY <1>1, <2>1, CommandEnds
  <1>4. ASSUME NEW closed \in BOOLEAN, MarksExited(closed)
        PROVE  ShellInv'
    <2>1. /\ exited' = TRUE /\ awaited' = Nothing /\ child' = child
          /\ replies' = replies \/ (awaited # Nothing /\ Replies(awaited, Rejected("stale")))
          /\ UNCHANGED <<executed, buffer, stdin, running, transit>>
      BY <1>4 DEF MarksExited, Replies
    <2>2. "stale" \in ReplyKinds \ {"resolved"}
      BY DEF ReplyKinds
    <2> QED
      BY <1>1, <2>1, <2>2, CommandEnds
  <1> QED
    BY <1>2, <1>3, <1>4

LEMMA PiecesAreOfIds ==
  ASSUME NEW s \in Seq(Pieces)
  PROVE  Len(s) \in Nat /\ \A k \in 1..Len(s) : s[k].of \in Ids /\ s[k].of \in Nat
  <1>1. Len(s) \in Nat
    BY LenProperties
  <1>2. ASSUME NEW k \in 1..Len(s)
        PROVE  s[k].of \in Ids /\ s[k].of \in Nat
    <2>1. s[k] \in Pieces
      BY ElementOfSeq
    <2>2. s[k].of \in Ids
      BY <2>1 DEF Pieces
    <2> QED
      BY <2>2 DEF Ids
  <1> QED
    BY <1>1, <1>2

LEMMA NextCommand ==
  ASSUME ShellInv, Executes
  PROVE  ShellInv'
  <1>t. ShellTypeOK /\ IdsFit /\ AwaitedFits /\ AnswersAreOwn
    BY DEF ShellInv
  <1>1. /\ executed \in Nat /\ executed + 1 \in Ids /\ executed' = executed + 1 /\ awaited = Nothing
        /\ UNCHANGED <<exited, child, running, transit>>
    BY <1>t DEF Executes, ShellTypeOK, Ids
  <1>2. CASE exited
    <2>1. Replies(executed + 1, Rejected("stale")) /\ UNCHANGED <<awaited, buffer, stdin>>
      BY <1>2 DEF Executes
    <2>2. "stale" \in ReplyKinds \ {"resolved"}
      BY DEF ReplyKinds
    <2>3. replies' \in [Ids -> Reply] /\ AnswersAreOwn'
      BY <1>1, <1>t, <2>1, <2>2, RejectedIsReply, AnswersStayOwn
    <2>4. ShellTypeOK'
      BY <1>1, <1>t, <2>1, <2>3 DEF ShellTypeOK, Reply, ReplyKinds, Ids
    <2>5. IdsFit' /\ AwaitedFits'
      <3>1. \A k \in 1..Len(stdin) : stdin[k] \in Nat
        BY <1>t, ElementOfSeq DEF ShellTypeOK, Ids
      <3>2. /\ \A k \in 1..Len(transit) : transit[k].of \in Nat
            /\ \A k \in 1..Len(running) : running[k].of \in Nat
        BY <1>t, PiecesAreOfIds DEF ShellTypeOK
      <3> QED
        BY <1>1, <1>t, <2>1, <3>1, <3>2 DEF IdsFit, AwaitedFits
    <2> QED
      BY <2>3, <2>4, <2>5 DEF ShellInv
  <1>3. CASE ~exited
    <2>1. /\ buffer' = <<>> /\ awaited' = executed + 1 /\ stdin' = Append(stdin, executed + 1)
          /\ replies' = replies
      BY <1>3 DEF Executes
    <2>2. /\ stdin \in Seq(Ids) /\ stdin' \in Seq(Ids) /\ Len(stdin') = Len(stdin) + 1
          /\ Len(stdin) \in Nat /\ stdin'[Len(stdin')] = awaited'
          /\ \A k \in 1..Len(stdin) : stdin'[k] = stdin[k] /\ stdin[k] \in Ids
      BY <1>1, <1>t, <2>1, AppendProperties, LenProperties, ElementOfSeq DEF ShellTypeOK
    <2>3. /\ transit \in Seq(Pieces) /\ running \in Seq(Pieces) /\ <<>> \in Seq(Pieces) /\ Len(<<>>) = 0
          /\ \A k \in 1..Len(transit) : transit[k].of \in Nat
          /\ \A k \in 1..Len(running) : running[k].of \in Nat
      <3>1. transit \in Seq(Pieces) /\ running \in Seq(Pieces)
        BY <1>t DEF ShellTypeOK
      <3>2. <<>> \in Seq(Pieces) /\ Len(<<>>) = 0
        BY EmptySeq
      <3> QED
        BY <3>1, <3>2, PiecesAreOfIds
    <2>4. ShellTypeOK'
      BY <1>1, <1>t, <2>1, <2>2, <2>3 DEF ShellTypeOK, Ids
    <2>5. IdsFit'
      <3>1. \A k \in 1..Len(stdin') : stdin'[k] <= executed'
        <4>0. Ids \subseteq Nat /\ \A k \in 1..Len(stdin) : stdin[k] <= executed
          BY <1>t DEF IdsFit, Ids
        <4>1. \A k \in 1..Len(stdin) : stdin'[k] \in Nat /\ stdin'[k] <= executed
          BY <2>2, <4>0
        <4>2. stdin'[Len(stdin) + 1] = executed'
          BY <1>1, <2>1, <2>2
        <4> QED
          BY <1>1, <2>2, <4>1, <4>2
      <3> QED
        <4>1. /\ \A k \in 1..Len(transit) : transit[k].of <= executed
              /\ \A k \in 1..Len(running) : running[k].of <= executed
          BY <1>t DEF IdsFit
        <4>2. /\ \A k \in 1..Len(transit') : transit'[k].of <= executed'
              /\ \A k \in 1..Len(running') : running'[k].of <= executed'
          BY <1>1, <2>3, <4>1
        <4>3. awaited' = executed'
          BY <1>1, <2>1
        <4> QED
          BY <3>1, <4>2, <4>3 DEF IdsFit
    <2>6. SilentOf(awaited', Stream')
      <3>1. Stream' = <<>> \o transit \o running
        BY <1>1, <2>1 DEF Stream
      <3>2. /\ Len(<<>> \o transit \o running) = Len(transit) + Len(running)
            /\ Len(transit) \in Nat /\ Len(running) \in Nat
            /\ \A k \in 1..(Len(transit) + Len(running)) :
                  (<<>> \o transit \o running)[k] = IF k <= Len(transit) THEN transit[k]
                                                    ELSE running[k - Len(transit)]
        BY <2>3, PiecesJoined
      <3> DEFINE s == <<>> \o transit \o running
      <3> HIDE DEF s
      <3>3. \A k \in 1..Len(s) : s[k].of # awaited'
        <4> SUFFICES ASSUME NEW k \in 1..Len(s) PROVE s[k].of # awaited'
          OBVIOUS
        <4>1. CASE k <= Len(transit)
          BY <1>1, <1>t, <2>1, <2>3, <3>2, <4>1 DEF IdsFit, s
        <4>2. CASE ~(k <= Len(transit))
          <5>1. k - Len(transit) \in 1..Len(running) /\ s[k] = running[k - Len(transit)]
            BY <3>2, <4>2 DEF s
          <5>2. s[k].of \in Nat /\ s[k].of <= executed
            BY <1>t, <2>3, <5>1 DEF IdsFit
          <5> QED
            BY <1>1, <2>1, <5>2
        <4> QED
          BY <4>1, <4>2
      <3> QED
        BY <3>1, <3>3 DEF SilentOf, s
    <2>7. AwaitedFits'
      <3>1. \A k \in 1..Len(stdin') : k < Len(stdin') => stdin'[k] # awaited'
        BY <1>1, <1>t, <2>1, <2>2 DEF IdsFit, Ids
      <3>2. Len(stdin') > 0
        BY <2>2
      <3> QED
        BY <2>2, <2>6, <3>1, <3>2 DEF AwaitedFits, SilentOf
    <2>8. AnswersAreOwn'
      BY <1>t, <2>1 DEF AnswersAreOwn
    <2> QED
      BY <2>4, <2>5, <2>7, <2>8 DEF ShellInv
  <1> QED
    BY <1>2, <1>3

LEMMA ScriptBegins ==
  ASSUME ShellInv, BeginsScript
  PROVE  ShellInv'
  <1>t. ShellTypeOK /\ IdsFit /\ AwaitedFits /\ AnswersAreOwn
    BY DEF ShellInv
  <1> DEFINE i == Head(stdin)
  <1>1. PICK code \in {0, 1} : running' = Frame(i, code)
    BY DEF BeginsScript
  <1>2. /\ running = <<>> /\ stdin # <<>> /\ stdin' = Tail(stdin)
        /\ UNCHANGED <<awaited, executed, replies, buffer, exited, child, transit>>
    BY DEF BeginsScript
  <1>3. /\ stdin \in Seq(Ids) /\ Len(stdin) \in Nat /\ Len(stdin) > 0
        /\ i \in Ids /\ i = stdin[1] /\ stdin' \in Seq(Ids) /\ Len(stdin') = Len(stdin) - 1
        /\ \A k \in 1..Len(stdin') : stdin'[k] = stdin[k + 1]
        /\ \A k \in 1..Len(stdin) : stdin[k] \in Ids
    BY <1>2, <1>t, HeadTailProperties, EmptySeq, ElementOfSeq DEF ShellTypeOK
  <1> HIDE DEF i
  <1>4. /\ running' \in Seq(Pieces) /\ Len(running') = Lines + 3 /\ FramedFrom(i, running', 0)
    BY <1>1, <1>3, FrameShape
  <1>5. ShellTypeOK'
    BY <1>2, <1>3, <1>4, <1>t DEF ShellTypeOK
  <1>6. Lines \in Nat /\ \A k \in 1..Len(running') : running'[k].of = i /\ Offset(running'[k]) = k - 1
    BY <1>4 DEF FramedFrom
  <1>7. IdsFit'
    <2>1. i <= executed
      BY <1>3, <1>t DEF IdsFit
    <2>2. \A k \in 1..Len(stdin') : stdin'[k] <= executed
      BY <1>3, <1>t DEF IdsFit
    <2> QED
      BY <1>2, <1>6, <1>t, <2>1, <2>2 DEF IdsFit
  <1>8. AnswersAreOwn'
    BY <1>2, <1>t DEF AnswersAreOwn
  <1>9. ASSUME awaited # Nothing
        PROVE  AwaitedFits'
    <2> DEFINE s == buffer \o transit \o running
               t == buffer \o transit \o running'
    <2>0. s = Stream /\ t = Stream'
      BY <1>2 DEF Stream
    <2>1. /\ Len(s) \in Nat /\ Len(t) = Len(s) + Lines + 3
          /\ \A k \in 1..Len(s) : t[k] = s[k]
          /\ \A k \in 1..Len(t) : k > Len(s) => t[k] = running'[k - Len(s)]
      <3>1. buffer \in Seq(Pieces) /\ transit \in Seq(Pieces) /\ running \in Seq(Pieces) /\ Len(running) = 0
        BY <1>2, <1>t, EmptySeq DEF ShellTypeOK
      <3>2. /\ Len(s) = Len(buffer) + Len(transit) /\ Len(buffer) \in Nat /\ Len(transit) \in Nat
            /\ \A k \in 1..Len(s) : s[k] = IF k <= Len(buffer) THEN buffer[k] ELSE transit[k - Len(buffer)]
        BY <3>1, PiecesJoined
      <3> DEFINE r == running'
      <3>3. r \in Seq(Pieces) /\ Len(r) = Lines + 3
        BY <1>4
      <3> HIDE DEF r
      <3>4. /\ Len(buffer \o transit \o r) = Len(buffer) + Len(transit) + Len(r)
            /\ \A k \in 1..(Len(buffer) + Len(transit) + Len(r)) :
                  (buffer \o transit \o r)[k] =
                     IF k <= Len(buffer) THEN buffer[k]
                     ELSE IF k <= Len(buffer) + Len(transit) THEN transit[k - Len(buffer)]
                     ELSE r[k - Len(buffer) - Len(transit)]
        BY <3>1, <3>3, PiecesJoined
      <3>5. t = buffer \o transit \o r
        BY DEF r
      <3> HIDE DEF s, t
      <3>6. Len(s) \in Nat /\ Len(t) = Len(s) + Lines + 3
        BY <1>6, <3>2, <3>3, <3>4, <3>5
      <3>7. \A k \in 1..Len(s) : t[k] = s[k]
        BY <1>6, <3>2, <3>3, <3>4, <3>5
      <3>8. ASSUME NEW k \in 1..Len(t), k > Len(s)
            PROVE  t[k] = r[k - Len(s)]
        <4>0. /\ k \in 1..(Len(buffer) + Len(transit) + Len(r))
              /\ ~(k <= Len(buffer)) /\ ~(k <= Len(buffer) + Len(transit))
          BY <1>6, <3>2, <3>3, <3>6, <3>8
        <4>1. t[k] = r[k - Len(buffer) - Len(transit)]
          BY <3>4, <3>5, <4>0
        <4>2. k - Len(buffer) - Len(transit) = k - Len(s)
          BY <1>6, <3>2, <3>6
        <4> QED
          BY <4>1, <4>2
      <3> QED
        BY <3>6, <3>7, <3>8 DEF r
    <2> HIDE DEF s, t
    <2>2. /\ Len(stdin) > 0 /\ stdin[Len(stdin)] = awaited
          /\ \A k \in 1..Len(stdin) : k < Len(stdin) => stdin[k] # awaited
          /\ SilentOf(awaited, s)
      BY <1>2, <1>9, <1>t, <2>0 DEF AwaitedFits
    <2>3. CASE i = awaited
      <3>1. Len(stdin) = 1
        <4>1. 1 \in 1..Len(stdin) /\ stdin[1] = awaited
          BY <1>3, <2>3
        <4>2. ~(1 < Len(stdin))
          BY <2>2, <4>1
        <4> QED
          BY <1>3, <4>2
      <3>2. stdin' = <<>>
        BY <1>3, <3>1, EmptySeq
      <3>3. \A k \in 1..Len(t) : IF k <= Len(s) THEN t[k].of # awaited
                                 ELSE t[k].of = awaited /\ Offset(t[k]) = k - Len(s) - 1
        <4> SUFFICES ASSUME NEW k \in 1..Len(t)
                     PROVE  IF k <= Len(s) THEN t[k].of # awaited
                            ELSE t[k].of = awaited /\ Offset(t[k]) = k - Len(s) - 1
          OBVIOUS
        <4>1. CASE k <= Len(s)
          BY <2>1, <2>2, <4>1 DEF SilentOf
        <4>2. CASE ~(k <= Len(s))
          <5>1. k - Len(s) \in 1..Len(running') /\ t[k] = running'[k - Len(s)]
            BY <1>4, <1>6, <2>1, <4>2
          <5> QED
            BY <1>6, <2>1, <2>3, <4>2, <5>1
        <4> QED
          BY <4>1, <4>2
      <3>4. EndsWithFrame(awaited, t)
        BY <1>6, <2>1, <3>3 DEF EndsWithFrame
      <3>5. EndsWithFrame(awaited, Stream')
        BY <2>0, <3>4
      <3> QED
        BY <1>2, <3>2, <3>5 DEF AwaitedFits, EndsWithFrame, Offset
    <2>4. CASE i # awaited
      <3>1. /\ Len(stdin') > 0 /\ stdin'[Len(stdin')] = awaited
            /\ \A k \in 1..Len(stdin') : k < Len(stdin') => stdin'[k] # awaited
        BY <1>3, <2>2, <2>4
      <3>2. \A k \in 1..Len(t) : t[k].of # awaited
        <4> SUFFICES ASSUME NEW k \in 1..Len(t) PROVE t[k].of # awaited
          OBVIOUS
        <4>1. CASE k <= Len(s)
          BY <2>1, <2>2, <4>1 DEF SilentOf
        <4>2. CASE ~(k <= Len(s))
          <5>1. k - Len(s) \in 1..Len(running') /\ t[k] = running'[k - Len(s)]
            BY <1>4, <1>6, <2>1, <4>2
          <5> QED
            BY <1>6, <2>4, <5>1
        <4> QED
          BY <4>1, <4>2
      <3>3. SilentOf(awaited, Stream')
        BY <2>0, <3>2 DEF SilentOf
      <3> QED
        BY <1>2, <3>1, <3>3 DEF AwaitedFits, SilentOf
    <2> QED
      BY <2>3, <2>4
  <1>10. AwaitedFits'
    <2>1. awaited = Nothing => AwaitedFits'
      BY <1>2 DEF AwaitedFits
    <2> QED
      BY <1>9, <2>1
  <1> QED
    BY <1>5, <1>7, <1>8, <1>10 DEF ShellInv

\* A piece that is printed only changes its place in the stream.
LEMMA PieceMovesOn ==
  ASSUME NEW b \in Seq(Pieces), NEW t \in Seq(Pieces), NEW r \in Seq(Pieces), r # <<>>
  PROVE  /\ Append(t, Head(r)) \in Seq(Pieces) /\ Tail(r) \in Seq(Pieces)
         /\ \A k \in 1..Len(Append(t, Head(r))) :
               (\E j \in 1..Len(t) : Append(t, Head(r))[k] = t[j])
                 \/ (1 \in 1..Len(r) /\ Append(t, Head(r))[k] = r[1])
         /\ \A k \in 1..Len(Tail(r)) : k + 1 \in 1..Len(r) /\ Tail(r)[k] = r[k + 1]
         /\ Alike(b \o t \o r, b \o Append(t, Head(r)) \o Tail(r))
  <1> DEFINE p == Append(t, Head(r))
             q == Tail(r)
             u == b \o t \o r
             v == b \o p \o q
  <1>1. /\ Len(r) \in Nat /\ Len(r) > 0 /\ Head(r) = r[1] /\ Head(r) \in Pieces
        /\ q \in Seq(Pieces) /\ Len(q) = Len(r) - 1
        /\ \A k \in 1..Len(q) : q[k] = r[k + 1]
    BY HeadTailProperties, EmptySeq, LenProperties
  <1>2. /\ p \in Seq(Pieces) /\ Len(p) = Len(t) + 1 /\ p[Len(t) + 1] = r[1]
        /\ \A k \in 1..Len(t) : p[k] = t[k]
    BY <1>1, AppendProperties
  <1>3. /\ {Len(b), Len(t), Len(r)} \subseteq Nat
        /\ Len(u) = Len(b) + Len(t) + Len(r)
        /\ \A k \in 1..(Len(b) + Len(t) + Len(r)) :
              u[k] = IF k <= Len(b) THEN b[k]
                     ELSE IF k <= Len(b) + Len(t) THEN t[k - Len(b)]
                     ELSE r[k - Len(b) - Len(t)]
    BY PiecesJoined
  <1> HIDE DEF p, q, u
  <1>4. /\ Len(v) = Len(b) + Len(p) + Len(q)
        /\ \A k \in 1..(Len(b) + Len(p) + Len(q)) :
              v[k] = IF k <= Len(b) THEN b[k]
                     ELSE IF k <= Len(b) + Len(p) THEN p[k - Len(b)]
                     ELSE q[k - Len(b) - Len(p)]
    BY <1>1, <1>2, PiecesJoined
  <1> HIDE DEF v
  <1>5. Len(v) = Len(u) /\ Len(u) \in Nat
    BY <1>1, <1>2, <1>3, <1>4
  <1>6. ASSUME NEW k \in 1..Len(u)
        PROVE  v[k] = u[k]
    <2>0. k \in 1..(Len(b) + Len(t) + Len(r)) /\ k \in 1..(Len(b) + Len(p) + Len(q))
      BY <1>3, <1>4, <1>5
    <2>1. CASE k <= Len(b)
      BY <1>3, <1>4, <2>0, <2>1
    <2>2. CASE ~(k <= Len(b)) /\ k <= Len(b) + Len(t)
      <3>1. u[k] = t[k - Len(b)] /\ v[k] = p[k - Len(b)] /\ k - Len(b) \in 1..Len(t)
        BY <1>2, <1>3, <1>4, <2>0, <2>2
      <3> QED
        BY <1>2, <3>1
    <2>3. CASE k = Len(b) + Len(t) + 1
      <3>1. /\ ~(k <= Len(b)) /\ ~(k <= Len(b) + Len(t)) /\ k <= Len(b) + Len(p)
            /\ k - Len(b) - Len(t) = 1 /\ k - Len(b) = Len(t) + 1
        BY <1>2, <1>3, <2>3
      <3>2. u[k] = r[1] /\ v[k] = p[Len(t) + 1]
        BY <1>3, <1>4, <2>0, <3>1
      <3> QED
        BY <1>2, <3>2
    <2>4. CASE k > Len(b) + Len(t) + 1
      <3>1. /\ ~(k <= Len(b)) /\ ~(k <= Len(b) + Len(t)) /\ ~(k <= Len(b) + Len(p))
            /\ k - Len(b) - Len(t) = (k - Len(b) - Len(p)) + 1
            /\ k - Len(b) - Len(p) \in 1..Len(q)
        BY <1>1, <1>2, <1>3, <2>0, <2>4
      <3>2. u[k] = r[k - Len(b) - Len(t)] /\ v[k] = q[k - Len(b) - Len(p)]
        BY <1>3, <1>4, <2>0, <3>1
      <3> QED
        BY <1>1, <3>1, <3>2
    <2>5. k \in Nat /\ Len(b) \in Nat /\ Len(t) \in Nat
      BY <1>3, <1>5
    <2>6. \/ k <= Len(b) \/ (~(k <= Len(b)) /\ k <= Len(b) + Len(t))
          \/ k = Len(b) + Len(t) + 1 \/ k > Len(b) + Len(t) + 1
      BY <2>5
    <2> QED
      BY <2>1, <2>2, <2>3, <2>4, <2>6
  <1>7. Alike(u, v)
    BY <1>5, <1>6 DEF Alike
  <1>8. ASSUME NEW k \in 1..Len(p)
        PROVE  (\E j \in 1..Len(t) : p[k] = t[j]) \/ (1 \in 1..Len(r) /\ p[k] = r[1])
    <2>1. CASE k \in 1..Len(t)
      BY <1>2, <2>1
    <2>2. CASE k = Len(t) + 1
      BY <1>1, <1>2, <2>2
    <2>3. Len(t) \in Nat /\ k \in 1..(Len(t) + 1)
      BY <1>2, LenProperties
    <2> QED
      BY <2>1, <2>2, <2>3
  <1>9. \A k \in 1..Len(q) : k + 1 \in 1..Len(r) /\ q[k] = r[k + 1]
    BY <1>1
  <1> QED
    BY <1>1, <1>2, <1>7, <1>8, <1>9 DEF p, q, u, v

LEMMA PiecePrinted ==
  ASSUME ShellInv, Prints
  PROVE  ShellInv'
  <1>t. ShellTypeOK /\ IdsFit /\ AwaitedFits /\ AnswersAreOwn
    BY DEF ShellInv
  <1>1. /\ running # <<>> /\ transit' = Append(transit, Head(running)) /\ running' = Tail(running)
        /\ UNCHANGED <<awaited, executed, replies, buffer, exited, child, stdin>>
    BY DEF Prints
  <1>2. buffer \in Seq(Pieces) /\ transit \in Seq(Pieces) /\ running \in Seq(Pieces)
    BY <1>t DEF ShellTypeOK
  <1>3. /\ transit' \in Seq(Pieces) /\ running' \in Seq(Pieces)
        /\ \A k \in 1..Len(transit') :
              (\E j \in 1..Len(transit) : transit'[k] = transit[j])
                \/ (1 \in 1..Len(running) /\ transit'[k] = running[1])
        /\ \A k \in 1..Len(running') : k + 1 \in 1..Len(running) /\ running'[k] = running[k + 1]
        /\ Alike(buffer \o transit \o running, buffer \o transit' \o running')
    <2> DEFINE p == Append(transit, Head(running))
               q == Tail(running)
    <2>1. /\ p \in Seq(Pieces) /\ q \in Seq(Pieces)
          /\ \A k \in 1..Len(p) : (\E j \in 1..Len(transit) : p[k] = transit[j])
                                     \/ (1 \in 1..Len(running) /\ p[k] = running[1])
          /\ \A k \in 1..Len(q) : k + 1 \in 1..Len(running) /\ q[k] = running[k + 1]
          /\ Alike(buffer \o transit \o running, buffer \o p \o q)
      BY <1>1, <1>2, PieceMovesOn
    <2>2. p = transit' /\ q = running'
      BY <1>1
    <2> HIDE DEF p, q
    <2> QED
      BY <2>1, <2>2
  <1>4. ShellTypeOK'
    BY <1>1, <1>3, <1>t DEF ShellTypeOK
  <1>5. IdsFit'
    <2>1. /\ \A k \in 1..Len(stdin) : stdin[k] <= executed
          /\ \A k \in 1..Len(transit) : transit[k].of <= executed
          /\ \A k \in 1..Len(running) : running[k].of <= executed
          /\ awaited # Nothing => awaited = executed
      BY <1>t DEF IdsFit
    <2>2. \A k \in 1..Len(transit') : transit'[k].of <= executed
      BY <1>3, <2>1
    <2>3. \A k \in 1..Len(running') : running'[k].of <= executed
      BY <1>3, <2>1
    <2> QED
      BY <1>1, <2>1, <2>2, <2>3 DEF IdsFit
  <1>6. AwaitedFits'
    <2>1. Alike(Stream, Stream')
      BY <1>1, <1>3 DEF Stream
    <2> QED
      BY <1>1, <1>t, <2>1, StaysFit
  <1>7. AnswersAreOwn'
    BY <1>1, <1>t DEF AnswersAreOwn
  <1> QED
    BY <1>4, <1>5, <1>6, <1>7 DEF ShellInv

\* A chunk that is decoded takes the place of what it was.
Taken(b, t, n, cut) == b \o Decoded(SubSeq(t, 1, n), cut)
Rest(t, n) == SubSeq(t, n + 1, Len(t))

LEMMA ChunkMovesOn ==
  ASSUME NEW b \in Seq(Pieces), NEW t \in Seq(Pieces), NEW r \in Seq(Pieces),
         NEW n \in 1..Len(t), NEW cut \in BOOLEAN
  PROVE  /\ Taken(b, t, n, cut) \in Seq(Pieces) /\ Rest(t, n) \in Seq(Pieces)
         /\ Alike(b \o t \o r, Taken(b, t, n, cut) \o Rest(t, n) \o r)
         /\ Len(Taken(b, t, n, cut)) \in Nat
         /\ Len(Taken(b, t, n, cut)) <= Len(Taken(b, t, n, cut) \o Rest(t, n) \o r)
         /\ \A k \in 1..Len(Taken(b, t, n, cut)) :
               (Taken(b, t, n, cut) \o Rest(t, n) \o r)[k] = Taken(b, t, n, cut)[k]
         /\ \A k \in 1..Len(Rest(t, n)) : n + k \in 1..Len(t) /\ Rest(t, n)[k] = t[n + k]
  <1> DEFINE nb == Taken(b, t, n, cut)
             nt == Rest(t, n)
  <1>1. /\ {Len(b), Len(t), Len(r)} \subseteq Nat /\ n \in Nat
        /\ Len(b \o t \o r) = Len(b) + Len(t) + Len(r)
        /\ \A k \in 1..(Len(b) + Len(t) + Len(r)) :
              (b \o t \o r)[k] = IF k <= Len(b) THEN b[k]
                                 ELSE IF k <= Len(b) + Len(t) THEN t[k - Len(b)]
                                 ELSE r[k - Len(b) - Len(t)]
    BY PiecesJoined
  <1>2. \A k \in 1..Len(t) : t[k] \in Pieces
    BY ElementOfSeq
  <1> DEFINE c == SubSeq(t, 1, n)
             d == Decoded(c, cut)
  <1>0. nb = b \o d /\ nt = SubSeq(t, n + 1, Len(t))
    BY DEF Taken, Rest
  <1> HIDE DEF nb, nt
  <1>3. c \in Seq(Pieces) /\ Len(c) = n /\ \A k \in 1..n : c[k] = t[k] /\ c[k] \in Pieces
    <2>1. /\ c \in Seq(Pieces) /\ Len(c) = IF 1 <= n THEN n - 1 + 1 ELSE 0
          /\ \A k \in 1..(n - 1 + 1) : c[k] = t[1 + k - 1]
      BY <1>1, <1>2, SubSeqProperties
    <2> HIDE DEF c
    <2>2. Len(c) = n
      BY <1>1, <2>1
    <2> QED
      BY <1>1, <1>2, <2>1, <2>2
  <1>4. /\ nt \in Seq(Pieces) /\ Len(nt) = Len(t) - n
        /\ \A k \in 1..(Len(t) - n) : nt[k] = t[n + k]
    <2>1. /\ nt \in Seq(Pieces)
          /\ Len(nt) = IF n + 1 <= Len(t) THEN Len(t) - (n + 1) + 1 ELSE 0
          /\ \A k \in 1..(Len(t) - (n + 1) + 1) : nt[k] = t[(n + 1) + k - 1]
      <3>1. \A k \in (n + 1)..Len(t) : t[k] \in Pieces
        BY <1>1, <1>2
      <3>2. n + 1 \in Int /\ Len(t) \in Int
        BY <1>1
      <3> QED
        BY <1>0, <3>1, <3>2, SubSeqProperties
    <2> QED
      BY <1>1, <2>1
  <1> HIDE DEF c
  <1>5. /\ d \in Seq(Pieces) /\ Len(d) = n
        /\ \A k \in 1..n : d[k].of = t[k].of /\ Offset(d[k]) = Offset(t[k])
    <2>1. DOMAIN c = 1..n
      BY <1>3, LenProperties
    <2>2. d = [k \in 1..n |-> IF cut /\ k = n /\ c[k].kind = "line"
                              THEN Garbled(c[k].of, c[k].n) ELSE c[k]]
      BY <1>3, <2>1 DEF Decoded
    <2> HIDE DEF d
    <2>3. ASSUME NEW k \in 1..n
          PROVE  d[k] \in Pieces /\ d[k].of = t[k].of /\ Offset(d[k]) = Offset(t[k])
      <3>1. c[k] = t[k] /\ c[k] \in Pieces
        BY <1>3
      <3>2. CASE cut /\ k = n /\ c[k].kind = "line"
        <4>1. d[k] = Garbled(c[k].of, c[k].n)
          BY <2>2, <3>2
        <4>2. Garbled(c[k].of, c[k].n) = [of |-> c[k].of, kind |-> "garbled", n |-> c[k].n]
          BY DEF Garbled, Piece
        <4>3. c[k].of \in Ids /\ c[k].n \in 0..(Lines + 1)
          BY <3>1 DEF Pieces
        <4>4. d[k] \in Pieces
          BY <4>1, <4>2, <4>3 DEF Pieces
        <4>5. Offset(d[k]) = c[k].n /\ Offset(c[k]) = c[k].n
          BY <3>2, <4>1, <4>2 DEF Offset
        <4> QED
          BY <3>1, <4>1, <4>2, <4>4, <4>5
      <3>3. CASE ~(cut /\ k = n /\ c[k].kind = "line")
        BY <2>2, <3>1, <3>3
      <3> QED
        BY <3>2, <3>3
    <2>4. d \in Seq(Pieces) /\ Len(d) = n
      <3>1. d = [k \in 1..n |-> d[k]]
        BY <2>2
      <3>2. \A k \in 1..n : d[k] \in Pieces
        BY <2>3
      <3>3. [k \in 1..n |-> d[k]] \in Seq(Pieces) /\ Len([k \in 1..n |-> d[k]]) = n
        BY <1>1, <3>2
      <3> QED
        BY <3>1, <3>3
    <2> QED
      BY <2>3, <2>4
  <1> HIDE DEF d
  <1>6. /\ nb \in Seq(Pieces) /\ Len(nb) = Len(b) + n
        /\ \A k \in 1..(Len(b) + n) : nb[k] = IF k <= Len(b) THEN b[k] ELSE d[k - Len(b)]
    <2>1. nb = b \o d
      BY <1>0
    <2>2. d \in Seq(Pieces) /\ Len(d) = n
      BY <1>5
    <2>3. /\ b \o d \in Seq(Pieces) /\ Len(b \o d) = Len(b) + Len(d)
          /\ \A k \in 1..(Len(b) + Len(d)) : (b \o d)[k] = IF k <= Len(b) THEN b[k] ELSE d[k - Len(b)]
      BY <2>2, ConcatProperties
    <2> QED
      BY <2>1, <2>2, <2>3
  <1> DEFINE u == b \o t \o r
             v == nb \o nt \o r
  <1>7. /\ Len(v) = Len(nb) + Len(nt) + Len(r)
        /\ \A k \in 1..(Len(nb) + Len(nt) + Len(r)) :
              v[k] = IF k <= Len(nb) THEN nb[k]
                     ELSE IF k <= Len(nb) + Len(nt) THEN nt[k - Len(nb)]
                     ELSE r[k - Len(nb) - Len(nt)]
    <2>1. nb \in Seq(Pieces) /\ nt \in Seq(Pieces)
      BY <1>4, <1>6
    <2> QED
      BY <2>1, PiecesJoined
  <1>8. /\ Len(u) = Len(b) + Len(t) + Len(r)
        /\ \A k \in 1..(Len(b) + Len(t) + Len(r)) :
              u[k] = IF k <= Len(b) THEN b[k]
                     ELSE IF k <= Len(b) + Len(t) THEN t[k - Len(b)]
                     ELSE r[k - Len(b) - Len(t)]
    BY <1>1
  <1> HIDE DEF u, v
  <1>9. /\ {Len(b), Len(t), Len(r), n} \subseteq Nat /\ n >= 1 /\ n <= Len(t)
        /\ Len(nb) = Len(b) + n /\ Len(nt) = Len(t) - n
        /\ Len(v) = Len(b) + Len(t) + Len(r) /\ Len(u) = Len(b) + Len(t) + Len(r)
    <2>1. Len(nb) = Len(b) + n /\ Len(nt) = Len(t) - n
      BY <1>4, <1>6
    <2>2. Len(v) = Len(nb) + Len(nt) + Len(r) /\ Len(u) = Len(b) + Len(t) + Len(r)
      BY <1>7, <1>8
    <2>3. {Len(b), Len(t), Len(r), n} \subseteq Nat
      BY <1>1
    <2> QED
      BY <2>1, <2>2, <2>3
  <1>10. ASSUME NEW k \in 1..Len(u)
         PROVE  v[k].of = u[k].of /\ Offset(v[k]) = Offset(u[k])
    <2>0. k \in 1..(Len(b) + Len(t) + Len(r)) /\ k \in 1..(Len(nb) + Len(nt) + Len(r))
      BY <1>9
    <2>1. CASE k <= Len(b)
      <3>1. k <= Len(nb) /\ k \in 1..(Len(b) + n)
        BY <1>9, <2>0, <2>1
      <3>2. v[k] = b[k] /\ u[k] = b[k]
        BY <1>6, <1>7, <1>8, <2>0, <2>1, <3>1
      <3> QED
        BY <3>2
    <2>2. CASE ~(k <= Len(b)) /\ k <= Len(b) + n
      <3>1. /\ k <= Len(nb) /\ k \in 1..(Len(b) + n) /\ k <= Len(b) + Len(t) /\ k - Len(b) \in 1..n
        BY <1>9, <2>0, <2>2
      <3>2. v[k] = d[k - Len(b)] /\ u[k] = t[k - Len(b)]
        BY <1>6, <1>7, <1>8, <2>0, <2>2, <3>1
      <3> QED
        BY <1>5, <3>1, <3>2
    <2>3. CASE ~(k <= Len(b) + n) /\ k <= Len(b) + Len(t)
      <3>1. /\ ~(k <= Len(b)) /\ ~(k <= Len(nb)) /\ k <= Len(nb) + Len(nt)
            /\ k - Len(nb) \in 1..(Len(t) - n) /\ n + (k - Len(nb)) = k - Len(b)
        BY <1>9, <2>0, <2>3
      <3>2. v[k] = nt[k - Len(nb)] /\ u[k] = t[k - Len(b)]
        BY <1>7, <1>8, <2>0, <2>3, <3>1
      <3> QED
        BY <1>4, <3>1, <3>2
    <2>4. CASE ~(k <= Len(b) + Len(t))
      <3>1. /\ ~(k <= Len(b)) /\ ~(k <= Len(nb)) /\ ~(k <= Len(nb) + Len(nt))
            /\ k - Len(nb) - Len(nt) = k - Len(b) - Len(t)
        BY <1>9, <2>0, <2>4
      <3>2. v[k] = r[k - Len(nb) - Len(nt)] /\ u[k] = r[k - Len(b) - Len(t)]
        BY <1>7, <1>8, <2>0, <2>4, <3>1
      <3> QED
        BY <3>1, <3>2
    <2> QED
      BY <1>9, <2>0, <2>1, <2>2, <2>3, <2>4
  <1>11. Alike(u, v)
    <2>1. Len(v) = Len(u)
      BY <1>9
    <2> QED
      BY <1>10, <2>1 DEF Alike
  <1>12. Len(nb) \in Nat /\ Len(nb) <= Len(v) /\ \A k \in 1..Len(nb) : v[k] = nb[k]
    <2>1. Len(nb) \in Nat /\ Len(nt) \in Nat /\ Len(nb) <= Len(v)
      BY <1>9
    <2>2. \A k \in 1..Len(nb) : k \in 1..(Len(nb) + Len(nt) + Len(r)) /\ k <= Len(nb)
      BY <1>9
    <2> QED
      BY <1>7, <2>1, <2>2
  <1>13. \A k \in 1..Len(nt) : n + k \in 1..Len(t) /\ nt[k] = t[n + k]
    <2>1. \A k \in 1..Len(nt) : n + k \in 1..Len(t) /\ k \in 1..(Len(t) - n)
      BY <1>9
    <2> QED
      BY <1>4, <2>1
  <1> QED
    BY <1>4, <1>6, <1>11, <1>12, <1>13 DEF u, v, nb, nt

\* What handleStdout makes of the buffer.
Judges(i, s) ==
    LET frame == FrameOf(i, s)
    IN  CASE Len(s) > BufferLimit -> GivesUpCommand("limit")
          [] frame.kind = "malformed" -> GivesUpCommand("malformed")
          [] OTHER -> /\ Replies(i, frame)
                      /\ awaited' = IF frame = Unanswered THEN i ELSE Nothing
                      /\ UNCHANGED child

LEMMA JudgedWell ==
  ASSUME ShellTypeOK, AnswersAreOwn, awaited # Nothing, NEW s \in Seq(Pieces), NEW m \in Nat,
         FramedFrom(awaited, s, m), Judges(awaited, s)
  PROVE  /\ replies' \in [Ids -> Reply] /\ AnswersAreOwn' /\ awaited' \in {awaited, Nothing}
         /\ child' \in {"up", "terminating", "gone"}
  <1>1. awaited \in Ids /\ child \in {"up", "terminating", "gone"}
    BY DEF ShellTypeOK
  <1> DEFINE frame == FrameOf(awaited, s)
  <1>2. /\ frame \in Reply
        /\ frame.kind = "resolved" =>
              /\ Len(frame.stdout) = Lines
              /\ \A n \in 1..Lines : frame.stdout[n] \in {Line(awaited, n), Garbled(awaited, n)}
    BY <1>1, FrameIsOwn
  <1>3. \/ GivesUpCommand("limit") \/ GivesUpCommand("malformed")
        \/ (Replies(awaited, frame) /\ awaited' \in {awaited, Nothing} /\ child' = child)
    BY DEF Judges
  <1> HIDE DEF frame
  <1>4. ASSUME NEW why \in {"limit", "malformed"}, GivesUpCommand(why)
        PROVE  /\ replies' \in [Ids -> Reply] /\ AnswersAreOwn' /\ awaited' = Nothing
               /\ child' \in {"up", "terminating", "gone"}
    <2>1. /\ Replies(awaited, Rejected(why)) /\ awaited' = Nothing /\ child' \in {child, "terminating"}
      BY <1>4 DEF GivesUpCommand
    <2>2. why \in ReplyKinds \ {"resolved"}
      BY DEF ReplyKinds
    <2>3. Rejected(why) \in Reply /\ Rejected(why).kind # "resolved"
      BY <2>2, RejectedIsReply
    <2> QED
      BY <1>1, <2>1, <2>3, AnswersStayOwn
  <1>5. ASSUME Replies(awaited, frame), awaited' \in {awaited, Nothing}, child' = child
        PROVE  replies' \in [Ids -> Reply] /\ AnswersAreOwn'
    BY <1>1, <1>2, <1>5, AnswersStayOwn
  <1> QED
    BY <1>1, <1>3, <1>4, <1>5

LEMMA ChunkReceived ==
  ASSUME ShellInv, NEW n \in 1..Len(transit), NEW cut \in BOOLEAN, ReceivesChunk(n, cut)
  PROVE  ShellInv'
  <1>t. ShellTypeOK /\ IdsFit /\ AwaitedFits /\ AnswersAreOwn
    BY DEF ShellInv
  <1>1. buffer \in Seq(Pieces) /\ transit \in Seq(Pieces) /\ running \in Seq(Pieces)
    BY <1>t DEF ShellTypeOK
  <1> DEFINE nb == Taken(buffer, transit, n, cut)
             nt == Rest(transit, n)
  <1>2. transit' = nt /\ UNCHANGED <<executed, exited, stdin, running>>
    BY DEF ReceivesChunk, Rest
  <1>3. /\ nb \in Seq(Pieces) /\ nt \in Seq(Pieces)
        /\ Alike(buffer \o transit \o running, nb \o nt \o running)
        /\ Len(nb) \in Nat /\ Len(nb) <= Len(nb \o nt \o running)
        /\ \A k \in 1..Len(nb) : (nb \o nt \o running)[k] = nb[k]
        /\ \A k \in 1..Len(nt) : n + k \in 1..Len(transit) /\ nt[k] = transit[n + k]
    BY <1>1, ChunkMovesOn
  <1>4. awaited = Nothing => UNCHANGED <<awaited, replies, buffer, child>>
    BY DEF ReceivesChunk
  <1>5. awaited # Nothing => buffer' = nb /\ Judges(awaited, buffer')
    BY DEF ReceivesChunk, Judges, Taken
  <1> HIDE DEF nb, nt
  <1>6. IdsFit' \/ awaited' \notin {awaited, Nothing}
    <2>1. /\ \A k \in 1..Len(stdin) : stdin[k] <= executed
          /\ \A k \in 1..Len(transit) : transit[k].of <= executed
          /\ \A k \in 1..Len(running) : running[k].of <= executed
          /\ awaited # Nothing => awaited = executed
      BY <1>t DEF IdsFit
    <2>2. \A k \in 1..Len(nt) : nt[k].of <= executed
      BY <1>3, <2>1
    <2> QED
      BY <1>2, <2>1, <2>2 DEF IdsFit
  <1>7. CASE awaited = Nothing
    <2>1. ShellTypeOK'
      BY <1>2, <1>3, <1>4, <1>7, <1>t DEF ShellTypeOK
    <2>2. AwaitedFits' /\ AnswersAreOwn'
      BY <1>4, <1>7, <1>t DEF AwaitedFits, AnswersAreOwn
    <2> QED
      BY <1>4, <1>6, <1>7, <2>1, <2>2 DEF ShellInv
  <1>8. CASE awaited # Nothing
    <2>1. buffer' = nb /\ Judges(awaited, nb)
      BY <1>5, <1>8
    <2>2. \E m \in Nat : FramedFrom(awaited, nb, m)
      <3>1. Stream \in Seq(Pieces)
        BY <1>1, PiecesJoined DEF Stream
      <3>2. PICK m \in Nat : FramedFrom(awaited, Stream, m)
        BY <1>8, <1>t, <3>1, StreamFramed
      <3> DEFINE u == Stream
                 v == nb \o nt \o running
      <3>3. Alike(u, v) /\ FramedFrom(awaited, u, m)
        BY <1>3, <3>2 DEF Stream
      <3>4. Len(u) \in Nat
        BY <3>1, LenProperties
      <3>5. Len(nb) \in Nat /\ Len(nb) <= Len(v) /\ \A k \in 1..Len(nb) : v[k] = nb[k]
        BY <1>3
      <3> HIDE DEF u, v
      <3>6. ASSUME NEW k \in 1..Len(nb)
            PROVE  IF k <= m THEN nb[k].of # awaited
                   ELSE nb[k].of = awaited /\ Offset(nb[k]) = k - m - 1
        <4>1. k \in 1..Len(u) /\ v[k] = nb[k]
          BY <3>3, <3>4, <3>5 DEF Alike
        <4>2. nb[k].of = u[k].of /\ Offset(nb[k]) = Offset(u[k])
          BY <3>3, <4>1 DEF Alike
        <4>3. IF k <= m THEN u[k].of # awaited
              ELSE u[k].of = awaited /\ Offset(u[k]) = k - m - 1
          BY <3>3, <4>1 DEF FramedFrom
        <4> QED
          BY <4>2, <4>3
      <3>7. FramedFrom(awaited, nb, m)
        BY <3>6 DEF FramedFrom
      <3> QED
        BY <3>7
    <2>3. /\ replies' \in [Ids -> Reply] /\ AnswersAreOwn' /\ awaited' \in {awaited, Nothing}
          /\ child' \in {"up", "terminating", "gone"}
      BY <1>3, <1>8, <1>t, <2>1, <2>2, JudgedWell
    <2>4. ShellTypeOK'
      BY <1>2, <1>3, <1>t, <2>1, <2>3 DEF ShellTypeOK, Reply, ReplyKinds
    <2>5. AwaitedFits'
      <3>1. Alike(Stream, Stream')
        BY <1>2, <1>3, <2>1 DEF Stream
      <3> QED
        BY <1>2, <1>t, <2>3, <3>1, StaysFit
    <2> QED
      BY <1>6, <2>3, <2>4, <2>5 DEF ShellInv
  <1> QED
    BY <1>7, <1>8

LEMMA ShellSteps == ShellInv /\ [ShellNext]_shellvars => ShellInv'
  <1> SUFFICES ASSUME ShellInv, [ShellNext]_shellvars PROVE ShellInv'
    OBVIOUS
  <1>1. CASE Executes
    BY <1>1, NextCommand
  <1>2. CASE CommandTimesOut \/ ChildEnds \/ \E closed \in BOOLEAN : MarksExited(closed)
    BY <1>2, CommandGivenUp
  <1>3. CASE \E n \in 1..Len(transit), cut \in BOOLEAN : ReceivesChunk(n, cut)
    BY <1>3, ChunkReceived
  <1>4. CASE BeginsScript
    BY <1>4, ScriptBegins
  <1>5. CASE Prints
    BY <1>5, PiecePrinted
  <1>6. CASE UNCHANGED shellvars
    <2>1. /\ awaited' = awaited /\ executed' = executed /\ buffer' = buffer /\ stdin' = stdin
          /\ running' = running /\ transit' = transit /\ replies' = replies
          /\ exited' = exited /\ child' = child
      BY <1>6 DEF shellvars
    <2>2. exited \in BOOLEAN /\ child \in {"up", "terminating", "gone"}
      BY DEF ShellInv, ShellTypeOK
    <2> QED
      BY <2>1, <2>2, CommandEnds
  <1> QED
    BY <1>1, <1>2, <1>3, <1>4, <1>5, <1>6 DEF ShellNext

\* A command that is answered with an output gets the whole of its own and nothing of
\* another's, whatever an earlier command that was given up still prints.
THEOREM OutputsAreOwn == ShellSpec => []AnswersAreOwn
  <1>1. ShellInv => AnswersAreOwn
    BY DEF ShellInv
  <1> QED
    BY <1>1, ShellBegins, ShellSteps, PTL DEF ShellSpec
=============================================================================
