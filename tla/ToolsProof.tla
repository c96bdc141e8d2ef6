----------------------------- MODULE ToolsProof -----------------------------
(***************************************************************************)
(* The ten protocols side by side: whichever is exercised, each of them    *)
(* behaves by its own specification, so what is proved of one of them      *)
(* holds of it next to the others.                                         *)
(***************************************************************************)
EXTENDS MCTools, ToolLocksProof, ToolRecordsProof, TracesProof

LEMMA EachBegins ==
  ToolsInit => /\ UpdateInit /\ ElectionInit /\ TunnelInit /\ TraceInit /\ ExplorerInit
               /\ ShellInit /\ TopologyInit /\ SamlInit /\ RecordInit /\ WatchInit
  BY DEF ToolsInit

LEMMA EachSteps ==
  [ToolsNext]_toolsvars =>
    /\ [UpdateNext]_updatevars /\ [ElectionNext]_electionvars /\ [TunnelNext]_tunnelvars
    /\ [TraceNext]_tracevars /\ [ExplorerNext]_explorervars /\ [ShellNext]_shellvars
    /\ [TopologyNext]_topologyvars /\ [SamlNext]_samlvars /\ [RecordNext]_recordvars
    /\ [WatchNext]_watchvars
  BY DEF ToolsNext, toolsvars

\* The protocols do not disturb each other: a behaviour of all of them is one of each.
THEOREM ToolsAreEach ==
  ToolsSpec => /\ UpdateSpec /\ ElectionSpec /\ TunnelSpec /\ TraceSpec /\ ExplorerSpec
               /\ ShellSpec /\ TopologySpec /\ SamlSpec /\ RecordSpec /\ WatchSpec
  BY EachBegins, EachSteps, PTL
  DEF ToolsSpec, UpdateSpec, ElectionSpec, TunnelSpec, TraceSpec, ExplorerSpec, ShellSpec,
      TopologySpec, SamlSpec, RecordSpec, WatchSpec

\* The state of the module that is exercised is of its type in every reachable state, for
\* every value of the constants of all ten.
THEOREM ToolsKeepTypes == ToolsSpec => []ToolsTypeOK
  <1>1. UpdateSpec => []UpdateTypeOK
    BY UpdateBegins, UpdateSteps, PTL DEF UpdateSpec, UpdateInv
  <1>2. ElectionSpec => []ElectionTypeOK
    BY ElectionBegins, ElectionSteps, PTL DEF ElectionSpec, ElectionInv
  <1>3. TunnelSpec => []TunnelTypeOK
    BY TunnelBegins, TunnelSteps, PTL DEF TunnelSpec, TunnelInv
  <1>4. ExplorerSpec => []ExplorerTypeOK
    BY ExplorerBegins, ExplorerSteps, PTL DEF ExplorerSpec, ExplorerInv
  <1>5. ShellSpec => []ShellTypeOK
    BY ShellBegins, ShellSteps, PTL DEF ShellSpec, ShellInv
  <1>6. TopologySpec => []TopologyTypeOK /\ (SamlSpec => []SamlTypeOK)
    BY CompletedSyncsAreWhole, MintsEndAccountedFor, PTL
  <1>7. RecordSpec => []RecordTypeOK
    BY RecordBegins, RecordSteps, PTL DEF RecordSpec, RecordInv
  <1>8. /\ UpdateTypeOK /\ ElectionTypeOK /\ TunnelTypeOK /\ TraceTypeOK /\ ExplorerTypeOK
        /\ ShellTypeOK /\ TopologyTypeOK /\ SamlTypeOK /\ RecordTypeOK /\ WatchTypeOK
        => ToolsTypeOK
    BY DEF ToolsTypeOK
  <1> QED
    BY ToolsAreEach, <1>1, <1>2, <1>3, <1>4, <1>5, <1>6, <1>7, <1>8, TraceKeepsTypes,
       WatchKeepsTypes, PTL
=============================================================================
