------------------------------- MODULE MCTools -------------------------------
(***************************************************************************)
(* Ten small protocols of as many parts of the tools, checked side by      *)
(* side: in a behaviour one of them is exercised and the others rest.      *)
(***************************************************************************)
EXTENDS SelfUpdate, InspectorElection, HanaTunnel, LiveTrace, ExplorerSession, RemoteShell,
        TopologySync, SamlToggle, FunctionTrace, Watch, TLC

CONSTANTS a, b, c        \* processes; c is the odd one, a and b are alike

VARIABLE exercised

TwoOrgs == [x \in Clients |-> IF x = c THEN "o2" ELSE "o1"]
TwoAlike == Permutations({a, b})

ToolsInit ==
    /\ exercised \in {"update", "election", "tunnel", "trace", "explorer", "shell",
                     "topology", "saml", "record", "watch"}
    /\ UpdateInit /\ ElectionInit /\ TunnelInit /\ TraceInit /\ ExplorerInit /\ ShellInit
    /\ TopologyInit /\ SamlInit /\ RecordInit /\ WatchInit
    /\ exercised # "update" => published = 1
    /\ exercised # "explorer" => ~jammed
    /\ exercised # "topology" => runtime = NoState
    /\ exercised # "saml" => wanted.saml
    /\ exercised # "watch" => watch.of = "metrics"

ToolsNext ==
    \/ /\ exercised = "update" /\ UpdateNext
       /\ UNCHANGED <<exercised, electionvars, tunnelvars, tracevars, explorervars, shellvars,
                      topologyvars, samlvars, recordvars, watchvars>>
    \/ /\ exercised = "election" /\ ElectionNext
       /\ UNCHANGED <<exercised, updatevars, tunnelvars, tracevars, explorervars, shellvars,
                      topologyvars, samlvars, recordvars, watchvars>>
    \/ /\ exercised = "tunnel" /\ TunnelNext
       /\ UNCHANGED <<exercised, updatevars, electionvars, tracevars, explorervars, shellvars,
                      topologyvars, samlvars, recordvars, watchvars>>
    \/ /\ exercised = "trace" /\ TraceNext
       /\ UNCHANGED <<exercised, updatevars, electionvars, tunnelvars, explorervars, shellvars,
                      topologyvars, samlvars, recordvars, watchvars>>
    \/ /\ exercised = "explorer" /\ ExplorerNext
       /\ UNCHANGED <<exercised, updatevars, electionvars, tunnelvars, tracevars, shellvars,
                      topologyvars, samlvars, recordvars, watchvars>>
    \/ /\ exercised = "shell" /\ ShellNext
       /\ UNCHANGED <<exercised, updatevars, electionvars, tunnelvars, tracevars, explorervars,
                      topologyvars, samlvars, recordvars, watchvars>>
    \/ /\ exercised = "topology" /\ TopologyNext
       /\ UNCHANGED <<exercised, updatevars, electionvars, tunnelvars, tracevars, explorervars,
                      shellvars, samlvars, recordvars, watchvars>>
    \/ /\ exercised = "saml" /\ SamlNext
       /\ UNCHANGED <<exercised, updatevars, electionvars, tunnelvars, tracevars, explorervars,
                      shellvars, topologyvars, recordvars, watchvars>>
    \/ /\ exercised = "record" /\ RecordNext
       /\ UNCHANGED <<exercised, updatevars, electionvars, tunnelvars, tracevars, explorervars,
                      shellvars, topologyvars, samlvars, watchvars>>
    \/ /\ exercised = "watch" /\ WatchNext
       /\ UNCHANGED <<exercised, updatevars, electionvars, tunnelvars, tracevars, explorervars,
                      shellvars, topologyvars, samlvars, recordvars>>

toolsvars == <<exercised, updatevars, electionvars, tunnelvars, tracevars, explorervars,
               shellvars, topologyvars, samlvars, recordvars, watchvars>>

ToolsSpec == ToolsInit /\ [][ToolsNext]_toolsvars

\* The state of the module that is exercised is of its type in every reachable state.
ToolsTypeOK ==
    /\ exercised = "update" => UpdateTypeOK
    /\ exercised = "election" => ElectionTypeOK
    /\ exercised = "tunnel" => TunnelTypeOK
    /\ exercised = "trace" => TraceTypeOK
    /\ exercised = "explorer" => ExplorerTypeOK
    /\ exercised = "shell" => ShellTypeOK
    /\ exercised = "topology" => TopologyTypeOK
    /\ exercised = "saml" => SamlTypeOK
    /\ exercised = "record" => RecordTypeOK
    /\ exercised = "watch" => WatchTypeOK
=============================================================================
