-------------------------- MODULE MCFileLockScenes --------------------------
(***************************************************************************)
(* Two scenes in one run: callers give up after a while, or nobody does.   *)
(***************************************************************************)
EXTENDS MCFileLock

VARIABLE scene

GivesUp(p) == pc[p] \in {"wait", "open"} /\ pc'[p] = "idle"

SceneInit == Init /\ scene \in {"hasty", "patient"}
SceneNext ==
    /\ Next /\ UNCHANGED scene
    /\ scene = "patient" => \A p \in Procs : ~GivesUp(p)
SceneSpec == SceneInit /\ [][SceneNext]_<<vars, scene>> /\ Fairness

\* A lock file whose owner died, in whatever state it left it, does not survive processes
\* that keep asking for the lock: reclaimStaleLock removes it.
DeadOwnerLeaves == scene = "patient" => DeadOwnerEvicted
=============================================================================
