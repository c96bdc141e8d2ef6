--------------------------- MODULE ExclusiveLock ---------------------------
(***************************************************************************)
(* What withFileLock promises its callers: at most one live process is     *)
(* inside the work it protects, and a process that dies inside is no       *)
(* longer counted.  FileLock is shown to implement this.                   *)
(***************************************************************************)
CONSTANTS Procs,      \* process incarnations that share one saptools directory
          NoProc      \* stands for "nobody holds the lock"

VARIABLE holder       \* the process running its protected work, or NoProc

Init == holder = NoProc

Acquire(p) ==
    /\ holder = NoProc
    /\ holder' = p

\* The work returned or threw, or the process died in the middle of it.
Leave(p) ==
    /\ holder = p
    /\ holder' = NoProc

Next == \E p \in Procs : Acquire(p) \/ Leave(p)

Spec == Init /\ [][Next]_holder

============================================================================
