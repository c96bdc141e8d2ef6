----------------------------- MODULE MCFileLock -----------------------------
(***************************************************************************)
(* Small instances of FileLock.  Tokens are numbers so that NewToken picks *)
(* the same free one in equivalent states.  One process records its        *)
(* identity, one does not and has its pid reused, the others are as the    *)
(* configuration says; p3 runs on another host.                            *)
(***************************************************************************)
EXTENDS FileLock, TLC

CONSTANTS p1, p2, p3, p4

MCTokens == 1..9
NoTokenValue == 0

TwoHosts == [p \in Procs |-> IF p = p3 THEN "b" ELSE "a"]
OneHost == [p \in Procs |-> "a"]

\* Killed anywhere but between the creation of the recovery file and its owner record:
\* a recovery file without a token is left to "doctor --cleanup" on purpose.
WithTokenWritten == MainPcs \cup AbandonedPcs \cup (RecoveryPcs \ {"recWrite"})

\* Killed inside the work, or while inspecting the main lock under the recovery lock.
InWorkOrRecovery == {"work", "inspectRead"}
=============================================================================
