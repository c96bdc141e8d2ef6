------------------------- MODULE MCDebuggerSession --------------------------
(***************************************************************************)
(* Small instances of DebuggerSession: one session that everything happens *)
(* to, and two start commands for the same target that compete for two     *)
(* ports, one of which may be held by the tunnel of a dead controller.     *)
(***************************************************************************)
EXTENDS DebuggerSession

CONSTANTS a, b, s1

OneTarget == [c \in Sessions |-> "app/web/0"]
OnePort == {20000}
TwoPorts == {20000, 20001}
MCNoPort == 0

Anywhere == ControllerPcs
AfterSpawn == {"recordPid"}
=============================================================================
