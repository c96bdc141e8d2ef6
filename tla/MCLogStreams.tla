---------------------------- MODULE MCLogStreams ----------------------------
(***************************************************************************)
(* Bounds for LogStreams and TailRuntime: one setActiveApps loop at a time, *)
(* as both command lines run it, beside the reconnect timers; driven by any *)
(* caller of the API, fetchSnapshot included, or by cf-tail without --save. *)
(* cf-tail has two chains of refreshes under one session, or one under two. *)
(***************************************************************************)
EXTENDS TailRuntime

MCInit == TailInit /\ (driver = "tail" => ~persists)
MCNext == TailNext /\ (driver = "tail" => version' + Chains' <= 3)
MCSpec == MCInit /\ [][MCNext]_tailvars
MCFairSpec == MCSpec /\ Fairness
=============================================================================
