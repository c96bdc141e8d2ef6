-------------------------- MODULE SessionRegistry --------------------------
(***************************************************************************)
(* What the session state of cf-debugger promises to everyone who reads    *)
(* it: a target and a local port are given to one session at a time, a     *)
(* session that was asked to stop before it was ready never becomes ready, *)
(* and one that has left the list never comes back to it.                  *)
(* DebuggerSession is shown to implement this.                             *)
(***************************************************************************)
CONSTANTS Sessions,    \* session ids
          Ports,       \* local ports
          NoPort,      \* the port of a session that is not listed
          Target       \* the CF process instance each session debugs

VARIABLES
    phase,       \* "none" (not listed), "starting" or "ready"
    localPort,   \* the port a listed session was given
    stopping,    \* the listed sessions that were asked to stop
    over         \* the sessions that were listed, or gave up before they were

registryVars == <<phase, localPort, stopping, over>>

Listed(c) == phase[c] # "none"

Init ==
    /\ phase = [c \in Sessions |-> "none"]
    /\ localPort = [c \in Sessions |-> NoPort]
    /\ stopping = {} /\ over = {}

Register(c, p) ==
    /\ ~Listed(c) /\ c \notin over
    /\ \A d \in Sessions : Listed(d) => Target[d] # Target[c] /\ localPort[d] # p
    /\ phase' = [phase EXCEPT ![c] = "starting"]
    /\ localPort' = [localPort EXCEPT ![c] = p]
    /\ UNCHANGED <<stopping, over>>

BecomeReady(c) ==
    /\ phase[c] = "starting"
    /\ c \notin stopping
    /\ phase' = [phase EXCEPT ![c] = "ready"]
    /\ UNCHANGED <<localPort, stopping, over>>

AskToStop(c) ==
    /\ Listed(c)
    /\ stopping' = stopping \cup {c}
    /\ UNCHANGED <<phase, localPort, over>>

\* A removal forgets one session, a prune every session it proved stale.
Forget(gone) ==
    /\ \A c \in gone : Listed(c)
    /\ phase' = [c \in Sessions |-> IF c \in gone THEN "none" ELSE phase[c]]
    /\ localPort' = [c \in Sessions |-> IF c \in gone THEN NoPort ELSE localPort[c]]
    /\ stopping' = stopping \ gone
    /\ over' = over \cup gone

GiveUp(c) ==
    /\ ~Listed(c)
    /\ over' = over \cup {c}
    /\ UNCHANGED <<phase, localPort, stopping>>

Next ==
    \/ \E c \in Sessions : \/ \E p \in Ports : Register(c, p)
                           \/ BecomeReady(c)
                           \/ AskToStop(c)
                           \/ GiveUp(c)
    \/ \E gone \in SUBSET Sessions : Forget(gone)

Spec == Init /\ [][Next]_registryVars

============================================================================
