---------------------------- MODULE FunctionTrace ----------------------------
(***************************************************************************)
(* cf-function-trace "record": a tunnel, an inspector session through it   *)
(* and a controller that arms a breakpoint, steps the paused application   *)
(* and disarms it again; and the process guard, which releases the three   *)
(* when the process is to exit at once.  The application runs the          *)
(* session's commands in the order in which they were sent, those included *)
(* that their sender has given up.  (The depth of async stacks is set and  *)
(* reset like the exception pauses, and holds nothing up.)                 *)
(***************************************************************************)
EXTENDS Naturals, Sequences

CONSTANTS
    MaxSteps,        \* --max-steps
    MaxSkips         \* bound: pauses of other activations that are skipped

ASSUME RecordAssumption == MaxSteps \in Nat /\ MaxSkips \in Nat

VARIABLES
    recordAt,        \* where the command is
    answer,          \* what has become of the request it waits for
    undo,            \* ControllerState: what the controller has to undo
    spent,           \* the steps taken, the foreign pauses skipped
    buffered,        \* a pause waits in the session's buffer
    wire,            \* the requests that the application has not run
    target,          \* the debugger of the application
    link,            \* the tunnel process, and the connection to the inspector
    guarded,         \* what is registered with the guard
    emergency,       \* runCleanup: where it is, and what it found registered
    signalled,       \* a first SIGINT or SIGTERM has come
    failings         \* history: what could not be released, or was not known

recordvars == <<recordAt, answer, undo, spent, buffered, wire, target, link, guarded,
                emergency, signalled, failings>>
outside == <<guarded, emergency, signalled>>

\* The points at which the main flow sends a request, and what it sends there.
Request == [setBreakpoint |-> "setBreakpoint", removeBreakpoint |-> "removeBreakpoint",
            enableExceptions |-> "exceptionsOn", step |-> "step", skip |-> "resume",
            cleanExceptions |-> "exceptionsOff", cleanBreakpoint |-> "removeBreakpoint",
            cleanPause |-> "resume", dispose |-> "disable"]
Abortable == {"setBreakpoint", "removeBreakpoint", "enableExceptions", "step"}
CleanUps == {"cleanExceptions", "cleanBreakpoint", "cleanPause"}
TraceOps == Abortable \cup {"skip"}
RecordPcs == DOMAIN Request \cup {"open", "opening", "connect", "plan", "await", "capture",
                "awaitStep", "recorded", "closeTunnel", "settled", "exited"}
Guardable == {"controller", "session", "tunnel"}

Idle == [breakpoint |-> FALSE, exceptions |-> FALSE, paused |-> FALSE, stepping |-> FALSE]

RecordInit ==
    /\ recordAt = "open" /\ answer = "none"
    /\ undo = {} /\ spent = [steps |-> 0, skips |-> 0] /\ buffered = FALSE
    /\ wire = <<>> /\ target = Idle
    /\ link = [tunnel |-> "none", client |-> "none"]
    /\ guarded = {} /\ emergency = [at |-> "off", of |-> {}]
    /\ signalled = FALSE /\ failings = {}

Record(from, to) == recordAt = from /\ recordAt' = to
Connected == link.client = "open"
Tunnel(state) == link' = [link EXCEPT !.tunnel = state]

\* The connection ends with the tunnel: the inspector forgets the session and what it set.
TunnelIsClosed ==
    /\ link' = [tunnel |-> "closed", client |-> IF Connected THEN "closed" ELSE link.client]
    /\ wire' = <<>> /\ target' = Idle
    /\ answer' = IF answer = "pending" THEN "error" ELSE answer

\* client.dispose
ClosesConnection(requests) ==
    /\ link' = [link EXCEPT !.client = IF Connected THEN "closed" ELSE @]
    /\ wire' = IF Connected THEN Append(requests, [op |-> "close", by |-> "nobody"]) ELSE requests

GivenUpBy(who) == [i \in DOMAIN wire |-> IF wire[i].by = who THEN [wire[i] EXCEPT !.by = "nobody"]
                                                            ELSE wire[i]]

(***************************************************************************)
(* withTraceSession: each resource is registered when it is there, and     *)
(* unregistered when all are released.  startDebugger is cf-debugger's: it *)
(* removes the tunnel of a failed or aborted start, or reports that it     *)
(* cannot.                                                                 *)
(***************************************************************************)
SpawnsTunnel ==
    /\ ~signalled
    /\ Record("open", "opening") /\ Tunnel("up")
    /\ UNCHANGED <<answer, undo, spent, buffered, wire, target, outside, failings>>

TunnelIsReady ==
    /\ Record("opening", "connect")
    /\ guarded' = guarded \cup {"tunnel"}
    /\ UNCHANGED <<answer, undo, spent, buffered, wire, target, link, emergency, signalled,
                   failings>>

OpeningFails ==
    /\ \/ Record("open", "settled") /\ UNCHANGED <<link, failings>>
       \/ Record("opening", "settled") /\ Tunnel("closed") /\ UNCHANGED failings
       \/ Record("opening", "settled") /\ UNCHANGED link /\ failings' = failings \cup {"tunnel"}
    /\ UNCHANGED <<answer, undo, spent, buffered, wire, target, outside>>

Connects ==
    /\ ~signalled /\ link.tunnel = "up"
    /\ Record("connect", "plan")
    /\ link' = [link EXCEPT !.client = "open"]
    /\ guarded' = guarded \cup {"session"}
    /\ UNCHANGED <<answer, undo, spent, buffered, wire, target, emergency, signalled, failings>>

ConnectFails ==
    /\ Record("connect", "closeTunnel")
    /\ UNCHANGED <<answer, undo, spent, buffered, wire, target, link, outside, failings>>

\* The plan; then recordFunctionTrace registers before it arms anything.
StartsRecording ==
    /\ Record("plan", "setBreakpoint")
    /\ guarded' = guarded \cup {"controller"}
    /\ UNCHANGED <<answer, undo, spent, buffered, wire, target, link, emergency, signalled,
                   failings>>

\* "plan" ends here; or the plan fails, or the run directory cannot be made.
PlansOnly ==
    /\ Record("plan", "dispose")
    /\ UNCHANGED <<answer, undo, spent, buffered, wire, target, link, outside, failings>>

(***************************************************************************)
(* Requests.  What is to be undone is noted before exceptions are enabled, *)
(* but only after the breakpoint's id is known.                            *)
(***************************************************************************)
ToUndo(at) == CASE at = "cleanExceptions" -> "exceptions" [] at = "cleanBreakpoint" -> "breakpoint"
                [] at = "cleanPause" -> "pause"

\* Mutant: nothing is noted until the application has answered.
NotesNothing(at) == undo

Notes(at) == IF at = "enableExceptions" THEN undo \cup {"exceptions"} ELSE undo

Sends ==
    /\ recordAt \in DOMAIN Request /\ answer = "none"
    /\ recordAt \in Abortable => ~signalled
    /\ recordAt \in CleanUps => ToUndo(recordAt) \in undo
    /\ undo' = Notes(recordAt)
    /\ IF Connected
       THEN answer' = "pending" /\ wire' = Append(wire, [op |-> Request[recordAt], by |-> "main"])
       ELSE answer' = "error" /\ UNCHANGED wire
    /\ UNCHANGED <<recordAt, spent, buffered, target, link, outside, failings>>

\* The operation's share of the deadline or of the paused time is used up, the request
\* times out, or a signal aborts it.
GivesUpRequest ==
    /\ answer = "pending"
    /\ answer' = "error" /\ wire' = GivenUpBy("main")
    /\ failings' = IF recordAt = "setBreakpoint" THEN failings \cup {"unknown"} ELSE failings
    /\ UNCHANGED <<recordAt, undo, spent, buffered, target, link, outside>>

(***************************************************************************)
(* runTraceLoop                                                            *)
(***************************************************************************)
Succeeds(at, to, done) ==
    /\ answer = "ok" /\ answer' = "none"
    /\ Record(at, to) /\ undo' = done

TraceAdvances ==
    /\ \/ /\ \/ Succeeds("setBreakpoint", "await", undo \cup {"breakpoint"})
             \/ Succeeds("removeBreakpoint", "enableExceptions", undo \ {"breakpoint"})
             \/ \E to \in {"capture", "cleanExceptions"} : Succeeds("enableExceptions", to, undo)
          /\ UNCHANGED spent
       \/ /\ Succeeds("step", "awaitStep", undo \ {"pause"})
          /\ spent' = [spent EXCEPT !.steps = @ + 1]
       \/ /\ Succeeds("skip", "awaitStep", undo)
          /\ spent' = [spent EXCEPT !.skips = @ + 1]
    /\ UNCHANGED <<buffered, wire, target, link, outside, failings>>

\* waitForOwnedPause: the pause is this activation's, at the end of which it returns.
OwnsPause ==
    /\ buffered /\ buffered' = FALSE
    /\ \/ Record("await", "removeBreakpoint")
       \/ \E to \in {"capture", "step", "cleanExceptions"} :
            Record("awaitStep", to) /\ (to = "step" => spent.steps < MaxSteps)
    /\ undo' = undo \cup {"pause"}
    /\ UNCHANGED <<answer, spent, wire, target, link, outside, failings>>

\* isForeignPause: another activation's is resumed; one that cannot be judged is nobody's.
SkipsPause ==
    /\ buffered /\ buffered' = FALSE
    /\ \/ /\ spent.skips < MaxSkips
          /\ Record("awaitStep", "skip")
          /\ UNCHANGED failings
       \/ Record("awaitStep", "cleanExceptions") /\ failings' = failings \cup {"unjudged"}
    /\ UNCHANGED <<answer, undo, spent, wire, target, link, outside>>

Captures ==
    /\ \/ Record("capture", "step") /\ spent.steps < MaxSteps
       \/ Record("capture", "cleanExceptions")
    /\ UNCHANGED <<answer, undo, spent, buffered, wire, target, link, outside, failings>>

\* A request failed, or may not be sent any more (a signal, a deadline that has passed), or
\* the wait for a pause is over.
TraceFails ==
    /\ \/ recordAt \in TraceOps /\ answer = "error" /\ undo' = undo
       \/ recordAt \in Abortable /\ answer = "none" /\ undo' = Notes(recordAt)
       \/ recordAt \in {"await", "awaitStep"} /\ undo' = undo
    /\ recordAt' = "cleanExceptions" /\ answer' = "none"
    /\ UNCHANGED <<spent, buffered, wire, target, link, outside, failings>>

(***************************************************************************)
(* cleanupTrace, in this order, whatever of it fails; then the session and *)
(* the tunnel are released.                                                *)
(***************************************************************************)
AfterCleaning(at) == CASE at = "cleanExceptions" -> "cleanBreakpoint"
                       [] at = "cleanBreakpoint" -> "cleanPause" [] at = "cleanPause" -> "recorded"

CleansUp ==
    /\ recordAt \in CleanUps
    /\ answer \in {"ok", "error"} \/ ToUndo(recordAt) \notin undo
    /\ recordAt' = AfterCleaning(recordAt) /\ answer' = "none"
    /\ failings' = IF answer = "error" THEN failings \cup {"cleanUp"} ELSE failings
    /\ guarded' = IF recordAt = "cleanPause" THEN guarded \ {"controller"} ELSE guarded
    /\ UNCHANGED <<undo, spent, buffered, wire, target, link, emergency, signalled>>

EndsRun ==
    /\ Record("recorded", "dispose")
    /\ UNCHANGED <<answer, undo, spent, buffered, wire, target, link, outside, failings>>

DisposesSession ==
    /\ Record("dispose", "closeTunnel")
    /\ answer \in {"ok", "error"} /\ answer' = "none"
    /\ ClosesConnection(wire)
    /\ UNCHANGED <<undo, spent, buffered, target, outside, failings>>

ReleasesTunnel ==
    /\ Record("closeTunnel", "settled")
    /\ guarded' = {}
    /\ \/ TunnelIsClosed /\ UNCHANGED failings
       \/ /\ link.tunnel = "up"
          /\ failings' = failings \cup {"tunnel"}
          /\ UNCHANGED <<link, wire, target, answer>>
    /\ UNCHANGED <<undo, spent, buffered, emergency, signalled>>

ExitsSettled ==
    /\ emergency.at = "off" /\ Record("settled", "exited")
    /\ UNCHANGED <<answer, undo, spent, buffered, wire, target, link, outside, failings>>

(***************************************************************************)
(* The shutdown controller: a first signal aborts, and gives the main flow *)
(* ten seconds; a second one, the end of the ten seconds, or a fatal error *)
(* force the exit, which the main flow does not notice.                    *)
(***************************************************************************)
Signal ==
    /\ recordAt \notin {"settled", "exited"} /\ ~signalled
    /\ signalled' = TRUE
    /\ UNCHANGED <<recordAt, answer, undo, spent, buffered, wire, target, link, guarded,
                   emergency, failings>>

ForcesExit ==
    /\ recordAt \notin {"settled", "exited"} /\ emergency.at = "off"
    /\ emergency' = [at |-> "controller", of |-> guarded]
    /\ failings' = IF recordAt \in {"open", "opening"} THEN failings \cup {"opening"} ELSE failings
    /\ UNCHANGED <<recordAt, answer, undo, spent, buffered, wire, target, link, guarded, signalled>>

Emergency(from, to) == emergency.at = from /\ emergency' = [emergency EXCEPT !.at = to]
Posted(ops) == [i \in DOMAIN ops |-> [op |-> ops[i], by |-> "guard"]]
ToDisarm(what, op) == IF what \in undo THEN <<op>> ELSE <<>>
Disarming == ToDisarm("exceptions", "exceptionsOff") \o ToDisarm("breakpoint", "removeBreakpoint")
               \o ToDisarm("pause", "resume")
GuardIsAnswered == \A i \in DOMAIN wire : wire[i].by # "guard"

\* releaseAll: the last that was registered first, each for two seconds at most.  (The
\* requests of a cleanupTrace are sent together here.)
GuardSends ==
    /\ \/ /\ Emergency("controller", "disarming")
          /\ wire' = IF "controller" \in emergency.of /\ Connected
                     THEN wire \o Posted(Disarming) ELSE wire
       \/ /\ Emergency("session", "disabling")
          /\ wire' = IF "session" \in emergency.of /\ Connected
                     THEN wire \o Posted(<<"disable">>) ELSE wire
    /\ UNCHANGED <<recordAt, answer, undo, spent, buffered, target, link, guarded, signalled,
                   failings>>

GuardIsDone ==
    /\ GuardIsAnswered
    /\ \/ Emergency("disarming", "session") /\ UNCHANGED <<wire, link>>
       \/ /\ Emergency("disabling", "tunnel")
          /\ IF "session" \in emergency.of THEN ClosesConnection(wire) ELSE UNCHANGED <<wire, link>>
    /\ UNCHANGED <<recordAt, answer, undo, spent, buffered, target, guarded, signalled, failings>>

GuardIsCutOff ==
    /\ ~GuardIsAnswered
    /\ wire' = GivenUpBy("guard")
    /\ \/ Emergency("disarming", "session") /\ UNCHANGED failings
       \/ Emergency("disabling", "tunnel") /\ failings' = failings \cup {"session"}
    /\ UNCHANGED <<recordAt, answer, undo, spent, buffered, target, link, guarded, signalled>>

GuardReleasesTunnel ==
    /\ Emergency("tunnel", "exit")
    /\ IF "tunnel" \notin emergency.of
       THEN UNCHANGED <<link, wire, target, answer, failings>>
       ELSE \/ TunnelIsClosed /\ UNCHANGED failings
            \/ /\ link.tunnel = "up"
               /\ failings' = failings \cup {"tunnel"}
               /\ UNCHANGED <<link, wire, target, answer>>
    /\ UNCHANGED <<recordAt, undo, spent, buffered, guarded, signalled>>

ExitsForced ==
    /\ emergency.at = "exit" /\ recordAt # "exited"
    /\ recordAt' = "exited"
    /\ UNCHANGED <<answer, undo, spent, buffered, wire, target, link, outside, failings>>

(***************************************************************************)
(* The application and the ssh process.                                    *)
(***************************************************************************)
TargetPauses ==
    /\ ~target.paused /\ (target.breakpoint \/ target.exceptions \/ target.stepping)
    /\ target' = [target EXCEPT !.paused = TRUE, !.stepping = FALSE]
    /\ buffered' = (Connected \/ buffered)
    /\ UNCHANGED <<recordAt, answer, undo, spent, wire, link, outside, failings>>

NeedsPause(op) == op \in {"step", "resume"}
After(op) == CASE op = "setBreakpoint" -> [target EXCEPT !.breakpoint = TRUE]
               [] op = "removeBreakpoint" -> [target EXCEPT !.breakpoint = FALSE]
               [] op = "exceptionsOn" -> [target EXCEPT !.exceptions = TRUE]
               [] op = "exceptionsOff" -> [target EXCEPT !.exceptions = FALSE]
               [] op = "step" -> [target EXCEPT !.paused = FALSE, !.stepping = TRUE]
               [] op = "resume" -> [target EXCEPT !.paused = FALSE]
               [] OTHER -> Idle

RunsRequest ==
    /\ wire # <<>> /\ wire' = Tail(wire)
    /\ LET op == Head(wire).op
           refused == NeedsPause(op) /\ ~target.paused
       IN /\ target' = IF refused THEN target ELSE After(op)
          /\ answer' = IF Head(wire).by # "main" THEN answer
                       ELSE IF refused THEN "error" ELSE "ok"
    /\ UNCHANGED <<recordAt, undo, spent, buffered, link, outside, failings>>

TunnelProcessEnds ==
    /\ link.tunnel = "up" /\ TunnelIsClosed
    /\ UNCHANGED <<recordAt, undo, spent, buffered, outside, failings>>

MainStep ==
    \/ SpawnsTunnel \/ TunnelIsReady \/ OpeningFails \/ Connects \/ ConnectFails
    \/ StartsRecording \/ PlansOnly \/ Sends \/ GivesUpRequest
    \/ TraceAdvances \/ OwnsPause \/ SkipsPause \/ Captures \/ TraceFails
    \/ CleansUp \/ EndsRun \/ DisposesSession \/ ReleasesTunnel \/ ExitsSettled

GuardStep ==
    \/ Signal \/ ForcesExit \/ GuardSends \/ GuardIsDone \/ GuardIsCutOff
    \/ GuardReleasesTunnel \/ ExitsForced

RecordNext == MainStep \/ GuardStep \/ TargetPauses \/ RunsRequest \/ TunnelProcessEnds

RecordSpec == RecordInit /\ [][RecordNext]_recordvars

----------------------------------------------------------------------------
\* The command, its requests, the application and the guard keep their types.
RecordTypeOK ==
    /\ recordAt \in RecordPcs /\ answer \in {"none", "pending", "ok", "error"}
    /\ undo \subseteq {"exceptions", "breakpoint", "pause"}
    /\ spent \in [steps : 0..MaxSteps, skips : 0..MaxSkips]
    /\ buffered \in BOOLEAN /\ signalled \in BOOLEAN
    /\ wire \in Seq([op : {Request[at] : at \in DOMAIN Request} \cup {"exceptionsOff", "close"},
                     by : {"main", "guard", "nobody"}])
    /\ target \in [breakpoint : BOOLEAN, exceptions : BOOLEAN, paused : BOOLEAN, stepping : BOOLEAN]
    /\ link \in [tunnel : {"none", "up", "closed"}, client : {"none", "open", "closed"}]
    /\ guarded \subseteq Guardable
    /\ emergency \in [at : {"off", "controller", "disarming", "session", "disabling", "tunnel",
                            "exit"}, of : SUBSET Guardable]
    /\ failings \subseteq {"unknown", "unjudged", "cleanUp", "opening", "session", "tunnel"}

\* When recordFunctionTrace has ended without CLEANUP_FAILED, and the application has run
\* what was sent, in whatever order requests, answers and signals came: exceptions do not
\* pause it, no breakpoint is set but one whose request was given up before its id was
\* known, and it is not paused but by a pause that the trace never came to own.
RecordedIsDisarmed ==
    recordAt = "recorded" /\ wire = <<>> /\ "cleanUp" \notin failings =>
        /\ ~target.exceptions
        /\ target.breakpoint => "unknown" \in failings
        /\ target.paused => buffered \/ "unjudged" \in failings

\* When the process has exited, also one that was forced to while it released the same
\* resources itself, the tunnel is closed, unless its release failed or the exit was forced
\* before it was registered; and the application is free of the session, unless neither
\* could be released.
ExitReleasesAll ==
    recordAt = "exited" =>
        /\ link.tunnel = "up" => failings \cap {"tunnel", "opening"} # {}
        /\ wire = <<>> /\ target # Idle =>
             link.tunnel = "up" /\ ("session" \in failings \/ "session" \notin emergency.of)

TraceLeavesNothing == RecordedIsDisarmed /\ ExitReleasesAll
=============================================================================
