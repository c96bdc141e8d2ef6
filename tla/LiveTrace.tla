------------------------------ MODULE LiveTrace ------------------------------
(***************************************************************************)
(* LiveTraceSession of cf-live-trace (session.ts) and the hook it installs *)
(* in the traced application (runtime-source.ts).  start and stop are      *)
(* called by a user of the class at any time; a poll timer starts drains,  *)
(* one at a time.  Start, stop and a failing drain all end in the same     *)
(* teardown, stopRuntimeTrace, whose steps interleave.                     *)
(*                                                                         *)
(* Expressions sent over an inspector connection are run by the            *)
(* application one by one, in the order they were sent.  A request that is *)
(* given up after its timeout is run all the same, perhaps later.          *)
(***************************************************************************)
EXTENDS Naturals, Sequences, FiniteSets, SequencesExt, Arrays

CONSTANTS
    Starts,          \* the calls of start
    Stops,           \* the calls of stop
    MaxServed,       \* bound: requests the application serves
    QueueSize,       \* runtimeQueueSize
    MaxSent,         \* bound: drains given up and not yet run by the application, and the next
    BatchSize,       \* the events of one drain
    TimeoutLimit     \* DRAIN_TIMEOUT_RETRY_LIMIT

Drain == "drain"
Nobody == "nobody"

ASSUME LiveTraceAssumption ==
    /\ Starts \cap Stops = {} /\ {Drain, Nobody} \cap (Starts \cup Stops) = {}
    /\ {MaxServed, MaxSent, QueueSize, BatchSize, TimeoutLimit} \subseteq Nat \ {0}

VARIABLES
    trace,           \* state, and what its last event said of the hook
    stopRequested,   \* stopRequested
    act,             \* each start, stop and the drain: where it is
    handle,          \* tunnelHandle and inspectorClient: whose they are
    open,            \* the tunnels and connections that are open
    timers,          \* the poll timers that are running; pollTimer is the newest
    polling,         \* pollTimer is set
    drains,          \* pendingDrainAcknowledgement, consecutiveDrainTimeouts, the result at hand
    sent,            \* the expressions on their way to the application
    app,             \* the hook: its queue and its pending drain
    delivered,       \* history: the events handed to onEvents since the hook was installed
    forgotten,       \* history: the events removed as acknowledged since then
    strays           \* history: which of Strays have happened

tracevars == <<trace, stopRequested, act, handle, open, timers, polling, drains, sent, app,
               delivered, forgotten, strays>>

Actors == Starts \cup Stops \cup {Drain}
NoDrain == 0

Running == {"starting", "streaming", "stopping"}
Resting == {"idle", "done"}

\* late: a stop came while a start was connecting or installing, where it is not looked at,
\*       or a start while another start or a stop was in progress;
\* unsure: a hook was, or may have been, installed, and a state said it was not.
Strays == {"late", "unsure"}

Actor(pc) == [at |-> pc, on |-> Nobody, hook |-> FALSE, uninstall |-> FALSE,
              gone |-> FALSE]

AppHook == [hook : {"none", "off", "on"}, queue : Seq(1..MaxServed), served : 0..MaxServed,
            pending : Seq(1..MaxServed), id : Nat, next : Nat]

TraceInit ==
    /\ trace = [state |-> "idle", remains |-> FALSE]
    /\ stopRequested = FALSE
    /\ act = [a \in Actors |-> Actor("idle")]
    /\ handle = [tunnel |-> Nobody, client |-> Nobody]
    /\ open = [tunnels |-> {}, clients |-> {}]
    /\ timers = 0 /\ polling = FALSE
    /\ drains = [ack |-> NoDrain, timeouts |-> 0, id |-> NoDrain, events |-> <<>>]
    /\ sent = <<>>
    /\ app = [hook |-> "none", queue |-> <<>>, served |-> 0, pending |-> <<>>,
              id |-> NoDrain, next |-> 1]
    /\ delivered = <<>> /\ forgotten = {} /\ strays = {}

At(a, pc) == act[a].at = pc
Posts(state, remains) == trace' = [state |-> state, remains |-> remains]
Strayed(what) == strays' = (strays \cup what)
MayHook == IF app.hook # "none" \/ sent # <<>> THEN {"unsure"} ELSE {}
IsRunning == trace.state \in Running
InProgress(A) == {a \in A : act[a].at \notin Resting}

\* evaluate: the expression goes to the application over the connection of the session.
Evaluates(a, pc, what) ==
    /\ act' = [act EXCEPT ![a].at = pc, ![a].on = handle.client]
    /\ sent' = Append(sent, [by |-> a, what |-> what, ack |-> drains.ack, on |-> handle.client])

StopsPolling == timers' = (IF polling THEN timers - 1 ELSE timers) /\ polling' = FALSE

(***************************************************************************)
(* start: the session, SSH, the inspector and the tunnel.                  *)
(***************************************************************************)
StartsTrace(k) ==
    /\ At(k, "idle") /\ ~IsRunning
    /\ stopRequested' = FALSE
    /\ drains' = [drains EXCEPT !.ack = NoDrain]
    /\ act' = [act EXCEPT ![k].at = "preparing"]
    /\ Posts("starting", FALSE)
    /\ Strayed((IF InProgress(Starts \cup Stops) # {} THEN {"late"} ELSE {})
                 \cup MayHook)
    /\ UNCHANGED <<handle, open, timers, polling, sent, app, delivered, forgotten>>

\* prepareCfSession, ensureSshEnabled, tryStartNodeInspector: each is followed by a look at
\* stopRequested, and the last by the tunnel.
Prepares(k) ==
    /\ At(k, "preparing")
    /\ IF stopRequested
         THEN act' = [act EXCEPT ![k] = Actor("done")] /\ UNCHANGED trace
         ELSE act' = [act EXCEPT ![k].at = "tunnel"] /\ Posts("starting", FALSE)
    /\ UNCHANGED <<stopRequested, handle, open, timers, polling, drains, sent, app, delivered,
                   forgotten, strays>>

\* Mutant: a tunnel that opens after a stop is left open.
KeepsLateTunnel(k) ==
    /\ At(k, "tunnel") /\ stopRequested
    /\ act' = [act EXCEPT ![k] = Actor("done")]
    /\ open' = [open EXCEPT !.tunnels = @ \cup {k}]
    /\ UNCHANGED <<trace, stopRequested, handle, timers, polling, drains, sent, app, delivered,
                   forgotten, strays>>

\* stopLateTunnel: it is closed at once.
StopsLateTunnel(k) ==
    /\ At(k, "tunnel") /\ stopRequested
    /\ act' = [act EXCEPT ![k] = Actor("done")]
    /\ UNCHANGED <<trace, stopRequested, handle, open, timers, polling, drains, sent, app,
                   delivered, forgotten, strays>>

TunnelOpens(k) ==
    /\ At(k, "tunnel") /\ ~stopRequested
    /\ act' = [act EXCEPT ![k].at = "connecting"]
    /\ handle' = [handle EXCEPT !.tunnel = k]
    /\ open' = [open EXCEPT !.tunnels = @ \cup {k}]
    /\ UNCHANGED <<trace, stopRequested, timers, polling, drains, sent, app, delivered,
                   forgotten, strays>>

\* connectInspector; stopRequested is not looked at again.
Attaches(k) ==
    /\ At(k, "connecting")
    /\ handle' = [handle EXCEPT !.client = k]
    /\ open' = [open EXCEPT !.clients = @ \cup {k}]
    /\ act' = [act EXCEPT ![k].at = "installing", ![k].on = k]
    /\ sent' = Append(sent, [by |-> k, what |-> "install", ack |-> NoDrain, on |-> k])
    /\ Posts("starting", FALSE)
    /\ UNCHANGED <<stopRequested, timers, polling, drains, app, delivered, forgotten, strays>>

\* The answer to the installation; polling begins.
Streams(k) ==
    /\ At(k, "installed")
    /\ act' = [act EXCEPT ![k] = Actor("done")]
    /\ timers' = (IF polling THEN timers ELSE timers + 1) /\ polling' = TRUE
    /\ drains' = [drains EXCEPT !.timeouts = 0]
    /\ Posts("streaming", FALSE)
    /\ UNCHANGED <<stopRequested, handle, open, sent, app, delivered, forgotten, strays>>

StartFails(k) ==
    /\ \/ act[k].at \in {"preparing", "tunnel", "connecting"}
       \/ At(k, "installing")
    /\ act' = [act EXCEPT ![k] = Actor("awaiting")]
    /\ StopsPolling
    /\ Strayed(IF At(k, "installing") THEN {"unsure"} ELSE {})
    /\ UNCHANGED <<trace, stopRequested, handle, open, drains, sent, app, delivered, forgotten>>

(***************************************************************************)
(* The drain.                                                              *)
(***************************************************************************)
StartsDrain ==
    /\ timers > 0 /\ Len(sent) < MaxSent
    /\ act[Drain].at = "idle" /\ handle.client # Nobody /\ trace.state = "streaming"
    /\ Evaluates(Drain, "draining", "drain")
    /\ UNCHANGED <<trace, stopRequested, handle, open, timers, polling, drains, app, delivered,
                   forgotten, strays>>

\* publishDrainedEvents: acknowledged once onEvents has taken the events.
HandsOver ==
    /\ At(Drain, "drained")
    /\ delivered' = delivered \o drains.events
    /\ drains' = [drains EXCEPT !.ack = drains.id, !.id = NoDrain, !.events = <<>>]
    /\ act' = [act EXCEPT ![Drain] = Actor("idle")]
    /\ UNCHANGED <<trace, stopRequested, handle, open, timers, polling, sent, app, forgotten,
                   strays>>

\* stopRuntimeTrace without waiting: up to the stop expression, or to the end when another
\* teardown has taken the connection.
TearsDown(a, what) ==
    IF handle.client = Nobody
      THEN act' = [act EXCEPT ![a].at = "closing", ![a].on = Nobody, ![a].gone = TRUE]
           /\ UNCHANGED sent
      ELSE Evaluates(a, "unhooking", what)

\* The connection is lost, the handler throws, or it is the last of the timeouts in a row.
DrainFails ==
    /\ act[Drain].at \in {"draining", "drained"}
    /\ drains' = [drains EXCEPT !.timeouts = 0, !.id = NoDrain, !.events = <<>>]
    /\ StopsPolling
    /\ TearsDown(Drain, "disable")
    /\ UNCHANGED <<trace, stopRequested, handle, open, app, delivered, forgotten, strays>>

DrainTimesOut ==
    /\ At(Drain, "draining") /\ drains.timeouts + 1 < TimeoutLimit
    /\ drains' = [drains EXCEPT !.timeouts = @ + 1]
    /\ act' = [act EXCEPT ![Drain] = Actor("idle")]
    /\ UNCHANGED <<trace, stopRequested, handle, open, timers, polling, sent, app, delivered,
                   forgotten, strays>>

(***************************************************************************)
(* stop, and the teardown.                                                 *)
(***************************************************************************)
StopsIdle(k) ==
    /\ At(k, "idle") /\ ~IsRunning
    /\ stopRequested' = TRUE
    /\ act' = [act EXCEPT ![k] = Actor("done")]
    /\ \/ trace.state = "error" /\ UNCHANGED <<trace, strays>>      \* reason "error"
       \/ Posts("stopped", FALSE)
                /\ Strayed(MayHook)
    /\ UNCHANGED <<handle, open, timers, polling, drains, sent, app, delivered, forgotten>>

StopsTrace(k, uninstall) ==
    /\ At(k, "idle") /\ IsRunning
    /\ stopRequested' = TRUE
    /\ act' = [act EXCEPT ![k].at = "awaiting", ![k].uninstall = uninstall,
                          ![k].hook = handle.client # Nobody]
    /\ Posts("stopping", handle.client # Nobody)
    /\ StopsPolling
    /\ Strayed(IF \E s \in Starts : act[s].at \in {"connecting", "installing", "installed"}
                 THEN {"late"} ELSE {})
    /\ UNCHANGED <<handle, open, drains, sent, app, delivered, forgotten>>

\* The drain in progress has ended.
Unhooks(a) ==
    /\ At(a, "awaiting") /\ act[Drain].at = "idle"
    /\ TearsDown(a, IF act[a].uninstall THEN "uninstall" ELSE "disable")
    /\ drains' = [drains EXCEPT !.timeouts = 0]
    /\ Strayed(IF handle.client = Nobody THEN MayHook ELSE {})
    /\ UNCHANGED <<trace, stopRequested, handle, open, timers, polling, app, delivered,
                   forgotten>>

\* Mutant: a hook that was only disabled is reported as gone.
TakesDisabledForGone(a, answered) ==
    /\ \/ answered /\ At(a, "unhooked")
       \/ ~answered /\ At(a, "unhooking")
    /\ act' = [act EXCEPT ![a].at = "closing", ![a].on = handle.client,
                          ![a].gone = answered]
    /\ handle' = [handle EXCEPT !.client = Nobody]
    /\ UNCHANGED <<trace, stopRequested, open, timers, polling, drains, sent, app, delivered,
                   forgotten, strays>>

\* The stop expression was answered, or given up; closeInspectorClient follows.
LeavesHook(a, answered) ==
    /\ \/ answered /\ At(a, "unhooked")
       \/ ~answered /\ At(a, "unhooking")
    /\ act' = [act EXCEPT ![a].at = "closing", ![a].on = handle.client,
                          ![a].gone = answered /\ act[a].uninstall]
    /\ handle' = [handle EXCEPT !.client = Nobody]
    /\ UNCHANGED <<trace, stopRequested, open, timers, polling, drains, sent, app, delivered,
                   forgotten, strays>>

\* The state that ends a start, a stop and a drain.
PostsEnd(a) ==
    \/ a \in Starts /\ stopRequested /\ UNCHANGED trace
    \/ a \in Starts /\ ~stopRequested /\ Posts("error", FALSE)
    \/ a \in Stops /\ Posts("stopped", act[a].hook /\ ~act[a].gone)
    \/ a = Drain /\ Posts("error", TRUE)

\* client.close() is over; stopTunnel, and the last state.
Closes(a) ==
    /\ At(a, "closing")
    /\ open' = [clients |-> open.clients \ {act[a].on},
                tunnels |-> open.tunnels \ {handle.tunnel}]
    /\ handle' = [handle EXCEPT !.tunnel = Nobody]
    /\ PostsEnd(a)
    /\ act' = [act EXCEPT ![a] = Actor(IF a = Drain THEN "idle" ELSE "done")]
    /\ UNCHANGED <<stopRequested, timers, polling, drains, sent, app, delivered, forgotten,
                   strays>>

(***************************************************************************)
(* The application: the hook observes requests and runs expressions.       *)
(***************************************************************************)
Serves ==
    /\ app.served < MaxServed
    /\ app' = [app EXCEPT !.served = @ + 1,
                 !.queue = IF app.hook # "on" THEN @
                           ELSE Append(IF Len(@) >= QueueSize THEN Tail(@) ELSE @,
                                       app.served + 1)]
    /\ UNCHANGED <<trace, stopRequested, act, handle, open, timers, polling, drains, sent,
                   delivered, forgotten, strays>>

\* Mutant: any acknowledgement releases the pending drain.
AcknowledgesAnything(ack) == ack # NoDrain /\ app.id # NoDrain

\* acknowledgeDrain: the drain acknowledged is the pending one.
Acknowledges(ack) == app.id # NoDrain /\ ack = app.id

\* drainEvents, in a hook that is installed or was only disabled.
Drained(ack) ==
    LET kept == IF Acknowledges(ack) THEN Filtered(app.queue, ToSet(app.pending)) ELSE app.queue
        batch == SubSeq(kept, 1, IF Len(kept) < BatchSize THEN Len(kept) ELSE BatchSize)
    IN  IF app.id # NoDrain /\ ~Acknowledges(ack) THEN app
        ELSE IF batch = <<>> THEN [app EXCEPT !.queue = kept, !.id = NoDrain, !.pending = <<>>]
        ELSE [app EXCEPT !.queue = kept, !.pending = batch, !.id = app.next, !.next = @ + 1]

Hooked(what, ack) ==
    CASE what = "install" -> [app EXCEPT !.hook = "on", !.queue = <<>>, !.pending = <<>>,
                                         !.id = NoDrain, !.next = 1]
      [] what = "uninstall" -> [app EXCEPT !.hook = "none", !.queue = <<>>, !.pending = <<>>,
                                           !.id = NoDrain]
      [] what = "disable" -> [app EXCEPT !.hook = IF @ = "none" THEN "none" ELSE "off"]
      [] what = "drain" -> Drained(ack)

\* The one that waits for an answer hears it, unless its connection was closed meanwhile.
Hears(r) ==
    /\ r.on \in open.clients
    /\ act[r.by].at \in {"installing", "draining", "unhooking"} /\ act[r.by].on = r.on
    /\ ~\E i \in 2..Len(sent) : sent[i].by = r.by
    /\ act' = [act EXCEPT ![r.by].at =
                 CASE @ = "installing" -> "installed" [] @ = "draining" -> "drained"
                   [] @ = "unhooking" -> "unhooked"]

AppRuns ==
    /\ sent # <<>>
    /\ LET r == Head(sent) IN
       /\ app' = Hooked(r.what, r.ack)
       /\ \/ Hears(r)
             /\ drains' = IF r.what = "drain"
                            THEN [drains EXCEPT !.timeouts = 0, !.id = app'.id, !.events = app'.pending]
                            ELSE drains
          \/ UNCHANGED <<act, drains>>      \* the answer comes too late
       /\ IF r.what = "install" THEN delivered' = <<>> /\ forgotten' = {}
          ELSE /\ forgotten' = forgotten \cup
                     (IF r.what = "drain" /\ Acknowledges(r.ack) THEN ToSet(app.pending) ELSE {})
               /\ UNCHANGED delivered
    /\ sent' = Tail(sent)
    /\ UNCHANGED <<trace, stopRequested, handle, open, timers, polling, strays>>

\* An expression sent over a connection that was closed may be lost.
Vanishes ==
    /\ sent # <<>> /\ Head(sent).on \notin open.clients
    /\ sent' = Tail(sent)
    /\ UNCHANGED <<trace, stopRequested, act, handle, open, timers, polling, drains, app,
                   delivered, forgotten, strays>>

TraceNext ==
    \/ \E k \in Starts :
         \/ StartsTrace(k) \/ Prepares(k) \/ StopsLateTunnel(k) \/ TunnelOpens(k)
         \/ Attaches(k) \/ Streams(k) \/ StartFails(k)
    \/ StartsDrain \/ HandsOver \/ DrainFails \/ DrainTimesOut
    \/ \E k \in Stops : StopsIdle(k) \/ \E uninstall \in BOOLEAN : StopsTrace(k, uninstall)
    \/ \E a \in Starts \cup Stops : Unhooks(a)
    \/ \E a \in Actors : (\E answered \in BOOLEAN : LeavesHook(a, answered)) \/ Closes(a)
    \/ Serves \/ AppRuns \/ Vanishes

TraceSpec == TraceInit /\ [][TraceNext]_tracevars

-----------------------------------------------------------------------------
TraceTypeOK ==
    /\ trace \in [state : Running \cup {"idle", "stopped", "error"}, remains : BOOLEAN]
    /\ stopRequested \in BOOLEAN /\ polling \in BOOLEAN
    /\ handle \in [tunnel : Starts \cup {Nobody}, client : Starts \cup {Nobody}]
    /\ open \in [tunnels : SUBSET Starts, clients : SUBSET Starts]
    /\ timers \in Nat
    /\ app \in AppHook
    /\ delivered \in Seq(1..MaxServed) /\ forgotten \subseteq 1..MaxServed
    /\ strays \subseteq Strays

\* "Poll a bounded in-process queue with acknowledgement-based retries" (README.md:209):
\* however many drains time out and are repeated, an event leaves the queue as acknowledged
\* only when onEvents has had it, and onEvents gets each event once and in order.
DeliveredOnceInOrder ==
    "late" \notin strays =>
        /\ forgotten \subseteq ToSet(delivered)
        /\ \A i, j \in DOMAIN delivered : i < j => delivered[i] < delivered[j]

\* "close the tunnel on exit" (README.md:210): when nothing is in progress and the session
\* is stopped or has failed, it holds no tunnel, no connection and no timer.
RestsClosed ==
    ("late" \notin strays /\ InProgress(Actors) = {} /\ ~IsRunning)
        => open = [tunnels |-> {}, clients |-> {}] /\ timers = 0

\* "the runtime hook can remain disabled or installed until the app process restarts.
\* Progress events report this state" (README.md:223), except where the code says otherwise
\* without having looked: an installation that failed, a stop after an error, a stop whose
\* connection a failing drain has closed.
HookIsReported ==
    (strays = {} /\ InProgress(Actors) = {} /\ trace.state \in {"stopped", "error"})
        => app.hook = "none" \/ trace.remains
=============================================================================
