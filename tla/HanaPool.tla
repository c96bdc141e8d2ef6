------------------------------ MODULE HanaPool ------------------------------
(* The connection pool of cf-hana (src/packages/cf-hana/src/pool.ts) and its *)
(* one entry point, withConnection.  A task is one call of withConnection:   *)
(* it borrows a connection, works, and gives it back.  A task opens at most  *)
(* one connection, so a connection is named after the task it was opened     *)
(* for.  JavaScript runs each piece of code between two awaits in one go:    *)
(* an action is such a piece.                                                *)
EXTENDS Integers, Sequences, FiniteSets

CONSTANTS
    Task,       \* calls of withConnection
    MaxSize,    \* pool.maxSize
    NoConn      \* no connection

ASSUME PoolAssumption ==
    /\ MaxSize \in Nat \ {0}
    /\ NoConn \notin Task
    /\ IsFiniteSet(Task)

VARIABLES
    idle,       \* the stack of idle connections, the latest released last
    busy,       \* the connections handed to a task
    waiters,    \* the tasks queued for a connection
    created,    \* how many connections the pool believes it owns
    draining,   \* drain has been called
    alive,      \* the driver connections whose isClosed is false
    pc,         \* what each task is doing
    held        \* the connection each task has in hand

vars == <<idle, busy, waiters, created, draining, alive, pc, held>>

Stages == {"new", "opening", "queued", "served", "working",
           "done", "refused", "unopened", "unserved"}

Opening == {t \in Task : pc[t] \in {"opening", "served"}}

Init ==
    /\ idle = <<>>
    /\ busy = {}
    /\ waiters = <<>>
    /\ created = 0
    /\ draining = FALSE
    /\ alive = {}
    /\ pc = [t \in Task |-> "new"]
    /\ held = [t \in Task |-> NoConn]

-----------------------------------------------------------------------------
(* takeIdleConnection pops until an entry is usable: closed entries and      *)
(* expired ones are dropped.  Entries below an expired one are older, hence  *)
(* expired too.  The result is the position of the entry it returns; 0 when  *)
(* it empties the stack.                                                     *)
Usable == {i \in 1..Len(idle) : idle[i] \in alive}
TakesUnchecked == {0, Len(idle)}    \* a takeIdleConnection that pops without a look
TakeIdle == {0} \cup {i \in Usable : \A j \in Usable : j <= i}
Dropped(i) == {idle[j] : j \in (i + 1)..Len(idle)}

(* A servePendingWaiters that counts the connection of the first only. *)
CountsOneServed(c, w, p) ==
    LET n == IF Len(w) < MaxSize - c THEN Len(w) ELSE MaxSize - c
        first == {w[i] : i \in 1..n}
    IN  /\ created' = IF n = 0 THEN c ELSE c + 1
        /\ waiters' = SubSeq(w, n + 1, Len(w))
        /\ pc' = [t \in Task |-> IF t \in first THEN "served" ELSE p[t]]

(* servePendingWaiters, with c connections counted and w queued: it opens    *)
(* one connection for each of the first tasks of the queue while the count   *)
(* stays below the maximum.  p is pc after what its caller did.              *)
Smaller(m, n) == IF m < n THEN m ELSE n
ServePendingWaiters(c, w, p) ==
    LET n == Smaller(Len(w), MaxSize - c)
        first == {w[i] : i \in 1..n}
    IN  /\ created' = c + n
        /\ waiters' = SubSeq(w, n + 1, Len(w))
        /\ pc' = [t \in Task |-> IF t \in first THEN "served" ELSE p[t]]

-----------------------------------------------------------------------------
(* acquire, up to its first await. *)
Refused(t) ==
    /\ pc[t] = "new"
    /\ draining
    /\ pc' = [pc EXCEPT ![t] = "refused"]
    /\ UNCHANGED <<idle, busy, waiters, created, draining, alive, held>>

Reuses(t) ==
    /\ pc[t] = "new"
    /\ ~draining
    /\ \E i \in TakeIdle \ {0} :
        /\ busy' = busy \cup {idle[i]}
        /\ held' = [held EXCEPT ![t] = idle[i]]
        /\ idle' = SubSeq(idle, 1, i - 1)
        /\ created' = created - (Len(idle) - i)
        /\ alive' = alive \ Dropped(i)
    /\ pc' = [pc EXCEPT ![t] = "working"]
    /\ UNCHANGED <<waiters, draining>>

FindsNoneIdle(t) ==
    /\ pc[t] = "new"
    /\ ~draining
    /\ idle' = <<>>
    /\ alive' = alive \ Dropped(0)
    /\ UNCHANGED <<busy, draining, held>>

(* An acquire that compares with the maximum one too far. *)
BeginsOpenAtMax(t) ==
    /\ FindsNoneIdle(t)
    /\ created - Len(idle) <= MaxSize
    /\ created' = created - Len(idle) + 1
    /\ pc' = [pc EXCEPT ![t] = "opening"]
    /\ UNCHANGED waiters

BeginsOpen(t) ==
    /\ FindsNoneIdle(t)
    /\ created - Len(idle) < MaxSize
    /\ created' = created - Len(idle) + 1
    /\ pc' = [pc EXCEPT ![t] = "opening"]
    /\ UNCHANGED waiters

Queues(t) ==
    /\ FindsNoneIdle(t)
    /\ created - Len(idle) >= MaxSize
    /\ created' = created - Len(idle)
    /\ waiters' = Append(waiters, t)
    /\ pc' = [pc EXCEPT ![t] = "queued"]

(* Connection.open settles: for openBusyConnection ("opening") and for       *)
(* servePendingWaiters ("served").  Only the latter serves the queue again   *)
(* when the open fails.                                                      *)
Opens(t) ==
    /\ pc[t] \in {"opening", "served"}
    /\ busy' = busy \cup {t}
    /\ alive' = alive \cup {t}
    /\ held' = [held EXCEPT ![t] = t]
    /\ pc' = [pc EXCEPT ![t] = "working"]
    /\ UNCHANGED <<idle, waiters, created, draining>>

OpenFails(t) ==
    /\ pc[t] = "opening"
    /\ created' = created - 1
    /\ pc' = [pc EXCEPT ![t] = "unopened"]
    /\ UNCHANGED <<idle, busy, waiters, draining, alive, held>>

(* The failed open of a queued task that serves nobody else. *)
ServingFailsAlone(t) ==
    /\ pc[t] = "served"
    /\ created' = created - 1
    /\ pc' = [pc EXCEPT ![t] = "unserved"]
    /\ UNCHANGED <<idle, busy, waiters, draining, alive, held>>

ServingFails(t) ==
    /\ pc[t] = "served"
    /\ ServePendingWaiters(created - 1, waiters, [pc EXCEPT ![t] = "unserved"])
    /\ UNCHANGED <<idle, busy, draining, alive, held>>

-----------------------------------------------------------------------------
(* The work ends, or throws, and withConnection calls release. *)
GivesBack(t) ==
    /\ pc[t] = "working"
    /\ held[t] \in busy

ReleasesClosed(t) ==
    /\ GivesBack(t)
    /\ held[t] \notin alive
    /\ busy' = busy \ {held[t]}
    /\ held' = [held EXCEPT ![t] = NoConn]
    /\ ServePendingWaiters(created - 1, waiters, [pc EXCEPT ![t] = "done"])
    /\ UNCHANGED <<idle, draining, alive>>

HandsOver(t) ==
    /\ GivesBack(t)
    /\ held[t] \in alive
    /\ waiters # <<>>
    /\ LET next == Head(waiters)
       IN  /\ held' = [held EXCEPT ![t] = NoConn, ![next] = held[t]]
           /\ pc' = [pc EXCEPT ![t] = "done", ![next] = "working"]
    /\ waiters' = Tail(waiters)
    /\ UNCHANGED <<idle, busy, created, draining, alive>>

ClosesOnRelease(t) ==
    /\ GivesBack(t)
    /\ held[t] \in alive
    /\ waiters = <<>>
    /\ draining
    /\ busy' = busy \ {held[t]}
    /\ created' = created - 1
    /\ alive' = alive \ {held[t]}
    /\ held' = [held EXCEPT ![t] = NoConn]
    /\ pc' = [pc EXCEPT ![t] = "done"]
    /\ UNCHANGED <<idle, waiters, draining>>

KeepsIdle(t) ==
    /\ GivesBack(t)
    /\ held[t] \in alive
    /\ waiters = <<>>
    /\ ~draining
    /\ busy' = busy \ {held[t]}
    /\ idle' = Append(idle, held[t])
    /\ held' = [held EXCEPT ![t] = NoConn]
    /\ pc' = [pc EXCEPT ![t] = "done"]
    /\ UNCHANGED <<waiters, created, draining, alive>>

(* drain: the queued tasks are rejected, the idle connections closed. *)
Drain ==
    /\ ~draining
    /\ draining' = TRUE
    /\ waiters' = <<>>
    /\ idle' = <<>>
    /\ created' = created - Len(idle)
    /\ alive' = alive \ Dropped(0)
    /\ pc' = [t \in Task |-> IF pc[t] = "queued" THEN "refused" ELSE pc[t]]
    /\ UNCHANGED <<busy, held>>

(* A connection goes down: a statement's timeout closes it, or the database  *)
(* ends it.  The pool is told of neither.                                    *)
GoesDown(c) ==
    /\ c \in alive
    /\ alive' = alive \ {c}
    /\ UNCHANGED <<idle, busy, waiters, created, draining, pc, held>>

-----------------------------------------------------------------------------
Acquire(t) == Refused(t) \/ Reuses(t) \/ BeginsOpen(t) \/ Queues(t)
OpenSettles(t) == Opens(t) \/ OpenFails(t) \/ ServingFails(t)
Release(t) ==
    \/ ReleasesClosed(t)
    \/ HandsOver(t)
    \/ ClosesOnRelease(t)
    \/ KeepsIdle(t)

Next ==
    \/ \E t \in Task : Acquire(t) \/ OpenSettles(t) \/ Release(t)
    \/ Drain
    \/ \E c \in Task : GoesDown(c)

Spec == Init /\ [][Next]_vars

(* An open is bounded by the connect timeout and the work by the statement   *)
(* timeout.  Nobody must call the pool again, drain it, or lose a connection. *)
FairSpec ==
    /\ Spec
    /\ \A t \in Task : WF_vars(OpenSettles(t)) /\ WF_vars(Release(t))

-----------------------------------------------------------------------------
(* Every variable keeps its type, and the pool never owns more than MaxSize  *)
(* connections.                                                              *)
TypeOK ==
    /\ idle \in Seq(Task)
    /\ busy \subseteq Task
    /\ waiters \in Seq(Task)
    /\ created \in 0..MaxSize
    /\ draining \in BOOLEAN
    /\ alive \subseteq Task
    /\ pc \in [Task -> Stages]
    /\ held \in [Task -> Task \cup {NoConn}]

(* The count that bounds the pool is the number of connections it has: those *)
(* idle, those handed out and those being opened.  release, takeIdle,        *)
(* openBusyConnection, servePendingWaiters and drain each adjust it by hand  *)
(* on every path; a connection counted twice, or never uncounted, would      *)
(* shrink the pool for good.                                                 *)
CountExact ==
    created = Len(idle) + Cardinality(busy) + Cardinality(Opening)

(* A connection is handed to one task at a time and is idle only when no     *)
(* task has it: two tasks on one connection would mix their transactions.    *)
SoleBorrower ==
    /\ \A t, u \in Task : held[t] = held[u] /\ held[t] # NoConn => t = u
    /\ \A t \in Task : pc[t] = "working" <=> held[t] # NoConn
    /\ busy = {held[t] : t \in Task} \ {NoConn}
    /\ \A i, j \in 1..Len(idle) :
          idle[i] \notin busy /\ (idle[i] = idle[j] => i = j)

(* Once drained, the pool lets no connection outlive its borrower, those     *)
(* included whose open was in flight when drain ran.                         *)
DrainClosesAll == draining => alive \subseteq busy

(* Nobody queues for a connection that could be had: while tasks wait, none  *)
(* rests idle and as many as may be are lent or being opened, each of which  *)
(* serves the queue when it comes back or fails; unless the open of a task   *)
(* that was not queued has failed.                                           *)
QueueMeansFull ==
    waiters # <<>> =>
        /\ idle = <<>>
        /\ \/ Cardinality(busy) + Cardinality(Opening) = MaxSize
           \/ \E u \in Task : pc[u] = "unopened"

(* The pool as its callers see it. *)
CallStage ==
    [t \in Task |-> CASE pc[t] = "new" -> "outside"
                     [] pc[t] \in {"opening", "queued", "served"} -> "waiting"
                     [] pc[t] = "working" -> "lent"
                     [] pc[t] = "done" -> "returned"
                     [] OTHER -> "denied"]

Loans == INSTANCE ConnectionLoans WITH Callers <- Task, Limit <- MaxSize, NoLoan <- NoConn,
                                       stage <- CallStage, loan <- held, open <- alive,
                                       closing <- draining

(* At most MaxSize connections are lent, each to one task, and never one     *)
(* that the pool knows is down; each task is answered once; after a drain    *)
(* nothing is lent but what was being opened, and a connection that comes    *)
(* back is closed: HanaPool implements ConnectionLoans.                      *)
ImplementsLoans == Loans!Spec

(* A queued task is answered, by a connection or an error, unless the open   *)
(* of some task that was not queued has failed.                              *)
AnsweredUnlessUnopened ==
    \A t \in Task :
        pc[t] = "queued" ~> (pc[t] # "queued" \/ \E u \in Task : pc[u] = "unopened")

(* Every queued task is answered: "queued callers continue after transient   *)
(* reconnect failures".                                                      *)
EveryWaiterAnswered == \A t \in Task : pc[t] = "queued" ~> pc[t] # "queued"
=============================================================================
