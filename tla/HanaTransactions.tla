--------------------------- MODULE HanaTransactions ---------------------------
(***************************************************************************)
(* Transactions over the pool of cf-hana: HanaClient.transaction           *)
(* (client.ts), Transaction (transaction.ts), the statements and timeouts  *)
(* of Connection (connection.ts), and what the database session behind a   *)
(* connection has pending.  The pool is HanaPool: a call works between the *)
(* pool's hand-over and its release, and here one sees what its work does. *)
(***************************************************************************)
EXTENDS HanaPool

CONSTANTS
    Transactional,  \* the calls that are transactions; the others run one statement
    Stray           \* transactions whose work may end before its statements have

ASSUME TransactionAssumption ==
    /\ Transactional \subseteq Task
    /\ Stray \subseteq Transactional

VARIABLES
    tx,         \* how far each transaction is
    own,        \* its work has called commit or rollback itself
    outcome,    \* how transaction() ended for its caller
    statement,  \* the connection a statement of the transaction is in flight on
    manual,     \* the connections whose autocommit is off
    pending,    \* the transactions with uncommitted work in each database session
    kept,       \* history: transactions with committed work
    undone,     \* history: transactions with work that was rolled back
    doubtful    \* history: commits whose answer was lost

callvars == <<tx, own, outcome, statement, manual>>
database == <<pending, kept, undone, doubtful>>
txvars == <<vars, callvars, database>>

TxInit ==
    /\ Init
    /\ tx = [t \in Transactional |-> "none"]
    /\ own = [t \in Transactional |-> FALSE]
    /\ outcome = [t \in Transactional |-> "none"]
    /\ statement = [t \in Transactional |-> NoConn]
    /\ manual = {}
    /\ pending = [c \in Task |-> {}]
    /\ kept = {} /\ undone = {} /\ doubtful = {}

Goes(t, stage) == tx' = [tx EXCEPT ![t] = stage]

(* The finally block of transaction, then its result.  The connection is     *)
(* still lent: withConnection releases it after this.                        *)
Ends(t, result) ==
    /\ Goes(t, "ended")
    /\ outcome' = [outcome EXCEPT ![t] = result]
    /\ manual' = manual \ {held[t]}

-----------------------------------------------------------------------------
(* The database. *)
CommitsSession(c) ==
    /\ kept' = kept \cup pending[c]
    /\ pending' = [pending EXCEPT ![c] = {}]
    /\ UNCHANGED undone

RollsBackSession(c) ==
    /\ undone' = undone \cup pending[c]
    /\ pending' = [pending EXCEPT ![c] = {}]
    /\ UNCHANGED kept

\* Sessions whose connection ends in this step roll back.
SessionsEnd ==
    LET gone == alive \ alive' IN
    /\ undone' = undone \cup UNION {pending[c] : c \in gone}
    /\ pending' = [c \in Task |-> IF c \in gone THEN {} ELSE pending[c]]
    /\ UNCHANGED kept

-----------------------------------------------------------------------------
(* Steps of the pool.  A borrower gives back when its work is over.          *)
PoolStep ==
    /\ \/ \E t \in Task : Acquire(t) \/ OpenSettles(t)
       \/ Drain
       \/ \E c \in Task : GoesDown(c)
    /\ SessionsEnd
    /\ UNCHANGED <<callvars, doubtful>>

Returns(t) ==
    /\ t \in Transactional => tx[t] = "ended"
    /\ Release(t)
    /\ SessionsEnd
    /\ UNCHANGED <<callvars, doubtful>>

-----------------------------------------------------------------------------
Begins(t) ==
    /\ pc[t] = "working"
    /\ tx[t] = "none"
    /\ manual' = manual \cup {held[t]}
    /\ Goes(t, "active")
    /\ UNCHANGED <<vars, own, outcome, statement, database>>

(* query and execute of a transaction: refused once it is finished.  The     *)
(* database executes the statement later, in the autocommit mode of then.    *)
Sends(t) ==
    /\ tx[t] = "active"
    /\ statement[t] = NoConn
    /\ statement' = [statement EXCEPT ![t] = held[t]]
    /\ UNCHANGED <<vars, tx, own, outcome, manual, database>>

Answered(t) == statement' = [statement EXCEPT ![t] = NoConn]

Executes(t) ==
    LET c == statement[t] IN
    /\ c \in alive
    /\ Answered(t)
    /\ IF c \in manual
       THEN /\ pending' = [pending EXCEPT ![c] = @ \cup {t}]
            /\ UNCHANGED <<kept, undone>>
       ELSE /\ kept' = kept \cup pending[c] \cup {t}
            /\ pending' = [pending EXCEPT ![c] = {}]
            /\ UNCHANGED undone
    /\ UNCHANGED <<vars, tx, own, outcome, manual, doubtful>>

\* The database refuses the statement, or the connection is down.
StatementFails(t) ==
    /\ statement[t] # NoConn
    /\ Answered(t)
    /\ UNCHANGED <<vars, tx, own, outcome, manual, database>>

\* The statement's timeout closes the connection.
TimesOut(t) ==
    /\ statement[t] # NoConn
    /\ GoesDown(statement[t])
    /\ SessionsEnd
    /\ Answered(t)
    /\ UNCHANGED <<tx, own, outcome, manual, doubtful>>

-----------------------------------------------------------------------------
\* The work comes to an end, or to its own commit or rollback.
Settled(t) ==
    /\ tx[t] = "active"
    /\ statement[t] = NoConn \/ t \in Stray

Finishes(t, stage, itself) ==
    /\ Settled(t)
    /\ Goes(t, stage)
    /\ own' = [own EXCEPT ![t] = itself]
    /\ UNCHANGED <<vars, outcome, statement, manual, database>>

\* Mutant: a transaction whose work throws is left to the pool.
ForgetsRollback(t) ==
    /\ Settled(t)
    /\ Ends(t, "rejected")
    /\ UNCHANGED <<vars, own, statement, database>>

WorkReturns(t) == Finishes(t, "committing", FALSE)
WorkThrows(t) == Finishes(t, "rollingBack", FALSE)
CommitsItself(t) == Finishes(t, "committing", TRUE)
RollsBackItself(t) == Finishes(t, "rollingBack", TRUE)

\* The rest of the work after its own commit or rollback.
RestEnds(t, result) ==
    /\ tx[t] = "finished"
    /\ Ends(t, result)
    /\ UNCHANGED <<vars, own, statement, database>>

\* Mutant: a failed commit is taken for done, as a failed rollback is.
TakesAllForDone(t, result) ==
    IF own[t] THEN Goes(t, "finished") /\ UNCHANGED <<outcome, manual>>
    ELSE Ends(t, IF tx[t] = "committing" THEN "resolved" ELSE "rejected")

\* commit or rollback settles: for the work, if it made the call, else for transaction().
Settles(t, result) ==
    IF own[t] THEN Goes(t, "finished") /\ UNCHANGED <<outcome, manual>> ELSE Ends(t, result)

CommitSucceeds(t) ==
    /\ tx[t] = "committing"
    /\ held[t] \in alive
    /\ CommitsSession(held[t])
    /\ Settles(t, "resolved")
    /\ UNCHANGED <<vars, own, statement, doubtful>>

(* The database refuses the commit and rolls back.  No rollback follows: the *)
(* transaction counts as finished since the commit was sent.                 *)
CommitFails(t) ==
    /\ tx[t] = "committing"
    /\ RollsBackSession(held[t])
    /\ Settles(t, "rejected")
    /\ UNCHANGED <<vars, own, statement, doubtful>>

\* The database has committed and the connection ends before its answer arrives.
CommitLost(t) ==
    /\ tx[t] = "committing"
    /\ GoesDown(held[t])
    /\ CommitsSession(held[t])
    /\ doubtful' = doubtful \cup {t}
    /\ Settles(t, "rejected")
    /\ UNCHANGED <<own, statement>>

\* The rollback is answered, or fails because the connection and its session are gone.
RollbackSettles(t) ==
    /\ tx[t] = "rollingBack"
    /\ RollsBackSession(held[t])
    /\ Settles(t, "rejected")
    /\ UNCHANGED <<vars, own, statement, doubtful>>

-----------------------------------------------------------------------------
StatementSettles(t) == Executes(t) \/ StatementFails(t) \/ TimesOut(t)
WorkEnds(t) ==
    \/ WorkReturns(t) \/ WorkThrows(t) \/ CommitsItself(t) \/ RollsBackItself(t)
    \/ RestEnds(t, "resolved") \/ RestEnds(t, "rejected")
EndSettles(t) ==
    \/ CommitSucceeds(t) \/ CommitFails(t) \/ CommitLost(t)
    \/ RollbackSettles(t)
TransactionStep(t) ==
    Begins(t) \/ Sends(t) \/ StatementSettles(t) \/ WorkEnds(t) \/ EndSettles(t)

TxNext ==
    \/ PoolStep
    \/ \E t \in Task : Returns(t)
    \/ \E t \in Transactional : TransactionStep(t)

TxSpec == TxInit /\ [][TxNext]_txvars

(* Statements are bounded by their timeout, and the caller's work comes to   *)
(* an end.  A commit or rollback has no timeout: that it is answered is the  *)
(* database's promise.                                                       *)
OpenSettlesHere(t) == OpenSettles(t) /\ PoolStep
TxFairness ==
    /\ \A t \in Task : WF_txvars(OpenSettlesHere(t)) /\ WF_txvars(Returns(t))
    /\ \A t \in Transactional :
          /\ WF_txvars(Begins(t) \/ StatementSettles(t) \/ EndSettles(t))
          /\ SF_txvars(WorkEnds(t))
TxFairSpec == TxSpec /\ TxFairness

-----------------------------------------------------------------------------
(* Work pending in a database session, and autocommit turned off, belong to  *)
(* a transaction that has the connection and has not ended: a connection is  *)
(* idle, or handed to the next call, with neither.  Otherwise the next       *)
(* call's first statement would commit what a failed transaction left.       *)
SessionIsBorrowers ==
    /\ \A c \in Task : \A t \in pending[c] :
          held[t] = c /\ tx[t] \in {"active", "committing", "rollingBack"}
    /\ \A c \in manual : \E t \in Transactional :
          held[t] = c /\ tx[t] \notin {"none", "ended"}

(* "transaction(work) commits on success, rolls back on throw": nothing of a *)
(* transaction that resolved was rolled back, and nothing of one that was    *)
(* rejected is committed, unless its work ended it itself or the answer to   *)
(* its commit was lost.                                                      *)
OutcomeIsTrue ==
    \A t \in Transactional : ~own[t] =>
        /\ outcome[t] = "resolved" => t \notin undone
        /\ outcome[t] = "rejected" => t \notin kept \/ t \in doubtful

(* The second half of it for a work that does not wait for its statements,   *)
(* such as one that fails in a Promise.all.                                  *)
RollsBackOnThrow ==
    \A t \in Transactional :
        outcome[t] = "rejected" /\ ~own[t] /\ t \notin doubtful => t \notin kept
=============================================================================
