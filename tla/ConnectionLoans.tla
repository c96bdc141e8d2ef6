--------------------------- MODULE ConnectionLoans ---------------------------
(***************************************************************************)
(* What the pool of cf-hana promises to those that call withConnection:    *)
(* how many connections are lent at most, that each of them is one         *)
(* caller's, that a caller is answered once, and what is open after a      *)
(* drain.  Nothing is said of a queue, a stack or a count: HanaPool is     *)
(* shown to implement this.                                                *)
(***************************************************************************)
EXTENDS FiniteSets, Naturals

CONSTANTS
    Callers,     \* calls of withConnection; a connection is named after the call it was opened for
    Limit,       \* connections lent at the same time
    NoLoan       \* no connection

VARIABLES
    stage,       \* each caller: "outside", "waiting", "lent", "returned" or "denied"
    loan,        \* the connection each caller has
    open,        \* the connections the database sees
    closing      \* drain was called

loanvars == <<stage, loan, open, closing>>

Lent == {loan[t] : t \in Callers} \ {NoLoan}

Init ==
    /\ stage = [t \in Callers |-> "outside"]
    /\ loan = [t \in Callers |-> NoLoan]
    /\ open = {} /\ closing = FALSE

\* Connections that are not lent may be closed on the way.
ClosesUnlent(some) == some \cap Lent = {} /\ open' = open \ some

Ask(t) ==
    /\ stage[t] = "outside" /\ ~closing
    /\ stage' = [stage EXCEPT ![t] = "waiting"]
    /\ \E some \in SUBSET open : ClosesUnlent(some)
    /\ UNCHANGED <<loan, closing>>

\* A connection that rests is open when it is lent.
BorrowResting(t) ==
    /\ stage[t] = "outside" /\ ~closing
    /\ Cardinality(Lent) < Limit
    /\ stage' = [stage EXCEPT ![t] = "lent"]
    /\ \E c \in open \ Lent, some \in SUBSET open :
        /\ c \notin some /\ ClosesUnlent(some)
        /\ loan' = [loan EXCEPT ![t] = c]
    /\ UNCHANGED closing

\* Also after closing: the connection was being opened.
BorrowNew(t) ==
    /\ stage[t] = "waiting"
    /\ Cardinality(Lent) < Limit
    /\ t \notin open \cup Lent
    /\ stage' = [stage EXCEPT ![t] = "lent"]
    /\ loan' = [loan EXCEPT ![t] = t]
    /\ open' = open \cup {t}
    /\ UNCHANGED closing

Deny(t) ==
    /\ stage[t] = "waiting" \/ (stage[t] = "outside" /\ closing)
    /\ stage' = [stage EXCEPT ![t] = "denied"]
    /\ UNCHANGED <<loan, open, closing>>

Return(t) ==
    /\ stage[t] = "lent"
    /\ stage' = [stage EXCEPT ![t] = "returned"]
    /\ loan' = [loan EXCEPT ![t] = NoLoan]
    /\ open' \in {open, open \ {loan[t]}}
    /\ closing => loan[t] \notin open'
    /\ UNCHANGED closing

\* The connection goes to a caller that waits, without having been anywhere else.
PassOn(t, u) ==
    /\ stage[t] = "lent" /\ loan[t] \in open /\ ~closing
    /\ stage[u] = "waiting"
    /\ stage' = [stage EXCEPT ![t] = "returned", ![u] = "lent"]
    /\ loan' = [loan EXCEPT ![t] = NoLoan, ![u] = loan[t]]
    /\ UNCHANGED <<open, closing>>

Close(denied) ==
    /\ ~closing /\ closing' = TRUE
    /\ \A t \in denied : stage[t] = "waiting"
    /\ stage' = [t \in Callers |-> IF t \in denied THEN "denied" ELSE stage[t]]
    /\ open' = open \cap Lent
    /\ UNCHANGED loan

GoDown(c) ==
    /\ open' = open \ {c}
    /\ UNCHANGED <<stage, loan, closing>>

Next ==
    \/ \E t \in Callers : \/ Ask(t) \/ BorrowResting(t) \/ BorrowNew(t) \/ Deny(t) \/ Return(t)
                          \/ \E u \in Callers : PassOn(t, u)
    \/ \E denied \in SUBSET Callers : Close(denied)
    \/ \E c \in Callers : GoDown(c)

Spec == Init /\ [][Next]_loanvars

=============================================================================
