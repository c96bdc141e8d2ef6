----------------------------- MODULE MCHanaPool -----------------------------
(***************************************************************************)
(* Small instances of HanaTransactions.  A behaviour has the calls of one   *)
(* of the sets in CallSets: five plain calls on the bare pool, or a few     *)
(* with transactions among them.                                            *)
(***************************************************************************)
EXTENDS HanaTransactions

CONSTANTS p1, p2, p3, p4, p5, t1, t2, CallSets

VARIABLE calls

FiveCallsOrTransactions == {{p1, p2, p3, p4, p5}, {p1, p2, t1}, {t1, t2}}
ThreeCalls == {{p1, p2, p3}}
OneTransaction == {{t1}}

MCInit == TxInit /\ calls \in CallSets

MCNext ==
    /\ TxNext
    /\ \A t \in Task \ calls : pc'[t] = "new"
    /\ UNCHANGED calls

MCSpec == MCInit /\ [][MCNext]_<<txvars, calls>>
MCFairSpec == MCSpec /\ TxFairness
=============================================================================
