------------------------------- MODULE Arrays -------------------------------
(***************************************************************************)
(* Array.prototype.filter, by which elements it keeps: cf-live-trace drops *)
(* acknowledged events with it, cf-metrics and cf-events what they have    *)
(* seen.  (SelectSeq says the same by recursion on the sequence.)          *)
(***************************************************************************)
EXTENDS Naturals, Sequences, FiniteSets

\* What of q is not in gone, in the order of q.
Filtered(q, gone) ==
    LET left == {i \in DOMAIN q : q[i] \notin gone}
        Nth(n) == CHOOSE i \in left : Cardinality({j \in left : j <= i}) = n
    IN  [n \in 1..Cardinality(left) |-> q[Nth(n)]]
=============================================================================
