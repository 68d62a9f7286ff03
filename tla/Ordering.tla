------------------------------ MODULE Ordering ------------------------------
(***************************************************************************)
(* WHERE and ORDER BY over a finite table.  SelectSeq and SortSeq would do *)
(* for TLC; these can also be reasoned about.                              *)
(***************************************************************************)
EXTENDS Integers, FiniteSets

\* The n-th element has n - 1 before it; before is a strict total order on S.
InOrder(S, before(_, _)) ==
    [n \in 1..Cardinality(S) |->
        CHOOSE x \in S : Cardinality({y \in S : before(y, x)}) = n - 1]

\* The elements of a sequence that pass a test, in their order.
Where(s, Test(_)) ==
    LET places == InOrder({i \in DOMAIN s : Test(s[i])}, <)
    IN  [n \in DOMAIN places |-> s[places[n]]]
=============================================================================
