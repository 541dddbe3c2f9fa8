------------------------------ MODULE Ordering ------------------------------
(***************************************************************************)
(* Python's sort, by rank: the k-th in order is the one that has k - 1     *)
(* before it.  SortSeq gives the same in TLC, but is built into the tools: *)
(* no proof can look inside it.                                            *)
(***************************************************************************)
EXTENDS Integers, FiniteSets

\* before[x] is the set of those that come before x.
ByRank(before) ==
    [k \in 1..Cardinality(DOMAIN before) |->
        CHOOSE x \in DOMAIN before : Cardinality(before[x]) = k - 1]

InOrder(S) == ByRank([x \in S |-> {y \in S : y < x}])
=============================================================================
