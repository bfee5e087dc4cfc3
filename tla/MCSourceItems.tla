--------------------------- MODULE MCSourceItems ---------------------------
EXTENDS SourceItems, TLC

CONSTANTS l1, l2

\* Two listings of one name: the second shares neither site nor place with the
\* first, so whichever is stored later is in conflict with the other.
MCProfile ==
    (l1 :> [name |-> "n", domain |-> "d", phone |-> Unset, place |-> "p", area |-> "a"])
    @@ (l2 :> [name |-> "n", domain |-> Unset, phone |-> Unset, place |-> "q", area |-> "b"])

MCCopies == (l1 :> 2) @@ (l2 :> 1)

\* With a fault and a decision two items are stored at most; with one of them, three.
MCBound == faults = 0 \/ reviews = 0 \/ Cardinality({i \in Item : Stored(i)}) <= 2

MCSymmetry == Permutations(Worker)
=============================================================================
