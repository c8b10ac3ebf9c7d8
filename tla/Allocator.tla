----------------------------- MODULE Allocator -----------------------------
(***************************************************************************)
(* What malloc and free of src/memory.c promise: memory that is lent lies  *)
(* inside the heap, and no byte of it is lent twice.                       *)
(***************************************************************************)
EXTENDS Naturals

CONSTANTS
    Threads,    \* the borrowers
    Sizes,      \* the sizes they ask for
    Low,        \* the heap is Low .. High - 1
    High

VARIABLE lent   \* the intervals at .. at + size - 1 that are lent

Loan == [to : Threads, at : Low .. High, size : Sizes]

Within(l) == l.at + l.size <= High

Apart(l, m) == l.at + l.size <= m.at \/ m.at + m.size <= l.at

Init == lent = {}

Lend(l) ==
    /\ Within(l)
    /\ \A m \in lent : Apart(l, m)
    /\ lent' = lent \cup {l}

Return(l) ==
    /\ l \in lent
    /\ lent' = lent \ {l}

Next == \E l \in Loan : Lend(l) \/ Return(l)

Spec == Init /\ [][Next]_lent
=============================================================================
