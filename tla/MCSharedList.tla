---------------------------- MODULE MCSharedList ----------------------------
(* Three threads at one mutex. *)
EXTENDS SharedList

CONSTANTS p, q, r

MCThreads == {p, q, r}

\* Nothing is claimed of the list after the first overlap.
Untorn == ~torn
=============================================================================
