------------------------------ MODULE FifoLock ------------------------------
(***************************************************************************)
(* What the mutexes of src/common.c promise their callers: threads queue   *)
(* up at a lock, the one at the front may go inside, one thread at a time  *)
(* is inside, and leaving lets the next one be first.                      *)
(***************************************************************************)
EXTENDS Naturals, Sequences, Functions

CONSTANTS Threads, Locks

VARIABLES
    queue,      \* per lock, the threads that asked for it, the one inside first
    inside      \* per lock, the set of threads that are inside

lockVars == <<queue, inside>>

Init ==
    /\ queue = [l \in Locks |-> <<>>]
    /\ inside = [l \in Locks |-> {}]

Request(t, l) ==
    /\ t \notin Range(queue[l])
    /\ queue' = [queue EXCEPT ![l] = Append(@, t)]
    /\ UNCHANGED inside

Acquire(t, l) ==
    /\ inside[l] = {}
    /\ queue[l] # <<>>
    /\ t = Head(queue[l])
    /\ inside' = [inside EXCEPT ![l] = {t}]
    /\ UNCHANGED queue

\* A thread leaves one lock, or several at once when it faults.
Release(t, ls) ==
    /\ \A l \in ls : inside[l] = {t}
    /\ queue' = [l \in Locks |-> IF l \in ls THEN Tail(queue[l]) ELSE queue[l]]
    /\ inside' = [l \in Locks |-> IF l \in ls THEN {} ELSE inside[l]]

Next == \E t \in Threads :
    \/ \E l \in Locks : Request(t, l) \/ Acquire(t, l)
    \/ \E ls \in SUBSET Locks : Release(t, ls)

Spec == Init /\ [][Next]_lockVars
=============================================================================
