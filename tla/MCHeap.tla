------------------------------- MODULE MCHeap -------------------------------
(* A heap with room for two or three blocks, and two threads. *)
EXTENDS Heap

CONSTANTS p, q, heap

MCThreads == {p, q}

\* No guard reads content and no property of the run Heap does: states that
\* differ only there are one state.
Chain == <<last_alloc, size, status, malloc_queue, pc, mem, want, loans>>
=============================================================================
