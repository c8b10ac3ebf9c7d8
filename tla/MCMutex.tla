------------------------------ MODULE MCMutex ------------------------------
(* The two mutexes of the kernel and three threads. *)
EXTENDS Mutex, TLC

CONSTANTS scanf_mutex, malloc_mutex, p, q, r, none

MCMutexes == {scanf_mutex, malloc_mutex}
MCThreads == {p, q, r}
MCRank == scanf_mutex :> 1 @@ malloc_mutex :> 2
MCBase == [t \in Threads |-> 1]
MCShort == {malloc_mutex}
=============================================================================
