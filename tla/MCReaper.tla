------------------------------ MODULE MCReaper ------------------------------
(* Threads that die next to each other in the list, and a mutex. *)
EXTENDS Reaper

CONSTANTS a, b, c, nobody, stale

ThreeThreads == {a, b, c}
TwoThreads == {a, b}

\* No more than MaxWaiting entries in a waiting list (32 in the kernel):
\* behind a stale entry the queue would grow for ever.
MaxWaiting == 2
ShortQueues == \A m \in Mutexes : Len(waiting[m]) <= MaxWaiting

\* The third thread lives and dies, locks nothing and does not terminate
\* itself.
TwoAtMutexes == ShortQueues /\ on[c] = Nobody /\ own # c

\* Nobody terminates itself.
KilledByOthers == own = Nobody
=============================================================================
