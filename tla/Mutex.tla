-------------------------------- MODULE Mutex --------------------------------
(***************************************************************************)
(* mutexlock and mutexunlock of src/common.c, one statement per step, and  *)
(* the part of isr_handler that unlocks the mutexes of a faulting thread.  *)
(* A timer interrupt may fall between any two statements, so the steps of  *)
(* the threads interleave freely.  A whole listadd or popfirst of the      *)
(* waiting list is one step here; SharedList looks inside those calls.     *)
(*                                                                         *)
(* A mutex has no lock bit: a thread that appended itself to the waiting   *)
(* list owns the mutex when its tid has come to the front.                 *)
(***************************************************************************)
EXTENDS Integers, SequencesExt

CONSTANTS
    Threads,    \* the threads that share the mutexes
    Mutexes,    \* mutexlist
    Rank,       \* nesting: a mutex is only locked under mutexes of lower rank
    Base,       \* the priority a thread has when it holds nothing
    Realtime,   \* THREAD_PRIORITY_REALTIME
    NoThread    \* the tid 0 in mutex_t.locker

ASSUME MutexAssumption ==
    /\ Mutexes # {}
    /\ Rank \in [Mutexes -> Int]
    /\ \A m, n \in Mutexes : m # n => Rank[m] # Rank[n]
    /\ Base \in [Threads -> Nat]
    /\ Realtime \in Nat
    /\ NoThread \notin Threads

VARIABLES
    waiting,    \* mutex_t.waiting
    locked,     \* mutex_t.locked: the owner's priority before it locked
    locker,     \* mutex_t.locker: the tid of the owner, or 0
    priority,   \* thread_t.priority
    pc,         \* the statement a thread executes next
    target,     \* the mutex it is locking or unlocking
    held        \* the mutexes it came to the front of and did not pop itself from

vars == <<waiting, locked, locker, priority, pc, target, held>>

Statements == {"out", "spin", "save", "own", "raise", "pop", "clearLocked",
               "clearLocker", "dead"}

Owns(t, m) == m \in held[t]
Owners(m) == {t \in Threads : Owns(t, m)}

\* The byte locked is a priority, or the tid that popfirst left there, of a
\* thread that has not yet come to its m->locked = 0; that tid never becomes
\* a priority.
TypeOK ==
    /\ waiting \in [Mutexes -> Seq(Threads)]
    /\ locked \in [Mutexes -> Nat \cup Threads]
    /\ \A m \in Mutexes :
        locked[m] \in Nat \cup {t \in Threads : pc[t] = "clearLocked" /\ target[t] = m}
    /\ locker \in [Mutexes -> Threads \cup {NoThread}]
    /\ priority \in [Threads -> Nat]
    /\ pc \in [Threads -> Statements]
    /\ target \in [Threads -> Mutexes]
    /\ held \in [Threads -> SUBSET Mutexes]

Init ==
    /\ waiting = [m \in Mutexes |-> <<>>]
    /\ locked = [m \in Mutexes |-> 0]
    /\ locker = [m \in Mutexes |-> NoThread]
    /\ priority = Base
    /\ pc = [t \in Threads |-> "out"]
    /\ target = [t \in Threads |-> CHOOSE m \in Mutexes : TRUE]
    /\ held = [t \in Threads |-> {}]

-----------------------------------------------------------------------------
(* mutexlock(m) *)

\* Mutant of Lock: the newcomer queues right behind the owner.
LockSecond(t, m) ==
    /\ pc[t] = "out"
    /\ \A n \in held[t] : Rank[n] < Rank[m]
    /\ waiting' = [waiting EXCEPT ![m] = IF @ = <<>> THEN <<t>> ELSE <<Head(@), t>> \o Tail(@)]
    /\ target' = [target EXCEPT ![t] = m]
    /\ pc' = [pc EXCEPT ![t] = "spin"]
    /\ UNCHANGED <<locked, locker, priority, held>>

\* listadd(m->waiting, p_id()).  The mutexes nest: malloc_mutex is taken
\* under scanf_mutex, never the other way round, and neither twice.
Lock(t, m) ==
    /\ pc[t] = "out"
    /\ \A n \in held[t] : Rank[n] < Rank[m]
    /\ waiting' = [waiting EXCEPT ![m] = Append(@, t)]
    /\ target' = [target EXCEPT ![t] = m]
    /\ pc' = [pc EXCEPT ![t] = "spin"]
    /\ UNCHANGED <<locked, locker, priority, held>>

\* Mutant of Enter: the loop looks for an entry, not for its own.
EnterAny(t) ==
    /\ pc[t] = "spin"
    /\ waiting[target[t]] # <<>>
    /\ held' = [held EXCEPT ![t] = @ \cup {target[t]}]
    /\ pc' = [pc EXCEPT ![t] = "save"]
    /\ UNCHANGED <<waiting, locked, locker, priority, target>>

\* The loop that calls preempt() while pointer[0] is somebody else's tid.
Enter(t) ==
    /\ pc[t] = "spin"
    /\ waiting[target[t]] # <<>>
    /\ Head(waiting[target[t]]) = t
    /\ held' = [held EXCEPT ![t] = @ \cup {target[t]}]
    /\ pc' = [pc EXCEPT ![t] = "save"]
    /\ UNCHANGED <<waiting, locked, locker, priority, target>>

\* m->locked = thread_current->priority
SavePriority(t) ==
    /\ pc[t] = "save"
    /\ locked' = [locked EXCEPT ![target[t]] = priority[t]]
    /\ pc' = [pc EXCEPT ![t] = "own"]
    /\ UNCHANGED <<waiting, locker, priority, target, held>>

\* m->locker = p_id()
SetLocker(t) ==
    /\ pc[t] = "own"
    /\ locker' = [locker EXCEPT ![target[t]] = t]
    /\ pc' = [pc EXCEPT ![t] = "raise"]
    /\ UNCHANGED <<waiting, locked, priority, target, held>>

\* send_sig(p_id(), SIG_PRI, THREAD_PRIORITY_REALTIME)
Raise(t) ==
    /\ pc[t] = "raise"
    /\ priority' = [priority EXCEPT ![t] = Realtime]
    /\ pc' = [pc EXCEPT ![t] = "out"]
    /\ UNCHANGED <<waiting, locked, locker, target, held>>

-----------------------------------------------------------------------------
(* mutexunlock(m) *)

\* Mutant of Unlock: the priority is not restored.
UnlockRaised(t, m) ==
    /\ pc[t] = "out"
    /\ m \in held[t]
    /\ \A n \in held[t] : Rank[n] <= Rank[m]
    /\ target' = [target EXCEPT ![t] = m]
    /\ pc' = [pc EXCEPT ![t] = "pop"]
    /\ UNCHANGED <<waiting, locked, locker, priority, held>>

\* send_sig(p_id(), SIG_PRI, m->locked), by a caller that locked m and
\* nothing since.
Unlock(t, m) ==
    /\ pc[t] = "out"
    /\ m \in held[t]
    /\ \A n \in held[t] : Rank[n] <= Rank[m]
    /\ priority' = [priority EXCEPT ![t] = locked[m]]
    /\ target' = [target EXCEPT ![t] = m]
    /\ pc' = [pc EXCEPT ![t] = "pop"]
    /\ UNCHANGED <<waiting, locked, locker, held>>

\* popfirst(m->waiting, &m->locked)
Pop(t) ==
    LET m == target[t] IN
    /\ pc[t] = "pop"
    /\ waiting[m] # <<>>
    /\ locked' = [locked EXCEPT ![m] = Head(waiting[m])]
    /\ waiting' = [waiting EXCEPT ![m] = Tail(@)]
    /\ held' = [held EXCEPT ![t] = @ \ {m}]
    /\ pc' = [pc EXCEPT ![t] = "clearLocked"]
    /\ UNCHANGED <<locker, priority, target>>

\* Mutant of ClearLocked: the assignment is missing.
ClearLockedNot(t) ==
    /\ pc[t] = "clearLocked"
    /\ pc' = [pc EXCEPT ![t] = "clearLocker"]
    /\ UNCHANGED <<waiting, locked, locker, priority, target, held>>

\* m->locked = 0
ClearLocked(t) ==
    /\ pc[t] = "clearLocked"
    /\ locked' = [locked EXCEPT ![target[t]] = 0]
    /\ pc' = [pc EXCEPT ![t] = "clearLocker"]
    /\ UNCHANGED <<waiting, locker, priority, target, held>>

\* Mutant of ClearLocker: the assignment is missing.
ClearLockerNot(t) ==
    /\ pc[t] = "clearLocker"
    /\ pc' = [pc EXCEPT ![t] = "out"]
    /\ UNCHANGED <<waiting, locked, locker, priority, target, held>>

\* m->locker = 0
ClearLocker(t) ==
    /\ pc[t] = "clearLocker"
    /\ locker' = [locker EXCEPT ![target[t]] = NoThread]
    /\ pc' = [pc EXCEPT ![t] = "out"]
    /\ UNCHANGED <<waiting, locked, priority, target, held>>

-----------------------------------------------------------------------------
\* An exception in the code between mutexlock and mutexunlock, or outside:
\* isr_handler unlocks, with interrupts off, every mutex whose locker is the
\* faulting thread, and the thread never runs on.
Fault(t) ==
    LET freed == {m \in Mutexes : locker[m] = t} IN
    /\ pc[t] = "out"
    /\ waiting' = [m \in Mutexes |->
                      IF m \in freed /\ waiting[m] # <<>> THEN Tail(waiting[m]) ELSE waiting[m]]
    /\ locked' = [m \in Mutexes |-> IF m \in freed THEN 0 ELSE locked[m]]
    /\ locker' = [m \in Mutexes |-> IF m \in freed THEN NoThread ELSE locker[m]]
    /\ IF freed = {} THEN UNCHANGED priority
       ELSE \E m \in freed : priority' = [priority EXCEPT ![t] = locked[m]]
    /\ held' = [held EXCEPT ![t] = @ \ freed]
    /\ pc' = [pc EXCEPT ![t] = "dead"]
    /\ UNCHANGED target

-----------------------------------------------------------------------------
Call(t) ==
    \/ Enter(t) \/ SavePriority(t) \/ SetLocker(t) \/ Raise(t)
    \/ Pop(t) \/ ClearLocked(t) \/ ClearLocker(t)

Step(t) == Call(t) \/ \E m \in Mutexes : Lock(t, m) \/ Unlock(t, m)

Next == \E t \in Threads : Step(t) \/ Fault(t)

Spec == Init /\ [][Next]_vars

\* The scheduler starves nobody (Tasking!NoStarvation), so a thread inside
\* one of the two calls gets on; and a section under a short mutex
\* (malloc_mutex: a scan of the heap) ends.  scanf holds its mutex for as long
\* as the user types: nothing is assumed of that.
CONSTANT Short

FairSpec ==
    /\ Spec
    /\ \A t \in Threads : WF_vars(Call(t))
    /\ \A t \in Threads, m \in Short : WF_vars(Unlock(t, m))

-----------------------------------------------------------------------------
(* Properties. *)

\* Two threads are never between the end of mutexlock and the popfirst of
\* mutexunlock of the same mutex, and the owner is the first in its queue:
\* popfirst takes the owner out and nobody else.
MutualExclusion ==
    \A m \in Mutexes, t \in Threads : Owns(t, m) =>
        /\ Owners(m) = {t}
        /\ waiting[m] # <<>>
        /\ Head(waiting[m]) = t

\* The locker field never accuses the wrong thread: whoever isr_handler or
\* the Process Manager find there owns the mutex or is still leaving it.
LockerSound ==
    \A m \in Mutexes, t \in Threads : locker[m] = t =>
        \/ Owns(t, m) /\ ~(pc[t] \in {"save", "own"} /\ target[t] = m)
        \/ pc[t] \in {"clearLocked", "clearLocker"} /\ target[t] = m

\* Outside every mutex a thread is back at its own priority or at 0 (when
\* the previous owner's m->locked = 0 came after its own saving); it never
\* keeps THREAD_PRIORITY_REALTIME and never gets the tid that popfirst
\* drops into the same byte.
PriorityNotLeaked ==
    \A t \in Threads :
        pc[t] = "out" /\ held[t] = {} => priority[t] \in {0, Base[t]}

\* Every mutex is a FIFO lock, also when threads fault inside.
Abstract == INSTANCE FifoLock WITH
    Locks <- Mutexes,
    queue <- waiting,
    inside <- [m \in Mutexes |-> Owners(m)]
ImplementsFifoLock == Abstract!Spec

\* A dead thread at the front: isr_handler searches for what it owned by the
\* locker field, and misses a mutex whose previous owner was still leaving
\* when the dead one entered (its m->locker = 0 came last).
Blocked(m) == waiting[m] # <<>> /\ pc[Head(waiting[m])] = "dead"

\* A thread that calls mutexlock on a short mutex gets in, also when the
\* others keep coming and going under both mutexes, unless a dead thread is
\* left at the front.
WaitersEnter ==
    \A t \in Threads, m \in Short :
        (pc[t] = "spin" /\ target[t] = m) ~> (Owns(t, m) \/ Blocked(m))
=============================================================================
