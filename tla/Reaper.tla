------------------------------- MODULE Reaper -------------------------------
(***************************************************************************)
(* The Process Manager, services_process of src/services.c: its two loops  *)
(* with their index, over the two thread lists and the list of mutexes,    *)
(* while the other threads are created, lock and unlock mutexes, and die.  *)
(* The timer may interrupt everybody between any two steps.                *)
(*                                                                         *)
(* mutexlock and mutexunlock go statement by statement, as in Mutex, but   *)
(* for the priorities.  A thread stands for its record and, while that is  *)
(* allocated, for its tid.  The next thread in the same record has another *)
(* tid, so what the mutexes still know of the old one becomes Stale when   *)
(* the record is freed.                                                    *)
(*                                                                         *)
(* A thread that sends SIG_TERM to itself (the virus command of the shell) *)
(* runs on until it loses the processor, and a sleep() before that revives *)
(* it.                                                                     *)
(***************************************************************************)
EXTENDS Naturals, SequencesExt

CONSTANTS
    Threads,    \* the thread_t records, without the Process Manager's own
    Mutexes,    \* the indices of mutexlist
    Nobody,     \* the tid 0, the null record
    Stale       \* a tid that no thread has any more

ASSUME ReaperAssumption ==
    /\ Mutexes \subseteq Nat
    /\ Nobody \notin Threads \cup Mutexes
    /\ Stale \notin Threads \cup {Nobody}

VARIABLES
    thread_list,        \* the listed threads
    thread_list_dead,   \* the collected ones
    state,              \* thread_t.state
    own,                \* the thread that killed itself and still runs, or Nobody
    waiting,            \* mutex_t.waiting
    locker,             \* mutex_t.locker: the owner's tid, or 0
    call,               \* where a thread is in mutexlock or mutexunlock
    on,                 \* the mutex of that call
    phase,              \* the statement the Process Manager executes next
    i,                  \* the index of its loops
    crnt,               \* the record it took off a list
    mut                 \* the mutex it found that record to be the locker of

lists == <<thread_list, thread_list_dead>>
mutexes == <<waiting, locker, call, on>>
manager == <<phase, i, crnt, mut>>
vars == <<lists, state, own, mutexes, manager>>

Corpse(t) == state[t] \in {"DEAD", "ZOMBIE"}

\* ALIVE stands for WAITING_SLEEP as well.
Runs(t) == state[t] = "ALIVE" \/ own = t

\* t is in the queue of m, and past the loop of mutexlock.
Owns(t, m) == t \in Range(waiting[m]) /\ ~(call[t] = "wait" /\ on[t] = m)

Phases == {"sleepLive", "collect", "listadd", "sleepDead", "bury", "find", "reset", "free"}

TypeOK ==
    /\ thread_list \in Seq(Threads)
    /\ thread_list_dead \in Seq(Threads)
    /\ state \in [Threads -> {"NONE", "ALIVE", "DEAD", "ZOMBIE"}]
    /\ own \in Threads \cup {Nobody}
    /\ waiting \in [Mutexes -> Seq(Threads \cup {Stale})]
    /\ locker \in [Mutexes -> Threads \cup {Nobody, Stale}]
    /\ call \in [Threads -> {"none", "wait", "passed", "leave"}]
    /\ on \in [Threads -> Mutexes \cup {Nobody}]
    /\ phase \in Phases
    /\ i \in Nat
    /\ crnt \in Threads \cup {Nobody}
    /\ mut \in Mutexes \cup {Nobody}

Init ==
    /\ thread_list = <<>>
    /\ thread_list_dead = <<>>
    /\ state = [t \in Threads |-> "NONE"]
    /\ own = Nobody
    /\ waiting = [m \in Mutexes |-> <<>>]
    /\ locker = [m \in Mutexes |-> Nobody]
    /\ call = [t \in Threads |-> "none"]
    /\ on = [t \in Threads |-> Nobody]
    /\ phase = "sleepLive"
    /\ i = 0
    /\ crnt = Nobody
    /\ mut = Nobody

-----------------------------------------------------------------------------
(* The other threads.  Whoever takes a step has the processor, and a corpse  *)
(* that loses it never gets it back (Tasking!CorpseStaysDown).               *)

Step(t) == own' = IF own = t THEN t ELSE Nobody

\* create_thread_param, at its listadd, by some thread.
Create(t) ==
    /\ state[t] = "NONE"
    /\ state' = [state EXCEPT ![t] = "ALIVE"]
    /\ thread_list' = Append(thread_list, t)
    /\ own' \in {own, Nobody}
    /\ UNCHANGED <<thread_list_dead, mutexes, manager>>

\* Where the shell runs its commands.
Outside(t) == call[t] = "none" /\ \A m \in Mutexes : t \notin Range(waiting[m])

\* send_sig(tid, SIG_TERM), by a command of the shell s: to another thread,
\* whatever that is doing, or to itself.  The mutexes are left as they are.
Terminate(s, t) ==
    /\ Runs(s) /\ Outside(s)
    /\ t \in Range(thread_list)
    /\ state' = [state EXCEPT ![t] = "DEAD"]
    /\ own' = IF s \in {t, own} THEN s ELSE Nobody
    /\ UNCHANGED <<lists, mutexes, manager>>

\* kill(): it halts for ever.
Kill(t) ==
    /\ Runs(t) /\ Outside(t)
    /\ state' = [state EXCEPT ![t] = "DEAD"]
    /\ own' = Nobody
    /\ UNCHANGED <<lists, mutexes, manager>>

\* sleep(), whose THREAD_STATE_WAITING_SLEEP overwrites the THREAD_STATE_DEAD
\* of a thread that has terminated itself and not lost the processor since.
Revive(t) ==
    /\ own = t
    /\ call[t] = "none"
    /\ state[t] = "DEAD"
    /\ state' = [state EXCEPT ![t] = "ALIVE"]
    /\ own' = Nobody
    /\ UNCHANGED <<lists, mutexes, manager>>

\* An exception outside the mutex calls: isr_handler unlocks, with
\* interrupts off, what the thread is the locker of, and it halts.
Fault(t) ==
    LET freed == {m \in Mutexes : locker[m] = t} IN
    /\ Runs(t)
    /\ call[t] = "none"
    /\ state' = [state EXCEPT ![t] = "ZOMBIE"]
    /\ waiting' = [m \in Mutexes |->
                      IF m \in freed /\ waiting[m] # <<>> THEN Tail(waiting[m]) ELSE waiting[m]]
    /\ locker' = [m \in Mutexes |-> IF m \in freed THEN Nobody ELSE locker[m]]
    /\ own' = Nobody
    /\ UNCHANGED <<lists, call, on, manager>>

\* mutexlock: listadd, in the order of the list (malloc_mutex is the first,
\* so it is locked last).
Lock(t, m) ==
    /\ Runs(t)
    /\ call[t] = "none"
    /\ \A n \in Mutexes : t \in Range(waiting[n]) => n > m
    /\ waiting' = [waiting EXCEPT ![m] = Append(@, t)]
    /\ call' = [call EXCEPT ![t] = "wait"]
    /\ on' = [on EXCEPT ![t] = m]
    /\ Step(t)
    /\ UNCHANGED <<lists, state, locker, manager>>

\* The loop finds its own tid at the front.
Enter(t) ==
    /\ Runs(t)
    /\ call[t] = "wait"
    /\ waiting[on[t]] # <<>>
    /\ Head(waiting[on[t]]) = t
    /\ call' = [call EXCEPT ![t] = "passed"]
    /\ Step(t)
    /\ UNCHANGED <<lists, state, waiting, locker, on, manager>>

\* m->locker = p_id()
SetLocker(t) ==
    /\ Runs(t)
    /\ call[t] = "passed"
    /\ locker' = [locker EXCEPT ![on[t]] = t]
    /\ call' = [call EXCEPT ![t] = "none"]
    /\ on' = [on EXCEPT ![t] = Nobody]
    /\ Step(t)
    /\ UNCHANGED <<lists, state, waiting, manager>>

\* mutexunlock by the owner, the last mutex first: popfirst.
Unlock(t, m) ==
    /\ Runs(t)
    /\ call[t] = "none"
    /\ t \in Range(waiting[m])
    /\ \A n \in Mutexes : t \in Range(waiting[n]) => n >= m
    /\ waiting' = [waiting EXCEPT ![m] = Tail(@)]
    /\ call' = [call EXCEPT ![t] = "leave"]
    /\ on' = [on EXCEPT ![t] = m]
    /\ Step(t)
    /\ UNCHANGED <<lists, state, locker, manager>>

\* m->locker = 0
ClearLocker(t) ==
    /\ Runs(t)
    /\ call[t] = "leave"
    /\ locker' = [locker EXCEPT ![on[t]] = Nobody]
    /\ call' = [call EXCEPT ![t] = "none"]
    /\ on' = [on EXCEPT ![t] = Nobody]
    /\ Step(t)
    /\ UNCHANGED <<lists, state, waiting, manager>>

-----------------------------------------------------------------------------
(* services_process: the Process Manager has the processor. *)

\* sleep(100), before each of the loops.
Awake ==
    /\ \/ phase = "sleepLive" /\ phase' = "collect"
       \/ phase = "sleepDead" /\ phase' = "bury"
    /\ i' = 0
    /\ UNCHANGED <<lists, state, mutexes, crnt, mut>>

\* The first loop: a living thread is passed over.
PassOver ==
    /\ phase = "collect"
    /\ i < Len(thread_list)
    /\ ~Corpse(thread_list[i + 1])
    /\ i' = i + 1
    /\ UNCHANGED <<lists, state, mutexes, phase, crnt, mut>>

\* Mutants of Collect: the state is not looked at; the entry is copied, not
\* popped.
CollectAny ==
    /\ phase = "collect"
    /\ i < Len(thread_list)
    /\ crnt' = thread_list[i + 1]
    /\ thread_list' = RemoveAt(thread_list, i + 1)
    /\ phase' = "listadd"
    /\ UNCHANGED <<thread_list_dead, state, mutexes, i, mut>>
CollectCopy ==
    /\ phase = "collect"
    /\ i < Len(thread_list)
    /\ Corpse(thread_list[i + 1])
    /\ crnt' = thread_list[i + 1]
    /\ phase' = "listadd"
    /\ UNCHANGED <<lists, state, mutexes, i, mut>>

\* popitem(thread_list, i, &dead)
Collect ==
    /\ phase = "collect"
    /\ i < Len(thread_list)
    /\ Corpse(thread_list[i + 1])
    /\ crnt' = thread_list[i + 1]
    /\ thread_list' = RemoveAt(thread_list, i + 1)
    /\ phase' = "listadd"
    /\ UNCHANGED <<thread_list_dead, state, mutexes, i, mut>>

\* Mutant of AddDead: the index is added instead of the record.
AddDeadIndex ==
    /\ phase = "listadd"
    /\ thread_list_dead' = Append(thread_list_dead, i)
    /\ crnt' = Nobody
    /\ phase' = "collect"
    /\ i' = i + 1
    /\ UNCHANGED <<thread_list, state, mutexes, mut>>

\* listadd(thread_list_dead, dead); the index moves on over the entry that
\* slid into the gap.
AddDead ==
    /\ phase = "listadd"
    /\ thread_list_dead' = Append(thread_list_dead, crnt)
    /\ crnt' = Nobody
    /\ phase' = "collect"
    /\ i' = i + 1
    /\ UNCHANGED <<thread_list, state, mutexes, mut>>

EndCollect ==
    /\ phase = "collect"
    /\ i >= Len(thread_list)
    /\ phase' = "sleepDead"
    /\ i' = 0
    /\ UNCHANGED <<lists, state, mutexes, crnt, mut>>

\* The second loop: popitem(thread_list_dead, i, &crnt)
Bury ==
    /\ phase = "bury"
    /\ i < Len(thread_list_dead)
    /\ crnt' = thread_list_dead[i + 1]
    /\ thread_list_dead' = RemoveAt(thread_list_dead, i + 1)
    /\ phase' = "find"
    /\ UNCHANGED <<thread_list, state, mutexes, i, mut>>

\* The search through mutexlist for the first mutex whose locker is the dead
\* thread.  Nobody makes it a locker any more, so that the first it comes to
\* is the first at the moment it comes to it.
FindMutex ==
    LET mine == {m \in Mutexes : locker[m] = crnt} IN
    /\ phase = "find"
    /\ IF mine = {}
       THEN mut' = Nobody /\ phase' = "free"
       ELSE /\ mut' \in mine /\ \A n \in mine : mut' <= n
            /\ phase' = "reset"
    /\ UNCHANGED <<lists, state, mutexes, i, crnt>>

\* Mutant of ResetMutex: it takes the first out of the queue as well, as
\* mutexunlock does.
ResetAndPop ==
    /\ phase = "reset"
    /\ locker' = [locker EXCEPT ![mut] = Nobody]
    /\ waiting' = [waiting EXCEPT ![mut] = IF @ = <<>> THEN @ ELSE Tail(@)]
    /\ phase' = "free"
    /\ UNCHANGED <<lists, state, call, on, i, crnt, mut>>

\* mut->locker = 0, and no look whether the locker is still the dead thread.
ResetMutex ==
    /\ phase = "reset"
    /\ locker' = [locker EXCEPT ![mut] = Nobody]
    /\ phase' = "free"
    /\ UNCHANGED <<lists, state, waiting, call, on, i, crnt, mut>>

\* free(crnt->stacktop); free(crnt)
Forgotten(t) == IF t = crnt THEN Stale ELSE t

FreeRecord ==
    /\ phase = "free"
    /\ state' = [state EXCEPT ![crnt] = "NONE"]
    /\ waiting' = [m \in Mutexes |-> [k \in DOMAIN waiting[m] |-> Forgotten(waiting[m][k])]]
    /\ locker' = [m \in Mutexes |-> Forgotten(locker[m])]
    /\ call' = [call EXCEPT ![crnt] = "none"]
    /\ on' = [on EXCEPT ![crnt] = Nobody]
    /\ crnt' = Nobody
    /\ phase' = "bury"
    /\ i' = i + 1
    /\ UNCHANGED <<lists, mut>>

\* Mutant of EndBury: the loop test does not see the last entry.
EndBuryEarly ==
    /\ phase = "bury"
    /\ i + 1 >= Len(thread_list_dead)
    /\ phase' = "sleepLive"
    /\ i' = 0
    /\ UNCHANGED <<lists, state, mutexes, crnt, mut>>

EndBury ==
    /\ phase = "bury"
    /\ i >= Len(thread_list_dead)
    /\ phase' = "sleepLive"
    /\ i' = 0
    /\ UNCHANGED <<lists, state, mutexes, crnt, mut>>

services_process ==
    /\ own' = Nobody
    /\ \/ Awake
       \/ PassOver \/ Collect \/ AddDead \/ EndCollect
       \/ Bury \/ FindMutex \/ ResetMutex \/ FreeRecord \/ EndBury

-----------------------------------------------------------------------------
Next ==
    \/ services_process
    \/ \E t \in Threads : Create(t) \/ Kill(t) \/ Revive(t) \/ Fault(t)
    \/ \E s, t \in Threads : Terminate(s, t)
    \/ \E t \in Threads : Enter(t) \/ SetLocker(t) \/ ClearLocker(t)
    \/ \E t \in Threads, m \in Mutexes : Lock(t, m) \/ Unlock(t, m)

Spec == Init /\ [][Next]_vars

\* The scheduler starves nobody and wakes every sleeper (Tasking!NoStarvation
\* and Tasking!SleepersRun), the Process Manager included.
FairSpec == Spec /\ WF_vars(services_process)

-----------------------------------------------------------------------------
(* Properties. *)

\* Every record is where its state says: in one of the lists, once, or in
\* the hands of the Process Manager, or free; and a corpse that may still
\* revive itself is not collected yet.
RecordsSound ==
    /\ IsInjective(thread_list)
    /\ IsInjective(thread_list_dead)
    /\ Range(thread_list) \cap Range(thread_list_dead) = {}
    /\ crnt \notin Range(thread_list) \cup Range(thread_list_dead)
    /\ \A t \in Range(thread_list_dead) \cup ({crnt} \cap Threads) : Corpse(t) /\ own # t
    /\ \A t \in Threads :
        state[t] # "NONE" <=>
            t \in Range(thread_list) \cup Range(thread_list_dead) \cup {crnt}

\* The store of the Process Manager into the locker of a mutex, which may
\* come after the dead thread has been followed by another owner, and the
\* faults let nobody past a queue: whoever is past the loop of mutexlock is
\* the first in it, and a locker is inside the mutex or just leaving it.
OwnersSound ==
    \A m \in Mutexes, t \in Threads :
        /\ Owns(t, m) => Head(waiting[m]) = t
        /\ locker[m] = t => Owns(t, m) \/ (call[t] = "leave" /\ on[t] = m)

\* The two loops take records through their life in order, although their
\* index skips the entry behind every one they pop; what takes a dead thread
\* back to life is its own sleep, before it is collected.
Stage(t) ==
    CASE t \in Range(thread_list_dead) \/ (t = crnt /\ phase \in {"find", "reset", "free"}) -> "collected"
      [] state[t] = "NONE" -> "free"
      [] state[t] = "ALIVE" -> "live"
      [] OTHER -> "dead"
Abstract == INSTANCE Lifecycle WITH stage <- [t \in Threads |-> Stage(t)]
ImplementsLifecycle == Abstract!Spec

\* Every dead thread is collected and its memory is freed, also when others
\* die and are created all the time.
CorpsesFreed == Abstract!FairSpec

\* What the mutex list is kept for (notes.txt: "add each mutex to a list so
\* we can search it later when killing a thread"): a mutex that the Process
\* Manager has taken from a killed owner, whose record is freed by now, is
\* not blocked by that owner.
FreedBlocksNobody ==
    phase = "bury" /\ mut \in Mutexes =>
        waiting[mut] = <<>> \/ Head(waiting[mut]) # Stale
=============================================================================
