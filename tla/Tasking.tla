------------------------------- MODULE Tasking -------------------------------
(***************************************************************************)
(* The thread scheduler of src/tasking.c: the two thread lists, the        *)
(* current thread, the ageing election of tasking_switch, sleep, kill, the *)
(* signals, the fault path of isr_handler that turns a thread into a       *)
(* zombie, and the two list moves of the Process Manager.                  *)
(*                                                                         *)
(* One processor runs.  The code of a thread is executed only while that   *)
(* thread is thread_current, so every action but Tick is a step of         *)
(* thread_current.  tasking_switch runs inside an interrupt gate and is    *)
(* one step; everything else in this module may be interrupted by Tick     *)
(* between any two steps.  Being DEAD or ZOMBIE does not stop a thread:    *)
(* it stops when the processor is given to another one.                    *)
(***************************************************************************)
EXTENDS Naturals, SequencesExt

CONSTANTS
    Threads,        \* the thread_t records the heap can hold
    Idle,           \* the boot thread, created by tasking_init
    Manager,        \* the Process Manager thread
    Medium,         \* THREAD_PRIORITY_MEDIUM
    Realtime,       \* THREAD_PRIORITY_REALTIME
    SleepTimes,     \* the arguments given to sleep
    WordMod         \* 2^32: thread_t.age and thread_t.arg are uint32_t

ASSUME ThreadsAssumption ==
    /\ IsFiniteSet(Threads)
    /\ Idle \in Threads
    /\ Manager \in Threads
    /\ Idle # Manager

ASSUME NumbersAssumption ==
    /\ WordMod \in Nat \ {0}
    /\ Medium \in 0 .. WordMod - 1
    /\ Realtime \in 0 .. WordMod - 1
    /\ SleepTimes \subseteq 1 .. WordMod - 1

\* The priorities are 15 and 40, the longest sleep in src is 3000 ticks, and
\* the heap holds far fewer threads than a word counts.
ASSUME AgeAssumption ==
    /\ SleepTimes # {}
    /\ Medium <= Realtime
    /\ \A ms \in SleepTimes : Realtime + ms + Cardinality(Threads) < WordMod

VARIABLES
    thread_list,        \* the schedulable threads, in list order
    thread_list_dead,   \* the threads whose memory is about to be freed
    thread_current,     \* the thread that owns the processor
    state,              \* thread_t.state; "NONE" when the record is not allocated
    age,                \* thread_t.age
    priority,           \* thread_t.priority
    arg,                \* thread_t.arg: the ticks left to sleep, or the exception
    pc                  \* where in sleep() the thread is; "halted" in an endless loop

vars == <<thread_list, thread_list_dead, thread_current, state, age, priority,
          arg, pc>>

Word == 0 .. WordMod - 1

States == {"NONE", "ALIVE", "ZOMBIE", "DEAD", "WAITING_SLEEP"}

\* The priorities a thread can have.  0 is what a mutex that was unlocked
\* by somebody else hands back.
Priorities == {0, Medium, Realtime}

\* 0..31 are the vectors an exception stores in arg; one stands for all.
Vector == 0

Listed == Range(thread_list)

Corpse(t) == state[t] \in {"DEAD", "ZOMBIE"}

TypeOK ==
    /\ thread_list \in Seq(Threads)
    /\ thread_list_dead \in Seq(Threads)
    /\ thread_current \in Threads
    /\ state \in [Threads -> States]
    /\ age \in [Threads -> Word]
    /\ priority \in [Threads -> Priorities]
    /\ arg \in [Threads -> Word]
    /\ pc \in [Threads -> {"run", "sleepState", "sleepPreempt", "sleepSpin", "halted"}]

\* tasking_init: only the boot thread exists.
Init ==
    /\ thread_list = <<Idle>>
    /\ thread_list_dead = <<>>
    /\ thread_current = Idle
    /\ state = [t \in Threads |-> IF t = Idle THEN "ALIVE" ELSE "NONE"]
    /\ age = [t \in Threads |-> 0]
    /\ priority = [t \in Threads |-> IF t = Idle THEN Realtime ELSE 0]
    /\ arg = [t \in Threads |-> 0]
    /\ pc = [t \in Threads |-> "run"]

-----------------------------------------------------------------------------
(* The scan of tasking_switch. *)

Sleeping(t) == t \in Listed /\ state[t] = "WAITING_SLEEP"

\* What the scan leaves in arg, state and age of a thread.
CountedDown(t) == IF Sleeping(t) THEN (arg[t] + WordMod - 1) % WordMod ELSE arg[t]
\* Mutant of Awoken: the unsigned counter compared with < 0.
AwokenNever(t) == IF Sleeping(t) /\ CountedDown(t) < 0 THEN "ALIVE" ELSE state[t]

Awoken(t) == IF Sleeping(t) /\ CountedDown(t) = 0 THEN "ALIVE" ELSE state[t]
Aged(t) == IF t \in Listed THEN (age[t] + 1) % WordMod ELSE age[t]

\* Mutant of Ready: only sleepers are passed over.
ReadyUnlessAsleep == {t \in Listed : Awoken(t) # "WAITING_SLEEP"}

Ready == {t \in Listed : Awoken(t) = "ALIVE"}

Before(s, t) == \E i, j \in DOMAIN thread_list :
    i < j /\ thread_list[i] = s /\ thread_list[j] = t

\* Mutant of Outruns: forgets that entries are aged one after the other.
OutrunsAllAged(t) == Aged(t) > Aged(thread_current)

\* The scan meets thread_current's own entry on the way, so a thread listed
\* before it is compared with its age of before this switch.
Outruns(t) ==
    IF Before(t, thread_current)
    THEN Aged(t) > age[thread_current]
    ELSE Aged(t) > Aged(thread_current)

\* Ties go to the thread listed first.
FirstOldest(t) == \A s \in Ready \ {t} :
    Aged(s) < Aged(t) \/ (Aged(s) = Aged(t) /\ Before(t, s))

Elects(t) ==
    IF \E s \in Ready : Outruns(s)
    THEN t \in Ready /\ FirstOldest(t)
    ELSE t = thread_current

\* Mutant of SwitchTo: the elected thread keeps its age.
SwitchKeepingAge(t) ==
    /\ Elects(t)
    /\ thread_current' = t
    /\ arg' = [s \in Threads |-> CountedDown(s)]
    /\ state' = [s \in Threads |-> Awoken(s)]
    /\ age' = [s \in Threads |-> Aged(s)]
    /\ UNCHANGED <<thread_list, thread_list_dead, priority>>

\* One run of tasking_switch, on the timer or on int 0x20.
SwitchTo(t) ==
    /\ Elects(t)
    /\ thread_current' = t
    /\ arg' = [s \in Threads |-> CountedDown(s)]
    /\ state' = [s \in Threads |-> Awoken(s)]
    /\ age' = [s \in Threads |-> IF s = t THEN priority[s] ELSE Aged(s)]
    /\ UNCHANGED <<thread_list, thread_list_dead, priority>>

tasking_switch == \E t \in Threads : SwitchTo(t)

\* The loop as it is written: best[i] is thread_current after the scan has
\* passed i entries of the list, and AgeSeen the age it reads from t there.
AgeSeen(t, i) == IF \E j \in 1 .. i : thread_list[j] = t THEN Aged(t) ELSE age[t]

Better(t, i) ==
    LET crnt == thread_list[i]
    IN  IF crnt \in Ready /\ Aged(crnt) > AgeSeen(t, i) THEN crnt ELSE t

best[i \in 0 .. Len(thread_list)] ==
    IF i = 0 THEN thread_current ELSE Better(best[i - 1], i)

ScanWinner == best[Len(thread_list)]

-----------------------------------------------------------------------------
(* The timer and the steps of the running thread. *)

Running(where) == pc[thread_current] = where

\* IRQ 0.  Threads run with interrupts enabled, wherever they are.
Tick ==
    /\ tasking_switch
    /\ UNCHANGED pc

\* preempt(), as the waiting loop of mutexlock calls it.
Yield ==
    /\ Running("run")
    /\ tasking_switch
    /\ UNCHANGED pc

\* sleep(ms): three statements and a loop, with room for a tick between them.
SleepArg ==
    /\ Running("run")
    /\ \E ms \in SleepTimes : arg' = [arg EXCEPT ![thread_current] = ms]
    /\ pc' = [pc EXCEPT ![thread_current] = "sleepState"]
    /\ UNCHANGED <<thread_list, thread_list_dead, thread_current, state, age, priority>>

SleepState ==
    /\ Running("sleepState")
    /\ state' = [state EXCEPT ![thread_current] = "WAITING_SLEEP"]
    /\ pc' = [pc EXCEPT ![thread_current] = "sleepPreempt"]
    /\ UNCHANGED <<thread_list, thread_list_dead, thread_current, age, priority, arg>>

SleepPreempt ==
    /\ Running("sleepPreempt")
    /\ pc' = [pc EXCEPT ![thread_current] = "sleepSpin"]
    /\ tasking_switch

SleepReturn ==
    /\ Running("sleepSpin")
    /\ state[thread_current] = "ALIVE"
    /\ pc' = [pc EXCEPT ![thread_current] = "run"]
    /\ UNCHANGED <<thread_list, thread_list_dead, thread_current, state, age, priority, arg>>

\* send_sig(tid, SIG_TERM | SIG_ILL | SIG_SEGV): the shell's kill and test
\* virus commands, on any listed thread, the caller included.
Terminate(t) ==
    /\ Running("run")
    /\ thread_current # Manager
    /\ t \in Listed
    /\ state' = [state EXCEPT ![t] = "DEAD"]
    /\ UNCHANGED <<thread_list, thread_list_dead, thread_current, age, priority, arg, pc>>

\* send_sig(p_id(), SIG_PRI, p): mutexlock and mutexunlock, on themselves.
SetPriority(p) ==
    /\ Running("run")
    /\ thread_current \in Listed
    /\ priority' = [priority EXCEPT ![thread_current] = p]
    /\ UNCHANGED <<thread_list, thread_list_dead, thread_current, state, age, arg, pc>>

\* kill(): the thread marks itself and halts for ever, still interruptible.
Kill ==
    /\ Running("run")
    /\ thread_current # Manager
    /\ state' = [state EXCEPT ![thread_current] = "DEAD"]
    /\ pc' = [pc EXCEPT ![thread_current] = "halted"]
    /\ UNCHANGED <<thread_list, thread_list_dead, thread_current, age, priority, arg>>

\* An exception with no catcher: isr_handler resumes the thread in isr_deadlock.
Fault ==
    /\ Running("run")
    /\ arg' = [arg EXCEPT ![thread_current] = Vector]
    /\ state' = [state EXCEPT ![thread_current] = "ZOMBIE"]
    /\ pc' = [pc EXCEPT ![thread_current] = "halted"]
    /\ UNCHANGED <<thread_list, thread_list_dead, thread_current, age, priority>>

\* create_thread_param, at its listadd.
CreateThread(t) ==
    /\ Running("run")
    /\ state[t] = "NONE"
    /\ state' = [state EXCEPT ![t] = "ALIVE"]
    /\ age' = [age EXCEPT ![t] = 0]
    /\ priority' = [priority EXCEPT ![t] = Medium]
    /\ arg' = [arg EXCEPT ![t] = 0]
    /\ pc' = [pc EXCEPT ![t] = "run"]
    /\ thread_list' = Append(thread_list, t)
    /\ UNCHANGED <<thread_list_dead, thread_current>>

\* Mutants of Collect: the state is not looked at; the index is added
\* instead of the record.
CollectAny(i) ==
    /\ thread_current = Manager
    /\ Running("run")
    /\ thread_list' = RemoveAt(thread_list, i)
    /\ thread_list_dead' = Append(thread_list_dead, thread_list[i])
    /\ UNCHANGED <<thread_current, state, age, priority, arg, pc>>
CollectIndex(i) ==
    /\ thread_current = Manager
    /\ Running("run")
    /\ Corpse(thread_list[i])
    /\ thread_list' = RemoveAt(thread_list, i)
    /\ thread_list_dead' = Append(thread_list_dead, i)
    /\ UNCHANGED <<thread_current, state, age, priority, arg, pc>>

\* The first loop of services_process: popitem and listadd of one corpse.
Collect(i) ==
    /\ thread_current = Manager
    /\ Running("run")
    /\ Corpse(thread_list[i])
    /\ thread_list' = RemoveAt(thread_list, i)
    /\ thread_list_dead' = Append(thread_list_dead, thread_list[i])
    /\ UNCHANGED <<thread_current, state, age, priority, arg, pc>>

\* Its second loop: popitem and free of one record.
Free(i) ==
    /\ thread_current = Manager
    /\ Running("run")
    /\ thread_list_dead' = RemoveAt(thread_list_dead, i)
    /\ LET dead == thread_list_dead[i] IN      \* free() clears the whole record
        /\ state' = [state EXCEPT ![dead] = "NONE"]
        /\ age' = [age EXCEPT ![dead] = 0]
        /\ priority' = [priority EXCEPT ![dead] = 0]
        /\ arg' = [arg EXCEPT ![dead] = 0]
        /\ pc' = [pc EXCEPT ![dead] = "run"]
    /\ UNCHANGED <<thread_list, thread_current>>

Next ==
    \/ Tick
    \/ Yield
    \/ SleepArg
    \/ SleepState
    \/ SleepPreempt
    \/ SleepReturn
    \/ \E t \in Threads : Terminate(t) \/ CreateThread(t)
    \/ \E p \in Priorities : SetPriority(p)
    \/ Kill
    \/ Fault
    \/ \E i \in DOMAIN thread_list : Collect(i)
    \/ \E i \in DOMAIN thread_list_dead : Free(i)

Spec == Init /\ [][Next]_vars

\* The only fairness the machine gives: the timer keeps firing.
FairSpec == Spec /\ WF_vars(Tick)

-----------------------------------------------------------------------------
(* Properties. *)

\* The lists and the states agree: an allocated record is in exactly one of
\* the two lists and only once, only corpses await their memory being freed,
\* and the processor is never left to a record that was taken off the list
\* (services_process pops entries that tasking_switch is about to compare).
ListsAgree ==
    /\ IsInjective(thread_list)
    /\ IsInjective(thread_list_dead)
    /\ Listed \cap Range(thread_list_dead) = {}
    /\ \A t \in Threads :
        state[t] # "NONE" <=> t \in Listed \cup Range(thread_list_dead)
    /\ \A t \in Range(thread_list_dead) : Corpse(t)
    /\ thread_current \in Listed

\* Ageing cannot wrap for a thread that may be elected: a thread starts its
\* wait with at most Realtime, ages through the longest sleep and then lets
\* at most every other thread run once (the uint32_t age of tasking_switch).
Longest == CHOOSE m \in SleepTimes : \A n \in SleepTimes : n <= m
AgeBound ==
    \A t \in Listed : ~Corpse(t) =>
        age[t] <= Realtime + Longest + Cardinality(Threads) - 1

\* The declarative election is the loop of tasking_switch, in every
\* reachable state.
ElectionIsTheLoop == \A t \in Threads : Elects(t) <=> t = ScanWinner

\* Once a DEAD or ZOMBIE thread has lost the processor it never gets it back,
\* and what brings it back to life while it has it is one statement only: the
\* assignment of THREAD_STATE_WAITING_SLEEP in its own sleep, which does not
\* look at the state, after the thread has sent SIG_TERM to itself (the virus
\* command of the shell sends it to every thread and sleeps then).
CorpseStaysDown ==
    [][\A t \in Threads :
        Corpse(t) =>
            /\ t # thread_current => thread_current' # t
            /\ \/ state'[t] \in {"DEAD", "ZOMBIE", "NONE"}
               \/ /\ t = thread_current
                  /\ pc[t] = "sleepState" /\ state'[t] = "WAITING_SLEEP"]_vars

\* Every schedulable thread gets the processor, whatever its priority and
\* however often the others raise theirs.
NoStarvation ==
    \A t \in Threads :
        (t \in Listed /\ state[t] = "ALIVE")
            ~> (thread_current = t \/ state[t] # "ALIVE")

\* A sleeping thread is woken and given the processor to return from
\* sleep(), unless it is terminated first.
SleepersRun ==
    \A t \in Threads :
        state[t] = "WAITING_SLEEP"
            ~> (state[t] = "ALIVE" /\ thread_current = t) \/ state[t] = "DEAD"
=============================================================================
