----------------------------- MODULE SharedList -----------------------------
(***************************************************************************)
(* The waiting list of one mutex as listadd and popfirst of src/common.c   *)
(* update it in memory: an array of slots and a counter, read and written  *)
(* step by step, while mutexlock looks at slot 0.  Nothing disables        *)
(* interrupts in these calls, so the timer may switch threads in the       *)
(* middle of one and another call may overlap it.                          *)
(***************************************************************************)
EXTENDS Integers, FiniteSets

CONSTANTS
    Threads,        \* the threads that lock the mutex
    Capacity,       \* list_t.length: 32 entries for a waiting list
    NoThread        \* the 0 of a slot that was never written

ASSUME ListAssumption ==
    /\ Capacity \in Nat \ {0}
    /\ NoThread \notin Threads

VARIABLES
    slot,       \* list_t.pointer[0 .. Capacity]; the last one lies past the end
    current,    \* list_t.current
    pc,
    reg,        \* the value of current a thread has loaded into a register
    count,      \* the words its memcpy copies
    done,       \* the words it has copied
    torn        \* history: two calls of the list have overlapped

vars == <<slot, current, pc, reg, count, done, torn>>

InAdd == {"addStore", "incRead", "incWrite"}
InPop == {"copy", "decRead", "decWrite"}

TypeOK ==
    /\ slot \in [0 .. Capacity -> Threads \cup {NoThread}]
    /\ current \in 0 .. Capacity
    /\ pc \in [Threads -> {"out", "spin", "inside"} \cup InAdd \cup InPop]
    /\ reg \in [Threads -> 0 .. Capacity]
    /\ count \in [Threads -> 0 .. Capacity]
    /\ done \in [Threads -> 0 .. Capacity]
    /\ torn \in BOOLEAN

Init ==
    /\ slot = [i \in 0 .. Capacity |-> NoThread]
    /\ current = 0
    /\ pc = [t \in Threads |-> "out"]
    /\ reg = [t \in Threads |-> 0]
    /\ count = [t \in Threads |-> 0]
    /\ done = [t \in Threads |-> 0]
    /\ torn = FALSE

Goto(t, there) == pc' = [pc EXCEPT ![t] = there]

\* A step of a list call of t, which falls into a call of another thread or
\* does not.
Overlaps(t) == \E s \in Threads \ {t} : pc[s] \in InAdd \cup InPop
At(t, here) == pc[t] = here /\ torn' = (torn \/ Overlaps(t))

-----------------------------------------------------------------------------
(* listadd(m->waiting, tid), below the capacity *)

AddRead(t) ==
    /\ At(t, "out")
    /\ current < Capacity
    /\ reg' = [reg EXCEPT ![t] = current]
    /\ Goto(t, "addStore")
    /\ UNCHANGED <<slot, current, count, done>>

\* thelist->pointer[thelist->current] = value
AddStore(t) ==
    /\ At(t, "addStore")
    /\ slot' = [slot EXCEPT ![reg[t]] = t]
    /\ Goto(t, "incRead")
    /\ UNCHANGED <<current, reg, count, done>>

\* thelist->current++: a load and a store
IncRead(t) ==
    /\ At(t, "incRead")
    /\ reg' = [reg EXCEPT ![t] = current]
    /\ Goto(t, "incWrite")
    /\ UNCHANGED <<slot, current, count, done>>

IncWrite(t) ==
    /\ At(t, "incWrite")
    /\ reg[t] < Capacity
    /\ current' = reg[t] + 1
    /\ Goto(t, "spin")
    /\ UNCHANGED <<slot, reg, count, done>>

\* while(m->waiting->pointer[0] != p_id()) preempt();
Enter(t) ==
    /\ pc[t] = "spin"
    /\ slot[0] = t
    /\ Goto(t, "inside")
    /\ UNCHANGED <<slot, current, reg, count, done, torn>>

-----------------------------------------------------------------------------
(* popfirst(m->waiting, ...) *)

PopRead(t) ==
    /\ At(t, "inside")
    /\ IF current <= 0
       THEN Goto(t, "out") /\ UNCHANGED <<count, done>>
       ELSE /\ count' = [count EXCEPT ![t] = current]
            /\ done' = [done EXCEPT ![t] = 0]
            /\ Goto(t, "copy")
    /\ UNCHANGED <<slot, current, reg>>

\* Mutant of Copy: from the end of the list to its front.
CopyBackwards(t) ==
    /\ At(t, "copy")
    /\ IF done[t] < count[t]
       THEN LET k == count[t] - done[t] IN
            /\ slot' = [slot EXCEPT ![k - 1] = slot[k]]
            /\ done' = [done EXCEPT ![t] = @ + 1]
            /\ UNCHANGED pc
       ELSE Goto(t, "decRead") /\ UNCHANGED <<slot, done>>
    /\ UNCHANGED <<current, reg, count>>

\* memcpy(pointer, pointer + 1, current * 4), an entry at a time (memcpy goes
\* byte by byte); the last one comes from behind the list.
Copy(t) ==
    /\ At(t, "copy")
    /\ IF done[t] < count[t]
       THEN /\ slot' = [slot EXCEPT ![done[t]] = slot[done[t] + 1]]
            /\ done' = [done EXCEPT ![t] = @ + 1]
            /\ UNCHANGED pc
       ELSE Goto(t, "decRead") /\ UNCHANGED <<slot, done>>
    /\ UNCHANGED <<current, reg, count>>

\* thelist->current--
DecRead(t) ==
    /\ At(t, "decRead")
    /\ reg' = [reg EXCEPT ![t] = current]
    /\ Goto(t, "decWrite")
    /\ UNCHANGED <<slot, current, count, done>>

DecWrite(t) ==
    /\ At(t, "decWrite")
    /\ reg[t] > 0
    /\ current' = reg[t] - 1
    /\ Goto(t, "out")
    /\ UNCHANGED <<slot, reg, count, done>>

-----------------------------------------------------------------------------
Next == \E t \in Threads :
    \/ AddRead(t) \/ AddStore(t) \/ IncRead(t) \/ IncWrite(t)
    \/ Enter(t)
    \/ PopRead(t) \/ Copy(t) \/ DecRead(t) \/ DecWrite(t)

Spec == Init /\ [][Next]_vars

-----------------------------------------------------------------------------
(* Properties. *)

\* No two threads are between their mutexlock and the popfirst of their
\* mutexunlock, which is what a mutex_t is for.
MutualExclusion == Cardinality({t \in Threads : pc[t] = "inside"}) <= 1

\* The array between two calls is the queue; while a popfirst copies, the
\* words below done have moved and the others have not.
Queue ==
    IF \E t \in Threads : pc[t] \in InPop
    THEN LET t == CHOOSE s \in Threads : pc[s] \in InPop
         IN  [i \in 1 .. count[t] - 1 |-> IF i <= done[t] THEN slot[i - 1] ELSE slot[i]]
    ELSE [i \in 1 .. current |-> slot[i - 1]]

Abstract == INSTANCE FifoLock WITH
    Locks <- {"mutex"},
    queue <- [l \in {"mutex"} |-> Queue],
    inside <- [l \in {"mutex"} |-> {t \in Threads : pc[t] = "inside"}]

\* Until two list calls overlap for the first time, every step is one of a
\* first-come first-served lock, whatever the timer interrupts and whoever
\* gets in meanwhile: the words that popfirst moves, and the one it shifts in
\* from behind the last entry, let in the next in the queue or nobody.
FifoUntilTorn ==
    /\ Abstract!Init
    /\ [][torn' \/ Abstract!Next \/ UNCHANGED Abstract!lockVars]_vars
=============================================================================
