----------------------------- MODULE MutexProofs -----------------------------
(***************************************************************************)
(* Proofs about Mutex: the waiting list orders the threads, its front is   *)
(* the only owner, the locker field accuses nobody wrongly, no priority    *)
(* leaks out of a critical section, and every mutex implements the FIFO    *)
(* lock of FifoLock, faults included.  The last section is about           *)
(* SharedList: the array behind a waiting list implements the same lock    *)
(* until two of its calls overlap.                                         *)
(***************************************************************************)
EXTENDS Mutex, SequenceTheorems, TLAPS

-----------------------------------------------------------------------------
(* What listadd (Append) and popfirst (Tail) do to the elements of a list. *)

\* listadd of an element that is not in the list yet.
LEMMA AppendElements ==
    ASSUME NEW S, NEW s \in Seq(S), NEW x \in S \ Range(s), IsInjective(s)
    PROVE  /\ Append(s, x) \in Seq(S)
           /\ IsInjective(Append(s, x))
           /\ Range(Append(s, x)) = Range(s) \cup {x}
<1>1. Append(s, x) \in Seq(S) /\ IsInjective(Append(s, x))
  BY DEF IsInjective, Range
<1>2. Range(Append(s, x)) = Range(s) \cup {x}
  <2>1. Append(s, x)[Len(s) + 1] = x /\ \A k \in 1 .. Len(s) : Append(s, x)[k] = s[k]
    OBVIOUS
  <2> QED BY <2>1 DEF Range
<1> QED BY <1>1, <1>2

\* popfirst: the first entry goes, the others stay, none twice.
LEMMA TailElements ==
    ASSUME NEW S, NEW s \in Seq(S), s # <<>>, IsInjective(s)
    PROVE  /\ Tail(s) \in Seq(S)
           /\ IsInjective(Tail(s))
           /\ Range(Tail(s)) = Range(s) \ {Head(s)}
<1>1. /\ DOMAIN Tail(s) = 1 .. Len(s) - 1 /\ Head(s) = s[1] /\ 1 \in DOMAIN s
      /\ \A k \in DOMAIN Tail(s) : Tail(s)[k] = s[k + 1]
  BY EmptySeq
<1>2. \A k \in DOMAIN s : k # 1 => k - 1 \in DOMAIN Tail(s) /\ Tail(s)[k - 1] = s[k]
  BY <1>1
<1>3. IsInjective(Tail(s)) /\ Range(Tail(s)) \subseteq Range(s) \ {Head(s)}
  BY <1>1 DEF IsInjective, Range
<1>4. Range(s) \ {Head(s)} \subseteq Range(Tail(s))
  BY <1>1, <1>2 DEF Range
<1> QED BY <1>3, <1>4

\* The first entry of a list, before and after a listadd.
LEMMA HeadFacts ==
    ASSUME NEW S, NEW s \in Seq(S), NEW x \in S
    PROVE  /\ s # <<>> => Head(s) \in Range(s) /\ Head(Append(s, x)) = Head(s)
           /\ Append(s, x) # <<>>
           /\ s = <<>> <=> Range(s) = {}
BY DEF Range

-----------------------------------------------------------------------------
(* The inductive invariant. *)

\* A thread is in the waiting list of a mutex exactly while it spins for it
\* or owns it, and once.
QueueSound ==
    \A m \in Mutexes :
        /\ IsInjective(waiting[m])
        /\ \A t \in Threads :
            t \in Range(waiting[m]) <=> Owns(t, m) \/ (pc[t] = "spin" /\ target[t] = m)

\* The types alone.
Typed ==
    /\ waiting \in [Mutexes -> Seq(Threads)]
    /\ locked \in [Mutexes -> Nat \cup Threads]
    /\ locker \in [Mutexes -> Threads \cup {NoThread}]
    /\ priority \in [Threads -> Nat \cup Threads]
    /\ pc \in [Threads -> Statements]
    /\ target \in [Threads -> Mutexes]
    /\ held \in [Threads -> SUBSET Mutexes]

\* The owner is the thread at the front.
OwnerFirst ==
    \A m \in Mutexes, t \in Threads :
        Owns(t, m) => waiting[m] # <<>> /\ Head(waiting[m]) = t

\* Ownership at each statement of the two calls.
OwnsAt ==
    \A t \in Threads :
        /\ pc[t] \in {"save", "own", "raise", "pop"} => Owns(t, target[t])
        /\ pc[t] \in {"spin", "clearLocked", "clearLocker"} => ~Owns(t, target[t])

IInv == Typed /\ QueueSound /\ OwnerFirst /\ OwnsAt /\ LockerSound

\* The mutexes a thread holds are nested below the one it locks or unlocks.
Nested ==
    \A t \in Threads : \A n \in held[t] :
        /\ pc[t] = "spin" => Rank[n] < Rank[target[t]]
        /\ pc[t] \in {"save", "own", "raise", "pop"} => Rank[n] <= Rank[target[t]]

\* What a thread may run at outside every mutex.
Own(t) == {0, Base[t]}

\* m is the mutex t locked first of those it holds.
Outermost(t, m) == m \in held[t] /\ \A n \in held[t] : Rank[m] <= Rank[n]

\* A thread's own priority is in its thread_t while it holds nothing, and in
\* the outermost mutex it holds from the save in mutexlock to the restore in
\* mutexunlock; between the restore and the popfirst it is in both.
Kept(t) ==
    pc[t] # "dead" =>
        /\ held[t] = {} => priority[t] \in Own(t)
        /\ \A m \in Mutexes : Outermost(t, m) =>
            /\ pc[t] \in {"save", "pop"} /\ target[t] = m => priority[t] \in Own(t)
            /\ ~(pc[t] = "save" /\ target[t] = m) => locked[m] \in Own(t)
PriorityKept == \A t \in Threads : Kept(t)

-----------------------------------------------------------------------------
LEMMA InitIInv == Init => IInv
<1> SUFFICES ASSUME Init  PROVE IInv
  OBVIOUS
<1>1. Typed
  <2>1. (CHOOSE m \in Mutexes : TRUE) \in Mutexes
    BY MutexAssumption
  <2> QED  BY <2>1, MutexAssumption DEF Init, Typed, Statements
<1>2. QueueSound
  BY DEF Init, QueueSound, Owns, IsInjective, Range
<1>3. OwnerFirst /\ OwnsAt /\ LockerSound
  BY MutexAssumption DEF Init, OwnerFirst, OwnsAt, LockerSound, Owns
<1> QED  BY <1>1, <1>2, <1>3 DEF IInv

\* Two threads cannot both be at the front.
LEMMA OneOwner ==
    ASSUME OwnerFirst, NEW m \in Mutexes, NEW s \in Threads, NEW t \in Threads,
           Owns(s, m), Owns(t, m)
    PROVE  s = t
BY DEF OwnerFirst

LEMMA LockStep ==
    ASSUME IInv, NEW t \in Threads, NEW m \in Mutexes, Lock(t, m)
    PROVE  IInv' /\ t \notin Range(waiting[m])
<1> USE DEF IInv, Owns
<1>1. m \notin held[t]
  <2>1. Rank[m] \in Int
    BY MutexAssumption
  <2>2. ~(Rank[m] < Rank[m])
    BY <2>1
  <2> QED  BY <2>2 DEF Lock
<1>2. t \notin Range(waiting[m])
  BY <1>1 DEF Lock, QueueSound
<1>3. /\ waiting[m] \in Seq(Threads)
      /\ waiting' = [waiting EXCEPT ![m] = Append(waiting[m], t)]
      /\ \A n \in Mutexes \ {m} : waiting'[n] = waiting[n]
      /\ waiting'[m] = Append(waiting[m], t)
  BY DEF Lock, Typed
<1>4. /\ waiting'[m] \in Seq(Threads)
      /\ IsInjective(waiting'[m])
      /\ Range(waiting'[m]) = Range(waiting[m]) \cup {t}
  BY <1>2, <1>3, AppendElements DEF QueueSound
<1>5. /\ pc[t] = "out" /\ pc'[t] = "spin" /\ target'[t] = m
      /\ \A s \in Threads \ {t} : pc'[s] = pc[s] /\ target'[s] = target[s]
      /\ UNCHANGED <<locked, locker, priority, held>>
  BY DEF Lock, Typed
<1>6. Typed'
  BY <1>3, <1>4 DEF Lock, Typed, Statements
<1>7. QueueSound'
  BY <1>1, <1>3, <1>4, <1>5 DEF QueueSound
<1>8. OwnerFirst'
  <2>1. waiting[m] # <<>> => waiting'[m] # <<>> /\ Head(waiting'[m]) = Head(waiting[m])
    BY <1>3, HeadFacts
  <2> QED  BY <1>3, <1>5, <2>1 DEF OwnerFirst
<1>9. OwnsAt'
  BY <1>1, <1>5 DEF OwnsAt
<1>10. LockerSound'
  BY <1>5 DEF LockerSound
<1> QED  BY <1>2, <1>6, <1>7, <1>8, <1>9, <1>10

LEMMA EnterStep ==
    ASSUME IInv, NEW t \in Threads, Enter(t)
    PROVE  IInv' /\ Owners(target[t]) = {}
<1> DEFINE m == target[t]
<1> USE DEF IInv, Owns
<1>1. m \in Mutexes /\ m \notin held[t] /\ waiting[m] # <<>> /\ Head(waiting[m]) = t
  BY DEF Enter, Typed, OwnsAt
<1>2. /\ held'[t] = held[t] \cup {m} /\ pc[t] = "spin" /\ pc'[t] = "save"
      /\ \A s \in Threads \ {t} : pc'[s] = pc[s] /\ held'[s] = held[s]
      /\ UNCHANGED <<waiting, locked, locker, priority, target>>
  BY DEF Enter, Typed
<1>3. Owners(m) = {}
  BY <1>1 DEF Owners, OwnerFirst
<1>4. Typed'
  BY <1>1 DEF Enter, Typed, Statements
<1>5. QueueSound'
  BY <1>1, <1>2 DEF QueueSound
<1>6. OwnerFirst' /\ OwnsAt'
  BY <1>1, <1>2, <1>3 DEF OwnerFirst, OwnsAt, Owners
<1>7. LockerSound'
  <2>1. locker[m] # t
    BY <1>1, <1>2 DEF LockerSound
  <2> QED  BY <1>1, <1>2, <2>1 DEF LockerSound
<1> QED  BY <1>3, <1>4, <1>5, <1>6, <1>7

LEMMA OwnerStep ==
    ASSUME IInv, NEW t \in Threads,
           \/ SavePriority(t) \/ SetLocker(t) \/ Raise(t) \/ ClearLocked(t)
           \/ ClearLocker(t) \/ \E m \in Mutexes : Unlock(t, m)
    PROVE  IInv' /\ UNCHANGED <<waiting, held>>
<1> USE DEF IInv, Owns
<1>1. UNCHANGED <<waiting, held>>
  BY DEF SavePriority, SetLocker, Raise, ClearLocked, ClearLocker, Unlock
<1>2. OwnerFirst'
  BY <1>1 DEF OwnerFirst
<1>3. CASE SavePriority(t)
  BY <1>2, <1>3 DEF SavePriority, Typed, Statements, QueueSound, OwnsAt, LockerSound
<1>4. CASE SetLocker(t)
  <2>1. Typed' /\ QueueSound' /\ OwnsAt'
    BY <1>4 DEF SetLocker, Typed, Statements, QueueSound, OwnsAt
  <2>2. LockerSound'
    BY <1>4 DEF SetLocker, Typed, OwnsAt, LockerSound
  <2> QED  BY <1>1, <1>2, <2>1, <2>2
<1>5. CASE Raise(t)
  BY <1>2, <1>5, MutexAssumption DEF Raise, Typed, Statements, QueueSound, OwnsAt, LockerSound
<1>6. CASE ClearLocked(t)
  BY <1>2, <1>6 DEF ClearLocked, Typed, Statements, QueueSound, OwnsAt, LockerSound
<1>7. CASE ClearLocker(t)
  <2>1. Typed' /\ QueueSound' /\ OwnsAt'
    BY <1>7 DEF ClearLocker, Typed, Statements, QueueSound, OwnsAt
  <2>2. LockerSound'
    BY <1>7, MutexAssumption DEF ClearLocker, Typed, LockerSound
  <2> QED  BY <1>1, <1>2, <2>1, <2>2
<1>8. ASSUME NEW m \in Mutexes, Unlock(t, m)  PROVE IInv'
  BY <1>2, <1>8 DEF Unlock, Typed, Statements, QueueSound, OwnsAt, LockerSound
<1> QED  BY <1>1, <1>3, <1>4, <1>5, <1>6, <1>7, <1>8

LEMMA PopStep ==
    ASSUME IInv, NEW t \in Threads, Pop(t)
    PROVE  IInv' /\ Owners(target[t]) = {t}
<1> DEFINE m == target[t]
<1> USE DEF IInv, Owns
<1>1. m \in Mutexes /\ m \in held[t] /\ waiting[m] # <<>> /\ Head(waiting[m]) = t
  BY DEF Pop, Typed, OwnsAt, OwnerFirst
<1>2. Owners(m) = {t}
  BY <1>1 DEF Owners, OwnerFirst
<1>3. /\ held'[t] = held[t] \ {m} /\ pc[t] = "pop" /\ pc'[t] = "clearLocked"
      /\ \A s \in Threads \ {t} : pc'[s] = pc[s] /\ held'[s] = held[s]
      /\ waiting'[m] = Tail(waiting[m])
      /\ \A n \in Mutexes \ {m} : waiting'[n] = waiting[n]
      /\ UNCHANGED <<locker, priority, target>>
  BY <1>1 DEF Pop, Typed
<1>4. /\ waiting'[m] \in Seq(Threads)
      /\ IsInjective(waiting'[m])
      /\ Range(waiting'[m]) = Range(waiting[m]) \ {t}
  BY <1>1, <1>3, TailElements DEF Typed, QueueSound
<1>5. Typed'
  <2>1. waiting' \in [Mutexes -> Seq(Threads)]
    BY <1>1, <1>4 DEF Pop, Typed
  <2>2. locked' \in [Mutexes -> Nat \cup Threads]
    BY <1>1 DEF Pop, Typed
  <2> QED  BY <2>1, <2>2 DEF Pop, Typed, Statements
<1>6. QueueSound'
  BY <1>1, <1>2, <1>3, <1>4 DEF QueueSound, Owners
<1>7. OwnerFirst' /\ OwnsAt'
  BY <1>1, <1>2, <1>3 DEF OwnerFirst, OwnsAt, Owners
<1>8. LockerSound'
  BY <1>1, <1>3 DEF LockerSound
<1> QED  BY <1>2, <1>5, <1>6, <1>7, <1>8

LEMMA FaultStep ==
    ASSUME IInv, NEW t \in Threads, Fault(t)
    PROVE  /\ IInv'
           /\ \A m \in Mutexes : locker[m] = t => Owners(m) = {t} /\ waiting[m] # <<>>
<1> DEFINE freed == {m \in Mutexes : locker[m] = t}
<1> USE DEF IInv, Owns
<1>1. \A m \in freed : m \in held[t] /\ waiting[m] # <<>> /\ Head(waiting[m]) = t
  BY DEF Fault, LockerSound, OwnerFirst
<1>2. \A m \in freed : Owners(m) = {t}
  BY <1>1 DEF Owners, OwnerFirst
<1>3. /\ held'[t] = held[t] \ freed /\ pc[t] = "out" /\ pc'[t] = "dead"
      /\ \A s \in Threads \ {t} : pc'[s] = pc[s] /\ held'[s] = held[s]
      /\ \A m \in freed : waiting'[m] = Tail(waiting[m]) /\ locker'[m] = NoThread
      /\ \A m \in Mutexes \ freed : waiting'[m] = waiting[m] /\ locker'[m] = locker[m]
      /\ UNCHANGED target
  BY <1>1 DEF Fault, Typed
<1>4. ASSUME NEW m \in freed
      PROVE  /\ waiting'[m] \in Seq(Threads)
             /\ IsInjective(waiting'[m])
             /\ Range(waiting'[m]) = Range(waiting[m]) \ {t}
  <2>1. waiting[m] \in Seq(Threads) /\ IsInjective(waiting[m])
    BY DEF Typed, QueueSound
  <2>2. waiting[m] # <<>> /\ Head(waiting[m]) = t /\ waiting'[m] = Tail(waiting[m])
    BY <1>1, <1>3
  <2> QED  BY <2>1, <2>2, TailElements
<1>5. Typed'
  <2>1. waiting' \in [Mutexes -> Seq(Threads)]
    BY <1>3, <1>4 DEF Fault, Typed
  <2>2. /\ locked' \in [Mutexes -> Nat \cup Threads]
        /\ locker' \in [Mutexes -> Threads \cup {NoThread}]
    BY DEF Fault, Typed
  <2>3. priority' \in [Threads -> Nat \cup Threads]
    BY DEF Fault, Typed
  <2> QED  BY <2>1, <2>2, <2>3 DEF Fault, Typed, Statements
<1> HIDE DEF freed
<1>6. QueueSound'
  <2>1. freed \subseteq Mutexes
    BY DEF freed
  <2>2. ASSUME NEW m \in Mutexes
        PROVE  /\ IsInjective(waiting'[m])
               /\ \A s \in Threads : s \in Range(waiting'[m])
                      <=> m \in held'[s] \/ (pc'[s] = "spin" /\ target'[s] = m)
    <3>1. CASE m \in freed
      BY <1>1, <1>2, <1>3, <1>4, <3>1 DEF QueueSound, Owners
    <3>2. CASE m \notin freed
      BY <1>3, <3>2 DEF QueueSound
    <3> QED  BY <3>1, <3>2
  <2> QED  BY <2>2 DEF QueueSound
<1>7. OwnerFirst'
  BY <1>2, <1>3 DEF OwnerFirst, Owners
<1>8. OwnsAt'
  BY <1>3 DEF OwnsAt
<1>9. LockerSound'
  BY <1>3, MutexAssumption DEF LockerSound, freed
<1> QED  BY <1>1, <1>2, <1>5, <1>6, <1>7, <1>8, <1>9 DEF freed

LEMMA StepIInv == IInv /\ [Next]_vars => IInv'
<1> SUFFICES ASSUME IInv, [Next]_vars  PROVE IInv'
  OBVIOUS
<1>1. ASSUME NEW t \in Threads, Step(t)  PROVE IInv'
  BY <1>1, LockStep, EnterStep, OwnerStep, PopStep DEF Step, Call
<1>2. ASSUME NEW t \in Threads, Fault(t)  PROVE IInv'
  BY <1>2, FaultStep
<1>3. CASE UNCHANGED vars
  BY <1>3 DEF vars, IInv, Typed, QueueSound, OwnerFirst, OwnsAt, LockerSound, Owns
<1> QED  BY <1>1, <1>2, <1>3 DEF Next

LEMMA Invariance == Spec => []IInv
<1>1. Init => IInv
  BY InitIInv
<1>2. IInv /\ [Next]_vars => IInv'
  BY StepIInv
<1> QED  BY <1>1, <1>2, PTL DEF Spec

-----------------------------------------------------------------------------
\* One owner at a time, and it is the first in the queue, for any number of
\* threads and any nesting of mutexes.
THEOREM MutualExclusionCorrect == Spec => []MutualExclusion
<1>1. IInv => MutualExclusion
  BY DEF IInv, OwnerFirst, MutualExclusion, Owners
<1> QED  BY <1>1, Invariance, PTL

\* isr_handler and the Process Manager, which go by the locker field, never
\* take a mutex from a thread that neither owns it nor is leaving it.
THEOREM LockerSoundCorrect == Spec => []LockerSound
<1>1. IInv => LockerSound
  BY DEF IInv
<1> QED  BY <1>1, Invariance, PTL

-----------------------------------------------------------------------------
(* The priority byte. *)

\* From the save in mutexlock to the popfirst the byte of an owner holds a
\* priority, late stores of the previous owner included.
BytesSound ==
    /\ priority \in [Threads -> Nat]
    /\ \A m \in Mutexes :
        locked[m] \in Nat \cup {t \in Threads : pc[t] = "clearLocked" /\ target[t] = m}
    /\ \A t \in Threads, m \in Mutexes :
        Owns(t, m) /\ ~(pc[t] = "save" /\ target[t] = m) => locked[m] \in Nat

LEMMA BytesStep == IInv /\ BytesSound /\ [Next]_vars => BytesSound'
<1> SUFFICES ASSUME IInv, BytesSound, [Next]_vars  PROVE BytesSound'
  OBVIOUS
<1> USE DEF IInv, Owns
<1>1. ASSUME NEW t \in Threads, NEW m \in Mutexes, Lock(t, m)  PROVE BytesSound'
  BY <1>1 DEF Lock, BytesSound, Typed
<1>2. ASSUME NEW t \in Threads, Enter(t)  PROVE BytesSound'
  BY <1>2 DEF Enter, BytesSound, Typed
<1>3. ASSUME NEW t \in Threads, SavePriority(t)  PROVE BytesSound'
  <2>1. target[t] \in Mutexes /\ priority[t] \in Nat
    BY DEF Typed, BytesSound
  <2>2. /\ locked'[target[t]] = priority[t]
        /\ \A n \in Mutexes \ {target[t]} : locked'[n] = locked[n]
        /\ pc[t] = "save" /\ UNCHANGED <<priority, target, held>>
        /\ \A s \in Threads \ {t} : pc'[s] = pc[s]
    BY <1>3, <2>1 DEF SavePriority, Typed
  <2> QED  BY <2>1, <2>2 DEF BytesSound
<1>4. ASSUME NEW t \in Threads, SetLocker(t) \/ Raise(t)  PROVE BytesSound'
  <2>1. priority' \in [Threads -> Nat]
    BY <1>4, MutexAssumption DEF SetLocker, Raise, BytesSound
  <2>2. /\ pc[t] \in {"own", "raise"} /\ pc'[t] \in {"raise", "out"}
        /\ \A s \in Threads \ {t} : pc'[s] = pc[s]
        /\ UNCHANGED <<locked, target, held>>
    BY <1>4 DEF SetLocker, Raise, Typed
  <2> QED  BY <2>1, <2>2 DEF BytesSound
<1>5. ASSUME NEW t \in Threads, NEW m \in Mutexes, Unlock(t, m)  PROVE BytesSound'
  <2>1. locked[m] \in Nat
    BY <1>5 DEF Unlock, BytesSound
  <2> QED  BY <1>5, <2>1 DEF Unlock, BytesSound, Typed
<1>6. ASSUME NEW t \in Threads, Pop(t)  PROVE BytesSound'
  <2> DEFINE m == target[t]
  <2>1. m \in Mutexes /\ m \in held[t] /\ Head(waiting[m]) = t
    BY <1>6 DEF Pop, Typed, OwnsAt, OwnerFirst
  <2>2. /\ locked'[m] = t /\ pc'[t] = "clearLocked" /\ pc[t] = "pop"
        /\ held'[t] = held[t] \ {m}
        /\ \A n \in Mutexes \ {m} : locked'[n] = locked[n]
        /\ \A s \in Threads \ {t} : pc'[s] = pc[s] /\ held'[s] = held[s]
        /\ UNCHANGED <<priority, target>>
    BY <1>6, <2>1 DEF Pop, Typed
  <2>3. \A s \in Threads \ {t} : m \notin held[s]
    BY <2>1 DEF OwnerFirst
  <2> QED  BY <2>1, <2>2, <2>3 DEF BytesSound
<1>7. ASSUME NEW t \in Threads, ClearLocked(t)  PROVE BytesSound'
  <2>1. /\ locked'[target[t]] = 0
        /\ \A n \in Mutexes \ {target[t]} : locked'[n] = locked[n]
        /\ pc[t] = "clearLocked" /\ pc'[t] = "clearLocker"
        /\ \A s \in Threads \ {t} : pc'[s] = pc[s]
        /\ UNCHANGED <<priority, target, held>>
    BY <1>7 DEF ClearLocked, Typed
  <2> QED  BY <2>1 DEF BytesSound
<1>8. ASSUME NEW t \in Threads, ClearLocker(t)  PROVE BytesSound'
  BY <1>8 DEF ClearLocker, BytesSound, Typed
<1>9. ASSUME NEW t \in Threads, Fault(t)  PROVE BytesSound'
  <2> DEFINE freed == {m \in Mutexes : locker[m] = t}
  <2>1. \A m \in freed : m \in held[t] /\ locked[m] \in Nat
    BY <1>9 DEF Fault, LockerSound, BytesSound
  <2>2. /\ pc[t] = "out" /\ pc'[t] = "dead"
        /\ \A s \in Threads \ {t} : pc'[s] = pc[s] /\ held'[s] = held[s]
        /\ held'[t] \subseteq held[t] /\ UNCHANGED target
        /\ \A m \in Mutexes : locked'[m] = locked[m] \/ locked'[m] = 0
    BY <1>9 DEF Fault, Typed
  <2>3. priority' = priority \/ \E m \in freed : priority' = [priority EXCEPT ![t] = locked[m]]
    BY <1>9 DEF Fault
  <2> HIDE DEF freed
  <2>4. priority' \in [Threads -> Nat]
    BY <2>1, <2>3 DEF BytesSound
  <2> QED  BY <2>2, <2>4 DEF BytesSound
<1>10. CASE UNCHANGED vars
  BY <1>10 DEF vars, BytesSound
<1> QED
  BY <1>1, <1>2, <1>3, <1>4, <1>5, <1>6, <1>7, <1>8, <1>9, <1>10 DEF Next, Step, Call

\* The fields of mutex_t and of the threads keep their types: locker holds a
\* tid or 0, locked a priority or the tid of a thread just before its
\* m->locked = 0, and no thread is ever given that tid for a priority.
THEOREM TypeCorrect == Spec => []TypeOK
<1>1. Init => BytesSound
  BY MutexAssumption DEF Init, BytesSound, Owns
<1>2. IInv /\ BytesSound => TypeOK
  BY DEF IInv, BytesSound, Typed, TypeOK
<1> QED  BY <1>1, <1>2, BytesStep, Invariance, PTL DEF Spec

PInv == IInv /\ Nested /\ PriorityKept

\* What a step of t leaves alone is as good for the other threads as before.
LEMMA OthersKept ==
    ASSUME PriorityKept, NEW s \in Threads,
           pc'[s] = pc[s], target'[s] = target[s], held'[s] = held[s],
           priority'[s] = priority[s],
           \A m \in held[s] : locked'[m] = locked[m] \/ locked'[m] = 0
    PROVE  Kept(s)'
<1>1. \A m \in Mutexes : Outermost(s, m)' <=> Outermost(s, m)
  BY DEF Outermost
<1> QED  BY <1>1 DEF PriorityKept, Kept, Own, Outermost

LEMMA NestedStep ==
    ASSUME PInv, [Next]_vars
    PROVE  Nested'
<1> USE DEF PInv, IInv
<1>0. \A m \in Mutexes : Rank[m] \in Int
  BY MutexAssumption
<1>1. ASSUME NEW t \in Threads, NEW m \in Mutexes, Lock(t, m) \/ Unlock(t, m)
      PROVE  Nested'
  BY <1>1 DEF Nested, Lock, Unlock, Typed
<1>2. ASSUME NEW t \in Threads, Enter(t)  PROVE Nested'
  BY <1>0, <1>2 DEF Nested, Enter, Typed
<1>3. ASSUME NEW t \in Threads, SavePriority(t) \/ SetLocker(t) \/ Raise(t)
      PROVE  Nested'
  BY <1>3 DEF Nested, SavePriority, SetLocker, Raise, Typed
<1>4. ASSUME NEW t \in Threads, Pop(t) \/ ClearLocked(t) \/ ClearLocker(t)
      PROVE  Nested'
  BY <1>4 DEF Nested, Pop, ClearLocked, ClearLocker, Typed
<1>5. ASSUME NEW t \in Threads, Fault(t)  PROVE Nested'
  BY <1>5 DEF Nested, Fault, Typed
<1>6. CASE UNCHANGED vars
  BY <1>6 DEF vars, Nested
<1> QED  BY <1>1, <1>2, <1>3, <1>4, <1>5, <1>6 DEF Next, Step, Call

LEMMA PriorityStep ==
    ASSUME PInv, [Next]_vars
    PROVE  PriorityKept'
<1> USE DEF PInv, IInv, Owns
<1>0. \A m \in Mutexes : Rank[m] \in Int
  BY MutexAssumption
<1>1. ASSUME NEW t \in Threads, NEW s \in Threads, s # t, Step(t) \/ Fault(t)
      PROVE  Kept(s)'
  <2>1. /\ pc'[s] = pc[s] /\ target'[s] = target[s]
        /\ held'[s] = held[s] /\ priority'[s] = priority[s]
    BY <1>1 DEF Step, Call, Lock, Unlock, Enter, SavePriority, SetLocker, Raise, Pop,
                ClearLocked, ClearLocker, Fault, Typed
  <2>2. \A m \in held[s] : locked'[m] = locked[m] \/ locked'[m] = 0
    <3>1. ASSUME SavePriority(t) \/ Pop(t)
          PROVE  \A m \in held[s] : locked'[m] = locked[m]
      <4>1. target[t] \in Mutexes /\ target[t] \in held[t]
        BY <3>1 DEF SavePriority, Pop, Typed, OwnsAt
      <4>2. \A m \in held[s] : m \in Mutexes /\ m # target[t]
        BY <1>1, <4>1, OneOwner DEF Typed
      <4> QED  BY <3>1, <4>1, <4>2 DEF SavePriority, Pop, Typed
    <3>2. ASSUME ~SavePriority(t), ~Pop(t)
          PROVE  \A m \in Mutexes : locked'[m] = locked[m] \/ locked'[m] = 0
      BY <1>1, <3>2 DEF Step, Call, Lock, Unlock, Enter, SetLocker, Raise,
                        ClearLocked, ClearLocker, Fault, Typed
    <3> QED  BY <3>1, <3>2 DEF Typed
  <2> QED  BY <2>1, <2>2, OthersKept
<1>2. ASSUME NEW t \in Threads, NEW m \in Mutexes, Lock(t, m)  PROVE Kept(t)'
  BY <1>2 DEF Lock, PriorityKept, Kept, Own, Outermost, Typed
<1>3. ASSUME NEW t \in Threads, Enter(t)  PROVE Kept(t)'
  <2> DEFINE m == target[t]
  <2>1. m \in Mutexes /\ m \notin held[t] /\ held[t] \subseteq Mutexes
    BY <1>3 DEF Enter, Typed, OwnsAt
  <2>2. /\ held'[t] = held[t] \cup {m} /\ pc[t] = "spin" /\ pc'[t] = "save"
        /\ UNCHANGED <<waiting, locked, locker, priority, target>>
    BY <1>3 DEF Enter, Typed
  <2>3. \A n \in held[t] : Rank[n] < Rank[m]
    BY <2>2 DEF Nested
  <2>4. CASE held[t] = {}
    <3>1. priority[t] \in Own(t)
      BY <2>2, <2>4 DEF PriorityKept, Kept
    <3>2. held'[t] = {m}
      BY <2>2, <2>4
    <3> QED  BY <2>1, <2>2, <3>1, <3>2 DEF Kept, Own, Outermost
  <2>5. CASE held[t] # {}
    <3>1. ~Outermost(t, m)'
      BY <1>0, <2>1, <2>2, <2>3, <2>5 DEF Outermost
    <3>2. \A n \in Mutexes \ {m} : Outermost(t, n)' => Outermost(t, n)
      BY <2>2 DEF Outermost
    <3> QED  BY <2>2, <2>5, <3>1, <3>2 DEF PriorityKept, Kept, Own
  <2> QED  BY <2>4, <2>5
<1>4. ASSUME NEW t \in Threads, SavePriority(t)  PROVE Kept(t)'
  <2>1. target[t] \in Mutexes /\ target[t] \in held[t]
    BY <1>4 DEF SavePriority, Typed, OwnsAt
  <2>2. \A n \in Mutexes : Outermost(t, n)' <=> Outermost(t, n)
    BY <1>4 DEF SavePriority, Outermost
  <2> QED  BY <1>4, <2>1, <2>2 DEF SavePriority, PriorityKept, Kept, Own, Typed
<1>5. ASSUME NEW t \in Threads, SetLocker(t) \/ Raise(t)  PROVE Kept(t)'
  <2>1. held[t] # {}
    BY <1>5 DEF SetLocker, Raise, OwnsAt
  <2>2. \A n \in Mutexes : Outermost(t, n)' <=> Outermost(t, n)
    BY <1>5 DEF SetLocker, Raise, Outermost
  <2> QED  BY <1>5, <2>1, <2>2 DEF SetLocker, Raise, PriorityKept, Kept, Own, Typed
<1>6. ASSUME NEW t \in Threads, NEW m \in Mutexes, Unlock(t, m)  PROVE Kept(t)'
  <2>1. \A n \in Mutexes : Outermost(t, n)' <=> Outermost(t, n)
    BY <1>6 DEF Unlock, Outermost
  <2> QED  BY <1>6, <2>1 DEF Unlock, PriorityKept, Kept, Own, Typed
<1>7. ASSUME NEW t \in Threads, Pop(t)  PROVE Kept(t)'
  <2> DEFINE m == target[t]
  <2>1. m \in Mutexes /\ m \in held[t] /\ held[t] \subseteq Mutexes
    BY <1>7 DEF Pop, Typed, OwnsAt
  <2>2. /\ held'[t] = held[t] \ {m} /\ pc[t] = "pop" /\ pc'[t] = "clearLocked"
        /\ UNCHANGED <<locker, priority, target>>
        /\ \A n \in Mutexes \ {m} : locked'[n] = locked[n]
    BY <1>7, <2>1 DEF Pop, Typed
  <2>3. \A n \in held[t] : Rank[n] <= Rank[m]
    BY <2>2 DEF Nested
  <2>4. held'[t] = {} => priority'[t] \in Own(t)
    <3>1. held'[t] = {} => Outermost(t, m)
      BY <1>0, <2>1, <2>2 DEF Outermost
    <3> QED  BY <2>1, <2>2, <3>1 DEF PriorityKept, Kept, Own
  <2>5. \A n \in Mutexes : Outermost(t, n)' => n # m /\ Outermost(t, n)
    BY <2>1, <2>2, <2>3 DEF Outermost
  <2> QED  BY <2>2, <2>4, <2>5 DEF PriorityKept, Kept, Own
<1>8. ASSUME NEW t \in Threads, ClearLocked(t) \/ ClearLocker(t)  PROVE Kept(t)'
  <2>1. \A n \in Mutexes : Outermost(t, n)' <=> Outermost(t, n)
    BY <1>8 DEF ClearLocked, ClearLocker, Outermost
  <2> QED  BY <1>8, <2>1 DEF ClearLocked, ClearLocker, PriorityKept, Kept, Own, Typed
<1>9. ASSUME NEW t \in Threads, Fault(t)  PROVE Kept(t)'
  BY <1>9 DEF Fault, Kept, Typed
<1>10. ASSUME NEW t \in Threads, Step(t) \/ Fault(t)  PROVE PriorityKept'
  <2>1. Kept(t)'
    BY <1>2, <1>3, <1>4, <1>5, <1>6, <1>7, <1>8, <1>9, <1>10 DEF Step, Call
  <2>2. \A s \in Threads : Kept(s)'
    BY <1>1, <1>10, <2>1
  <2> QED  BY <2>2 DEF PriorityKept
<1>11. CASE UNCHANGED vars
  BY <1>11 DEF vars, PriorityKept, Kept, Own, Outermost
<1> QED  BY <1>10, <1>11 DEF Next

LEMMA PriorityInvariance == Spec => []PInv
<1>1. Init => PInv
  <2>1. Init => Nested /\ PriorityKept
    BY MutexAssumption DEF Init, Nested, PriorityKept, Kept, Own, Outermost
  <2> QED  BY <2>1, InitIInv DEF PInv
<1>2. PInv /\ [Next]_vars => PInv'
  BY StepIInv, NestedStep, PriorityStep DEF PInv
<1> QED  BY <1>1, <1>2, PTL DEF Spec

\* A thread that holds no mutex runs at its own priority or at 0, for any
\* number of threads and any nesting: the REALTIME of mutexlock and the tid
\* that popfirst leaves in the byte never stay with it.
THEOREM PriorityCorrect == Spec => []PriorityNotLeaked
<1>1. PInv => PriorityNotLeaked
  BY DEF PInv, PriorityKept, Kept, PriorityNotLeaked, Own
<1> QED  BY <1>1, PriorityInvariance, PTL

-----------------------------------------------------------------------------
(* Every mutex is a FIFO lock. *)

LEMMA InitRefines == Init => Abstract!Init
BY DEF Init, Abstract!Init, Owners, Owns

\* The abstract lock sees the waiting lists and the owners, and a step that
\* changes neither is invisible to it.
LEMMA StepRefines ==
    IInv /\ [Next]_vars => [Abstract!Next]_(Abstract!lockVars)
<1> SUFFICES ASSUME IInv, [Next]_vars,
                    ~ UNCHANGED <<waiting, [m \in Mutexes |-> Owners(m)]>>
             PROVE  Abstract!Next
  BY DEF Abstract!lockVars
<1> DEFINE inside == [m \in Mutexes |-> Owners(m)]
<1>1. ASSUME NEW t \in Threads, NEW m \in Mutexes, Lock(t, m)  PROVE Abstract!Next
  <2>1. t \notin Range(waiting[m])
    BY <1>1, LockStep
  <2>2. inside' = inside
    BY <1>1 DEF Lock, Owners, Owns
  <2>3. Abstract!Request(t, m)
    BY <1>1, <2>1, <2>2 DEF Lock, Range, Abstract!Request, Abstract!Range
  <2> QED  BY <2>3 DEF Abstract!Next
<1>2. ASSUME NEW t \in Threads, Enter(t)  PROVE Abstract!Next
  <2> DEFINE m == target[t]
  <2>1. m \in Mutexes /\ Owners(m) = {}
    BY <1>2, EnterStep DEF IInv, Typed
  <2>2. \A n \in Mutexes : Owners(n)' = IF n = m THEN {t} ELSE Owners(n)
    BY <1>2, <2>1 DEF Enter, IInv, Typed, Owners, Owns
  <2>3. inside' = [inside EXCEPT ![m] = {t}]
    BY <2>1, <2>2
  <2>4. Abstract!Acquire(t, m)
    BY <1>2, <2>1, <2>3 DEF Enter, Abstract!Acquire
  <2> QED  BY <2>1, <2>4 DEF Abstract!Next
<1>3. ASSUME NEW t \in Threads, Pop(t)  PROVE Abstract!Next
  <2> DEFINE m == target[t]
  <2>1. m \in Mutexes /\ Owners(m) = {t}
    BY <1>3, PopStep DEF IInv, Typed
  <2>2. \A n \in Mutexes : Owners(n)' = IF n \in {m} THEN {} ELSE Owners(n)
    BY <1>3, <2>1 DEF Pop, IInv, Typed, Owners, Owns
  <2>3. inside' = [n \in Mutexes |-> IF n \in {m} THEN {} ELSE inside[n]]
    BY <2>2
  <2>4. waiting' = [n \in Mutexes |-> IF n \in {m} THEN Tail(waiting[n]) ELSE waiting[n]]
    BY <1>3, <2>1 DEF Pop, IInv, Typed
  <2>5. \A n \in {m} : inside[n] = {t}
    BY <2>1
  <2>6. Abstract!Release(t, {m})
    BY <2>3, <2>4, <2>5 DEF Abstract!Release
  <2> QED  BY <2>1, <2>6 DEF Abstract!Next
<1>4. ASSUME NEW t \in Threads, Fault(t)  PROVE Abstract!Next
  <2> DEFINE freed == {m \in Mutexes : locker[m] = t}
  <2>1. \A m \in freed : Owners(m) = {t} /\ waiting[m] # <<>>
    BY <1>4, FaultStep
  <2>2. \A n \in Mutexes : Owners(n)' = IF n \in freed THEN {} ELSE Owners(n)
    BY <1>4, <2>1 DEF Fault, IInv, Typed, Owners, Owns
  <2>3. inside' = [n \in Mutexes |-> IF n \in freed THEN {} ELSE inside[n]]
    BY <2>2
  <2>4. waiting' = [n \in Mutexes |-> IF n \in freed THEN Tail(waiting[n]) ELSE waiting[n]]
    BY <1>4, <2>1 DEF Fault
  <2>5. \A n \in freed : inside[n] = {t}
    BY <2>1
  <2>6. freed \in SUBSET Mutexes
    OBVIOUS
  <2> HIDE DEF freed
  <2>7. Abstract!Release(t, freed)
    BY <2>3, <2>4, <2>5 DEF Abstract!Release
  <2> QED  BY <2>6, <2>7 DEF Abstract!Next
<1>5. ASSUME NEW t \in Threads,
             \/ SavePriority(t) \/ SetLocker(t) \/ Raise(t) \/ ClearLocked(t)
             \/ ClearLocker(t) \/ \E m \in Mutexes : Unlock(t, m)
      PROVE  FALSE
  BY <1>5, OwnerStep DEF Owners, Owns
<1>6. CASE UNCHANGED vars
  BY <1>6 DEF vars, Owners, Owns
<1> QED
  BY <1>1, <1>2, <1>3, <1>4, <1>5, <1>6 DEF Next, Step, Call

\* mutexlock and mutexunlock implement a first-come first-served lock, with
\* a fault inside counting as leaving every lock the locker fields name.
THEOREM Implementation == Spec => ImplementsFifoLock
<1>1. Init => Abstract!Init
  BY InitRefines
<1>2. IInv /\ [Next]_vars => [Abstract!Next]_(Abstract!lockVars)
  BY StepRefines
<1>3. Spec => Abstract!Spec
  BY <1>1, <1>2, Invariance, PTL DEF Spec, Abstract!Spec
<1> QED  BY <1>3 DEF ImplementsFifoLock

-----------------------------------------------------------------------------
(* The waiting list of one mutex in memory.  Until two of its calls overlap  *)
(* the array and the counter of SharedList are the list that Mutex appends   *)
(* to and pops in one step.                                                  *)

CONSTANT Capacity

VARIABLES slot, current, call, reg, count, done, torn

List == INSTANCE SharedList WITH pc <- call

Adding(t) == call[t] \in List!InAdd
Popping(t) == call[t] \in List!InPop

\* One thread at a time is inside a call; it has read the counter as it is,
\* and a popfirst works on a list that is not empty.
CallsSound ==
    /\ \A s, t \in Threads : (Adding(s) \/ Popping(s)) /\ (Adding(t) \/ Popping(t)) => s = t
    /\ \A t \in Threads :
        /\ Adding(t) =>
            /\ current < Capacity
            /\ call[t] # "incRead" => reg[t] = current
            /\ call[t] # "addStore" => slot[current] = t
        /\ Popping(t) =>
            /\ current > 0 /\ count[t] = current
            /\ done[t] <= count[t]
            /\ call[t] # "copy" => done[t] = count[t]
            /\ call[t] = "decWrite" => reg[t] = current

\* The queue holds whoever spins or is inside, once, whoever is inside first;
\* a popfirst that has not moved a word yet leaves its caller in slot 0.
OrderSound ==
    /\ List!Queue \in Seq(Threads)
    /\ IsInjective(List!Queue)
    /\ Range(List!Queue) = {t \in Threads : call[t] \in {"spin", "inside"}}
    /\ \A t \in Threads : call[t] = "inside" => List!Queue # <<>> /\ Head(List!Queue) = t
    /\ \A t \in Threads : Popping(t) /\ done[t] = 0 => slot[0] = t

Calls == List!TypeOK /\ CallsSound

\* Where a call stands decides how the words of the array are read.
Words ==
    /\ \A t \in Threads : Popping(t) =>
        List!Queue = [i \in 1 .. current - 1 |-> IF i <= done[t] THEN slot[i - 1] ELSE slot[i]]
    /\ (\A t \in Threads : ~Popping(t)) => List!Queue = [i \in 1 .. current |-> slot[i - 1]]

LEMMA QueueWords == Calls => Words
<1> SUFFICES ASSUME Calls  PROVE Words
  OBVIOUS
<1>1. ASSUME NEW t \in Threads, Popping(t)
      PROVE  List!Queue = [i \in 1 .. current - 1 |->
                                IF i <= done[t] THEN slot[i - 1] ELSE slot[i]]
  <2>1. \A s \in Threads : call[s] \in List!InPop => s = t
    BY <1>1 DEF Calls, CallsSound, Popping
  <2>2. (CHOOSE s \in Threads : call[s] \in List!InPop) = t
    BY <1>1, <2>1 DEF Popping
  <2>3. count[t] = current
    BY <1>1 DEF Calls, CallsSound
  <2> QED  BY <1>1, <2>2, <2>3 DEF List!Queue, Popping
<1>2. ASSUME \A t \in Threads : ~Popping(t)
      PROVE  List!Queue = [i \in 1 .. current |-> slot[i - 1]]
  BY <1>2 DEF List!Queue, Popping
<1> QED  BY <1>1, <1>2 DEF Words

CallStep(t) ==
    \/ List!AddRead(t) \/ List!AddStore(t) \/ List!IncRead(t) \/ List!IncWrite(t)
    \/ List!PopRead(t) \/ List!Copy(t) \/ List!DecRead(t) \/ List!DecWrite(t)

\* A step of a call that does not tear the list is taken while nobody else is
\* inside a call.
LEMMA Alone ==
    ASSUME ~torn', NEW t \in Threads, CallStep(t)
    PROVE  \A s \in Threads \ {t} : ~Adding(s) /\ ~Popping(s)
<1>1. torn' = (torn \/ List!Overlaps(t))
  BY DEF CallStep, List!At, List!AddRead, List!AddStore, List!IncRead, List!IncWrite,
    List!PopRead, List!Copy, List!DecRead, List!DecWrite
<1> QED  BY <1>1 DEF List!Overlaps, Adding, Popping

\* Nobody else is inside a call when a thread takes a step of one, so the
\* calls keep what they rely on.
LEMMA CallsStep ==
    ASSUME Capacity \in Nat \ {0}, NoThread \notin Threads, Calls, [List!Next]_(List!vars),
           ~torn'
    PROVE  Calls'
<1> USE DEF Calls, List!TypeOK, List!InAdd, List!InPop, List!Goto, List!At
<1>1. ASSUME NEW t \in Threads,
             \/ List!AddRead(t) \/ List!AddStore(t) \/ List!IncRead(t) \/ List!IncWrite(t)
             \/ List!PopRead(t) \/ List!Copy(t) \/ List!DecRead(t) \/ List!DecWrite(t)
      PROVE  Calls'
  <2>1. List!TypeOK'
    <3> DEFINE P == {"out", "spin", "inside"} \cup List!InAdd \cup List!InPop
    <3>1. call' \in [Threads -> P]
      <4>1. PICK there \in P : call' = call \/ call' = [call EXCEPT ![t] = there]
        BY <1>1 DEF List!AddRead, List!AddStore, List!IncRead, List!IncWrite,
          List!PopRead, List!Copy, List!DecRead, List!DecWrite
      <4>2. call \in [Threads -> P]
        OBVIOUS
      <4> HIDE DEF P
      <4> QED  BY <4>1, <4>2
    <3>2. slot' \in [0 .. Capacity -> Threads \cup {NoThread}]
      <4>1. CASE List!Copy(t)
        <5>1. done[t] < count[t] => done[t] + 1 \in 0 .. Capacity
          OBVIOUS
        <5> QED  BY <4>1, <5>1 DEF List!Copy
      <4> QED  BY <1>1, <4>1 DEF List!AddRead, List!AddStore, List!IncRead, List!IncWrite,
          List!PopRead, List!DecRead, List!DecWrite
    <3>3. current' \in 0 .. Capacity /\ reg' \in [Threads -> 0 .. Capacity]
      <4>1. CASE List!AddRead(t) \/ List!IncRead(t) \/ List!DecRead(t)
        BY <4>1 DEF List!AddRead, List!IncRead, List!DecRead
      <4>2. CASE List!IncWrite(t) \/ List!DecWrite(t)
        BY <4>2 DEF List!IncWrite, List!DecWrite
      <4>3. CASE List!AddStore(t) \/ List!PopRead(t) \/ List!Copy(t)
        BY <4>3 DEF List!AddStore, List!PopRead, List!Copy
      <4> QED  BY <1>1, <4>1, <4>2, <4>3
    <3>4. count' \in [Threads -> 0 .. Capacity]
      BY <1>1 DEF List!AddRead, List!AddStore, List!IncRead, List!IncWrite,
        List!PopRead, List!Copy, List!DecRead, List!DecWrite
    <3>5. done' \in [Threads -> 0 .. Capacity]
      <4>1. CASE List!Copy(t)
        <5>1. done[t] < count[t] => done[t] + 1 \in 0 .. Capacity
          OBVIOUS
        <5> QED  BY <4>1, <5>1 DEF List!Copy
      <4>2. CASE List!PopRead(t)
        <5>1. done' = done \/ done' = [done EXCEPT ![t] = 0]
          BY <4>2 DEF List!PopRead
        <5>2. done \in [Threads -> 0 .. Capacity] /\ 0 \in 0 .. Capacity
          OBVIOUS
        <5> QED  BY <5>1, <5>2
      <4>3. CASE ~List!Copy(t) /\ ~List!PopRead(t)
        BY <1>1, <4>3 DEF List!AddRead, List!AddStore, List!IncRead, List!IncWrite,
          List!DecRead, List!DecWrite
      <4> QED  BY <4>1, <4>2, <4>3
    <3>6. torn' \in BOOLEAN
      BY <1>1 DEF List!AddRead, List!AddStore, List!IncRead, List!IncWrite,
        List!PopRead, List!Copy, List!DecRead, List!DecWrite, List!At
    <3> QED  BY <3>1, <3>2, <3>3, <3>4, <3>5, <3>6
  <2>2. CallsSound'
    <3>0. \A s \in Threads \ {t} : call[s] \notin List!InAdd \cup List!InPop /\ call'[s] = call[s]
      BY <1>1, Alone DEF CallStep, Adding, Popping, List!AddRead, List!AddStore, List!IncRead, List!IncWrite,
        List!PopRead, List!Copy, List!DecRead, List!DecWrite
    <3>1. \A s \in Threads \ {t} : ~Adding(s)' /\ ~Popping(s)'
      BY <3>0 DEF Adding, Popping
    <3>2. CASE List!AddRead(t)
      BY <3>1, <3>2 DEF List!AddRead, CallsSound, Adding, Popping
    <3>3. CASE List!AddStore(t)
      BY <3>1, <3>3 DEF List!AddStore, CallsSound, Adding, Popping
    <3>4. CASE List!IncRead(t)
      BY <3>1, <3>4 DEF List!IncRead, CallsSound, Adding, Popping
    <3>5. CASE List!IncWrite(t) \/ List!DecWrite(t)
      BY <3>1, <3>5 DEF List!IncWrite, List!DecWrite, CallsSound, Adding, Popping
    <3>6. CASE List!PopRead(t)
      BY <3>1, <3>6 DEF List!PopRead, CallsSound, Adding, Popping
    <3>7. CASE List!Copy(t)
      BY <3>1, <3>7 DEF List!Copy, CallsSound, Adding, Popping
    <3>8. CASE List!DecRead(t)
      BY <3>1, <3>8 DEF List!DecRead, CallsSound, Adding, Popping
    <3> QED  BY <1>1, <3>2, <3>3, <3>4, <3>5, <3>6, <3>7, <3>8
  <2> QED  BY <2>1, <2>2
<1>3. ASSUME NEW t \in Threads, List!Enter(t)  PROVE Calls'
  <2>1. \A s \in Threads : Adding(s)' = Adding(s) /\ Popping(s)' = Popping(s)
    BY <1>3 DEF List!Enter, Adding, Popping
  <2>2. \A s \in Threads : Adding(s) \/ Popping(s) => call'[s] = call[s]
    BY <1>3 DEF List!Enter, Adding, Popping
  <2>3. CallsSound'
    BY <1>3, <2>1, <2>2 DEF List!Enter, CallsSound
  <2> QED  BY <1>3, <2>3 DEF List!Enter
<1>2. CASE UNCHANGED List!vars
  BY <1>2 DEF List!vars, CallsSound, Adding, Popping
<1> QED  BY <1>1, <1>2, <1>3 DEF List!Next

\* What each statement does to the queue: listadd lengthens it when it stores
\* the counter, popfirst shortens it when it reads the counter, and the words
\* that are copied meanwhile are the same queue.
LEMMA QueueStep ==
    ASSUME Capacity \in Nat \ {0}, NoThread \notin Threads, Calls, Calls', ~torn',
           List!Queue \in Seq(Threads), NEW t \in Threads
    PROVE  /\ List!IncWrite(t) => List!Queue' = Append(List!Queue, t)
           /\ List!PopRead(t) /\ current > 0 => List!Queue' = Tail(List!Queue)
           /\ \/ List!AddRead(t) \/ List!AddStore(t) \/ List!IncRead(t) \/ List!Enter(t)
              \/ List!Copy(t) \/ List!DecRead(t) \/ List!DecWrite(t)
              => List!Queue' = List!Queue
<1> USE DEF List!InAdd, List!InPop, List!Goto, List!At
<1>0. Words /\ Words'
  <2>1. Calls' => Words'
    BY QueueWords, PTL
  <2> QED  BY <2>1, QueueWords
<1>a. CallStep(t) => \A s \in Threads \ {t} : ~Adding(s) /\ ~Popping(s)
  BY Alone
<1>1. ASSUME List!IncWrite(t)  PROVE List!Queue' = Append(List!Queue, t)
  <2>1. (\A s \in Threads : ~Popping(s)) /\ (\A s \in Threads : ~Popping(s)')
    BY <1>1, <1>a DEF CallStep, List!IncWrite, Popping, Calls, List!TypeOK
  <2>2. /\ List!Queue = [i \in 1 .. current |-> slot[i - 1]]
        /\ List!Queue' = [i \in 1 .. current' |-> slot'[i - 1]]
    BY <1>0, <2>1 DEF Words
  <2>3. slot' = slot /\ current' = current + 1 /\ slot[current] = t /\ current \in Nat
    <3>1. Adding(t) /\ call[t] = "incWrite"
      BY <1>1 DEF List!IncWrite, Adding
    <3>2. reg[t] = current /\ slot[current] = t
      BY <3>1 DEF Calls, CallsSound
    <3> QED  BY <1>1, <3>2 DEF List!IncWrite, Calls, List!TypeOK
  <2>4. Append(List!Queue, t) = [i \in 1 .. current + 1 |-> IF i <= current THEN slot[i - 1] ELSE t]
    BY <2>2, <2>3
  <2>5. [i \in 1 .. current' |-> slot'[i - 1]]
            = [i \in 1 .. current + 1 |-> IF i <= current THEN slot[i - 1] ELSE t]
    BY <2>3
  <2> QED  BY <2>2, <2>4, <2>5
<1>2. ASSUME List!PopRead(t), current > 0  PROVE List!Queue' = Tail(List!Queue)
  <2>1. (\A s \in Threads : ~Popping(s)) /\ Popping(t)'
    BY <1>2, <1>a DEF CallStep, List!PopRead, Popping, Calls, List!TypeOK
  <2>2. /\ List!Queue = [i \in 1 .. current |-> slot[i - 1]]
        /\ List!Queue' = [i \in 1 .. current' - 1 |->
                            IF i <= done'[t] THEN slot'[i - 1] ELSE slot'[i]]
    BY <1>0, <2>1 DEF Words
  <2>3. slot' = slot /\ current' = current /\ done'[t] = 0 /\ current \in Nat \ {0}
    BY <1>2 DEF List!PopRead, Calls, List!TypeOK
  <2>4. Tail(List!Queue) = [i \in 1 .. current - 1 |-> slot[i]]
    BY <2>2, <2>3
  <2> QED  BY <2>2, <2>3, <2>4
<1>3. ASSUME List!AddRead(t) \/ List!AddStore(t) \/ List!IncRead(t)
      PROVE  List!Queue' = List!Queue
  <2>1. (\A s \in Threads : ~Popping(s)) /\ (\A s \in Threads : ~Popping(s)')
    BY <1>3, <1>a DEF CallStep, List!AddRead, List!AddStore, List!IncRead, Popping, Calls,
      List!TypeOK
  <2>2. /\ List!Queue = [i \in 1 .. current |-> slot[i - 1]]
        /\ List!Queue' = [i \in 1 .. current' |-> slot'[i - 1]]
    BY <1>0, <2>1 DEF Words
  <2>3. current' = current /\ current \in Nat /\ \A i \in 1 .. current : slot'[i - 1] = slot[i - 1]
    BY <1>3 DEF List!AddRead, List!AddStore, List!IncRead, Calls, List!TypeOK,
      CallsSound, Adding
  <2> QED  BY <2>2, <2>3
<1>4. ASSUME List!Copy(t) \/ List!DecRead(t)  PROVE List!Queue' = List!Queue
  <2>1. Popping(t) /\ Popping(t)'
    BY <1>4 DEF List!Copy, List!DecRead, Popping, Calls, List!TypeOK
  <2>2. /\ List!Queue = [i \in 1 .. current - 1 |-> IF i <= done[t] THEN slot[i - 1] ELSE slot[i]]
        /\ List!Queue' = [i \in 1 .. current' - 1 |->
                            IF i <= done'[t] THEN slot'[i - 1] ELSE slot'[i]]
    BY <1>0, <2>1 DEF Words
  <2>3. current' = current /\ current \in 0 .. Capacity /\ done[t] \in 0 .. current
    BY <1>4, <2>1 DEF List!Copy, List!DecRead, Calls, List!TypeOK, CallsSound
  <2>4. ASSUME NEW i \in 1 .. current - 1
        PROVE  (IF i <= done'[t] THEN slot'[i - 1] ELSE slot'[i])
                    = IF i <= done[t] THEN slot[i - 1] ELSE slot[i]
    <3>1. CASE slot' = slot /\ done' = done
      BY <3>1
    <3>2. CASE List!Copy(t) /\ done[t] < count[t]
      BY <2>3, <3>2 DEF List!Copy, Calls, List!TypeOK
    <3> QED  BY <1>4, <3>1, <3>2 DEF List!Copy, List!DecRead
  <2> QED  BY <2>2, <2>3, <2>4
<1>5. ASSUME List!DecWrite(t)  PROVE List!Queue' = List!Queue
  <2>1. Popping(t) /\ \A s \in Threads : ~Popping(s)'
    BY <1>5, <1>a DEF CallStep, List!DecWrite, Popping, Calls, List!TypeOK
  <2>2. /\ List!Queue = [i \in 1 .. current - 1 |-> IF i <= done[t] THEN slot[i - 1] ELSE slot[i]]
        /\ List!Queue' = [i \in 1 .. current' |-> slot'[i - 1]]
    BY <1>0, <2>1 DEF Words
  <2>3. current' = current - 1 /\ slot' = slot /\ current \in Nat /\ done[t] = current
    BY <1>5, <2>1 DEF List!DecWrite, Calls, List!TypeOK, CallsSound
  <2> QED  BY <2>2, <2>3
<1>6. ASSUME List!Enter(t)  PROVE List!Queue' = List!Queue
  <2>1. \A s \in Threads : Popping(s)' = Popping(s)
    BY <1>6 DEF List!Enter, Popping, Calls, List!TypeOK
  <2>2. UNCHANGED <<slot, current, done>>
    BY <1>6 DEF List!Enter
  <2>3. CASE \A s \in Threads : ~Popping(s)
    <3>1. /\ List!Queue = [i \in 1 .. current |-> slot[i - 1]]
          /\ List!Queue' = [i \in 1 .. current' |-> slot'[i - 1]]
      BY <1>0, <2>1, <2>3 DEF Words
    <3> QED  BY <2>2, <3>1
  <2>4. ASSUME NEW s \in Threads, Popping(s)  PROVE List!Queue' = List!Queue
    <3>1. /\ List!Queue = [i \in 1 .. current - 1 |->
                                IF i <= done[s] THEN slot[i - 1] ELSE slot[i]]
          /\ List!Queue' = [i \in 1 .. current' - 1 |->
                                IF i <= done'[s] THEN slot'[i - 1] ELSE slot'[i]]
      BY <1>0, <2>1, <2>4 DEF Words
    <3> QED  BY <2>2, <3>1
  <2> QED  BY <2>3, <2>4
<1> QED  BY <1>1, <1>2, <1>3, <1>4, <1>5, <1>6

\* Slot 0 of a list that somebody spins in is the front of the queue.
LEMMA EnterFirst ==
    ASSUME Calls, OrderSound, NEW t \in Threads, List!Enter(t)
    PROVE  List!Queue # <<>> /\ Head(List!Queue) = t
<1> DEFINE q == List!Queue
<1>1. current \in Nat /\ slot[0] = t /\ call[t] = "spin"
  BY DEF List!Enter, Calls, List!TypeOK
<1>2. q # <<>> /\ q \in Seq(Threads)
  <2>1. t \in Range(q)
    BY <1>1 DEF OrderSound
  <2> QED  BY <2>1 DEF Range, OrderSound
<1>3. CASE \A s \in Threads : ~Popping(s)
  <2>1. q = [i \in 1 .. current |-> slot[i - 1]]
    BY <1>3, QueueWords DEF Words
  <2> HIDE DEF q
  <2>2. current > 0
    BY <1>1, <1>2, <2>1
  <2>3. q[1] = slot[0]
    BY <1>1, <2>1, <2>2
  <2> QED  BY <1>1, <1>2, <2>3 DEF q
<1>4. ASSUME NEW s \in Threads, Popping(s)  PROVE q # <<>> /\ Head(q) = t
  <2>1. q = [i \in 1 .. current - 1 |-> IF i <= done[s] THEN slot[i - 1] ELSE slot[i]]
    BY <1>4, QueueWords DEF Words
  <2>2. done[s] \in Nat /\ done[s] # 0
    <3>1. s # t
      BY <1>1, <1>4 DEF Popping, List!InPop
    <3> QED  BY <1>1, <1>4, <3>1 DEF OrderSound, Calls, List!TypeOK
  <2> HIDE DEF q
  <2>3. current - 1 > 0
    BY <1>1, <1>2, <2>1
  <2>4. q[1] = slot[0]
    BY <1>1, <2>1, <2>2, <2>3
  <2> QED  BY <1>1, <1>2, <2>4
<1> QED  BY <1>3, <1>4

\* Whoever leaves is in the list it pops.
LEMMA OwnerQueued ==
    ASSUME Calls, OrderSound, NEW t \in Threads, call[t] = "inside",
           \A s \in Threads : ~Popping(s)
    PROVE  current > 0 /\ List!Queue # <<>> /\ Head(List!Queue) = t
<1>1. List!Queue # <<>> /\ Head(List!Queue) = t
  BY DEF OrderSound
<1>2. List!Queue = [i \in 1 .. current |-> slot[i - 1]]
  BY <1>1, QueueWords DEF Words
<1>3. current \in Nat
  BY DEF Calls, List!TypeOK
<1>4. current = 0 => List!Queue = <<>>
  BY <1>2
<1> QED  BY <1>1, <1>3, <1>4

\* The order of the queue is kept.
LEMMA OrderStep ==
    ASSUME Capacity \in Nat \ {0}, NoThread \notin Threads, Calls, OrderSound, Calls',
           [List!Next]_(List!vars), ~torn'
    PROVE  OrderSound'
<1> DEFINE q == List!Queue
           waiters == {t \in Threads : call[t] \in {"spin", "inside"}}
<1>0. q \in Seq(Threads) /\ IsInjective(q) /\ Range(q) = waiters
  BY DEF OrderSound
<1> USE DEF List!InAdd, List!InPop, List!Goto, List!At
<1>a. \A t \in Threads : CallStep(t) => \A s \in Threads \ {t} : ~Adding(s) /\ ~Popping(s)
  BY Alone
<1>1. ASSUME NEW t \in Threads, List!IncWrite(t)  PROVE OrderSound'
  <2>1. q' = Append(q, t)
    BY <1>0, <1>1, QueueStep
  <2>2. t \notin Range(q)
    BY <1>0, <1>1 DEF List!IncWrite
  <2>3. waiters' = waiters \cup {t}
    BY <1>1 DEF List!IncWrite, Calls, List!TypeOK
  <2>4. /\ Append(q, t) \in Seq(Threads) /\ IsInjective(Append(q, t))
        /\ Range(Append(q, t)) = Range(q) \cup {t}
    BY <1>0, <2>2, AppendElements
  <2>5. q' \in Seq(Threads) /\ IsInjective(q') /\ Range(q') = waiters'
    BY <1>0, <2>1, <2>3, <2>4
  <2>6. q # <<>> => Head(q') = Head(q)
    BY <1>0, <2>1, HeadFacts
  <2>7. q' # <<>>
    BY <1>0, <2>1, HeadFacts
  <2>8. \A s \in Threads : call'[s] = "inside" => call[s] = "inside"
    BY <1>1 DEF List!IncWrite, Calls, List!TypeOK
  <2>9. \A s \in Threads : ~Popping(s)'
    BY <1>1, <1>a DEF CallStep, List!IncWrite, Calls, List!TypeOK, Popping
  <2> HIDE DEF q, waiters
  <2> QED  BY <2>5, <2>6, <2>7, <2>8, <2>9 DEF OrderSound, q, waiters
<1>2. ASSUME NEW t \in Threads, List!PopRead(t)  PROVE OrderSound'
  <2>0. call[t] = "inside" /\ \A s \in Threads : ~Popping(s)
    BY <1>2, <1>a DEF CallStep, List!PopRead, List!At, Popping
  <2>1. q # <<>> /\ Head(q) = t
    BY <2>0, OwnerQueued
  <2>2. current > 0
    BY <2>0, OwnerQueued
  <2>3. q' = Tail(q)
    BY <1>0, <1>2, <2>2, QueueStep
  <2>4. waiters' = waiters \ {t}
    BY <1>2, <2>2 DEF List!PopRead, Calls, List!TypeOK
  <2>5. Tail(q) \in Seq(Threads) /\ IsInjective(Tail(q)) /\ Range(Tail(q)) = Range(q) \ {Head(q)}
    BY <1>0, <2>1, TailElements
  <2>6. q' \in Seq(Threads) /\ IsInjective(q') /\ Range(q') = waiters'
    BY <1>0, <2>1, <2>3, <2>4, <2>5
  <2>7. \A s \in Threads : call'[s] # "inside"
    BY <1>2, <2>1, <2>2 DEF List!PopRead, Calls, List!TypeOK, OrderSound
  <2>8. \A s \in Threads : Popping(s)' /\ done'[s] = 0 => slot'[0] = s
    <3>1. q = [i \in 1 .. current |-> slot[i - 1]]
      BY <2>0, QueueWords DEF Words
    <3>2. slot[0] = t /\ current \in Nat
      BY <2>1, <2>2, <3>1 DEF Calls, List!TypeOK
    <3>3. \A s \in Threads : Popping(s)' => s = t
      BY <1>2, <2>0 DEF List!PopRead, Calls, List!TypeOK, Popping
    <3> QED  BY <1>2, <2>2, <3>2, <3>3 DEF List!PopRead
  <2> HIDE DEF q, waiters
  <2> QED  BY <2>6, <2>7, <2>8 DEF OrderSound, q, waiters
<1>3. ASSUME NEW t \in Threads, List!Enter(t)  PROVE OrderSound'
  <2>1. q' = q
    BY <1>0, <1>3, QueueStep
  <2>2. waiters' = waiters
    BY <1>3 DEF List!Enter, Calls, List!TypeOK
  <2>3. q # <<>> /\ Head(q) = t
    BY <1>0, <1>3, EnterFirst
  <2>4. \A s \in Threads : call'[s] = "inside" => s = t
    BY <1>3, <2>3 DEF List!Enter, Calls, List!TypeOK, OrderSound
  <2>5. \A s \in Threads : Popping(s)' /\ done'[s] = 0 => slot'[0] = s
    BY <1>3 DEF List!Enter, Calls, List!TypeOK, Popping, OrderSound
  <2> HIDE DEF q, waiters
  <2> QED  BY <1>0, <2>1, <2>2, <2>3, <2>4, <2>5 DEF OrderSound, q, waiters
<1>4. ASSUME NEW t \in Threads,
             \/ List!AddRead(t) \/ List!AddStore(t) \/ List!IncRead(t)
             \/ List!Copy(t) \/ List!DecRead(t) \/ List!DecWrite(t)
      PROVE  OrderSound'
  <2>1. q' = q
    BY <1>0, <1>4, QueueStep
  <2>2. \A s \in Threads :
          /\ call'[s] = "inside" <=> call[s] = "inside"
          /\ call'[s] = "spin" <=> call[s] = "spin"
    BY <1>4 DEF List!AddRead, List!AddStore, List!IncRead, List!Copy, List!DecRead, List!DecWrite,
      Calls, List!TypeOK
  <2>3. waiters' = waiters
    BY <2>2
  <2>4. \A s \in Threads : Popping(s)' /\ done'[s] = 0 => slot'[0] = s
    <3>1. \A s \in Threads \ {t} : ~Popping(s)'
      BY <1>4, <1>a DEF CallStep, List!AddRead, List!AddStore, List!IncRead, List!Copy,
        List!DecRead, List!DecWrite, Calls, List!TypeOK, Popping
    <3>2. CASE List!Copy(t)
      <4>1. count[t] > 0 /\ done[t] \in Nat
        BY <3>2 DEF List!Copy, List!At, Calls, CallsSound, Popping, List!TypeOK
      <4> QED  BY <3>1, <3>2, <4>1 DEF List!Copy, Calls, List!TypeOK, OrderSound
    <3>3. CASE ~List!Copy(t)
      <4>1. Popping(t)' => Popping(t) /\ done'[t] = done[t] /\ slot' = slot
        BY <1>4, <3>3 DEF List!AddRead, List!AddStore, List!IncRead, List!DecRead, List!DecWrite,
          Calls, List!TypeOK, Popping
      <4> QED  BY <3>1, <4>1 DEF OrderSound
    <3> QED  BY <3>2, <3>3
  <2> HIDE DEF q, waiters
  <2> QED  BY <1>0, <2>1, <2>2, <2>3, <2>4 DEF OrderSound, q, waiters
<1>5. CASE UNCHANGED List!vars
  <2>1. q' = q /\ waiters' = waiters
    BY <1>5 DEF List!vars, List!Queue
  <2>2. UNCHANGED <<call, slot, done>>
    BY <1>5 DEF List!vars
  <2> HIDE DEF q, waiters
  <2> QED  BY <1>0, <2>1, <2>2 DEF OrderSound, Popping, q, waiters
<1> QED  BY <1>1, <1>2, <1>3, <1>4, <1>5 DEF List!Next

\* What the abstract lock sees of a step.
LEMMA ListStepRefines ==
    ASSUME Capacity \in Nat \ {0}, NoThread \notin Threads, Calls, OrderSound, Calls',
           [List!Next]_(List!vars), ~torn'
    PROVE  [List!Abstract!Next]_(List!Abstract!lockVars)
<1> DEFINE q == List!Queue
           queue == [l \in {"mutex"} |-> q]
           owners == {t \in Threads : call[t] = "inside"}
           inside == [l \in {"mutex"} |-> owners]
<1>0. q \in Seq(Threads) /\ Range(q) = {t \in Threads : call[t] \in {"spin", "inside"}}
  BY DEF OrderSound
<1> USE DEF List!InAdd, List!InPop, List!Goto, List!At
<1>1. ASSUME NEW t \in Threads, List!IncWrite(t)  PROVE List!Abstract!Next
  <2>1. q' = Append(q, t)
    BY <1>0, <1>1, QueueStep
  <2>2. t \notin Range(q)
    BY <1>0, <1>1 DEF List!IncWrite
  <2>3. owners' = owners
    BY <1>1 DEF List!IncWrite, Calls, List!TypeOK
  <2> HIDE DEF q, owners
  <2>4. queue' = [queue EXCEPT !["mutex"] = Append(@, t)] /\ inside' = inside
    BY <2>1, <2>3
  <2>5. List!Abstract!Request(t, "mutex")
    BY <2>2, <2>4 DEF List!Abstract!Request, List!Abstract!Range, Range, q, owners
  <2> QED  BY <2>5 DEF List!Abstract!Next
<1>2. ASSUME NEW t \in Threads, List!Enter(t)  PROVE List!Abstract!Next
  <2>1. q' = q /\ q # <<>> /\ Head(q) = t
    BY <1>0, <1>2, QueueStep, EnterFirst
  <2>2. owners = {} /\ owners' = {t}
    BY <1>2, <2>1 DEF List!Enter, Calls, List!TypeOK, OrderSound
  <2> HIDE DEF q, owners
  <2>3. queue' = queue /\ inside["mutex"] = {} /\ inside' = [inside EXCEPT !["mutex"] = {t}]
    BY <2>1, <2>2
  <2>4. List!Abstract!Acquire(t, "mutex")
    BY <2>1, <2>3 DEF List!Abstract!Acquire, q, owners
  <2> QED  BY <2>4 DEF List!Abstract!Next
<1>3. ASSUME NEW t \in Threads, List!PopRead(t)  PROVE List!Abstract!Next
  <2>0. call[t] = "inside" /\ \A s \in Threads : ~Popping(s)
    <3>1. \A s \in Threads \ {t} : ~Popping(s)
      BY <1>3, Alone DEF CallStep
    <3> QED  BY <1>3, <3>1 DEF List!PopRead, List!At, Popping
  <2>1. current > 0 /\ Head(q) = t
    BY <2>0, OwnerQueued
  <2>2. q' = Tail(q)
    BY <1>0, <1>3, <2>1, QueueStep
  <2>3. owners = {t} /\ owners' = {}
    <3>1. call[t] = "inside" /\ \A s \in Threads : call[s] = "inside" => s = t
      BY <1>3, <2>1 DEF List!PopRead, OrderSound
    <3>2. call' = [call EXCEPT ![t] = "copy"]
      BY <1>3, <2>1 DEF List!PopRead, Calls, List!TypeOK
    <3> QED  BY <3>1, <3>2 DEF Calls, List!TypeOK
  <2> HIDE DEF q, owners
  <2>4. /\ \A l \in {"mutex"} : inside[l] = {t}
        /\ queue' = [l \in {"mutex"} |-> IF l \in {"mutex"} THEN Tail(queue[l]) ELSE queue[l]]
        /\ inside' = [l \in {"mutex"} |-> IF l \in {"mutex"} THEN {} ELSE inside[l]]
    BY <2>2, <2>3
  <2>5. List!Abstract!Release(t, {"mutex"})
    BY <2>4 DEF List!Abstract!Release, q, owners
  <2> QED  BY <2>5 DEF List!Abstract!Next
<1>4. ASSUME NEW t \in Threads,
             \/ List!AddRead(t) \/ List!AddStore(t) \/ List!IncRead(t)
             \/ List!Copy(t) \/ List!DecRead(t) \/ List!DecWrite(t)
      PROVE  UNCHANGED <<queue, inside>>
  <2>1. q' = q
    BY <1>0, <1>4, QueueStep
  <2>2. \A s \in Threads : call'[s] = "inside" <=> call[s] = "inside"
    BY <1>4 DEF List!AddRead, List!AddStore, List!IncRead, List!Copy, List!DecRead, List!DecWrite,
      Calls, List!TypeOK
  <2>3. owners' = owners
    BY <2>2
  <2> HIDE DEF q, owners
  <2> QED  BY <2>1, <2>3
<1>5. CASE UNCHANGED List!vars
  BY <1>5 DEF List!vars, List!Queue, List!Abstract!lockVars
<1> QED  BY <1>1, <1>2, <1>3, <1>4, <1>5 DEF List!Next, List!Abstract!lockVars

\* Until two list calls overlap the array and the counter are a first-come
\* first-served lock, for any number of threads and any capacity, wherever the
\* timer falls: neither the words that popfirst moves, nor the one it shifts in
\* from behind the last entry, nor what it left at the front lets anybody in
\* out of turn.
THEOREM ListImplementation ==
    ASSUME Capacity \in Nat \ {0}
    PROVE  List!Spec => List!FifoUntilTorn
<1> DEFINE Sound == torn \/ (Calls /\ OrderSound)
           FifoStep == torn' \/ List!Abstract!Next \/ UNCHANGED List!Abstract!lockVars
<1>0. NoThread \notin Threads
  BY MutexAssumption
<1>1. List!Init => Calls /\ OrderSound /\ List!Queue = <<>>
  <2> SUFFICES ASSUME List!Init  PROVE Calls /\ OrderSound /\ List!Queue = <<>>
    OBVIOUS
  <2>1. \A t \in Threads : call[t] = "out"
    BY DEF List!Init
  <2>2. Calls
    <3>1. List!TypeOK
      <4>1. torn \in BOOLEAN
        BY DEF List!Init
      <4>2. /\ slot \in [0 .. Capacity -> Threads \cup {NoThread}]
            /\ current \in 0 .. Capacity
            /\ call \in [Threads -> {"out", "spin", "inside"} \cup List!InAdd \cup List!InPop]
        BY DEF List!Init
      <4>3. /\ reg \in [Threads -> 0 .. Capacity]
            /\ count \in [Threads -> 0 .. Capacity]
            /\ done \in [Threads -> 0 .. Capacity]
        BY DEF List!Init
      <4> QED  BY <4>1, <4>2, <4>3 DEF List!TypeOK
    <3>2. CallsSound
      BY <2>1 DEF CallsSound, Adding, Popping, List!InAdd, List!InPop
    <3> QED  BY <3>1, <3>2 DEF Calls
  <2>3. List!Queue = <<>>
    <3>1. List!Queue = [i \in 1 .. current |-> slot[i - 1]]
      BY <2>1, <2>2, QueueWords DEF Words, Popping, List!InPop
    <3> QED  BY <3>1 DEF List!Init
  <2> QED  BY <2>1, <2>2, <2>3 DEF OrderSound, IsInjective, Range, Popping, List!InPop
<1>2. List!Init => List!Abstract!Init /\ Sound
  BY <1>1 DEF List!Init, List!Abstract!Init
<1>3. ASSUME Sound, [List!Next]_(List!vars)  PROVE Sound' /\ FifoStep
  <2>1. SUFFICES ASSUME ~torn'  PROVE Calls' /\ OrderSound' /\ FifoStep
    OBVIOUS
  <2>2. ~torn
    <3>1. \/ torn' = torn
          \/ \E t \in Threads : torn' = (torn \/ List!Overlaps(t))
      BY <1>3 DEF List!Next, List!vars, List!At, List!AddRead, List!AddStore, List!IncRead,
        List!IncWrite, List!Enter, List!PopRead, List!Copy, List!DecRead, List!DecWrite
    <3> QED  BY <2>1, <3>1
  <2>3. Calls /\ OrderSound
    BY <1>3, <2>2
  <2>4. Calls'
    BY <1>0, <1>3, <2>1, <2>3, CallsStep
  <2>5. OrderSound'
    BY <1>0, <1>3, <2>1, <2>3, <2>4, OrderStep
  <2>6. [List!Abstract!Next]_(List!Abstract!lockVars)
    BY <1>0, <1>3, <2>1, <2>3, <2>4, ListStepRefines
  <2> QED  BY <2>4, <2>5, <2>6
<1> HIDE DEF Sound, FifoStep
<1>4. List!Spec => List!Abstract!Init /\ [][FifoStep]_(List!vars)
  BY <1>2, <1>3, PTL DEF List!Spec
<1> QED  BY <1>4 DEF List!FifoUntilTorn, FifoStep
=============================================================================
