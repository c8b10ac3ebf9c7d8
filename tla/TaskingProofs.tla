---------------------------- MODULE TaskingProofs ----------------------------
(***************************************************************************)
(* Proofs about Tasking: its type invariant, the agreement of the thread   *)
(* lists with the thread states, that a corpse stays down, that no age     *)
(* wraps, and that the loop of tasking_switch elects what Elects says.     *)
(***************************************************************************)
EXTENDS Tasking, SequenceTheorems, FiniteSetTheorems, WellFoundedInduction, TLAPS

-----------------------------------------------------------------------------
(* What listadd (Append) and popitem (RemoveAt) do to the elements of a list. *)

\* A set of natural numbers that is not empty has a least element: what fails
\* for some number fails first at one.
LEMMA LeastNat ==
    ASSUME NEW T \in SUBSET Nat, T # {}
    PROVE  \E n \in T : \A k \in T : n <= k
<1> DEFINE R == {ss \in Nat \X Nat : ss[1] < ss[2]}
<1>1. PICK n \in T : \A k \in T : ~(<<k, n>> \in R)
  <2>1. IsWellFoundedOn(R, Nat)
    BY NatLessThanWellFounded DEF OpToRel
  <2> HIDE DEF R
  <2> QED BY <2>1, WFMin
<1>2. \A k \in T : k < n => <<k, n>> \in R
  OBVIOUS
<1> HIDE DEF R
<1>3. \A k \in T : ~(k < n)
  BY <1>1, <1>2
<1> QED BY <1>3

\* popitem takes one entry and keeps the order of the others.
LEMMA RemoveAtFacts ==
    ASSUME NEW S, NEW s \in Seq(S), NEW i \in DOMAIN s
    PROVE  /\ RemoveAt(s, i) \in Seq(S) /\ DOMAIN RemoveAt(s, i) = 1 .. Len(s) - 1
           /\ \A k \in 1 .. Len(s) - 1 :
                RemoveAt(s, i)[k] = IF k < i THEN s[k] ELSE s[k + 1]
<1> DEFINE l == SubSeq(s, 1, i - 1)
           r == SubSeq(s, i + 1, Len(s))
<1>1. l \in Seq(S) /\ Len(l) = i - 1 /\ \A k \in 1 .. i - 1 : l[k] = s[k]
  OBVIOUS
<1>2. r \in Seq(S) /\ Len(r) = Len(s) - i /\ \A k \in 1 .. Len(s) - i : r[k] = s[k + i]
  OBVIOUS
<1>3. RemoveAt(s, i) = l \o r
  BY DEF RemoveAt
<1> HIDE DEF l, r
<1> QED BY <1>1, <1>2, <1>3

\* In a list without duplicates that element is gone then, and no other.
LEMMA RemoveAtElements ==
    ASSUME NEW S, NEW s \in Seq(S), NEW i \in DOMAIN s, IsInjective(s)
    PROVE  /\ IsInjective(RemoveAt(s, i))
           /\ Range(RemoveAt(s, i)) = Range(s) \ {s[i]}
<1> DEFINE r == RemoveAt(s, i)
<1>1. DOMAIN r = 1 .. Len(s) - 1 /\ \A k \in DOMAIN r : r[k] = IF k < i THEN s[k] ELSE s[k + 1]
  BY RemoveAtFacts
<1>2. /\ \A k \in DOMAIN s : k < i => k \in DOMAIN r /\ r[k] = s[k]
      /\ \A k \in DOMAIN s : k > i => k - 1 \in DOMAIN r /\ r[k - 1] = s[k]
  BY <1>1
<1> HIDE DEF r
<1>3. IsInjective(r) /\ Range(r) \subseteq Range(s) \ {s[i]}
  BY <1>1 DEF IsInjective, Range
<1>4. Range(s) \ {s[i]} \subseteq Range(r)
  BY <1>2 DEF Range
<1> QED BY <1>3, <1>4 DEF r

\* listadd of an element that is not in the list yet.
LEMMA AppendElements ==
    ASSUME NEW S, NEW s \in Seq(S), NEW x \in S \ Range(s), IsInjective(s)
    PROVE  /\ Append(s, x) \in Seq(S)
           /\ IsInjective(Append(s, x))
           /\ Range(Append(s, x)) = Range(s) \cup {x}
<1>1. Append(s, x) \in Seq(S) /\ IsInjective(Append(s, x))
  BY DEF IsInjective, Range
<1>2. Range(Append(s, x)) = Range(s) \cup {x}
  <2>1. Append(s, x)[Len(s) + 1] = x /\ \A k \in 1 .. Len(s) : Append(s, x)[k] = s[k]
    OBVIOUS
  <2> QED BY <2>1 DEF Range
<1> QED BY <1>1, <1>2

-----------------------------------------------------------------------------
(* The inductive invariant. *)

\* The Process Manager is never its own corpse while it can still pop
\* entries: a signal finds it off the processor, and its own fault halts it.
ManagerFit ==
    thread_current = Manager /\ Corpse(Manager) => pc[Manager] = "halted"

\* ListsAgree alone is not inductive: Collect must not take the entry of the
\* thread that is running it.
IInv == TypeOK /\ ListsAgree /\ ManagerFit

\* The age up to which a thread may be while it sleeps or has just woken.
Rested == Realtime + Longest

\* The running thread has just been given its priority as age.
CurrentYoung == age[thread_current] <= Realtime

\* What a sleeper has aged and what it still has to sleep add up to no more
\* than one longest sleep; the time to sleep is on its way to the state, and
\* no thread sleeps outside sleep().
SleepSound ==
    \A t \in Threads :
        /\ pc[t] = "sleepState" => arg[t] \in 1 .. Longest
        /\ state[t] = "WAITING_SLEEP" =>
            /\ pc[t] \in {"sleepPreempt", "sleepSpin"}
            /\ arg[t] \in 1 .. Longest
            /\ age[t] + arg[t] <= Rested

\* The threads that have waited k switches too long; each switch lets one of
\* them run, so there are fewer of them the longer they have waited.
Overdue(k) == {t \in Listed : ~Corpse(t) /\ age[t] > Rested + k}
OverdueFew ==
    \A k \in 0 .. Cardinality(Threads) - 1 :
        Cardinality(Overdue(k)) <= Cardinality(Threads) - 1 - k

AgeInv == IInv /\ CurrentYoung /\ SleepSound /\ OverdueFew

-----------------------------------------------------------------------------
(* The type invariant. *)

LEMMA InitType == Init => TypeOK
BY ThreadsAssumption, NumbersAssumption DEF Init, TypeOK, Word, States, Priorities

\* One run of tasking_switch keeps the types: ages and sleep counters are
\* reduced to a word, and the elected thread is in the list or current.
LEMMA SwitchType ==
    ASSUME TypeOK, NEW t \in Threads, SwitchTo(t),
           pc' \in [Threads -> {"run", "sleepState", "sleepPreempt", "sleepSpin", "halted"}]
    PROVE  TypeOK'
<1>1. \A s \in Threads : CountedDown(s) \in Word /\ Aged(s) \in Word /\ Awoken(s) \in States
  <2> TAKE s \in Threads
  <2>1. arg[s] \in 0 .. WordMod - 1 /\ age[s] \in 0 .. WordMod - 1
    BY DEF TypeOK, Word
  <2>2. (arg[s] + WordMod - 1) % WordMod \in 0 .. WordMod - 1
    BY <2>1, NumbersAssumption
  <2>3. (age[s] + 1) % WordMod \in 0 .. WordMod - 1
    BY <2>1, NumbersAssumption
  <2> QED  BY <2>1, <2>2, <2>3 DEF CountedDown, Aged, Awoken, TypeOK, Word, States
<1>2. priority[t] \in Word
  <2>1. priority[t] \in {0, Medium, Realtime}
    BY DEF TypeOK, Priorities
  <2> QED  BY <2>1, NumbersAssumption DEF Word
<1>3. age' \in [Threads -> Word]
  BY <1>1, <1>2 DEF SwitchTo
<1>4. state' \in [Threads -> States] /\ arg' \in [Threads -> Word]
  BY <1>1 DEF SwitchTo
<1> QED  BY <1>3, <1>4 DEF SwitchTo, TypeOK

LEMMA StepType == TypeOK /\ [Next]_vars => TypeOK'
<1> SUFFICES ASSUME TypeOK, [Next]_vars  PROVE TypeOK'
  OBVIOUS
<1> USE DEF States, Running
<1>1. CASE Tick
  BY <1>1, SwitchType DEF Tick, tasking_switch, TypeOK
<1>2. CASE Yield
  BY <1>2, SwitchType DEF Yield, tasking_switch, TypeOK
<1>3. CASE SleepArg
  BY <1>3, NumbersAssumption DEF SleepArg, TypeOK, Word
<1>4. CASE SleepState
  BY <1>4 DEF SleepState, TypeOK
<1>5. CASE SleepPreempt
  BY <1>5, SwitchType DEF SleepPreempt, tasking_switch, TypeOK
<1>6. CASE SleepReturn
  BY <1>6 DEF SleepReturn, TypeOK
<1>7. ASSUME NEW t \in Threads, Terminate(t)  PROVE TypeOK'
  BY <1>7 DEF Terminate, TypeOK
<1>8. ASSUME NEW t \in Threads, CreateThread(t)  PROVE TypeOK'
  BY <1>8, NumbersAssumption DEF CreateThread, TypeOK, Word, Priorities
<1>9. ASSUME NEW p \in Priorities, SetPriority(p)  PROVE TypeOK'
  BY <1>9 DEF SetPriority, TypeOK
<1>10. CASE Kill
  BY <1>10 DEF Kill, TypeOK
<1>11. CASE Fault
  BY <1>11, NumbersAssumption DEF Fault, TypeOK, Word, Vector
<1>12. ASSUME NEW i \in DOMAIN thread_list, Collect(i)  PROVE TypeOK'
  <2>1. thread_list' \in Seq(Threads)
    BY <1>12, RemoveAtFacts DEF Collect, TypeOK
  <2>2. thread_list_dead' \in Seq(Threads)
    BY <1>12 DEF Collect, TypeOK
  <2> QED  BY <1>12, <2>1, <2>2 DEF Collect, TypeOK
<1>13. ASSUME NEW i \in DOMAIN thread_list_dead, Free(i)  PROVE TypeOK'
  <2>1. thread_list_dead' \in Seq(Threads)
    BY <1>13, RemoveAtFacts DEF Free, TypeOK
  <2> QED  BY <1>13, <2>1, NumbersAssumption DEF Free, TypeOK, Word, Priorities
<1>14. CASE UNCHANGED vars
  BY <1>14 DEF vars, TypeOK
<1> QED
  BY <1>1, <1>2, <1>3, <1>4, <1>5, <1>6, <1>7, <1>8, <1>9, <1>10, <1>11,
     <1>12, <1>13, <1>14 DEF Next

\* Every variable of the scheduler keeps its type, for every set of threads,
\* every word width and every priority scale.
THEOREM TypeCorrect == Spec => []TypeOK
<1>1. Init => TypeOK
  BY InitType
<1>2. TypeOK /\ [Next]_vars => TypeOK'
  BY StepType
<1> QED  BY <1>1, <1>2, PTL DEF Spec

-----------------------------------------------------------------------------
(* The agreement of lists, states and processor. *)

LEMMA InitIInv == Init => IInv
<1> SUFFICES ASSUME Init  PROVE ListsAgree /\ ManagerFit
  BY InitType DEF IInv
<1>1. Listed = {Idle} /\ Range(thread_list_dead) = {}
  BY DEF Init, Listed, Range
<1>2. IsInjective(thread_list) /\ IsInjective(thread_list_dead)
  BY DEF Init, IsInjective
<1> QED  BY <1>1, <1>2, ThreadsAssumption DEF Init, ListsAgree, ManagerFit, Corpse

\* tasking_switch wakes sleepers but never a corpse, and the thread it
\* elects is an ALIVE one or the one that already runs.
LEMMA SwitchAgrees ==
    ASSUME IInv, NEW t \in Threads, SwitchTo(t)
    PROVE  /\ ListsAgree'
           /\ t # thread_current => t \in Ready
           /\ \A s \in Threads : Corpse(s)' <=> Corpse(s)
<1>1. t # thread_current => t \in Ready
  BY DEF SwitchTo, Elects
<1>2. \A s \in Threads : state'[s] = Awoken(s)
  BY DEF SwitchTo
<1>3. \A s \in Threads : Corpse(s)' <=> Corpse(s)
  BY <1>2 DEF Corpse, Awoken, Sleeping
<1>4. \A s \in Threads : state'[s] = "NONE" <=> state[s] = "NONE"
  BY <1>2 DEF Awoken, Sleeping
<1>5. Listed' = Listed /\ Range(thread_list_dead)' = Range(thread_list_dead)
  BY DEF SwitchTo, Listed
<1>6. thread_current' \in Listed
  BY <1>1 DEF SwitchTo, Ready, IInv, ListsAgree
<1>7. Range(thread_list_dead) \subseteq Threads
  BY ElementOfSeq, LenProperties DEF IInv, TypeOK, Range
<1> QED
  BY <1>1, <1>3, <1>4, <1>5, <1>6, <1>7 DEF IInv, ListsAgree, SwitchTo

\* The election does not hand the processor to a dead Process Manager.
LEMMA SwitchManagerFit ==
    ASSUME IInv, NEW t \in Threads, SwitchTo(t),
           pc'[thread_current] # pc[thread_current] => pc[thread_current] # "halted",
           \A s \in Threads \ {thread_current} : pc'[s] = pc[s]
    PROVE  ManagerFit'
<1> SUFFICES ASSUME thread_current' = Manager, Corpse(Manager)'
             PROVE  pc'[Manager] = "halted"
  BY DEF ManagerFit
<1>1. t = Manager /\ Corpse(Manager)
  BY SwitchAgrees, ThreadsAssumption DEF SwitchTo
<1>2. t \notin Ready
  BY <1>1 DEF Ready, Awoken, Sleeping, Corpse
<1>3. thread_current = Manager
  BY <1>1, <1>2, SwitchAgrees
<1> QED  BY <1>1, <1>3 DEF IInv, ManagerFit

\* A step that touches neither list nor the processor, and turns no thread
\* into or out of NONE, and no corpse into anything else.
LEMMA QuietAgrees ==
    ASSUME ListsAgree,
           UNCHANGED <<thread_list, thread_list_dead, thread_current>>,
           \A t \in Threads : state'[t] = "NONE" <=> state[t] = "NONE",
           \A t \in Range(thread_list_dead) : Corpse(t)'
    PROVE  ListsAgree'
BY DEF ListsAgree, Listed

\* The record of the current thread is never one about to be freed.
LEMMA CurrentNotDead == ListsAgree => thread_current \notin Range(thread_list_dead)
BY DEF ListsAgree

LEMMA StepIInv == IInv /\ [Next]_vars => IInv'
<1> SUFFICES ASSUME IInv, [Next]_vars  PROVE ListsAgree' /\ ManagerFit'
  BY StepType DEF IInv
<1> USE DEF IInv, Running
<1>0. /\ Range(thread_list_dead) \subseteq Threads
      /\ Listed \subseteq Threads
      /\ thread_current \in Threads
      /\ thread_current \notin Range(thread_list_dead)
  BY ElementOfSeq, LenProperties, CurrentNotDead DEF TypeOK, Range, Listed
<1>1. CASE Tick
  BY <1>1, SwitchAgrees, SwitchManagerFit DEF Tick, tasking_switch
<1>2. CASE Yield
  BY <1>2, SwitchAgrees, SwitchManagerFit DEF Yield, tasking_switch
<1>3. CASE SleepArg
  <2>1. ListsAgree'
    BY <1>3, QuietAgrees DEF SleepArg, ListsAgree, Corpse
  <2> QED  BY <1>3, <2>1 DEF SleepArg, ManagerFit, Corpse, TypeOK
<1>4. CASE SleepState
  <2>1. state[thread_current] # "NONE"
    BY <1>0 DEF ListsAgree
  <2>2. \A t \in Range(thread_list_dead) : state'[t] = state[t]
    BY <1>0, <1>4 DEF SleepState, TypeOK
  <2>3. \A t \in Threads : state'[t] = "NONE" <=> state[t] = "NONE"
    BY <1>4, <2>1 DEF SleepState, TypeOK
  <2>4. ListsAgree'
    BY <1>4, <2>2, <2>3, QuietAgrees DEF SleepState, ListsAgree, Corpse
  <2> QED  BY <1>4, <2>4, ThreadsAssumption DEF SleepState, ManagerFit, Corpse, TypeOK
<1>5. CASE SleepPreempt
  BY <1>0, <1>5, SwitchAgrees, SwitchManagerFit DEF SleepPreempt, tasking_switch, TypeOK
<1>6. CASE SleepReturn
  <2>1. ListsAgree'
    BY <1>6, QuietAgrees DEF SleepReturn, ListsAgree, Corpse
  <2> QED  BY <1>6, <2>1, ThreadsAssumption DEF SleepReturn, ManagerFit, Corpse, TypeOK
<1>7. ASSUME NEW t \in Threads, Terminate(t)  PROVE ListsAgree' /\ ManagerFit'
  <2>1. t \in Listed /\ state[t] # "NONE" /\ t \notin Range(thread_list_dead)
    BY <1>7 DEF Terminate, ListsAgree
  <2>2. \A s \in Range(thread_list_dead) : state'[s] = state[s]
    BY <1>0, <1>7, <2>1 DEF Terminate, TypeOK
  <2>3. \A s \in Threads : state'[s] = "NONE" <=> state[s] = "NONE"
    BY <1>7, <2>1 DEF Terminate, TypeOK
  <2>4. ListsAgree'
    BY <1>7, <2>2, <2>3, QuietAgrees DEF Terminate, ListsAgree, Corpse
  <2> QED  BY <1>7, <2>4 DEF Terminate, ManagerFit
<1>8. ASSUME NEW t \in Threads, CreateThread(t)  PROVE ListsAgree' /\ ManagerFit'
  <2>1. t \notin Listed /\ t \notin Range(thread_list_dead)
    BY <1>8 DEF CreateThread, ListsAgree
  <2>2. IsInjective(thread_list') /\ Range(thread_list') = Listed \cup {t}
    BY <1>8, <2>1, AppendElements DEF CreateThread, TypeOK, Listed, ListsAgree
  <2>3. \A s \in Threads : state'[s] = IF s = t THEN "ALIVE" ELSE state[s]
    BY <1>8 DEF CreateThread, TypeOK
  <2>4. ListsAgree'
    BY <1>0, <1>8, <2>1, <2>2, <2>3 DEF CreateThread, ListsAgree, Listed, Corpse
  <2> QED  BY <1>0, <1>8, <2>1, <2>3, <2>4 DEF CreateThread, ManagerFit, Corpse, TypeOK
<1>9. ASSUME NEW p \in Priorities, SetPriority(p)  PROVE ListsAgree' /\ ManagerFit'
  <2>1. ListsAgree'
    BY <1>9, QuietAgrees DEF SetPriority, ListsAgree, Corpse
  <2> QED  BY <1>9, <2>1 DEF SetPriority, ManagerFit, Corpse
<1>10. CASE Kill
  <2>1. ListsAgree'
    BY <1>0, <1>10, QuietAgrees DEF Kill, TypeOK, ListsAgree, Corpse
  <2> QED  BY <1>10, <2>1 DEF Kill, ManagerFit
<1>11. CASE Fault
  <2>1. ListsAgree'
    BY <1>0, <1>11, QuietAgrees DEF Fault, TypeOK, ListsAgree, Corpse
  <2> QED  BY <1>0, <1>11, <2>1 DEF Fault, ManagerFit, TypeOK
<1>12. ASSUME NEW i \in DOMAIN thread_list, Collect(i)  PROVE ListsAgree' /\ ManagerFit'
  <2> DEFINE dead == thread_list[i]
  <2>1. dead \in Listed /\ dead \in Threads /\ dead \notin Range(thread_list_dead)
    BY <1>0 DEF Listed, Range, ListsAgree
  <2>2. Corpse(dead) /\ thread_current # dead
    BY <1>12 DEF Collect, ManagerFit
  <2>3. IsInjective(thread_list') /\ Listed' = Listed \ {dead}
    BY <1>12, RemoveAtElements DEF Collect, Listed, ListsAgree, TypeOK
  <2>4. /\ IsInjective(thread_list_dead')
        /\ Range(thread_list_dead') = Range(thread_list_dead) \cup {dead}
    BY <1>12, <2>1, AppendElements DEF Collect, ListsAgree, TypeOK
  <2>5. UNCHANGED <<state, pc, thread_current>>
    BY <1>12 DEF Collect
  <2> HIDE DEF dead
  <2>6. ListsAgree'
    BY <2>1, <2>2, <2>3, <2>4, <2>5 DEF ListsAgree, Corpse
  <2> QED  BY <2>5, <2>6 DEF ManagerFit, Corpse
<1>13. ASSUME NEW i \in DOMAIN thread_list_dead, Free(i)  PROVE ListsAgree' /\ ManagerFit'
  <2> DEFINE dead == thread_list_dead[i]
  <2>1. dead \in Range(thread_list_dead) /\ dead \in Threads /\ dead \notin Listed
    BY <1>0 DEF Range, ListsAgree
  <2>2. /\ IsInjective(thread_list_dead')
        /\ Range(thread_list_dead') = Range(thread_list_dead) \ {dead}
    BY <1>13, RemoveAtElements DEF Free, ListsAgree, TypeOK
  <2>3. /\ UNCHANGED <<thread_list, thread_current>>
        /\ \A s \in Threads : state'[s] = IF s = dead THEN "NONE" ELSE state[s]
        /\ \A s \in Threads \ {dead} : pc'[s] = pc[s]
    BY <1>13, <2>1 DEF Free, TypeOK
  <2> HIDE DEF dead
  <2>4. ListsAgree'
    BY <1>0, <2>1, <2>2, <2>3 DEF ListsAgree, Listed, Corpse
  <2> QED  BY <1>0, <2>1, <2>3, <2>4 DEF ManagerFit, Corpse, ListsAgree
<1>14. CASE UNCHANGED vars
  BY <1>14 DEF vars, ListsAgree, ManagerFit, Listed, Corpse
<1> QED
  BY <1>1, <1>2, <1>3, <1>4, <1>5, <1>6, <1>7, <1>8, <1>9, <1>10, <1>11,
     <1>12, <1>13, <1>14 DEF Next

\* Lists, states and processor agree in every reachable state: no record is
\* listed twice, freed while listed, or freed while it owns the processor.
THEOREM ListsAgreeCorrect == Spec => []ListsAgree
<1>1. Init => IInv
  BY InitIInv
<1>2. IInv /\ [Next]_vars => IInv'
  BY StepIInv
<1>3. IInv => ListsAgree
  BY DEF IInv
<1> QED  BY <1>1, <1>2, <1>3, PTL DEF Spec

-----------------------------------------------------------------------------
(* What a step may never do. *)

\* The body of the action property CorpseStaysDown.
CorpseStays(t) ==
    /\ t # thread_current => thread_current' # t
    /\ \/ state'[t] \in {"DEAD", "ZOMBIE", "NONE"}
       \/ /\ t = thread_current
          /\ pc[t] = "sleepState" /\ state'[t] = "WAITING_SLEEP"

LEMMA StepCorpses ==
    IInv /\ [Next]_vars => \A t \in Threads : Corpse(t) => CorpseStays(t)
<1> SUFFICES ASSUME IInv, [Next]_vars, NEW t \in Threads, Corpse(t)
             PROVE  CorpseStays(t)
  OBVIOUS
<1> USE DEF IInv, Corpse, TypeOK, CorpseStays
<1>1. ASSUME NEW u \in Threads, SwitchTo(u)
      PROVE  CorpseStays(t)
  <2>1. t \notin Ready /\ Awoken(t) = state[t]
    BY DEF Ready, Awoken, Sleeping
  <2>2. t # thread_current => u # t
    BY <1>1, <2>1, SwitchAgrees
  <2> QED  BY <1>1, <2>1, <2>2 DEF SwitchTo
<1>2. CASE Tick \/ Yield \/ SleepPreempt
  BY <1>1, <1>2 DEF Tick, Yield, SleepPreempt, tasking_switch
<1>3. CASE SleepState
  BY <1>3 DEF SleepState, Running
<1>4. CASE SleepReturn
  BY <1>4 DEF SleepReturn
<1>5. CASE SleepArg \/ Kill \/ Fault
  BY <1>5 DEF SleepArg, Kill, Fault
<1>6. ASSUME NEW u \in Threads, Terminate(u) \/ CreateThread(u)
      PROVE  CorpseStays(t)
  BY <1>6 DEF Terminate, CreateThread
<1>7. CASE \E p \in Priorities : SetPriority(p)
  BY <1>7 DEF SetPriority
<1>8. CASE \E i \in DOMAIN thread_list : Collect(i)
  BY <1>8 DEF Collect
<1>9. CASE \E i \in DOMAIN thread_list_dead : Free(i)
  BY <1>9 DEF Free
<1>10. CASE UNCHANGED vars
  BY <1>10 DEF vars
<1> QED
  BY <1>2, <1>3, <1>4, <1>5, <1>6, <1>7, <1>8, <1>9, <1>10 DEF Next

\* A DEAD or ZOMBIE thread that lost the processor never gets it back, and
\* only its own sleep makes a thread that is DEAD schedulable again.
THEOREM CorpseStaysDownCorrect == Spec => CorpseStaysDown
<1> DEFINE Stay == \A t \in Threads : Corpse(t) => CorpseStays(t)
<1>1. Init => IInv
  BY InitIInv
<1>2. IInv /\ [Next]_vars => IInv'
  BY StepIInv
<1>3. IInv /\ [Next]_vars => [Stay]_vars
  BY StepCorpses
<1>4. Spec => [][Stay]_vars
  BY <1>1, <1>2, <1>3, PTL DEF Spec
<1> QED  BY <1>4 DEF CorpseStaysDown, CorpseStays

-----------------------------------------------------------------------------
(* No age wraps. *)

\* SleepTimes has a greatest element: it is not empty and below WordMod.
LEMMA LongestSleep ==
    /\ Longest \in SleepTimes
    /\ \A ms \in SleepTimes : ms <= Longest
<1> DEFINE bounds == {u \in Nat : \A ms \in SleepTimes : ms <= u}
<1>1. SleepTimes \subseteq Nat \ {0} /\ SleepTimes # {}
  BY NumbersAssumption, AgeAssumption
<1>2. WordMod \in bounds
  BY NumbersAssumption
<1>3. PICK u \in bounds : \A v \in bounds : u <= v
  <2>1. bounds \in SUBSET Nat /\ bounds # {}
    BY <1>2
  <2> HIDE DEF bounds
  <2> QED  BY <2>1, LeastNat
<1>4. u \in SleepTimes
  <2> SUFFICES ASSUME u \notin SleepTimes  PROVE FALSE
    OBVIOUS
  <2>1. u \in Nat /\ u # 0
    <3>1. PICK ms \in SleepTimes : TRUE
      BY <1>1
    <3>2. ms \in Nat \ {0} /\ ms <= u /\ u \in Nat
      BY <1>1
    <3> QED  BY <3>2
  <2>2. u - 1 \in bounds
    BY <1>1, <2>1
  <2> QED  BY <1>3, <2>1, <2>2
<1>5. \A ms \in SleepTimes : ms <= u
  OBVIOUS
<1> QED  BY <1>4, <1>5 DEF Longest

\* The numbers the proof adds up.
LEMMA AgeNumbers ==
    /\ Cardinality(Threads) \in Nat \ {0}
    /\ Realtime \in Nat /\ Longest \in Nat \ {0}
    /\ Rested = Realtime + Longest /\ Rested \in Nat
    /\ WordMod \in Nat
    /\ Rested + Cardinality(Threads) < WordMod
    /\ \A p \in Priorities : p \in Nat /\ p <= Realtime
<1>1. Cardinality(Threads) \in Nat \ {0}
  BY ThreadsAssumption, FS_CardinalityType, FS_EmptySet
<1> QED
  BY <1>1, LongestSleep, NumbersAssumption, AgeAssumption DEF Rested, Priorities

LEMMA OverdueFinite ==
    ASSUME NEW S \in SUBSET Threads
    PROVE  IsFiniteSet(S) /\ Cardinality(S) \in Nat
BY ThreadsAssumption, FS_Subset, FS_CardinalityType

\* OverdueFew at the last k leaves nobody overdue.
LEMMA AgesBounded == AgeInv => AgeBound
<1> SUFFICES ASSUME AgeInv, NEW t \in Listed, ~Corpse(t)
             PROVE  age[t] <= Rested + Cardinality(Threads) - 1
  BY DEF AgeBound, Rested
<1> DEFINE k == Cardinality(Threads) - 1
<1>1. k \in 0 .. Cardinality(Threads) - 1
  BY AgeNumbers
<1>2. Overdue(k) \subseteq Threads
  BY DEF Overdue, Listed, Range, AgeInv, IInv, TypeOK
<1>3. Cardinality(Overdue(k)) <= 0
  BY <1>1, AgeNumbers DEF AgeInv, OverdueFew
<1>4. Overdue(k) = {}
  BY <1>2, <1>3, OverdueFinite, FS_EmptySet
<1>5. t \in Threads /\ age[t] \in Nat
  BY NumbersAssumption DEF Listed, Range, AgeInv, IInv, TypeOK, Word
<1> QED  BY <1>4, <1>5, AgeNumbers DEF Overdue

\* The counters of a thread that may run or sleep do not wrap in one scan.
LEMMA ScanCounts ==
    ASSUME AgeInv, NEW s \in Threads
    PROVE  /\ s \in Listed /\ ~Corpse(s) => Aged(s) = age[s] + 1
           /\ s \in Listed \/ s = thread_current => Aged(s) \in Nat
           /\ Sleeping(s) => CountedDown(s) = arg[s] - 1
           /\ ~Sleeping(s) => CountedDown(s) = arg[s] /\ Awoken(s) = state[s]
           /\ Aged(thread_current) = age[thread_current] + 1
<1>1. age[s] \in 0 .. WordMod - 1 /\ thread_current \in Threads /\ thread_current \in Listed
  BY DEF AgeInv, IInv, TypeOK, Word, ListsAgree
<1>2. s \in Listed /\ ~Corpse(s) => Aged(s) = age[s] + 1
  <2> SUFFICES ASSUME s \in Listed, ~Corpse(s)  PROVE Aged(s) = age[s] + 1
    OBVIOUS
  <2>1. age[s] + 1 \in 0 .. WordMod - 1
    BY <1>1, AgesBounded, AgeNumbers DEF AgeBound, Rested
  <2>2. (age[s] + 1) % WordMod = age[s] + 1
    BY <2>1, AgeNumbers
  <2> QED  BY <2>2 DEF Aged
<1>3. Aged(s) \in Nat
  BY <1>1, NumbersAssumption DEF Aged
<1>4. ASSUME Sleeping(s)  PROVE CountedDown(s) = arg[s] - 1
  <2>1. arg[s] \in 1 .. Longest
    BY <1>4 DEF Sleeping, AgeInv, SleepSound
  <2>2. arg[s] + WordMod - 1 = (arg[s] - 1) + WordMod /\ arg[s] - 1 \in 0 .. WordMod - 1
    BY <2>1, AgeNumbers
  <2>3. (arg[s] + WordMod - 1) % WordMod = arg[s] - 1
    BY <2>1, <2>2, AgeNumbers
  <2> QED  BY <1>4, <2>3 DEF CountedDown
<1>5. ~Sleeping(s) => CountedDown(s) = arg[s] /\ Awoken(s) = state[s]
  BY DEF CountedDown, Awoken
<1>6. Aged(thread_current) = age[thread_current] + 1
  <2>1. age[thread_current] \in 0 .. WordMod - 1 /\ age[thread_current] <= Realtime
    BY <1>1 DEF AgeInv, CurrentYoung, IInv, TypeOK, Word
  <2>2. age[thread_current] + 1 \in 0 .. WordMod - 1
    BY <2>1, AgeNumbers
  <2>3. (age[thread_current] + 1) % WordMod = age[thread_current] + 1
    BY <2>2, AgeNumbers
  <2> QED  BY <1>1, <2>3 DEF Aged
<1> QED  BY <1>2, <1>3, <1>4, <1>5, <1>6

\* One run of tasking_switch: whoever is overdue outruns the running thread,
\* so the oldest of them is elected and all others wait one switch more.
LEMMA SwitchAges ==
    ASSUME AgeInv, NEW t \in Threads, SwitchTo(t),
           \A s \in Threads : pc'[s] = pc[s] \/ (pc[s] # "sleepState" /\ pc'[s] = "sleepSpin")
    PROVE  CurrentYoung' /\ SleepSound' /\ OverdueFew'
<1> DEFINE n == Cardinality(Threads)
<1>1. /\ thread_current' = t /\ Listed' = Listed /\ Listed \subseteq Threads
      /\ thread_current \in Listed
      /\ \A s \in Threads :
            /\ arg'[s] = CountedDown(s) /\ state'[s] = Awoken(s)
            /\ age'[s] = IF s = t THEN priority[s] ELSE Aged(s)
            /\ age[s] \in Nat /\ arg[s] \in Nat /\ priority[s] \in Nat /\ priority[s] <= Realtime
  <2>1. Listed' = Listed /\ Listed \subseteq Threads /\ thread_current \in Listed
    BY DEF SwitchTo, Listed, Range, AgeInv, IInv, TypeOK, ListsAgree
  <2>2. ASSUME NEW s \in Threads
        PROVE  /\ age[s] \in Nat /\ arg[s] \in Nat
               /\ priority[s] \in Nat /\ priority[s] <= Realtime
    BY AgeNumbers DEF AgeInv, IInv, TypeOK, Word
  <2> QED  BY <2>1, <2>2 DEF SwitchTo
<1>2. CurrentYoung'
  BY <1>1 DEF CurrentYoung
<1>3. SleepSound'
  <2> SUFFICES ASSUME NEW s \in Threads
               PROVE  /\ pc'[s] = "sleepState" => arg'[s] \in 1 .. Longest
                      /\ state'[s] = "WAITING_SLEEP" =>
                            /\ pc'[s] \in {"sleepPreempt", "sleepSpin"}
                            /\ arg'[s] \in 1 .. Longest
                            /\ age'[s] + arg'[s] <= Rested
    BY DEF SleepSound, Rested
  <2>1. /\ pc[s] = "sleepState" => arg[s] \in 1 .. Longest
        /\ state[s] = "WAITING_SLEEP" =>
            /\ pc[s] \in {"sleepPreempt", "sleepSpin"}
            /\ arg[s] \in 1 .. Longest
            /\ age[s] + arg[s] <= Rested
    BY DEF AgeInv, SleepSound
  <2>2. ASSUME pc'[s] = "sleepState"  PROVE arg'[s] \in 1 .. Longest
    <3>1. pc[s] = "sleepState" /\ ~Sleeping(s)
      BY <2>1, <2>2 DEF Sleeping
    <3> QED  BY <1>1, <2>1, <3>1, ScanCounts
  <2>3. ASSUME state'[s] = "WAITING_SLEEP"
        PROVE  /\ pc'[s] \in {"sleepPreempt", "sleepSpin"}
               /\ arg'[s] \in 1 .. Longest
               /\ age'[s] + arg'[s] <= Rested
    <3>1. Awoken(s) = "WAITING_SLEEP" /\ state[s] = "WAITING_SLEEP"
      BY <1>1, <2>3 DEF Awoken
    <3>2. s \in Listed
      BY <3>1 DEF AgeInv, IInv, ListsAgree, Corpse
    <3>3. Sleeping(s) /\ ~Corpse(s)
      BY <3>1, <3>2 DEF Sleeping, Corpse
    <3>4. CountedDown(s) = arg[s] - 1 /\ CountedDown(s) # 0 /\ Aged(s) = age[s] + 1
      BY <3>1, <3>2, <3>3, ScanCounts DEF Awoken
    <3>5. arg'[s] \in 1 .. Longest
      BY <1>1, <2>1, <3>1, <3>4, AgeNumbers
    <3>6. age'[s] + arg'[s] <= Rested
      BY <1>1, <2>1, <3>1, <3>4, <3>5, AgeNumbers
    <3> QED  BY <2>1, <3>1, <3>5, <3>6
  <2> QED  BY <2>2, <2>3
<1>4. ASSUME NEW k \in 0 .. n - 1
      PROVE  Cardinality(Overdue(k)') <= n - 1 - k
  <2> DEFINE late == {s \in Listed : ~Corpse(s) /\ age[s] + 1 > Rested + k}
  <2>0. n \in Nat \ {0} /\ Rested \in Nat /\ Realtime < Rested /\ Realtime \in Nat
    BY AgeNumbers
  <2>1. /\ late \in SUBSET Threads /\ Overdue(k)' \in SUBSET Threads
        /\ Overdue(k)' = {s \in Listed : ~Corpse(s)' /\ age'[s] > Rested + k}
    BY <1>1 DEF Overdue, Rested
  <2>2. ASSUME NEW s \in Overdue(k)'
        PROVE  s \in late /\ s \in Ready /\ s # t /\ Outruns(s)
    <3>1. s \in Threads /\ s \in Listed /\ ~Corpse(s)' /\ age'[s] > Rested + k
      BY <1>1, <2>1
    <3>2. s # t
      BY <1>1, <2>0, <3>1
    <3>3. ~Corpse(s)
      BY <3>1, SwitchAgrees DEF AgeInv
    <3>4. age'[s] = age[s] + 1 /\ Aged(s) = age[s] + 1
      BY <1>1, <3>1, <3>2, <3>3, ScanCounts
    <3>5. ~Sleeping(s)
      <4> SUFFICES ASSUME Sleeping(s)  PROVE FALSE
        OBVIOUS
      <4>1. arg[s] \in 1 .. Longest /\ age[s] + arg[s] <= Rested
        BY <3>1 DEF Sleeping, AgeInv, SleepSound
      <4> QED  BY <1>1, <2>0, <3>1, <3>4, <4>1, AgeNumbers
    <3>6. state[s] = "ALIVE"
      <4>1. state[s] \in States /\ state[s] # "NONE"
        BY <3>1 DEF AgeInv, IInv, TypeOK, ListsAgree
      <4> QED  BY <3>1, <3>3, <3>5, <4>1 DEF States, Corpse, Sleeping
    <3>7. s \in Ready
      BY <3>1, <3>5, <3>6 DEF Ready, Awoken
    <3>8. Outruns(s)
      <4>1. age[thread_current] <= Realtime /\ age[thread_current] \in Nat
        BY <1>1 DEF AgeInv, CurrentYoung
      <4>2. Aged(thread_current) = age[thread_current] + 1
        BY ScanCounts
      <4>3. Aged(s) > age[thread_current] + 1
        BY <1>1, <2>0, <3>1, <3>4, <4>1
      <4> QED  BY <1>1, <3>1, <3>4, <4>1, <4>2, <4>3 DEF Outruns
    <3> QED  BY <1>1, <2>0, <3>1, <3>2, <3>3, <3>4, <3>7, <3>8
  <2>3. CASE Overdue(k)' = {}
    BY <2>0, <2>3, FS_EmptySet
  <2>4. CASE Overdue(k)' # {}
    <3>1. PICK s \in Overdue(k)' : TRUE
      BY <2>4
    <3>2. t \in Ready /\ FirstOldest(t)
      BY <2>2, <3>1 DEF SwitchTo, Elects
    <3>3. s \in Ready /\ s # t /\ Aged(s) <= Aged(t)
      BY <1>1, <2>2, <3>1, <3>2, ScanCounts DEF FirstOldest, Ready
    <3>4. t \in Listed /\ ~Corpse(t)
      BY <3>2, SwitchAgrees DEF Ready, Awoken, Corpse, Sleeping
    <3>5. t \in late
      <4>1. s \in late
        BY <2>2
      <4>2. s \in Threads /\ Aged(s) = age[s] + 1 /\ Aged(t) = age[t] + 1
        BY <1>1, <3>4, <4>1, ScanCounts
      <4> QED  BY <1>1, <2>0, <3>3, <3>4, <4>1, <4>2
    <3>6. Overdue(k)' \subseteq late \ {t}
      BY <2>2
    <3> HIDE DEF late
    <3>7. Cardinality(Overdue(k)') <= Cardinality(late) - 1
      <4>1. IsFiniteSet(late) /\ Cardinality(late) \in Nat
        BY <2>1, OverdueFinite
      <4>2. IsFiniteSet(late \ {t}) /\ Cardinality(late \ {t}) = Cardinality(late) - 1
        BY <3>5, <4>1, FS_RemoveElement
      <4> QED  BY <3>6, <4>2, FS_Subset
    <3>8. Cardinality(late) <= n - k
      <4>1. CASE k = 0
        BY <2>1, <4>1, <2>0, ThreadsAssumption, FS_Subset
      <4>2. CASE k # 0
        <5>1. k - 1 \in 0 .. n - 1 /\ k \in Nat
          BY <2>0, <4>2
        <5>2. late = Overdue(k - 1)
          <6>1. \A x \in Listed : age[x] + 1 > Rested + k <=> age[x] > Rested + (k - 1)
            BY <1>1, <2>0, <5>1
          <6> QED  BY <6>1 DEF late, Overdue
        <5>3. Cardinality(Overdue(k - 1)) <= n - 1 - (k - 1)
          BY <5>1 DEF AgeInv, OverdueFew
        <5> QED  BY <2>0, <5>1, <5>2, <5>3
      <4> QED  BY <4>1, <4>2
    <3>9. Cardinality(late) \in Nat /\ Cardinality(Overdue(k)') \in Nat
      BY <2>1, OverdueFinite
    <3> QED  BY <2>0, <3>7, <3>8, <3>9
  <2> QED  BY <2>3, <2>4
<1>5. OverdueFew'
  BY <1>4 DEF OverdueFew
<1> QED  BY <1>2, <1>3, <1>5

LEMMA InitAges == Init => AgeInv
<1> SUFFICES ASSUME Init  PROVE CurrentYoung /\ SleepSound /\ OverdueFew
  BY InitIInv DEF AgeInv
<1>1. CurrentYoung /\ SleepSound
  BY AgeNumbers, ThreadsAssumption DEF Init, CurrentYoung, SleepSound
<1>2. ASSUME NEW k \in 0 .. Cardinality(Threads) - 1
      PROVE  Cardinality(Overdue(k)) <= Cardinality(Threads) - 1 - k
  <2>1. Cardinality(Threads) \in Nat /\ k \in Nat /\ Rested \in Nat
    BY AgeNumbers
  <2>2. \A t \in Listed : t \in Threads /\ age[t] = 0
    BY InitType DEF Init, TypeOK, Listed, Range
  <2>3. ~(0 > Rested + k)
    BY <2>1
  <2>4. Overdue(k) = {}
    BY <2>2, <2>3 DEF Overdue
  <2>5. Cardinality(Overdue(k)) = 0
    BY <2>4, FS_EmptySet
  <2> QED  BY <2>1, <2>5
<1>3. OverdueFew
  BY <1>2 DEF OverdueFew
<1> QED  BY <1>1, <1>3

\* Overdue shrinks when no age grows past Rested.
LEMMA FewerOverdue ==
    ASSUME AgeInv, \A k \in Nat : Overdue(k)' \subseteq Overdue(k)
    PROVE  OverdueFew'
<1> SUFFICES ASSUME NEW k \in 0 .. Cardinality(Threads) - 1
             PROVE  Cardinality(Overdue(k)') <= Cardinality(Threads) - 1 - k
  BY DEF OverdueFew
<1>1. Cardinality(Threads) \in Nat /\ k \in Nat
  BY AgeNumbers
<1>2. Overdue(k) \in SUBSET Threads /\ Overdue(k)' \in SUBSET Overdue(k)
  BY <1>1 DEF Overdue, Listed, Range, AgeInv, IInv, TypeOK
<1>3. Cardinality(Overdue(k)') <= Cardinality(Overdue(k))
  BY <1>2, OverdueFinite, FS_Subset
<1>4. Cardinality(Overdue(k)) \in Nat /\ Cardinality(Overdue(k)') \in Nat
  BY <1>2, OverdueFinite
<1>5. Cardinality(Overdue(k)) <= Cardinality(Threads) - 1 - k
  BY DEF AgeInv, OverdueFew
<1> QED  BY <1>1, <1>3, <1>4, <1>5

LEMMA StepAges == AgeInv /\ [Next]_vars => AgeInv'
<1> SUFFICES ASSUME AgeInv, [Next]_vars
             PROVE  CurrentYoung' /\ SleepSound' /\ OverdueFew'
  BY StepIInv DEF AgeInv
<1> USE DEF Running
<1>0. /\ thread_current \in Threads /\ thread_current \in Listed
      /\ Listed \subseteq Threads
      /\ \A s \in Threads : age[s] \in Nat /\ arg[s] \in Nat
      /\ Longest \in Nat \ {0} /\ Rested \in Nat /\ Realtime \in Nat /\ Rested = Realtime + Longest
      /\ age[thread_current] <= Realtime
  <2>1. thread_current \in Listed /\ Listed \subseteq Threads
    BY DEF AgeInv, IInv, TypeOK, ListsAgree, Listed, Range
  <2>2. \A s \in Threads : age[s] \in Nat /\ arg[s] \in Nat
    BY AgeNumbers DEF AgeInv, IInv, TypeOK, Word
  <2> QED  BY <2>1, <2>2, AgeNumbers DEF AgeInv, CurrentYoung
<1>1. CASE Tick \/ Yield \/ SleepPreempt
  <2>1. PICK t \in Threads : SwitchTo(t)
    BY <1>1 DEF Tick, Yield, SleepPreempt, tasking_switch
  <2>2. \A s \in Threads : pc'[s] = pc[s] \/ (pc[s] # "sleepState" /\ pc'[s] = "sleepSpin")
    BY <1>0, <1>1 DEF Tick, Yield, SleepPreempt, AgeInv, IInv, TypeOK
  <2> QED  BY <2>1, <2>2, SwitchAges
<1>2. CASE SleepArg
  <2>1. PICK ms \in SleepTimes : arg' = [arg EXCEPT ![thread_current] = ms]
    BY <1>2 DEF SleepArg
  <2>2. ms \in 1 .. Longest
    BY LongestSleep, NumbersAssumption, <1>0
  <2>3. state[thread_current] # "WAITING_SLEEP"
    BY <1>0, <1>2 DEF SleepArg, AgeInv, SleepSound
  <2>4. CurrentYoung' /\ SleepSound'
    BY <1>0, <1>2, <2>1, <2>2, <2>3
    DEF SleepArg, AgeInv, CurrentYoung, SleepSound, Rested, IInv, TypeOK
  <2>5. \A k \in Nat : Overdue(k)' \subseteq Overdue(k)
    BY <1>2 DEF SleepArg, Overdue, Listed, Corpse, Rested
  <2> QED  BY <2>4, <2>5, FewerOverdue
<1>3. CASE SleepState
  <2>1. CurrentYoung' /\ SleepSound'
    BY <1>0, <1>3 DEF SleepState, AgeInv, CurrentYoung, SleepSound, Rested, IInv, TypeOK
  <2>2. \A k \in Nat : Overdue(k)' \subseteq Overdue(k)
    BY <1>0, <1>3 DEF SleepState, Overdue, Listed, Corpse, Rested, AgeInv, IInv, TypeOK
  <2> QED  BY <2>1, <2>2, FewerOverdue
<1>4. CASE SleepReturn
  <2>1. CurrentYoung' /\ SleepSound'
    BY <1>0, <1>4 DEF SleepReturn, AgeInv, CurrentYoung, SleepSound, Rested, IInv, TypeOK
  <2>2. \A k \in Nat : Overdue(k)' \subseteq Overdue(k)
    BY <1>4 DEF SleepReturn, Overdue, Listed, Corpse, Rested
  <2> QED  BY <2>1, <2>2, FewerOverdue
<1>5. ASSUME NEW t \in Threads, Terminate(t)
      PROVE  CurrentYoung' /\ SleepSound' /\ OverdueFew'
  <2>1. CurrentYoung' /\ SleepSound'
    BY <1>0, <1>5 DEF Terminate, AgeInv, CurrentYoung, SleepSound, Rested, IInv, TypeOK
  <2>2. \A k \in Nat : Overdue(k)' \subseteq Overdue(k)
    BY <1>5 DEF Terminate, Overdue, Listed, Corpse, Rested, AgeInv, IInv, TypeOK
  <2> QED  BY <2>1, <2>2, FewerOverdue
<1>6. ASSUME NEW t \in Threads, CreateThread(t)
      PROVE  CurrentYoung' /\ SleepSound' /\ OverdueFew'
  <2>1. t # thread_current
    BY <1>0, <1>6 DEF CreateThread, AgeInv, IInv, ListsAgree
  <2>2. CurrentYoung' /\ SleepSound'
    BY <1>0, <1>6, <2>1 DEF CreateThread, AgeInv, CurrentYoung, SleepSound, Rested, IInv, TypeOK
  <2>3. Listed' \subseteq Listed \cup {t}
    BY <1>6 DEF CreateThread, Listed, Range, AgeInv, IInv, TypeOK
  <2>4. \A k \in Nat : Overdue(k)' \subseteq Overdue(k)
    BY <1>0, <1>6, <2>3 DEF CreateThread, Overdue, Corpse, Rested, AgeInv, IInv, TypeOK
  <2> QED  BY <2>2, <2>4, FewerOverdue
<1>7. ASSUME NEW p \in Priorities, SetPriority(p)
      PROVE  CurrentYoung' /\ SleepSound' /\ OverdueFew'
  <2>1. CurrentYoung' /\ SleepSound'
    BY <1>0, <1>7 DEF SetPriority, AgeInv, CurrentYoung, SleepSound, Rested
  <2>2. \A k \in Nat : Overdue(k)' \subseteq Overdue(k)
    BY <1>7 DEF SetPriority, Overdue, Listed, Corpse, Rested
  <2> QED  BY <2>1, <2>2, FewerOverdue
<1>8. CASE Kill \/ Fault
  <2>1. CurrentYoung' /\ SleepSound'
    BY <1>0, <1>8
    DEF Kill, Fault, AgeInv, CurrentYoung, SleepSound, Rested, IInv, TypeOK
  <2>2. \A k \in Nat : Overdue(k)' \subseteq Overdue(k)
    <3>1. /\ \A s \in Threads : Corpse(s) => Corpse(s)'
          /\ UNCHANGED <<thread_list, age>>
      BY <1>8 DEF Kill, Fault, Corpse, AgeInv, IInv, TypeOK
    <3> QED  BY <1>0, <3>1 DEF Overdue, Listed, Rested
  <2> QED  BY <2>1, <2>2, FewerOverdue
<1>9. ASSUME NEW i \in DOMAIN thread_list, Collect(i)
      PROVE  CurrentYoung' /\ SleepSound' /\ OverdueFew'
  <2>1. CurrentYoung' /\ SleepSound'
    BY <1>9 DEF Collect, AgeInv, CurrentYoung, SleepSound, Rested
  <2>2. Listed' \subseteq Listed
    BY <1>9, RemoveAtElements DEF Collect, Listed, AgeInv, IInv, TypeOK, ListsAgree
  <2>3. \A k \in Nat : Overdue(k)' \subseteq Overdue(k)
    BY <1>9, <2>2 DEF Collect, Overdue, Corpse, Rested
  <2> QED  BY <2>1, <2>3, FewerOverdue
<1>10. ASSUME NEW i \in DOMAIN thread_list_dead, Free(i)
       PROVE  CurrentYoung' /\ SleepSound' /\ OverdueFew'
  <2> DEFINE dead == thread_list_dead[i]
  <2>1. dead \in Threads /\ dead \notin Listed
    BY DEF Range, AgeInv, IInv, TypeOK, ListsAgree
  <2>2. CurrentYoung' /\ SleepSound'
    BY <1>0, <1>10, <2>1 DEF Free, AgeInv, CurrentYoung, SleepSound, Rested, IInv, TypeOK
  <2>3. \A k \in Nat : Overdue(k)' \subseteq Overdue(k)
    BY <1>0, <1>10, <2>1 DEF Free, Overdue, Listed, Corpse, Rested, AgeInv, IInv, TypeOK
  <2> QED  BY <2>2, <2>3, FewerOverdue
<1>11. CASE UNCHANGED vars
  <2>1. CurrentYoung' /\ SleepSound'
    BY <1>11 DEF vars, AgeInv, CurrentYoung, SleepSound, Rested
  <2>2. \A k \in Nat : Overdue(k)' \subseteq Overdue(k)
    BY <1>11 DEF vars, Overdue, Listed, Corpse, Rested
  <2> QED  BY <2>1, <2>2, FewerOverdue
<1> QED
  BY <1>1, <1>2, <1>3, <1>4, <1>5, <1>6, <1>7, <1>8, <1>9, <1>10, <1>11 DEF Next

LEMMA AgeInvariance == Spec => []AgeInv
<1>1. Init => AgeInv
  BY InitAges
<1>2. AgeInv /\ [Next]_vars => AgeInv'
  BY StepAges
<1> QED  BY <1>1, <1>2, PTL DEF Spec

\* The age of a thread that may still be elected never wraps: it starts its
\* wait with at most Realtime, ages through the longest sleep and then lets
\* every other thread run at most once, however many threads there are.
THEOREM AgeBoundCorrect == Spec => []AgeBound
<1>1. AgeInv => AgeBound
  BY AgesBounded
<1> QED  BY <1>1, AgeInvariance, PTL

-----------------------------------------------------------------------------
(* The loop of tasking_switch elects what Elects says. *)

\* The recursive function best, up to n entries of the list.
ScanFrom(f, n) ==
    f = [i \in 0 .. n |-> IF i = 0 THEN thread_current ELSE Better(f[i - 1], i)]

\* There is such a function for every n: the first n without one would have
\* an n - 1 with one, and Better gives the missing value.
LEMMA ScanExists ==
    ASSUME NEW n \in Nat
    PROVE  \E f : ScanFrom(f, n)
<1> DEFINE lacking == {k \in Nat : ~\E f : ScanFrom(f, k)}
<1> SUFFICES ASSUME lacking # {}  PROVE FALSE
  OBVIOUS
<1>1. PICK m \in lacking : \A k \in lacking : m <= k
  <2>1. lacking \in SUBSET Nat
    OBVIOUS
  <2> HIDE DEF lacking
  <2> QED  BY <2>1, LeastNat
<1>2. m \in Nat /\ ~\E f : ScanFrom(f, m)
  OBVIOUS
<1>3. m # 0
  <2> DEFINE f == [i \in 0 .. 0 |-> thread_current]
  <2>1. ScanFrom(f, 0)
    BY DEF ScanFrom
  <2> QED  BY <1>2, <2>1
<1>4. m - 1 \in Nat /\ m - 1 \notin lacking
  BY <1>1, <1>2, <1>3
<1>5. PICK f : ScanFrom(f, m - 1)
  BY <1>4
<1> DEFINE g == [i \in 0 .. m |-> IF i < m THEN f[i] ELSE Better(f[m - 1], m)]
<1>6. ScanFrom(g, m)
  <2>1. \A i \in 0 .. m : g[i] = IF i = 0 THEN thread_current ELSE Better(g[i - 1], i)
    <3> TAKE i \in 0 .. m
    <3>1. \A j \in 0 .. m - 1 : f[j] = IF j = 0 THEN thread_current ELSE Better(f[j - 1], j)
      BY <1>5 DEF ScanFrom
    <3>2. CASE i = m
      <4>1. m - 1 \in 0 .. m /\ m - 1 < m /\ g[m - 1] = f[m - 1]
        BY <1>2, <1>4
      <4> QED  BY <1>2, <1>3, <3>2, <4>1
    <3>3. CASE i < m /\ i # 0
      <4>1. i - 1 \in 0 .. m /\ i - 1 < m /\ i \in 0 .. m - 1
        BY <1>2, <3>3
      <4>2. g[i - 1] = f[i - 1] /\ g[i] = f[i]
        BY <3>3, <4>1
      <4> QED  BY <3>1, <3>3, <4>1, <4>2
    <3>4. CASE i = 0
      BY <1>2, <1>3, <1>4, <3>1, <3>4
    <3> QED  BY <1>2, <3>2, <3>3, <3>4
  <2> HIDE DEF g
  <2>2. DOMAIN g = 0 .. m /\ g = [i \in DOMAIN g |-> g[i]]
    BY DEF g
  <2> QED  BY <2>1, <2>2 DEF ScanFrom
<1> QED  BY <1>2, <1>6

\* best is that function.
LEMMA ScanRecurs ==
    ASSUME TypeOK
    PROVE  /\ best[0] = thread_current
           /\ \A i \in 1 .. Len(thread_list) : best[i] = Better(best[i - 1], i)
<1>1. Len(thread_list) \in Nat
  BY LenProperties DEF TypeOK
<1>2. \E f : ScanFrom(f, Len(thread_list))
  BY <1>1, ScanExists
<1>3. ScanFrom(best, Len(thread_list))
  BY <1>2 DEF best, ScanFrom
<1>4. \A i \in 0 .. Len(thread_list) :
        best[i] = IF i = 0 THEN thread_current ELSE Better(best[i - 1], i)
  BY <1>3 DEF ScanFrom
<1> QED  BY <1>1, <1>4

\* The order of the list is the order of the positions.
LEMMA BeforeIs ==
    ASSUME IsInjective(thread_list), NEW i \in DOMAIN thread_list, NEW j \in DOMAIN thread_list
    PROVE  Before(thread_list[i], thread_list[j]) <=> i < j
BY DEF Before, IsInjective

\* The invariant of the loop after i entries: either nobody has outrun the
\* running thread, or somebody has and best is the oldest of the ready
\* entries passed, the first one of these.
NoneOutran(i) ==
    \A q \in 1 .. i : thread_list[q] \in Ready => ~Outruns(thread_list[q])

OldestPassed(j, i) ==
    /\ j \in 1 .. i /\ thread_list[j] \in Ready
    /\ \E q \in 1 .. i : thread_list[q] \in Ready /\ Outruns(thread_list[q])
    /\ \A q \in 1 .. i : q # j /\ thread_list[q] \in Ready =>
            \/ Aged(thread_list[q]) < Aged(thread_list[j])
            \/ Aged(thread_list[q]) = Aged(thread_list[j]) /\ j < q

Passed(i) ==
    \/ best[i] = thread_current /\ NoneOutran(i)
    \/ \E j \in 1 .. i : best[i] = thread_list[j] /\ OldestPassed(j, i)

LEMMA PassOne ==
    ASSUME AgeInv, NEW i \in 1 .. Len(thread_list), Passed(i - 1)
    PROVE  Passed(i)
<1> DEFINE L == Len(thread_list)
           crnt == thread_list[i]
<1>1. /\ L \in Nat /\ DOMAIN thread_list = 1 .. L /\ IsInjective(thread_list)
      /\ \A q \in 1 .. L : thread_list[q] \in Threads /\ thread_list[q] \in Listed
  BY LenProperties, ElementOfSeq DEF AgeInv, IInv, TypeOK, ListsAgree, Listed, Range
<1>2. PICK p \in 1 .. L : thread_list[p] = thread_current
  BY <1>1 DEF AgeInv, IInv, ListsAgree, Listed, Range
<1>3. \A q \in 1 .. L : Aged(thread_list[q]) \in Nat
  BY <1>1, ScanCounts
<1>4. /\ Aged(thread_current) = age[thread_current] + 1 /\ age[thread_current] \in Nat
  BY <1>1, <1>2, ScanCounts DEF AgeInv, IInv, TypeOK, Word
<1>5. best[i] = Better(best[i - 1], i)
  BY ScanRecurs DEF AgeInv, IInv
\* What Outruns compares an entry with depends on its place.
<1>6. \A q \in 1 .. L :
        Outruns(thread_list[q]) <=>
            IF q < p THEN Aged(thread_list[q]) > age[thread_current]
                     ELSE Aged(thread_list[q]) > Aged(thread_current)
  BY <1>1, <1>2, BeforeIs DEF Outruns
<1>7. \A j \in 1 .. i : AgeSeen(thread_list[j], i) = Aged(thread_list[j])
  BY DEF AgeSeen
<1>8. AgeSeen(thread_current, i) = IF i < p THEN age[thread_current] ELSE Aged(thread_current)
  BY <1>1, <1>2 DEF AgeSeen, IsInjective
<1>9. i - 1 \in Nat /\ i \in 1 .. L /\ 1 .. i = (1 .. i - 1) \cup {i} /\ 1 .. i \subseteq 1 .. L
  BY <1>1
<1>10. CASE best[i - 1] = thread_current /\ NoneOutran(i - 1)
  <2>1. CASE crnt \in Ready /\ Outruns(crnt)
    <3>1. Aged(crnt) > AgeSeen(thread_current, i)
      BY <1>6, <1>8, <1>9, <2>1
    <3>2. best[i] = crnt
      BY <1>5, <1>10, <2>1, <3>1 DEF Better
    <3>3. ASSUME NEW q \in 1 .. i - 1, thread_list[q] \in Ready
          PROVE  Aged(thread_list[q]) < Aged(crnt)
      <4>1. ~Outruns(thread_list[q]) /\ q \in 1 .. L /\ q < i
        BY <1>9, <1>10, <3>3 DEF NoneOutran
      <4>2. Aged(thread_list[q]) <= IF q < p THEN age[thread_current] ELSE Aged(thread_current)
        BY <1>3, <1>4, <1>6, <4>1
      <4>3. Aged(crnt) > IF i < p THEN age[thread_current] ELSE Aged(thread_current)
        BY <1>8, <3>1
      <4> QED  BY <1>1, <1>3, <1>4, <1>9, <4>1, <4>2, <4>3
    <3>4. OldestPassed(i, i)
      BY <1>9, <2>1, <3>3 DEF OldestPassed
    <3> QED  BY <1>9, <3>2, <3>4 DEF Passed
  <2>2. CASE ~(crnt \in Ready /\ Outruns(crnt))
    <3>1. crnt \in Ready => ~(Aged(crnt) > AgeSeen(thread_current, i))
      BY <1>6, <1>8, <1>9, <2>2
    <3>2. best[i] = thread_current
      BY <1>5, <1>10, <3>1 DEF Better
    <3>3. NoneOutran(i)
      BY <1>9, <1>10, <2>2 DEF NoneOutran
    <3> QED  BY <3>2, <3>3 DEF Passed
  <2> QED  BY <2>1, <2>2
<1>11. ASSUME NEW j \in 1 .. i - 1, best[i - 1] = thread_list[j], OldestPassed(j, i - 1)
       PROVE  Passed(i)
  <2>1. j \in 1 .. i /\ j \in 1 .. L /\ j < i
    BY <1>9
  <2>2. AgeSeen(best[i - 1], i) = Aged(thread_list[j])
    BY <1>7, <1>11, <2>1
  <2>3. Aged(thread_list[j]) \in Nat /\ Aged(crnt) \in Nat
    BY <1>3, <1>9, <2>1
  <2>4. CASE crnt \in Ready /\ Aged(crnt) > Aged(thread_list[j])
    <3>1. best[i] = crnt
      BY <1>5, <2>2, <2>4 DEF Better
    <3>2. \A q \in 1 .. i - 1 : thread_list[q] \in Ready => Aged(thread_list[q]) < Aged(crnt)
      <4> TAKE q \in 1 .. i - 1
      <4>1. Aged(thread_list[q]) \in Nat
        BY <1>3, <1>9
      <4> QED  BY <1>11, <2>3, <2>4, <4>1 DEF OldestPassed
    <3>3. OldestPassed(i, i)
      BY <1>9, <1>11, <2>4, <3>2 DEF OldestPassed
    <3> QED  BY <1>9, <3>1, <3>3 DEF Passed
  <2>5. CASE ~(crnt \in Ready /\ Aged(crnt) > Aged(thread_list[j]))
    <3>1. best[i] = thread_list[j]
      BY <1>5, <1>11, <2>2, <2>5 DEF Better
    <3>2. crnt \in Ready => Aged(crnt) < Aged(thread_list[j]) \/ (Aged(crnt) = Aged(thread_list[j]) /\ j < i)
      BY <2>1, <2>3, <2>5
    <3>3. OldestPassed(j, i)
      BY <1>9, <1>11, <2>1, <3>2 DEF OldestPassed
    <3> QED  BY <2>1, <3>1, <3>3 DEF Passed
  <2> QED  BY <2>4, <2>5
<1> QED  BY <1>10, <1>11 DEF Passed

LEMMA PassAll == AgeInv => Passed(Len(thread_list))
<1> SUFFICES ASSUME AgeInv  PROVE Passed(Len(thread_list))
  OBVIOUS
<1> DEFINE failing == {i \in 0 .. Len(thread_list) : ~Passed(i)}
<1>1. Len(thread_list) \in Nat
  BY LenProperties DEF AgeInv, IInv, TypeOK
<1>2. Passed(0)
  BY ScanRecurs DEF AgeInv, IInv, Passed, NoneOutran
<1>3. failing = {}
  <2> SUFFICES ASSUME failing # {}  PROVE FALSE
    OBVIOUS
  <2>1. PICK i \in failing : \A k \in failing : i <= k
    <3>1. failing \in SUBSET Nat
      OBVIOUS
    <3> HIDE DEF failing
    <3> QED  BY <3>1, LeastNat
  <2>2. i \in 1 .. Len(thread_list) /\ ~Passed(i)
    BY <1>1, <1>2, <2>1
  <2>3. i - 1 \in 0 .. Len(thread_list) /\ i - 1 \notin failing
    BY <1>1, <2>1, <2>2
  <2>4. Passed(i - 1)
    BY <2>3
  <2> QED  BY <2>2, <2>4, PassOne
<1> QED  BY <1>1, <1>3

\* There is one winner.
LEMMA ElectsOne ==
    ASSUME AgeInv, NEW s \in Threads, NEW t \in Threads, Elects(s), Elects(t)
    PROVE  s = t
<1>1. CASE \E u \in Ready : Outruns(u)
  <2> SUFFICES ASSUME s # t  PROVE FALSE
    OBVIOUS
  <2>1. s \in Ready /\ t \in Ready /\ FirstOldest(s) /\ FirstOldest(t)
    BY <1>1 DEF Elects
  <2>2. Aged(s) \in Nat /\ Aged(t) \in Nat
    BY <2>1, ScanCounts DEF Ready
  <2>3. Before(s, t) /\ Before(t, s)
    BY <2>1, <2>2 DEF FirstOldest
  <2>4. PICK i \in DOMAIN thread_list, j \in DOMAIN thread_list :
            i < j /\ thread_list[i] = s /\ thread_list[j] = t
    BY <2>3 DEF Before
  <2>5. j < i
    BY <2>3, <2>4, BeforeIs DEF AgeInv, IInv, ListsAgree
  <2>6. i \in Nat /\ j \in Nat
    BY LenProperties DEF AgeInv, IInv, TypeOK
  <2> QED  BY <2>4, <2>5, <2>6
<1>2. CASE ~\E u \in Ready : Outruns(u)
  BY <1>2 DEF Elects
<1> QED  BY <1>1, <1>2

LEMMA WinnerElected == AgeInv => ScanWinner \in Threads /\ Elects(ScanWinner)
<1> SUFFICES ASSUME AgeInv  PROVE ScanWinner \in Threads /\ Elects(ScanWinner)
  OBVIOUS
<1> DEFINE L == Len(thread_list)
<1>1. /\ L \in Nat /\ DOMAIN thread_list = 1 .. L /\ IsInjective(thread_list)
      /\ \A q \in 1 .. L : thread_list[q] \in Threads
      /\ thread_current \in Threads
  BY LenProperties, ElementOfSeq DEF AgeInv, IInv, TypeOK, ListsAgree
<1>2. \A s \in Ready : \E q \in 1 .. L : thread_list[q] = s
  BY <1>1 DEF Ready, Listed, Range
<1>3. CASE best[L] = thread_current /\ NoneOutran(L)
  BY <1>1, <1>2, <1>3 DEF ScanWinner, Elects, NoneOutran
<1>4. ASSUME NEW j \in 1 .. L, best[L] = thread_list[j], OldestPassed(j, L)
      PROVE  ScanWinner \in Threads /\ Elects(ScanWinner)
  <2>1. FirstOldest(thread_list[j])
    <3> SUFFICES ASSUME NEW s \in Ready \ {thread_list[j]}
                 PROVE  \/ Aged(s) < Aged(thread_list[j])
                        \/ Aged(s) = Aged(thread_list[j]) /\ Before(thread_list[j], s)
      BY DEF FirstOldest
    <3>1. PICK q \in 1 .. L : thread_list[q] = s
      BY <1>2
    <3> QED  BY <1>1, <1>4, <3>1, BeforeIs DEF OldestPassed
  <2> QED  BY <1>1, <1>4, <2>1 DEF ScanWinner, Elects, OldestPassed
<1> QED  BY <1>3, <1>4, PassAll DEF Passed

\* The loop of tasking_switch, which moves thread_current while it compares
\* with it and ages the entries one after the other, elects the oldest ready
\* thread, the first of these in the list, if any outruns the running one.
THEOREM ElectionCorrect == Spec => []ElectionIsTheLoop
<1>1. AgeInv => ElectionIsTheLoop
  BY WinnerElected, ElectsOne DEF ElectionIsTheLoop
<1> QED  BY <1>1, AgeInvariance, PTL
=============================================================================
