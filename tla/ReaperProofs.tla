---------------------------- MODULE ReaperProofs ----------------------------
(***************************************************************************)
(* Proofs about Reaper: every record is where its state says, the late     *)
(* stores into the lockers let nobody past a mutex queue, and the two      *)
(* loops take records through Lifecycle, for any number of threads and     *)
(* mutexes.                                                                *)
(***************************************************************************)
EXTENDS Reaper, SequenceTheorems, TLAPS

-----------------------------------------------------------------------------
(* What listadd (Append) and popitem (RemoveAt) do to the elements of a list. *)

\* popitem takes one entry and keeps the order of the others.
LEMMA RemoveAtFacts ==
    ASSUME NEW S, NEW s \in Seq(S), NEW n \in DOMAIN s
    PROVE  /\ RemoveAt(s, n) \in Seq(S) /\ DOMAIN RemoveAt(s, n) = 1 .. Len(s) - 1
           /\ \A k \in 1 .. Len(s) - 1 :
                RemoveAt(s, n)[k] = IF k < n THEN s[k] ELSE s[k + 1]
<1> DEFINE l == SubSeq(s, 1, n - 1)
           r == SubSeq(s, n + 1, Len(s))
<1>1. l \in Seq(S) /\ Len(l) = n - 1 /\ \A k \in 1 .. n - 1 : l[k] = s[k]
  OBVIOUS
<1>2. r \in Seq(S) /\ Len(r) = Len(s) - n /\ \A k \in 1 .. Len(s) - n : r[k] = s[k + n]
  OBVIOUS
<1>3. RemoveAt(s, n) = l \o r
  BY DEF RemoveAt
<1> HIDE DEF l, r
<1> QED BY <1>1, <1>2, <1>3

\* In a list without duplicates that element is gone then, and no other.
LEMMA RemoveAtElements ==
    ASSUME NEW S, NEW s \in Seq(S), NEW n \in DOMAIN s, IsInjective(s)
    PROVE  /\ IsInjective(RemoveAt(s, n))
           /\ Range(RemoveAt(s, n)) = Range(s) \ {s[n]}
<1> DEFINE r == RemoveAt(s, n)
<1>1. DOMAIN r = 1 .. Len(s) - 1 /\ \A k \in DOMAIN r : r[k] = IF k < n THEN s[k] ELSE s[k + 1]
  BY RemoveAtFacts
<1>2. /\ \A k \in DOMAIN s : k < n => k \in DOMAIN r /\ r[k] = s[k]
      /\ \A k \in DOMAIN s : k > n => k - 1 \in DOMAIN r /\ r[k - 1] = s[k]
  BY <1>1
<1> HIDE DEF r
<1>3. IsInjective(r) /\ Range(r) \subseteq Range(s) \ {s[n]}
  BY <1>1 DEF IsInjective, Range
<1>4. Range(s) \ {s[n]} \subseteq Range(r)
  BY <1>2 DEF Range
<1> QED BY <1>3, <1>4 DEF r

\* listadd of an element that is not in the list yet.
LEMMA AppendElements ==
    ASSUME NEW S, NEW s \in Seq(S), NEW x \in S \ Range(s), IsInjective(s)
    PROVE  /\ Append(s, x) \in Seq(S)
           /\ IsInjective(Append(s, x))
           /\ Range(Append(s, x)) = Range(s) \cup {x}
<1>1. Append(s, x) \in Seq(S) /\ IsInjective(Append(s, x))
  BY DEF IsInjective, Range
<1>2. Range(Append(s, x)) = Range(s) \cup {x}
  <2>1. Append(s, x)[Len(s) + 1] = x /\ \A k \in 1 .. Len(s) : Append(s, x)[k] = s[k]
    OBVIOUS
  <2> QED BY <2>1 DEF Range
<1> QED BY <1>1, <1>2

\* The first entry of a list, before and after a listadd.
LEMMA HeadFacts ==
    ASSUME NEW S, NEW s \in Seq(S), NEW x \in S
    PROVE  /\ s # <<>> => Head(s) \in Range(s) /\ Head(Append(s, x)) = Head(s)
           /\ Append(s, x) # <<>>
           /\ s = <<>> <=> Range(s) = {}
BY DEF Range

-----------------------------------------------------------------------------
(* The inductive invariant: the records and the mutexes. *)

\* The Process Manager holds a record exactly between popping it and adding
\* or freeing it, and a mutex when it is about to reset it.
CarriesSound ==
    /\ crnt \in Threads <=> phase \in {"listadd", "find", "reset", "free"}
    /\ phase = "reset" => mut \in Mutexes

\* A corpse that still runs is not collected.
OwnListed == own \in Threads => own \in Range(thread_list)

Records == RecordsSound /\ CarriesSound /\ OwnListed

Once(t, q) == \A j, k \in DOMAIN q : q[j] = t /\ q[k] = t => j = k

\* A thread is at most once in a queue (the stale tids are not), and it is in
\* the queue whose loop it has passed.
CallsSound ==
    /\ \A m \in Mutexes, t \in Threads : Once(t, waiting[m])
    /\ \A t \in Threads :
        /\ call[t] # "none" => on[t] \in Mutexes
        /\ call[t] = "passed" => t \in Range(waiting[on[t]])

Queues == CallsSound /\ OwnersSound

IInv == TypeOK /\ Records /\ Queues

-----------------------------------------------------------------------------
LEMMA InitIInv == Init => IInv
<1> SUFFICES ASSUME Init  PROVE IInv
  OBVIOUS
<1>1. TypeOK
  BY DEF Init, TypeOK, Phases
<1>2. Records
  BY ReaperAssumption
  DEF Init, Records, RecordsSound, CarriesSound, OwnListed, IsInjective, Range
<1>3. Queues
  BY ReaperAssumption DEF Init, Queues, CallsSound, OwnersSound, Owns, Once, Range
<1> QED  BY <1>1, <1>2, <1>3 DEF IInv

\* The queues do not depend on the records.
LEMMA QueuesKept == Queues /\ UNCHANGED mutexes => Queues'
BY DEF Queues, CallsSound, OwnersSound, Owns, mutexes

-----------------------------------------------------------------------------
(* The mutex calls of the threads. *)

\* Taking the first thread out of its queue.
LEMMA PopFirst ==
    ASSUME NEW S, NEW q \in Seq(S), q # <<>>
    PROVE  /\ Tail(q) \in Seq(S)
           /\ \A t : Once(t, q) =>
                /\ Once(t, Tail(q))
                /\ t \in Range(Tail(q)) <=> t \in Range(q) /\ t # Head(q)
<1>1. /\ DOMAIN Tail(q) = 1 .. Len(q) - 1 /\ Head(q) = q[1] /\ 1 \in DOMAIN q
      /\ \A k \in DOMAIN Tail(q) : Tail(q)[k] = q[k + 1] /\ k + 1 \in DOMAIN q /\ k + 1 # 1
  BY EmptySeq
<1>2. \A k \in DOMAIN q : k # 1 => k - 1 \in DOMAIN Tail(q) /\ Tail(q)[k - 1] = q[k]
  BY <1>1
<1>3. Tail(q) \in Seq(S)
  OBVIOUS
<1>4. ASSUME NEW t, Once(t, q)
      PROVE  /\ Once(t, Tail(q))
             /\ t \in Range(Tail(q)) <=> t \in Range(q) /\ t # Head(q)
  <2>1. Once(t, Tail(q))
    BY <1>1, <1>4 DEF Once
  <2>2. t \in Range(Tail(q)) => t \in Range(q) /\ t # Head(q)
    BY <1>1, <1>4 DEF Range, Once
  <2>3. ASSUME t \in Range(q), t # Head(q)  PROVE t \in Range(Tail(q))
    <3>1. PICK k \in DOMAIN q : q[k] = t
      BY <2>3 DEF Range
    <3>2. k # 1
      BY <1>1, <2>3, <3>1
    <3>3. k - 1 \in DOMAIN Tail(q) /\ Tail(q)[k - 1] = t
      BY <1>2, <3>1, <3>2
    <3> QED  BY <3>3 DEF Range
  <2> QED  BY <2>1, <2>2, <2>3
<1> QED  BY <1>3, <1>4

\* listadd of a thread that is not in the queue.
LEMMA AppendLast ==
    ASSUME NEW S, NEW q \in Seq(S), NEW t \in S, t \notin Range(q)
    PROVE  /\ Append(q, t) \in Seq(S)
           /\ Range(Append(q, t)) = Range(q) \cup {t}
           /\ q # <<>> => Head(Append(q, t)) = Head(q)
           /\ \A s : Once(s, q) => Once(s, Append(q, t))
<1> DEFINE r == Append(q, t)
<1>1. /\ r \in Seq(S) /\ DOMAIN r = 1 .. Len(q) + 1 /\ r[Len(q) + 1] = t
      /\ DOMAIN q = 1 .. Len(q) /\ \A k \in 1 .. Len(q) : r[k] = q[k]
  OBVIOUS
<1>2. q # <<>> => Head(r) = Head(q)
  BY HeadFacts
<1> HIDE DEF r
<1>3. Range(r) = Range(q) \cup {t}
  BY <1>1 DEF Range
<1>4. ASSUME NEW s, Once(s, q)  PROVE Once(s, r)
  <2>1. \A k \in DOMAIN q : q[k] # t
    BY DEF Range
  <2> QED  BY <1>1, <1>4, <2>1 DEF Once
<1> QED  BY <1>1, <1>2, <1>3, <1>4 DEF r

\* A thread in a queue makes it not empty.
LEMMA InQueue ==
    ASSUME NEW q, NEW t \in Range(q)
    PROVE  q # <<>>
BY DEF Range

LEMMA LockStep ==
    ASSUME TypeOK, Queues, NEW t \in Threads, NEW m \in Mutexes, Lock(t, m)
    PROVE  Queues' /\ waiting' \in [Mutexes -> Seq(Threads \cup {Stale})]
<1> USE DEF Queues
<1>1. t \notin Range(waiting[m]) /\ call[t] = "none" /\ call'[t] = "wait" /\ on'[t] = m
  <2>1. ~(m > m)
    BY ReaperAssumption
  <2> QED  BY <2>1 DEF Lock, TypeOK
<1>2. /\ waiting[m] \in Seq(Threads \cup {Stale})
      /\ waiting'[m] = Append(waiting[m], t)
      /\ \A n \in Mutexes \ {m} : waiting'[n] = waiting[n]
      /\ \A s \in Threads \ {t} : call'[s] = call[s] /\ on'[s] = on[s]
      /\ locker' = locker
  BY DEF Lock, TypeOK
<1>3. /\ waiting'[m] \in Seq(Threads \cup {Stale})
      /\ Range(waiting'[m]) = Range(waiting[m]) \cup {t}
      /\ waiting[m] # <<>> => Head(waiting'[m]) = Head(waiting[m])
      /\ \A s : Once(s, waiting[m]) => Once(s, waiting'[m])
  <2> DEFINE q == waiting[m]
  <2>1. q \in Seq(Threads \cup {Stale}) /\ t \in Threads \cup {Stale} /\ t \notin Range(q)
    BY <1>1, <1>2
  <2> HIDE DEF q
  <2>2. /\ Append(q, t) \in Seq(Threads \cup {Stale})
        /\ Range(Append(q, t)) = Range(q) \cup {t}
        /\ q # <<>> => Head(Append(q, t)) = Head(q)
        /\ \A s : Once(s, q) => Once(s, Append(q, t))
    BY <2>1, AppendLast
  <2>3. waiting'[m] = Append(q, t)
    BY <1>2 DEF q
  <2> QED  BY <2>2, <2>3 DEF q
<1>4. CallsSound'
  <2>1. \A n \in Mutexes, s \in Threads : Once(s, waiting'[n])
    BY <1>2, <1>3 DEF CallsSound
  <2>2. \A s \in Threads : call'[s] # "none" => on'[s] \in Mutexes
    BY <1>1, <1>2 DEF CallsSound
  <2>3. \A s \in Threads : call'[s] = "passed" => s \in Range(waiting'[on'[s]])
    <3>1. \A n \in Mutexes : Range(waiting[n]) \subseteq Range(waiting'[n])
      BY <1>2, <1>3
    <3> QED  BY <1>1, <1>2, <3>1 DEF CallsSound
  <2>4. \A n \in Mutexes, s \in Threads : Once(s, waiting[n])'
    BY <2>1 DEF Once
  <2> QED  BY <2>2, <2>3, <2>4 DEF CallsSound
<1>5. OwnersSound'
  <2>1. ASSUME NEW n \in Mutexes, NEW s \in Threads  PROVE Owns(s, n)' <=> Owns(s, n)
    <3>1. CASE s = t /\ n = m
      BY <1>1, <3>1 DEF Owns
    <3>2. CASE s # t
      <4>1. s \in Range(waiting'[n]) <=> s \in Range(waiting[n])
        BY <1>2, <1>3, <3>2
      <4> QED  BY <1>2, <3>2, <4>1 DEF Owns
    <3>3. CASE s = t /\ n # m
      <4>1. waiting'[n] = waiting[n]
        BY <1>2, <3>3
      <4> QED  BY <1>1, <3>3, <4>1 DEF Owns
    <3> QED  BY <3>1, <3>2, <3>3
  <2>2. \A n \in Mutexes, s \in Threads : Owns(s, n) => Head(waiting'[n]) = Head(waiting[n])
    BY <1>2, <1>3, InQueue DEF Owns
  <2> QED  BY <1>1, <1>2, <2>1, <2>2 DEF OwnersSound
<1>6. waiting' \in [Mutexes -> Seq(Threads \cup {Stale})]
  BY <1>3 DEF Lock, TypeOK
<1> QED  BY <1>4, <1>5, <1>6

LEMMA OwnerStep ==
    ASSUME TypeOK, Queues, NEW t \in Threads, Enter(t) \/ SetLocker(t) \/ ClearLocker(t)
    PROVE  Queues' /\ locker' \in [Mutexes -> Threads \cup {Nobody, Stale}]
<1> DEFINE m == on[t]
<1> USE DEF Queues
<1>1. /\ m \in Mutexes /\ waiting' = waiting
      /\ \A s \in Threads \ {t} : call'[s] = call[s] /\ on'[s] = on[s]
  BY DEF Enter, SetLocker, ClearLocker, CallsSound, TypeOK
<1>2. CASE Enter(t)
  <2>1. /\ waiting[m] # <<>> /\ Head(waiting[m]) = t /\ locker' = locker /\ on' = on
        /\ call[t] = "wait" /\ call'[t] = "passed"
    BY <1>2 DEF Enter, TypeOK
  <2>2. t \in Range(waiting[m])
    BY <1>1, <2>1, HeadFacts DEF TypeOK
  <2>3. CallsSound'
    BY <1>1, <2>1, <2>2 DEF CallsSound
  <2>4. OwnersSound'
    BY <1>1, <2>1, <2>2 DEF OwnersSound, Owns
  <2> QED  BY <2>1, <2>3, <2>4 DEF TypeOK
<1>3. CASE SetLocker(t)
  <2>1. /\ locker' = [locker EXCEPT ![m] = t]
        /\ call[t] = "passed" /\ call'[t] = "none" /\ t \in Range(waiting[m])
    BY <1>3 DEF SetLocker, TypeOK, CallsSound
  <2>2. /\ locker'[m] = t /\ \A n \in Mutexes \ {m} : locker'[n] = locker[n]
        /\ locker' \in [Mutexes -> Threads \cup {Nobody, Stale}]
    BY <1>1, <2>1 DEF TypeOK
  <2>3. CallsSound'
    BY <1>1, <2>1 DEF CallsSound
  <2>4. OwnersSound'
    BY <1>1, <2>1, <2>2 DEF OwnersSound, Owns
  <2> QED  BY <2>2, <2>3, <2>4
<1>4. CASE ClearLocker(t)
  <2>1. /\ locker' = [locker EXCEPT ![m] = Nobody]
        /\ call[t] = "leave" /\ call'[t] = "none"
    BY <1>4 DEF ClearLocker, TypeOK
  <2>2. /\ locker'[m] = Nobody /\ \A n \in Mutexes \ {m} : locker'[n] = locker[n]
        /\ locker' \in [Mutexes -> Threads \cup {Nobody, Stale}]
    BY <1>1, <2>1 DEF TypeOK
  <2>3. CallsSound'
    BY <1>1, <2>1 DEF CallsSound
  <2>4. OwnersSound'
    BY <1>1, <2>1, <2>2, ReaperAssumption DEF OwnersSound, Owns
  <2> QED  BY <2>2, <2>3, <2>4
<1> QED  BY <1>2, <1>3, <1>4

\* mutexunlock, also as isr_handler calls it: its caller is the owner, so
\* popfirst takes nobody else out.
Releases(t, freed) ==
    /\ call[t] = "none" /\ call'[t] \in {"none", "leave"}
    /\ \A m \in freed : t \in Range(waiting[m]) /\ waiting'[m] = Tail(waiting[m])
    /\ \A m \in Mutexes \ freed : waiting'[m] = waiting[m]
    /\ \A s \in Threads \ {t} : call'[s] = call[s] /\ on'[s] = on[s]
    /\ call'[t] = "leave" => on'[t] \in Mutexes
    /\ \A m \in Mutexes, s \in Threads : locker'[m] = s => locker[m] = s
    /\ \A m \in freed : locker'[m] = t => call'[t] = "leave" /\ on'[t] = m

LEMMA ReleaseStep ==
    ASSUME TypeOK, Queues, NEW t \in Threads, NEW freed \in SUBSET Mutexes,
           Releases(t, freed)
    PROVE  Queues' /\ \A m \in Mutexes : waiting'[m] \in Seq(Threads \cup {Stale})
<1> USE DEF Queues, Releases
<1>1. ASSUME NEW m \in freed
      PROVE  /\ Head(waiting[m]) = t
             /\ waiting'[m] \in Seq(Threads \cup {Stale})
             /\ \A s \in Threads :
                    /\ Once(s, waiting'[m])
                    /\ s \in Range(waiting'[m]) <=> s \in Range(waiting[m]) /\ s # t
  <2>1. Owns(t, m)
    BY DEF Owns
  <2>2. Head(waiting[m]) = t
    BY <2>1 DEF OwnersSound
  <2>3. waiting[m] \in Seq(Threads \cup {Stale}) /\ waiting[m] # <<>>
    BY <2>1, InQueue DEF Owns, TypeOK
  <2>4. \A s \in Threads : Once(s, waiting[m])
    BY DEF CallsSound
  <2> DEFINE q == waiting[m]
             p == Tail(q)
  <2>5. /\ p \in Seq(Threads \cup {Stale})
        /\ \A s : Once(s, q) =>
            /\ Once(s, p)
            /\ s \in Range(p) <=> s \in Range(q) /\ s # Head(q)
    BY <2>3, PopFirst
  <2>6. waiting'[m] = p
    OBVIOUS
  <2> HIDE DEF p
  <2> QED  BY <2>2, <2>4, <2>5, <2>6
<1>2. ASSUME NEW m \in Mutexes  PROVE waiting'[m] \in Seq(Threads \cup {Stale})
  <2>1. CASE m \in freed
    BY <1>1, <2>1
  <2>2. CASE m \notin freed
    BY <2>2 DEF TypeOK
  <2> QED  BY <2>1, <2>2
<1>3. \A m \in Mutexes, s \in Threads \ {t} :
        s \in Range(waiting'[m]) <=> s \in Range(waiting[m])
  BY <1>1
<1>4. CallsSound'
  <2>1. \A m \in Mutexes, s \in Threads : Once(s, waiting[m])'
    <3>1. \A m \in Mutexes, s \in Threads : Once(s, waiting'[m])
      BY <1>1 DEF CallsSound
    <3> QED  BY <3>1 DEF Once
  <2>2. \A s \in Threads : call'[s] # "none" => on'[s] \in Mutexes
    BY DEF CallsSound
  <2>3. \A s \in Threads : call'[s] = "passed" => s \in Range(waiting'[on'[s]])
    BY <1>3 DEF CallsSound
  <2> QED  BY <2>1, <2>2, <2>3 DEF CallsSound
<1>5. OwnersSound'
  <2>1. ASSUME NEW m \in Mutexes, NEW s \in Threads
        PROVE  /\ Owns(s, m)' => Owns(s, m) /\ m \notin freed
               /\ Owns(s, m) /\ ~(s = t /\ m \in freed) => Owns(s, m)'
    <3>1. CASE m \in freed
      <4>1. Head(waiting[m]) = t /\ t \notin Range(waiting'[m])
        BY <1>1, <3>1
      <4>2. Owns(s, m) => s = t
        BY <4>1 DEF OwnersSound
      <4>3. Owns(s, m)' => s # t
        BY <4>1 DEF Owns
      <4>4. s # t /\ Owns(s, m)' => Owns(s, m)
        BY <1>3 DEF Owns
      <4> QED  BY <3>1, <4>2, <4>3, <4>4
    <3>2. CASE m \notin freed
      BY <3>2 DEF Owns
    <3> QED  BY <3>1, <3>2
  <2>2. ASSUME NEW m \in Mutexes, NEW s \in Threads, Owns(s, m)'
        PROVE  Head(waiting'[m]) = s
    BY <2>1, <2>2 DEF OwnersSound
  <2>3. ASSUME NEW m \in Mutexes, NEW s \in Threads, locker'[m] = s
        PROVE  Owns(s, m)' \/ (call'[s] = "leave" /\ on'[s] = m)
    <3>1. Owns(s, m) \/ (call[s] = "leave" /\ on[s] = m)
      BY <2>3 DEF OwnersSound
    <3>2. CASE s = t
      BY <2>1, <2>3, <3>1, <3>2
    <3>3. CASE s # t
      BY <2>1, <3>1, <3>3
    <3> QED  BY <3>2, <3>3
  <2> QED  BY <2>2, <2>3 DEF OwnersSound
<1> QED  BY <1>2, <1>4, <1>5

LEMMA UnlockStep ==
    ASSUME TypeOK, Queues, NEW t \in Threads, NEW m \in Mutexes, Unlock(t, m)
    PROVE  Queues' /\ waiting' \in [Mutexes -> Seq(Threads \cup {Stale})]
<1>1. /\ call[t] = "none" /\ call'[t] = "leave" /\ on'[t] = m
      /\ t \in Range(waiting[m])
      /\ waiting'[m] = Tail(waiting[m])
      /\ \A n \in Mutexes \ {m} : waiting'[n] = waiting[n]
      /\ \A s \in Threads \ {t} : call'[s] = call[s] /\ on'[s] = on[s]
      /\ locker' = locker
  BY DEF Unlock, TypeOK
<1>2. {m} \in SUBSET Mutexes /\ Releases(t, {m})
  BY <1>1 DEF Releases
<1>3. Queues' /\ \A n \in Mutexes : waiting'[n] \in Seq(Threads \cup {Stale})
  BY <1>2, ReleaseStep
<1> QED  BY <1>3 DEF Unlock, TypeOK

LEMMA FaultReleases ==
    ASSUME TypeOK, Queues, NEW t \in Threads, Fault(t)
    PROVE  /\ Queues' /\ waiting' \in [Mutexes -> Seq(Threads \cup {Stale})]
           /\ locker' \in [Mutexes -> Threads \cup {Nobody, Stale}]
<1> DEFINE freed == {m \in Mutexes : locker[m] = t}
<1>1. call[t] = "none" /\ UNCHANGED <<call, on>>
  BY DEF Fault
<1>2. \A m \in freed : t \in Range(waiting[m]) /\ waiting[m] # <<>>
  BY <1>1, InQueue DEF Queues, OwnersSound, Owns
<1>3. /\ \A m \in freed : waiting'[m] = Tail(waiting[m]) /\ locker'[m] = Nobody
      /\ \A m \in Mutexes \ freed : waiting'[m] = waiting[m] /\ locker'[m] = locker[m]
  BY <1>2 DEF Fault
<1>4. freed \in SUBSET Mutexes
  OBVIOUS
<1>5. locker' \in [Mutexes -> Threads \cup {Nobody, Stale}]
  BY DEF Fault, TypeOK
<1>6. \E f : waiting' = [m \in Mutexes |-> f[m]]
  <2>1. waiting' = [m \in Mutexes |-> waiting'[m]]
    BY DEF Fault
  <2> QED  BY <2>1
<1> HIDE DEF freed
<1>7. Releases(t, freed)
  BY <1>1, <1>2, <1>3, <1>4, ReaperAssumption DEF Releases
<1>8. Queues' /\ \A n \in Mutexes : waiting'[n] \in Seq(Threads \cup {Stale})
  BY <1>4, <1>7, ReleaseStep
<1> QED  BY <1>5, <1>6, <1>8

-----------------------------------------------------------------------------
(* The other steps of the threads. *)

\* Steps that leave the lists and the states alone.
LEMMA RecordsKept ==
    ASSUME IInv, UNCHANGED <<lists, state, crnt>>, own' \in {own, Nobody}
    PROVE  RecordsSound' /\ OwnListed'
<1>1. RecordsSound
  BY DEF IInv, Records
<1>2. UNCHANGED <<thread_list, thread_list_dead>>
  BY DEF lists
<1>3. Range(thread_list_dead) \subseteq Threads
  BY DEF IInv, TypeOK, Range
<1>4. \A t \in Threads : own # t => own' # t
  BY ReaperAssumption
<1>5. \A t \in Range(thread_list_dead) \cup ({crnt} \cap Threads) : Corpse(t)' /\ own' # t
  BY <1>1, <1>3, <1>4 DEF RecordsSound, Corpse
<1>6. RecordsSound'
  BY <1>1, <1>2, <1>5 DEF RecordsSound
<1>7. OwnListed'
  BY <1>2, ReaperAssumption DEF IInv, Records, OwnListed
<1> QED  BY <1>6, <1>7

\* The steps of the two mutex calls leave the records alone.
LEMMA MutexStep ==
    ASSUME IInv, NEW t \in Threads,
           \/ Enter(t) \/ SetLocker(t) \/ ClearLocker(t)
           \/ \E m \in Mutexes : Lock(t, m) \/ Unlock(t, m)
    PROVE  IInv'
<1> USE DEF IInv
<1>1. UNCHANGED <<lists, state, manager>> /\ own' \in {own, Nobody}
  BY DEF Lock, Unlock, Enter, SetLocker, ClearLocker, Step
<1>2. Records'
  <2>1. UNCHANGED <<phase, crnt, mut>>
    BY <1>1 DEF manager
  <2> QED  BY <1>1, <2>1, RecordsKept DEF Records, CarriesSound
<1>3. /\ Queues'
      /\ waiting' \in [Mutexes -> Seq(Threads \cup {Stale})]
      /\ locker' \in [Mutexes -> Threads \cup {Nobody, Stale}]
  <2>1. ASSUME NEW m \in Mutexes, Lock(t, m) \/ Unlock(t, m)  PROVE locker' = locker
    BY <2>1 DEF Lock, Unlock
  <2>2. Enter(t) \/ SetLocker(t) \/ ClearLocker(t) => waiting' = waiting
    BY DEF Enter, SetLocker, ClearLocker
  <2> QED  BY <2>1, <2>2, LockStep, UnlockStep, OwnerStep DEF TypeOK
<1>4. /\ call' \in [Threads -> {"none", "wait", "passed", "leave"}]
      /\ on' \in [Threads -> Mutexes \cup {Nobody}]
  BY DEF Lock, Unlock, Enter, SetLocker, ClearLocker, TypeOK
<1>5. TypeOK'
  BY <1>1, <1>3, <1>4 DEF TypeOK, lists, manager
<1> QED  BY <1>2, <1>3, <1>5

LEMMA CreateStep ==
    ASSUME IInv, NEW t \in Threads, Create(t)
    PROVE  IInv'
<1> USE DEF IInv, Records
<1>1. t \notin Range(thread_list) \cup Range(thread_list_dead) \cup {crnt}
  BY DEF Create, RecordsSound
<1>2. /\ thread_list' \in Seq(Threads)
      /\ IsInjective(thread_list')
      /\ Range(thread_list') = Range(thread_list) \cup {t}
  BY <1>1, AppendElements DEF Create, TypeOK, RecordsSound
<1>3. TypeOK'
  BY <1>2 DEF Create, TypeOK, mutexes, manager
<1>4. RecordsSound'
  <2>1. /\ UNCHANGED <<thread_list_dead, crnt>> /\ own' \in {own, Nobody}
        /\ \A s \in Threads : state'[s] = IF s = t THEN "ALIVE" ELSE state[s]
    BY DEF Create, manager, TypeOK
  <2>2. Range(thread_list_dead) \subseteq Threads
    BY DEF TypeOK, Range
  <2>3. \A s \in Threads : own # s => own' # s
    BY <2>1, ReaperAssumption
  <2>4. \A s \in Range(thread_list_dead) \cup ({crnt} \cap Threads) : Corpse(s)' /\ own' # s
    BY <1>1, <2>1, <2>2, <2>3 DEF RecordsSound, Corpse
  <2> QED  BY <1>1, <1>2, <2>1, <2>4 DEF RecordsSound
<1>5. CarriesSound' /\ OwnListed'
  BY <1>2, ReaperAssumption DEF Create, CarriesSound, OwnListed, manager
<1>6. Queues'
  BY QueuesKept DEF Create
<1> QED  BY <1>3, <1>4, <1>5, <1>6

\* The steps that change the state of a listed thread.
LEMMA StateStep ==
    ASSUME IInv, NEW t \in Threads, t \in Range(thread_list), NEW to \in {"ALIVE", "DEAD", "ZOMBIE"},
           state' = [state EXCEPT ![t] = to],
           own' \in (Threads \cap Range(thread_list)) \cup {Nobody},
           UNCHANGED <<lists, manager>>
    PROVE  Records'
<1> USE DEF IInv, Records
<1>1. t \notin Range(thread_list_dead) /\ t # crnt
  BY DEF RecordsSound
<1>2. \A s \in Threads : state'[s] = IF s = t THEN to ELSE state[s]
  BY DEF TypeOK
<1>3. Range(thread_list_dead) \subseteq Threads
  BY DEF TypeOK, Range
<1>4. \A s \in Range(thread_list_dead) \cup ({crnt} \cap Threads) : Corpse(s)' /\ own' # s
  BY <1>1, <1>2, <1>3, ReaperAssumption DEF RecordsSound, Corpse
<1>5. RecordsSound'
  BY <1>2, <1>4 DEF RecordsSound, lists, manager
<1> QED  BY <1>5, ReaperAssumption DEF CarriesSound, OwnListed, lists, manager

\* A thread that runs is listed.
LEMMA RunnerListed ==
    ASSUME IInv, NEW t \in Threads, Runs(t)
    PROVE  t \in Range(thread_list)
<1>1. state[t] = "ALIVE" => t \in Range(thread_list)
  BY DEF IInv, Records, RecordsSound, Corpse
<1> QED  BY <1>1 DEF Runs, IInv, Records, OwnListed

LEMMA LifeStep ==
    ASSUME IInv, NEW t \in Threads,
           Kill(t) \/ Revive(t) \/ Fault(t) \/ \E s \in Threads : Terminate(s, t)
    PROVE  IInv'
<1> USE DEF IInv
<1>1. /\ t \in Range(thread_list)
      /\ \E to \in {"ALIVE", "DEAD", "ZOMBIE"} : state' = [state EXCEPT ![t] = to]
      /\ own' \in (Threads \cap Range(thread_list)) \cup {Nobody}
      /\ UNCHANGED <<lists, manager>>
  <2>1. CASE Kill(t) \/ Revive(t) \/ Fault(t)
    <3>1. Runs(t)
      BY <2>1 DEF Kill, Revive, Fault, Runs
    <3> QED  BY <2>1, <3>1, RunnerListed DEF Kill, Revive, Fault
  <2>2. ASSUME NEW s \in Threads, Terminate(s, t)
        PROVE  /\ t \in Range(thread_list)
               /\ state' = [state EXCEPT ![t] = "DEAD"]
               /\ own' \in (Threads \cap Range(thread_list)) \cup {Nobody}
               /\ UNCHANGED <<lists, manager>>
    BY <2>2, RunnerListed DEF Terminate
  <2> QED  BY <2>1, <2>2
<1>2. Records'
  BY <1>1, StateStep
<1>3. /\ Queues'
      /\ waiting' \in [Mutexes -> Seq(Threads \cup {Stale})]
      /\ locker' \in [Mutexes -> Threads \cup {Nobody, Stale}]
      /\ UNCHANGED <<call, on>>
  <2>1. CASE Fault(t)
    BY <2>1, FaultReleases DEF Fault
  <2>2. CASE ~Fault(t)
    <3>1. UNCHANGED mutexes
      BY <2>2 DEF Kill, Revive, Terminate
    <3> QED  BY <3>1, QueuesKept DEF mutexes, TypeOK
  <2> QED  BY <2>1, <2>2
<1>4. TypeOK'
  BY <1>1, <1>3 DEF TypeOK, lists, manager
<1> QED  BY <1>2, <1>3, <1>4

-----------------------------------------------------------------------------
(* The Process Manager. *)

\* The steps that only move its index or search the mutexes.
LEMMA IndexStep ==
    ASSUME IInv, own' = Nobody, Awake \/ PassOver \/ EndCollect \/ EndBury \/ FindMutex
    PROVE  IInv'
<1> USE DEF IInv, Records
<1>1. /\ UNCHANGED <<lists, state, mutexes, crnt>>
      /\ i' \in Nat
      /\ phase' \in Phases
      /\ phase' \in {"listadd", "find", "reset", "free"}
            <=> phase \in {"listadd", "find", "reset", "free"}
  BY DEF Awake, PassOver, EndCollect, EndBury, FindMutex, TypeOK, Phases
<1>2. mut' \in Mutexes \cup {Nobody} /\ (phase' = "reset" => mut' \in Mutexes)
  BY DEF Awake, PassOver, EndCollect, EndBury, FindMutex, TypeOK, CarriesSound
<1>3. TypeOK'
  BY <1>1, <1>2 DEF TypeOK, lists, mutexes
<1>4. Records'
  BY <1>1, <1>2, RecordsKept DEF CarriesSound
<1>5. Queues'
  BY <1>1, QueuesKept
<1> QED  BY <1>3, <1>4, <1>5

\* The entry a loop pops is in the list, and not Nobody.
LEMMA Popped ==
    ASSUME IInv, NEW s \in Seq(Threads), i < Len(s), IsInjective(s)
    PROVE  /\ s[i + 1] \in Threads
           /\ s[i + 1] \in Range(s)
           /\ RemoveAt(s, i + 1) \in Seq(Threads)
           /\ IsInjective(RemoveAt(s, i + 1))
           /\ Range(RemoveAt(s, i + 1)) = Range(s) \ {s[i + 1]}
<1>1. i + 1 \in DOMAIN s
  <2>1. i \in Nat /\ Len(s) \in Nat /\ DOMAIN s = 1 .. Len(s)
    BY LenProperties DEF IInv, TypeOK
  <2> QED  BY <2>1
<1>2. s[i + 1] \in Threads /\ s[i + 1] \in Range(s)
  BY <1>1 DEF Range
<1> QED  BY <1>1, <1>2, RemoveAtFacts, RemoveAtElements

LEMMA CollectStep ==
    ASSUME IInv, own' = Nobody, Collect
    PROVE  IInv'
<1> USE DEF IInv, Records
<1> DEFINE t == thread_list[i + 1]
<1>1. /\ t \in Threads /\ t \in Range(thread_list)
      /\ thread_list' \in Seq(Threads)
      /\ IsInjective(thread_list')
      /\ Range(thread_list') = Range(thread_list) \ {t}
  BY Popped DEF Collect, TypeOK, RecordsSound
<1>2. /\ crnt' = t /\ Corpse(t) /\ crnt \notin Threads
      /\ phase' = "listadd"
      /\ UNCHANGED <<thread_list_dead, state, mutexes, i, mut>>
  BY DEF Collect, CarriesSound
<1> HIDE DEF t
<1>3. TypeOK'
  BY <1>1, <1>2 DEF TypeOK, Phases, mutexes
<1>4. RecordsSound'
  <2>1. Range(thread_list_dead) \subseteq Threads /\ Nobody \notin Threads
    BY ReaperAssumption DEF TypeOK, Range
  <2>2. \A s \in Range(thread_list_dead') \cup ({crnt'} \cap Threads) : Corpse(s)' /\ own' # s
    BY <1>1, <1>2, <2>1 DEF RecordsSound, Corpse
  <2>3. \A s \in Threads :
            state'[s] # "NONE" <=>
                s \in Range(thread_list') \cup Range(thread_list_dead') \cup {crnt'}
    BY <1>1, <1>2 DEF RecordsSound
  <2> QED  BY <1>1, <1>2, <2>2, <2>3 DEF RecordsSound
<1>5. CarriesSound' /\ OwnListed' /\ Queues'
  BY <1>1, <1>2, ReaperAssumption, QueuesKept DEF CarriesSound, OwnListed
<1> QED  BY <1>3, <1>4, <1>5

LEMMA AddDeadStep ==
    ASSUME IInv, own' = Nobody, AddDead
    PROVE  IInv'
<1> USE DEF IInv, Records
<1>1. crnt \in Threads \ Range(thread_list_dead)
  BY DEF AddDead, CarriesSound, RecordsSound
<1>2. /\ thread_list_dead' \in Seq(Threads)
      /\ IsInjective(thread_list_dead')
      /\ Range(thread_list_dead') = Range(thread_list_dead) \cup {crnt}
  BY <1>1, AppendElements DEF AddDead, TypeOK, RecordsSound
<1>3. /\ crnt' = Nobody /\ Nobody \notin Threads
      /\ phase' = "collect" /\ i' \in Nat
      /\ UNCHANGED <<thread_list, state, mutexes, mut>>
  BY ReaperAssumption DEF AddDead, TypeOK
<1>4. TypeOK'
  BY <1>2, <1>3 DEF TypeOK, Phases, mutexes
<1>5. RecordsSound'
  <2>1. Range(thread_list) \subseteq Threads /\ Range(thread_list_dead) \subseteq Threads
    BY DEF TypeOK, Range
  <2> QED  BY <1>1, <1>2, <1>3, <2>1 DEF RecordsSound, Corpse
<1>6. CarriesSound' /\ OwnListed' /\ Queues'
  BY <1>3, QueuesKept DEF CarriesSound, OwnListed
<1> QED  BY <1>4, <1>5, <1>6

LEMMA BuryStep ==
    ASSUME IInv, own' = Nobody, Bury
    PROVE  IInv'
<1> USE DEF IInv, Records
<1> DEFINE t == thread_list_dead[i + 1]
<1>1. /\ t \in Threads /\ t \in Range(thread_list_dead)
      /\ thread_list_dead' \in Seq(Threads)
      /\ IsInjective(thread_list_dead')
      /\ Range(thread_list_dead') = Range(thread_list_dead) \ {t}
  BY Popped DEF Bury, TypeOK, RecordsSound
<1>2. /\ crnt' = t /\ crnt \notin Threads
      /\ phase' = "find"
      /\ UNCHANGED <<thread_list, state, mutexes, i, mut>>
  BY DEF Bury, CarriesSound
<1> HIDE DEF t
<1>3. TypeOK'
  BY <1>1, <1>2 DEF TypeOK, Phases, mutexes
<1>4. RecordsSound'
  <2>1. Range(thread_list_dead) \subseteq Threads /\ Nobody \notin Threads
    BY ReaperAssumption DEF TypeOK, Range
  <2>2. \A s \in Range(thread_list_dead') \cup ({crnt'} \cap Threads) : Corpse(s)' /\ own' # s
    BY <1>1, <1>2, <2>1 DEF RecordsSound, Corpse
  <2>3. \A s \in Threads :
            state'[s] # "NONE" <=>
                s \in Range(thread_list') \cup Range(thread_list_dead') \cup {crnt'}
    BY <1>1, <1>2 DEF RecordsSound
  <2> QED  BY <1>1, <1>2, <2>2, <2>3 DEF RecordsSound
<1>5. CarriesSound' /\ OwnListed' /\ Queues'
  BY <1>1, <1>2, ReaperAssumption, QueuesKept DEF CarriesSound, OwnListed
<1> QED  BY <1>3, <1>4, <1>5

LEMMA ResetStep ==
    ASSUME IInv, own' = Nobody, ResetMutex
    PROVE  IInv'
<1> USE DEF IInv, Records
<1>1. /\ \A m \in Mutexes : locker'[m] \in {locker[m], Nobody}
      /\ locker' \in [Mutexes -> Threads \cup {Nobody, Stale}]
      /\ phase' = "free" /\ phase = "reset"
      /\ UNCHANGED <<lists, state, waiting, call, on, i, crnt, mut>>
  BY DEF ResetMutex, TypeOK
<1>2. TypeOK'
  BY <1>1 DEF TypeOK, Phases, lists
<1>3. Records'
  BY <1>1, RecordsKept DEF CarriesSound
<1>4. Queues'
  BY <1>1, ReaperAssumption DEF Queues, CallsSound, OwnersSound, Owns
<1> QED  BY <1>2, <1>3, <1>4

LEMMA FreeRecordStep ==
    ASSUME IInv, own' = Nobody, FreeRecord
    PROVE  IInv'
<1> USE DEF IInv, Records
<1>1. crnt \in Threads /\ Corpse(crnt) /\ Nobody \notin Threads /\ Stale \notin Threads
  BY ReaperAssumption DEF FreeRecord, CarriesSound, RecordsSound
<1>2. /\ state' = [state EXCEPT ![crnt] = "NONE"]
      /\ waiting' = [m \in Mutexes |-> [k \in DOMAIN waiting[m] |-> Forgotten(waiting[m][k])]]
      /\ locker' = [m \in Mutexes |-> Forgotten(locker[m])]
      /\ call' = [call EXCEPT ![crnt] = "none"] /\ on' = [on EXCEPT ![crnt] = Nobody]
      /\ crnt' = Nobody /\ phase' = "bury" /\ i' \in Nat
      /\ UNCHANGED <<lists, mut>>
  BY DEF FreeRecord, TypeOK
<1>3. ASSUME NEW m \in Mutexes
      PROVE  /\ waiting'[m] \in Seq(Threads \cup {Stale})
             /\ DOMAIN waiting'[m] = DOMAIN waiting[m]
             /\ \A t \in Threads, k \in DOMAIN waiting[m] :
                    waiting'[m][k] = t <=> waiting[m][k] = t /\ t # crnt
             /\ \A t \in Threads : t \in Range(waiting'[m]) <=> t \in Range(waiting[m]) /\ t # crnt
             /\ \A t \in Threads : t \in Range(waiting[m]) /\ Head(waiting[m]) = t /\ t # crnt =>
                    Head(waiting'[m]) = t
  <2> DEFINE q == waiting[m]
             r == [k \in DOMAIN q |-> Forgotten(q[k])]
  <2>1. q \in Seq(Threads \cup {Stale}) /\ Len(q) \in Nat /\ DOMAIN q = 1 .. Len(q)
    BY LenProperties DEF TypeOK
  <2>2. \A k \in 1 .. Len(q) : Forgotten(q[k]) \in Threads \cup {Stale}
    BY <2>1 DEF Forgotten
  <2>3. r \in Seq(Threads \cup {Stale}) /\ Len(r) = Len(q) /\ DOMAIN r = DOMAIN q
    BY <2>1, <2>2
  <2>4. \A t \in Threads, k \in DOMAIN q : r[k] = t <=> q[k] = t /\ t # crnt
    BY <1>1 DEF Forgotten
  <2>5. ASSUME NEW t \in Threads, t \in Range(q), Head(q) = t, t # crnt
        PROVE  Head(r) = t
    <3>1. 1 \in DOMAIN q /\ q[1] = t
      BY <2>1, <2>5, InQueue
    <3>2. r # <<>> /\ Head(r) = r[1]
      BY <2>1, <2>3, <3>1
    <3> QED  BY <2>4, <2>5, <3>1, <3>2
  <2>6. waiting'[m] = r
    BY <1>2
  <2>7. \A t \in Threads : t \in Range(r) <=> t \in Range(q) /\ t # crnt
    BY <2>3, <2>4 DEF Range
  <2> HIDE DEF r
  <2> QED  BY <2>3, <2>4, <2>5, <2>6, <2>7
<1>4. waiting' \in [Mutexes -> Seq(Threads \cup {Stale})]
  BY <1>2, <1>3
<1>5. locker' \in [Mutexes -> Threads \cup {Nobody, Stale}]
  BY <1>2 DEF TypeOK, Forgotten
<1>6. TypeOK'
  BY <1>1, <1>2, <1>4, <1>5 DEF TypeOK, Phases, lists
<1>7. RecordsSound'
  <2>1. Range(thread_list) \subseteq Threads /\ Range(thread_list_dead) \subseteq Threads
    BY DEF TypeOK, Range
  <2>2. thread_list' = thread_list /\ thread_list_dead' = thread_list_dead
    BY <1>2 DEF lists
  <2>3. crnt' \notin Range(thread_list) \cup Range(thread_list_dead)
    BY <1>1, <1>2, <2>1
  <2>4. \A t \in Threads : state'[t] = IF t = crnt THEN "NONE" ELSE state[t]
    BY <1>2 DEF TypeOK
  <2>5. crnt \notin Range(thread_list) \cup Range(thread_list_dead)
    BY DEF RecordsSound
  <2>6. \A t \in Range(thread_list_dead) \cup ({crnt'} \cap Threads) : Corpse(t)' /\ own' # t
    BY <1>1, <1>2, <2>1, <2>4, <2>5 DEF RecordsSound, Corpse
  <2>7. \A t \in Threads :
            state'[t] # "NONE" <=>
                t \in Range(thread_list) \cup Range(thread_list_dead) \cup {crnt'}
    BY <1>1, <1>2, <2>4, <2>5 DEF RecordsSound
  <2> QED  BY <2>2, <2>3, <2>6, <2>7 DEF RecordsSound
<1>8. CarriesSound' /\ OwnListed'
  BY <1>1, <1>2 DEF CarriesSound, OwnListed
<1>9. /\ call'[crnt] = "none" /\ on'[crnt] = Nobody
      /\ \A t \in Threads \ {crnt} : call'[t] = call[t] /\ on'[t] = on[t]
  BY <1>1, <1>2 DEF TypeOK
<1>10. CallsSound'
  <2>1. \A m \in Mutexes, t \in Threads : Once(t, waiting[m])'
    BY <1>3 DEF Queues, CallsSound, Once
  <2>2. \A t \in Threads : call'[t] # "none" => on'[t] \in Mutexes
    BY <1>9 DEF Queues, CallsSound
  <2>3. \A t \in Threads : call'[t] = "passed" => t \in Range(waiting'[on'[t]])
    BY <1>3, <1>9 DEF Queues, CallsSound
  <2> QED  BY <2>1, <2>2, <2>3 DEF CallsSound
<1>11. \A m \in Mutexes, t \in Threads : locker'[m] = t => locker[m] = t /\ t # crnt
  BY <1>1, <1>2 DEF Forgotten
<1>12. OwnersSound'
  <2>1. \A m \in Mutexes, t \in Threads : Owns(t, m)' <=> Owns(t, m) /\ t # crnt
    BY <1>3, <1>9 DEF Owns
  <2>2. \A m \in Mutexes, t \in Threads : Owns(t, m)' => Head(waiting'[m]) = t
    BY <1>3, <2>1 DEF Queues, OwnersSound, Owns
  <2>3. \A m \in Mutexes, t \in Threads : locker'[m] = t =>
            Owns(t, m)' \/ (call'[t] = "leave" /\ on'[t] = m)
    BY <1>9, <1>11, <2>1 DEF Queues, OwnersSound
  <2> QED  BY <2>2, <2>3 DEF OwnersSound
<1> QED  BY <1>6, <1>7, <1>8, <1>10, <1>12 DEF Queues

-----------------------------------------------------------------------------
THEOREM Invariance == Spec => []IInv
<1>1. IInv /\ [Next]_vars => IInv'
  <2> SUFFICES ASSUME IInv, [Next]_vars  PROVE IInv'
    OBVIOUS
  <2>1. CASE UNCHANGED vars
    <3>1. TypeOK'
      BY <2>1 DEF IInv, vars, lists, mutexes, manager, TypeOK
    <3>2. Records'
      BY <2>1
      DEF IInv, vars, lists, manager, Records, RecordsSound, CarriesSound, OwnListed, Corpse
    <3>3. Queues'
      BY <2>1, QueuesKept DEF IInv, vars
    <3> QED  BY <3>1, <3>2, <3>3 DEF IInv
  <2>2. CASE services_process
    BY <2>2, IndexStep, CollectStep, AddDeadStep, BuryStep, ResetStep, FreeRecordStep
    DEF services_process
  <2> QED
    BY <2>1, <2>2, CreateStep, LifeStep, MutexStep DEF Next
<1> QED  BY <1>1, InitIInv, PTL DEF Spec

\* The state stays well typed; no index of the two loops leaves its list.
THEOREM TypeCorrect == Spec => []TypeOK
<1>1. IInv => TypeOK
  BY DEF IInv
<1> QED  BY <1>1, Invariance, PTL

\* Every record is in one list, in the Process Manager's hands or free.
THEOREM RecordsCorrect == Spec => []RecordsSound
<1>1. IInv => RecordsSound
  BY DEF IInv, Records
<1> QED  BY <1>1, Invariance, PTL

\* Whoever is past the loop of mutexlock is the first in the queue, and a
\* locker owns the mutex or is just leaving it, wherever between two statements
\* of the two calls the Process Manager or isr_handler stores into the mutex.
THEOREM OwnersCorrect == Spec => []OwnersSound
<1>1. IInv => OwnersSound
  BY DEF IInv, Queues
<1> QED  BY <1>1, Invariance, PTL

-----------------------------------------------------------------------------
(* The Process Manager implements Lifecycle. *)

stages == [t \in Threads |-> Stage(t)]

LEMMA InitRefines == Init => Abstract!Init
BY DEF Init, Abstract!Init, Stage, Range

\* A step that moves one record, and no other, along.
LEMMA OneStage ==
    ASSUME NEW t \in Threads, NEW to,
           \A s \in Threads : Stage(s)' = IF s = t THEN to ELSE Stage(s)
    PROVE  stages' = [stages EXCEPT ![t] = to]
BY DEF stages

LEMMA StepRefines ==
    IInv /\ [Next]_vars => [Abstract!Next]_stages
<1> SUFFICES ASSUME IInv, [Next]_vars  PROVE Abstract!Next \/ UNCHANGED stages
  OBVIOUS
<1> USE DEF IInv, Records
<1>0. Range(thread_list) \subseteq Threads /\ Range(thread_list_dead) \subseteq Threads
  BY DEF TypeOK, Range
<1>1. ASSUME NEW t \in Threads, Create(t)  PROVE Abstract!Next
  <2>1. t \notin Range(thread_list_dead) /\ t # crnt
    BY <1>1 DEF Create, RecordsSound
  <2>2. Stage(t) = "free" /\ Stage(t)' = "live"
    BY <1>1, <2>1 DEF Create, Stage, manager, TypeOK
  <2>3. \A s \in Threads \ {t} : Stage(s)' = Stage(s)
    BY <1>1 DEF Create, Stage, manager, TypeOK
  <2>4. Abstract!Create(t)
    BY <2>2, <2>3, OneStage DEF stages, Abstract!Create, Abstract!Advance
  <2> QED  BY <2>4 DEF Abstract!Next
<1>2. ASSUME NEW t \in Threads,
             Kill(t) \/ Revive(t) \/ Fault(t) \/ \E s \in Threads : Terminate(s, t)
      PROVE  Abstract!Next \/ UNCHANGED stages
  <2>1. t \in Range(thread_list)
    <3>1. Kill(t) \/ Revive(t) \/ Fault(t) => Runs(t)
      BY DEF Kill, Revive, Fault, Runs
    <3> QED  BY <1>2, <3>1, RunnerListed DEF Terminate
  <2>2. t \notin Range(thread_list_dead) /\ t # crnt /\ state[t] # "NONE"
    BY <2>1 DEF RecordsSound
  <2>3. UNCHANGED <<thread_list_dead, crnt, phase>>
    BY <1>2 DEF Kill, Revive, Fault, Terminate, lists, manager
  <2>4. PICK to \in {"ALIVE", "DEAD", "ZOMBIE"} :
            /\ state' = [state EXCEPT ![t] = to]
            /\ to = "ALIVE" => state[t] = "DEAD"
    BY <1>2 DEF Kill, Revive, Fault, Terminate
  <2>5. \A s \in Threads : state'[s] = IF s = t THEN to ELSE state[s]
    BY <2>4 DEF TypeOK
  <2>6. \A s \in Threads \ {t} : Stage(s)' = Stage(s)
    BY <2>3, <2>5 DEF Stage
  <2>7. /\ Stage(t) = IF state[t] = "ALIVE" THEN "live" ELSE "dead"
        /\ Stage(t)' = IF to = "ALIVE" THEN "live" ELSE "dead"
    BY <2>2, <2>3, <2>5 DEF Stage
  <2>8. CASE Stage(t)' = Stage(t)
    BY <2>6, <2>8 DEF stages
  <2>9. CASE Stage(t) = "live" /\ Stage(t)' = "dead"
    BY <2>6, <2>9, OneStage DEF stages, Abstract!Die, Abstract!Advance, Abstract!Next
  <2>10. CASE Stage(t) = "dead" /\ Stage(t)' = "live"
    BY <2>6, <2>10, OneStage DEF stages, Abstract!Revive, Abstract!Advance, Abstract!Next
  <2> QED  BY <2>7, <2>8, <2>9, <2>10
<1>3. ASSUME NEW t \in Threads,
             \/ Enter(t) \/ SetLocker(t) \/ ClearLocker(t)
             \/ \E m \in Mutexes : Lock(t, m) \/ Unlock(t, m)
      PROVE  UNCHANGED stages
  BY <1>3 DEF Lock, Enter, SetLocker, ClearLocker, Unlock, stages, Stage, lists, manager
<1>4. CASE Awake \/ PassOver \/ EndCollect \/ EndBury \/ FindMutex \/ ResetMutex
  BY <1>4 DEF Awake, PassOver, EndCollect, EndBury, FindMutex, ResetMutex, stages, Stage, lists
<1>5. CASE Collect
  BY <1>5 DEF Collect, stages, Stage
<1>6. CASE AddDead
  <2>1. crnt \in Threads \ Range(thread_list_dead) /\ Corpse(crnt)
    BY <1>6 DEF AddDead, CarriesSound, RecordsSound
  <2>2. Range(thread_list_dead') = Range(thread_list_dead) \cup {crnt}
    BY <1>6, <2>1, AppendElements DEF AddDead, TypeOK, RecordsSound
  <2>3. phase = "listadd" /\ phase' = "collect" /\ UNCHANGED state
    BY <1>6 DEF AddDead
  <2>4. PICK t \in Threads : t = crnt
    BY <2>1
  <2>5. Stage(t) = "dead" /\ Stage(t)' = "collected"
    BY <2>1, <2>2, <2>3, <2>4 DEF Stage, Corpse
  <2>6. \A s \in Threads \ {t} : Stage(s)' = Stage(s)
    BY <2>2, <2>3, <2>4 DEF Stage
  <2>7. Abstract!Collect(t)
    BY <2>5, <2>6, OneStage DEF stages, Abstract!Collect, Abstract!Advance
  <2> QED  BY <2>7 DEF Abstract!Next
<1>7. CASE Bury
  <2>1. /\ thread_list_dead[i + 1] \in Range(thread_list_dead)
        /\ Range(thread_list_dead') = Range(thread_list_dead) \ {thread_list_dead[i + 1]}
    BY <1>7, Popped DEF Bury, TypeOK, RecordsSound
  <2> QED  BY <1>7, <2>1 DEF Bury, stages, Stage
<1>8. CASE FreeRecord
  <2>1. crnt \in Threads \ Range(thread_list_dead) /\ Corpse(crnt) /\ phase = "free"
    BY <1>8 DEF FreeRecord, CarriesSound, RecordsSound
  <2>2. PICK t \in Threads : t = crnt
    BY <2>1
  <2>3. /\ \A s \in Threads : state'[s] = IF s = t THEN "NONE" ELSE state[s]
        /\ phase' = "bury" /\ UNCHANGED thread_list_dead
    BY <1>8, <2>2 DEF FreeRecord, lists, TypeOK
  <2>4. Stage(t) = "collected" /\ Stage(t)' = "free"
    BY <2>1, <2>2, <2>3 DEF Stage, Corpse
  <2>5. \A s \in Threads \ {t} : Stage(s)' = Stage(s)
    BY <2>1, <2>2, <2>3 DEF Stage
  <2>6. Abstract!Free(t)
    BY <2>4, <2>5, OneStage DEF stages, Abstract!Free, Abstract!Advance
  <2> QED  BY <2>6 DEF Abstract!Next
<1>9. CASE UNCHANGED vars
  BY <1>9 DEF vars, lists, manager, stages, Stage
<1> QED
  BY <1>1, <1>2, <1>3, <1>4, <1>5, <1>6, <1>7, <1>8, <1>9 DEF Next, services_process

\* The two loops of services_process, whose index skips an entry behind
\* every one they pop, take each record through created, dead, collected and
\* freed in this order, and never free one that is alive, still listed or able
\* to come back to life.
THEOREM Implementation == Spec => ImplementsLifecycle
<1>1. Init => Abstract!Init
  BY InitRefines
<1>2. IInv /\ [Next]_vars => [Abstract!Next]_stages
  BY StepRefines
<1>3. Spec => Abstract!Spec
  BY <1>1, <1>2, Invariance, PTL DEF Spec, Abstract!Spec, stages
<1> QED  BY <1>3 DEF ImplementsLifecycle
=============================================================================
