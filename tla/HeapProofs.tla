----------------------------- MODULE HeapProofs -----------------------------
(***************************************************************************)
(* Proofs about Heap: the chain of headers stays sound, every loan keeps a *)
(* block of its own, the scrubber clears free blocks only, and malloc and  *)
(* free implement Allocator, for every heap and every number of threads.   *)
(***************************************************************************)
EXTENDS Heap, SequenceTheorems, TLAPS

-----------------------------------------------------------------------------
(* What listadd (Append) and popfirst (Tail) do to the elements of a list. *)

\* listadd of an element that is not in the list yet.
LEMMA AppendElements ==
    ASSUME NEW S, NEW s \in Seq(S), NEW x \in S \ Range(s), IsInjective(s)
    PROVE  /\ Append(s, x) \in Seq(S)
           /\ IsInjective(Append(s, x))
           /\ Range(Append(s, x)) = Range(s) \cup {x}
<1>1. Append(s, x) \in Seq(S) /\ IsInjective(Append(s, x))
  BY DEF IsInjective, Range
<1>2. Range(Append(s, x)) = Range(s) \cup {x}
  <2>1. Append(s, x)[Len(s) + 1] = x /\ \A k \in 1 .. Len(s) : Append(s, x)[k] = s[k]
    OBVIOUS
  <2> QED BY <2>1 DEF Range
<1> QED BY <1>1, <1>2

\* popfirst: the first entry goes, the others stay, none twice.
LEMMA TailElements ==
    ASSUME NEW S, NEW s \in Seq(S), s # <<>>, IsInjective(s)
    PROVE  /\ Tail(s) \in Seq(S)
           /\ IsInjective(Tail(s))
           /\ Range(Tail(s)) = Range(s) \ {Head(s)}
<1>1. /\ DOMAIN Tail(s) = 1 .. Len(s) - 1 /\ Head(s) = s[1] /\ 1 \in DOMAIN s
      /\ \A k \in DOMAIN Tail(s) : Tail(s)[k] = s[k + 1]
  BY EmptySeq
<1>2. \A k \in DOMAIN s : k # 1 => k - 1 \in DOMAIN Tail(s) /\ Tail(s)[k - 1] = s[k]
  BY <1>1
<1>3. IsInjective(Tail(s)) /\ Range(Tail(s)) \subseteq Range(s) \ {Head(s)}
  BY <1>1 DEF IsInjective, Range
<1>4. Range(s) \ {Head(s)} \subseteq Range(Tail(s))
  BY <1>1, <1>2 DEF Range
<1> QED BY <1>3, <1>4

\* The first entry of a list, before and after a listadd.
LEMMA HeadFacts ==
    ASSUME NEW S, NEW s \in Seq(S), NEW x \in S
    PROVE  /\ s # <<>> => Head(s) \in Range(s) /\ Head(Append(s, x)) = Head(s)
           /\ Append(s, x) # <<>>
           /\ s = <<>> <=> Range(s) = {}
BY DEF Range

-----------------------------------------------------------------------------
(* The inductive invariant. *)

Queued == {"wait", "walk", "clear", "panic", "scrubWait", "scrub", "scrubClear"}
Inside == {"walk", "clear", "panic", "scrub", "scrubClear"}

\* The queue of malloc_mutex holds each waiting thread once, and a thread
\* inside is its first.
QueueSound ==
    /\ IsInjective(malloc_queue)
    /\ \A t \in Actors : t \in Range(malloc_queue) <=> pc[t] \in Queued
    /\ \A t \in Actors : pc[t] \in Inside => Head(malloc_queue) = t

\* What a thread in the middle of a call knows of the block it stands on.
CallSound == \A t \in Actors :
    /\ pc[t] \in {"wait", "walk", "clear"} => want[t] \in Sizes
    /\ pc[t] \in {"clear", "scrubClear"} => mem[t] \in Headers
    /\ pc[t] = "clear" => status[mem[t]] = 1 /\ want[t] <= size[mem[t]]
    /\ pc[t] = "scrubClear" => status[mem[t]] = 0

IInv == TypeOK /\ QueueSound /\ ChainSound /\ CallSound /\ LoansBacked

-----------------------------------------------------------------------------
LEMMA InitIInv == Init => IInv
<1> SUFFICES ASSUME Init  PROVE IInv
  OBVIOUS
<1>1. TypeOK
  BY HeapAssumption DEF Init, TypeOK, Addresses, Actors, Zero, Doing
<1>2. QueueSound
  BY DEF Init, QueueSound, Queued, Inside, IsInjective, Range
<1>3. Headers = {}
  BY DEF Init, Headers
<1>4. ChainSound /\ CallSound /\ LoansBacked
  BY <1>3 DEF Init, ChainSound, CallSound, LoansBacked
<1> QED  BY <1>1, <1>2, <1>4 DEF IInv

\* One thread at a time is inside.
LEMMA Alone ==
    ASSUME QueueSound, NEW s \in Actors, NEW t \in Actors,
           pc[s] \in Inside, pc[t] \in Inside
    PROVE  s = t
BY DEF QueueSound

\* The three ways a step treats the queue.
LEMMA QueueJoined ==
    ASSUME TypeOK, QueueSound, NEW t \in Actors, pc[t] = "run",
           NEW step \in {"wait", "scrubWait"}, Queue(t, step)
    PROVE  malloc_queue' \in Seq(Actors) /\ QueueSound'
<1>1. malloc_queue \in Seq(Actors) /\ t \in Actors \ Range(malloc_queue)
  BY DEF TypeOK, QueueSound, Queued
<1>2. /\ malloc_queue' \in Seq(Actors)
      /\ IsInjective(malloc_queue')
      /\ Range(malloc_queue') = Range(malloc_queue) \cup {t}
  BY <1>1, AppendElements DEF Queue, QueueSound
<1>3. \A s \in Actors : s # t => pc'[s] = pc[s]
  BY DEF Queue, Goto, TypeOK
<1>4. pc'[t] = step
  BY DEF Queue, Goto, TypeOK
<1>5. ASSUME NEW s \in Actors, pc'[s] \in Inside  PROVE Head(malloc_queue') = s
  <2>1. s # t /\ pc[s] \in Inside
    BY <1>3, <1>4, <1>5 DEF Inside
  <2>2. Head(malloc_queue) = s /\ s \in Range(malloc_queue)
    BY <2>1 DEF QueueSound, Inside, Queued
  <2>3. malloc_queue # <<>>
    BY <1>1, <2>2, HeadFacts
  <2> QED  BY <1>1, <2>2, <2>3, HeadFacts DEF Queue
<1>6. \A s \in Actors : s \in Range(malloc_queue') <=> pc'[s] \in Queued
  BY <1>2, <1>3, <1>4 DEF QueueSound, Queued
<1> QED  BY <1>2, <1>5, <1>6 DEF QueueSound

LEMMA QueueLeft ==
    ASSUME TypeOK, QueueSound, NEW t \in Actors, pc[t] \in Inside,
           Unlock, Goto(t, "run")
    PROVE  malloc_queue' \in Seq(Actors) /\ QueueSound'
<1>1. Head(malloc_queue) = t /\ t \in Range(malloc_queue)
  BY DEF QueueSound, Inside, Queued
<1>2. malloc_queue \in Seq(Actors) /\ malloc_queue # <<>>
  BY <1>1, HeadFacts DEF TypeOK
<1>3. /\ malloc_queue' \in Seq(Actors)
      /\ IsInjective(malloc_queue')
      /\ Range(malloc_queue') = Range(malloc_queue) \ {t}
  BY <1>1, <1>2, TailElements DEF Unlock, QueueSound
<1>4. /\ \A s \in Actors : s # t => pc'[s] = pc[s]
      /\ pc'[t] = "run"
  BY DEF Goto, TypeOK
<1>5. \A s \in Actors : pc'[s] \notin Inside
  BY <1>4, Alone DEF Inside
<1>6. \A s \in Actors : s \in Range(malloc_queue') <=> pc'[s] \in Queued
  BY <1>3, <1>4 DEF QueueSound, Queued
<1> QED  BY <1>3, <1>5, <1>6 DEF QueueSound

LEMMA QueueKept ==
    ASSUME TypeOK, QueueSound, NEW t \in Actors, NEW step, Goto(t, step),
           UNCHANGED malloc_queue,
           step \in Queued <=> pc[t] \in Queued,
           step \in Inside => pc[t] \in Inside \/ First(t)
    PROVE  QueueSound'
<1>1. /\ \A s \in Actors : s # t => pc'[s] = pc[s]
      /\ pc'[t] = step
  BY DEF Goto, TypeOK
<1>2. \A s \in Actors : s \in Range(malloc_queue') <=> pc'[s] \in Queued
  BY <1>1 DEF QueueSound
<1>3. \A s \in Actors : pc'[s] \in Inside => Head(malloc_queue') = s
  BY <1>1 DEF QueueSound, First
<1> QED  BY <1>2, <1>3 DEF QueueSound

-----------------------------------------------------------------------------
(* What each step leaves of the invariant. *)

LEMMA Members ==
    /\ \A t \in Threads : t \in Actors
    /\ Scrubber \in Actors
BY DEF Actors

\* A header and the place behind its block.
LEMMA HeaderFacts ==
    ASSUME TypeOK, ChainSound
    PROVE  /\ \A a \in Headers :
                /\ a \in Int /\ a >= HeapBegin
                /\ size[a] \in Nat \ {0} /\ size[a] \in Sizes
                /\ Successor(a) \in Int /\ Successor(a) > a + size[a]
                /\ a < last_alloc
                /\ Successor(a) \in HeapBegin .. HeapEnd + Gap - 1
           /\ last_alloc \in Int
<1>1. last_alloc \in Int
  BY HeapAssumption DEF TypeOK
<1>2. ASSUME NEW a \in Headers
      PROVE  /\ a \in Int /\ a >= HeapBegin
             /\ size[a] \in Nat \ {0} /\ size[a] \in Sizes
  <2>1. a \in Addresses /\ size[a] # 0
    BY <1>2 DEF Headers
  <2>2. size[a] \in Sizes
    BY <2>1 DEF TypeOK
  <2>3. size[a] \in Nat \ {0}
    BY <2>2, HeapAssumption
  <2>4. a \in Int /\ a >= HeapBegin
    BY <2>1, HeapAssumption DEF Addresses
  <2> QED  BY <2>2, <2>3, <2>4
<1>3. ASSUME NEW a \in Headers
      PROVE  Successor(a) \in Int /\ Successor(a) > a + size[a] /\ Successor(a) > a
  BY <1>2, <1>3, HeapAssumption DEF Successor
<1>4. ASSUME NEW a \in Headers
      PROVE  a < last_alloc /\ Successor(a) \in HeapBegin .. HeapEnd + Gap - 1
  <2>1. Successor(a) <= last_alloc
    BY <1>4 DEF ChainSound
  <2>2. last_alloc \in HeapBegin .. HeapEnd + Gap - 1
    BY DEF TypeOK
  <2> QED  BY <1>1, <1>2, <1>3, <1>4, <2>1, <2>2, HeapAssumption
<1> QED  BY <1>1, <1>2, <1>3, <1>4

\* A walk that is on the chain and not on a header is at its end.
LEMMA OnChain ==
    ASSUME IInv, NEW t \in Actors, pc[t] \in {"walk", "scrub"}
    PROVE  /\ OnHeader(t) <=> mem[t] \in Headers
           /\ OnHeader(t) <=> mem[t] # last_alloc
<1>1. mem[t] \in Headers \cup {last_alloc}
  BY DEF IInv, ChainSound
<1>2. mem[t] \in Headers => mem[t] < last_alloc /\ size[mem[t]] # 0
  BY HeaderFacts DEF IInv, Headers
<1>3. ~(last_alloc < last_alloc)
  BY HeaderFacts DEF IInv
<1>4. last_alloc \notin Headers
  BY HeaderFacts DEF IInv
<1> QED  BY <1>1, <1>2, <1>3, <1>4 DEF OnHeader

\* A new block starts inside the heap.
LEMMA GrowFacts ==
    ASSUME IInv, NEW t \in Threads, Grow(t)
    PROVE  /\ want[t] \in Sizes
           /\ last_alloc \in Addresses
           /\ last_alloc + want[t] + Header < HeapEnd
           /\ last_alloc' \in HeapBegin .. HeapEnd + Gap - 1
           /\ Headers' = Headers \cup {last_alloc}
           /\ last_alloc \notin Headers
           /\ \A a \in Headers : size'[a] = size[a] /\ Successor(a)' = Successor(a)
           /\ size'[last_alloc] = want[t]
           /\ \A a \in {last_alloc} : Successor(a)' = last_alloc'
<1>1. want[t] \in Sizes /\ want[t] \in Nat \ {0}
  BY HeapAssumption DEF Grow, IInv, CallSound, Actors
<1>2. last_alloc + want[t] + Header < HeapEnd /\ last_alloc \in Addresses
      /\ last_alloc' \in HeapBegin .. HeapEnd + Gap - 1
  <2>1. last_alloc \in Int /\ last_alloc >= HeapBegin
    BY HeapAssumption DEF IInv, TypeOK
  <2>2. ~(last_alloc + want[t] + Header >= HeapEnd)
        /\ last_alloc' = last_alloc + want[t] + Header + Gap
    BY DEF Grow, OutOfMemory
  <2> QED  BY <1>1, <2>1, <2>2, HeapAssumption DEF Addresses
<1>3. last_alloc \notin Headers
  BY HeaderFacts DEF IInv
<1>4. size' = [size EXCEPT ![last_alloc] = want[t]] /\ size \in [Addresses -> Sizes \cup {0}]
  BY DEF Grow, IInv, TypeOK
<1>5. Headers' = Headers \cup {last_alloc}
  BY <1>1, <1>2, <1>4 DEF Headers
<1>6. \A a \in Headers : size'[a] = size[a]
  BY <1>2, <1>3, <1>4 DEF Headers
<1>7. \A a \in Headers : Successor(a)' = Successor(a)
  BY <1>6 DEF Successor
<1>8. /\ size'[last_alloc] = want[t]
      /\ \A a \in {last_alloc} : Successor(a)' = last_alloc'
  BY <1>2, <1>4 DEF Successor, Grow
<1> QED  BY <1>1, <1>2, <1>3, <1>5, <1>6, <1>7, <1>8

LEMMA TypeStep ==
    ASSUME IInv, [Next]_vars
    PROVE  TypeOK'
<1> USE Members, HeapAssumption DEF IInv, Doing
<1>0. HeapBegin \in HeapBegin .. HeapEnd + Gap - 1
  OBVIOUS
<1>1. ASSUME NEW t \in Threads, NEW n \in Sizes, Malloc(t, n)  PROVE TypeOK'
  <2>1. malloc_queue' \in Seq(Actors)
    BY <1>1, QueueJoined DEF Malloc
  <2> QED  BY <1>1, <2>1 DEF Malloc, Queue, Goto, TypeOK
<1>2. ASSUME NEW t \in Threads, Enter(t) \/ Panic(t) \/ Wipe(t)  PROVE TypeOK'
  <2>1. CASE Enter(t)
    BY <1>0, <2>1 DEF Enter, Goto, TypeOK
  <2>2. CASE Panic(t)
    BY <2>2 DEF Panic, Goto, TypeOK
  <2>3. CASE Wipe(t)
    BY <2>3 DEF Wipe, Goto, TypeOK, Zero
  <2> QED  BY <1>2, <2>1, <2>2, <2>3
<1>3. ASSUME NEW t \in Threads, Skip(t)  PROVE TypeOK'
  <2>1. Successor(mem[t]) \in HeapBegin .. HeapEnd + Gap - 1
    BY <1>3, OnChain, HeaderFacts DEF Skip
  <2> QED  BY <1>3, <2>1 DEF Skip, TypeOK
<1>4. ASSUME NEW t \in Threads, Reuse(t)  PROVE TypeOK'
  BY <1>4 DEF Reuse, Goto, TypeOK
<1>5. ASSUME NEW t \in Threads, Grow(t)  PROVE TypeOK'
  <2>1. last_alloc' \in HeapBegin .. HeapEnd + Gap - 1 /\ want[t] \in Sizes
    BY <1>5, GrowFacts
  <2> QED  BY <1>5, <2>1 DEF Grow, Goto, TypeOK
<1>6. ASSUME NEW t \in Threads, Return(t)  PROVE TypeOK'
  <2>1. malloc_queue' \in Seq(Actors)
    BY <1>6, QueueLeft DEF Return, Inside
  <2>2. mem[t] \in Headers /\ want[t] \in Sizes /\ want[t] <= size[mem[t]]
    BY <1>6 DEF Return, CallSound
  <2>3. mem[t] + Header \in HeapBegin .. HeapEnd
    <3>1. mem[t] \in Int /\ mem[t] >= HeapBegin
          /\ mem[t] + size[mem[t]] + Header + Gap <= HeapEnd + Gap - 1
          /\ size[mem[t]] \in Nat
      BY <2>2, HeaderFacts DEF Successor
    <3> QED  BY <3>1
  <2>4. [to |-> t, at |-> mem[t] + Header, size |-> want[t]]
            \in [to : Threads, at : HeapBegin .. HeapEnd, size : Sizes]
    BY <2>2, <2>3
  <2>5. loans' \subseteq [to : Threads, at : HeapBegin .. HeapEnd, size : Sizes]
    BY <1>6, <2>4 DEF Return, TypeOK
  <2>6. content' \in [Addresses -> Actors] /\ pc' \in [Actors -> Doing]
    BY <1>6 DEF Return, Goto, TypeOK, Zero
  <2> QED  BY <1>6, <2>1, <2>5, <2>6 DEF Return, TypeOK
<1>7. ASSUME NEW l \in loans, Write(l)  PROVE TypeOK'
  BY <1>7 DEF Write, TypeOK
<1>8. ASSUME NEW l \in loans, NEW t \in Threads, Free(t, l)  PROVE TypeOK'
  <2>1. Block(l) \in HeapBegin .. HeapEnd + Gap - 1
    BY <1>8 DEF LoansBacked, Headers, Addresses
  <2> QED  BY <1>8, <2>1 DEF Free, Goto, TypeOK
<1>9. ASSUME ScrubLock  PROVE TypeOK'
  <2>1. malloc_queue' \in Seq(Actors)
    BY <1>9, QueueJoined DEF ScrubLock
  <2> QED  BY <1>9, <2>1 DEF ScrubLock, Queue, Goto, TypeOK
<1>10. ASSUME ScrubEnter \/ ScrubLook  PROVE TypeOK'
  <2>1. CASE ScrubEnter
    BY <1>0, <2>1 DEF ScrubEnter, Goto, TypeOK
  <2>2. CASE ScrubLook
    BY <2>2 DEF ScrubLook, Goto, TypeOK
  <2> QED  BY <1>10, <2>1, <2>2
<1>11. ASSUME ScrubStop  PROVE TypeOK'
  <2>1. malloc_queue' \in Seq(Actors)
    BY <1>11, QueueLeft DEF ScrubStop, Inside
  <2> QED  BY <1>11, <2>1 DEF ScrubStop, Goto, TypeOK
<1>12. ASSUME ScrubClear  PROVE TypeOK'
  <2>1. Successor(mem[Scrubber]) \in HeapBegin .. HeapEnd + Gap - 1
    BY <1>12, HeaderFacts DEF ScrubClear, CallSound
  <2> QED  BY <1>12, <2>1 DEF ScrubClear, Goto, TypeOK, Zero
<1>13. CASE UNCHANGED vars
  BY <1>13 DEF vars, TypeOK
<1> QED
  BY <1>1, <1>2, <1>3, <1>4, <1>5, <1>6, <1>7, <1>8, <1>9, <1>10, <1>11, <1>12, <1>13
  DEF Next, malloc, scrub

LEMMA QueueStep ==
    ASSUME IInv, [Next]_vars
    PROVE  QueueSound'
<1> USE Members DEF IInv
<1>1. ASSUME NEW t \in Threads, NEW n \in Sizes, Malloc(t, n)  PROVE QueueSound'
  BY <1>1, QueueJoined DEF Malloc
<1>2. ASSUME NEW t \in Threads, Enter(t)  PROVE QueueSound'
  BY <1>2, QueueKept DEF Enter, Queued
<1>3. ASSUME NEW t \in Threads, Reuse(t) \/ Grow(t)  PROVE QueueSound'
  BY <1>3, QueueKept DEF Reuse, Grow, Queued, Inside
<1>4. ASSUME NEW t \in Threads, Panic(t)  PROVE QueueSound'
  BY <1>4, QueueKept DEF Panic, Queued, Inside
<1>5. ASSUME NEW t \in Threads, Return(t)  PROVE QueueSound'
  BY <1>5, QueueLeft DEF Return, Inside
<1>6. ASSUME NEW t \in Threads, Wipe(t)  PROVE QueueSound'
  BY <1>6, QueueKept DEF Wipe, Queued, Inside
<1>7. ASSUME NEW l \in loans, NEW t \in Threads, Free(t, l)  PROVE QueueSound'
  BY <1>7, QueueKept DEF Free, Queued, Inside
<1>8. ASSUME ScrubLock  PROVE QueueSound'
  BY <1>8, QueueJoined DEF ScrubLock
<1>9. ASSUME ScrubEnter  PROVE QueueSound'
  BY <1>9, QueueKept DEF ScrubEnter, Queued
<1>10. ASSUME ScrubLook \/ ScrubClear  PROVE QueueSound'
  BY <1>10, QueueKept DEF ScrubLook, ScrubClear, Queued, Inside
<1>11. ASSUME ScrubStop  PROVE QueueSound'
  BY <1>11, QueueLeft DEF ScrubStop, Inside
<1>12. ASSUME UNCHANGED <<malloc_queue, pc>>  PROVE QueueSound'
  BY <1>12 DEF QueueSound
<1>13. ASSUME NEW t \in Threads, Skip(t)  PROVE QueueSound'
  BY <1>12, <1>13 DEF Skip
<1>14. ASSUME NEW l \in loans, Write(l)  PROVE QueueSound'
  BY <1>12, <1>14 DEF Write
<1>15. CASE UNCHANGED vars
  BY <1>12, <1>15 DEF vars
<1> QED
  BY <1>1, <1>2, <1>3, <1>4, <1>5, <1>6, <1>7, <1>8, <1>9, <1>10, <1>11, <1>13, <1>14, <1>15
  DEF Next, malloc, scrub
\* Outside Grow only the walkers move.
LEMMA ChainKept ==
    ASSUME ChainSound, UNCHANGED <<last_alloc, size>>,
           \A t \in Actors :
               pc'[t] \in {"walk", "scrub"} => mem'[t] \in Headers \cup {last_alloc}
    PROVE  ChainSound'
BY DEF ChainSound, Headers, Successor

\* A step of one thread that does not leave it walking, or leaves it on the
\* chain.
LEMMA ChainMoved ==
    ASSUME IInv, UNCHANGED <<last_alloc, size>>, NEW t \in Actors,
           \A s \in Actors \ {t} : pc'[s] = pc[s] /\ mem'[s] = mem[s],
           pc'[t] \in {"walk", "scrub"} => mem'[t] \in Headers \cup {last_alloc}
    PROVE  ChainSound'
<1>1. ASSUME NEW s \in Actors, pc'[s] \in {"walk", "scrub"}
      PROVE  mem'[s] \in Headers \cup {last_alloc}
  BY <1>1 DEF IInv, ChainSound
<1> QED  BY <1>1, ChainKept DEF IInv

LEMMA ChainStep ==
    ASSUME IInv, [Next]_vars
    PROVE  ChainSound'
<1> USE Members DEF IInv
<1>1. ASSUME NEW t \in Threads, NEW n \in Sizes, Malloc(t, n)  PROVE ChainSound'
  BY <1>1, ChainMoved DEF Malloc, Queue, Goto, TypeOK
<1>2. ASSUME NEW t \in Threads, Enter(t)  PROVE ChainSound'
  <2>1. mem'[t] = HeapBegin /\ HeapBegin \in Headers \cup {last_alloc}
    BY <1>2 DEF Enter, TypeOK, ChainSound
  <2> QED  BY <1>2, <2>1, ChainMoved DEF Enter, Goto, TypeOK
<1>3. ASSUME NEW t \in Threads, Skip(t)  PROVE ChainSound'
  <2>1. mem[t] \in Headers
    BY <1>3, OnChain DEF Skip
  <2>2. mem'[t] = Successor(mem[t]) /\ Successor(mem[t]) \in Headers \cup {last_alloc}
    BY <1>3, <2>1 DEF Skip, TypeOK, ChainSound
  <2> QED  BY <1>3, <2>2, ChainMoved DEF Skip, TypeOK
<1>4. ASSUME NEW t \in Threads, Reuse(t) \/ Panic(t) \/ Return(t) \/ Wipe(t)
      PROVE  ChainSound'
  BY <1>4, ChainMoved DEF Reuse, Panic, Return, Wipe, Goto, TypeOK
<1>5. ASSUME NEW t \in Threads, Grow(t)  PROVE ChainSound'
  <2>1. \A s \in Actors : pc'[s] \notin {"walk", "scrub"}
    BY <1>5, Alone DEF Grow, Goto, TypeOK, Inside
  <2>2. last_alloc \in Int /\ last_alloc' \in Int /\ last_alloc < last_alloc'
    <3>1. want[t] \in Nat \ {0} /\ last_alloc \in Int
      BY <1>5, GrowFacts, HeaderFacts, HeapAssumption
    <3>2. last_alloc' = last_alloc + want[t] + Header + Gap
      BY <1>5 DEF Grow
    <3> QED  BY <3>1, <3>2, HeapAssumption
  <2>3. /\ Headers' = Headers \cup {last_alloc}
        /\ \A a \in Headers : Successor(a)' = Successor(a) /\ Successor(a) \in Int
        /\ \A a \in {last_alloc} : Successor(a)' = last_alloc'
    BY <1>5, GrowFacts, HeaderFacts
  <2>4. HeapBegin \in Headers'
    BY <2>3 DEF ChainSound
  <2>5. \A a \in Headers' : Successor(a)' \in Headers' \cup {last_alloc'}
    BY <2>3 DEF ChainSound
  <2>6. \A a \in Headers' : Successor(a)' <= last_alloc'
    BY <2>2, <2>3 DEF ChainSound
  <2>7. ASSUME NEW a \in Headers', NEW b \in Headers', a < b
        PROVE  Successor(a)' <= b
    <3>1. a \in Headers
      BY <2>2, <2>3, <2>7, HeaderFacts
    <3>2. CASE b \in Headers
      BY <2>3, <2>7, <3>1, <3>2 DEF ChainSound
    <3>3. CASE b = last_alloc
      BY <2>3, <3>1, <3>3 DEF ChainSound
    <3> QED  BY <2>3, <3>2, <3>3
  <2> QED  BY <2>1, <2>4, <2>5, <2>6, <2>7 DEF ChainSound
<1>6. ASSUME NEW l \in loans, Write(l)  PROVE ChainSound'
  BY <1>6 DEF Write, ChainSound, Headers, Successor
<1>7. ASSUME NEW l \in loans, NEW t \in Threads, Free(t, l)  PROVE ChainSound'
  BY <1>7, ChainMoved DEF Free, Goto, TypeOK
<1>8. ASSUME ScrubLock \/ ScrubLook \/ ScrubStop  PROVE ChainSound'
  <2>1. /\ \A s \in Actors \ {Scrubber} : pc'[s] = pc[s] /\ mem'[s] = mem[s]
        /\ pc'[Scrubber] \notin {"walk", "scrub"}
    BY <1>8 DEF ScrubLock, Queue, ScrubLook, ScrubStop, Goto, TypeOK
  <2>2. UNCHANGED <<last_alloc, size>>
    BY <1>8 DEF ScrubLock, ScrubLook, ScrubStop
  <2> QED  BY <2>1, <2>2, ChainMoved
<1>9. ASSUME ScrubEnter  PROVE ChainSound'
  <2>1. mem'[Scrubber] = HeapBegin /\ HeapBegin \in Headers \cup {last_alloc}
    BY <1>9 DEF ScrubEnter, TypeOK, ChainSound
  <2> QED  BY <1>9, <2>1, ChainMoved DEF ScrubEnter, Goto, TypeOK
<1>10. ASSUME ScrubClear  PROVE ChainSound'
  <2>1. mem[Scrubber] \in Headers
    BY <1>10 DEF ScrubClear, CallSound
  <2>2. /\ mem'[Scrubber] = Successor(mem[Scrubber])
        /\ Successor(mem[Scrubber]) \in Headers \cup {last_alloc}
    BY <1>10, <2>1 DEF ScrubClear, TypeOK, ChainSound
  <2> QED  BY <1>10, <2>2, ChainMoved DEF ScrubClear, Goto, TypeOK
<1>11. CASE UNCHANGED vars
  BY <1>11 DEF vars, ChainSound, Headers, Successor
<1> QED
  BY <1>1, <1>2, <1>3, <1>4, <1>5, <1>6, <1>7, <1>8, <1>9, <1>10, <1>11
  DEF Next, malloc, scrub
\* A step of one thread that keeps the headers and the statuses the others
\* rely on.
LEMMA CallMoved ==
    ASSUME IInv, NEW t \in Actors,
           \A s \in Actors \ {t} : pc'[s] = pc[s] /\ mem'[s] = mem[s] /\ want'[s] = want[s],
           Headers \subseteq Headers',
           \A a \in Headers : size'[a] = size[a],
           \A s \in Actors \ {t} :
               pc[s] \in {"clear", "scrubClear"} => status'[mem[s]] = status[mem[s]],
           pc'[t] \in {"wait", "walk", "clear"} => want'[t] \in Sizes,
           pc'[t] \in {"clear", "scrubClear"} => mem'[t] \in Headers',
           pc'[t] = "clear" => status'[mem'[t]] = 1 /\ want'[t] <= size'[mem'[t]],
           pc'[t] = "scrubClear" => status'[mem'[t]] = 0
    PROVE  CallSound'
<1>1. ASSUME NEW s \in Actors \ {t}
      PROVE  /\ pc'[s] \in {"wait", "walk", "clear"} => want'[s] \in Sizes
             /\ pc'[s] \in {"clear", "scrubClear"} => mem'[s] \in Headers'
             /\ pc'[s] = "clear" => status'[mem'[s]] = 1 /\ want'[s] <= size'[mem'[s]]
             /\ pc'[s] = "scrubClear" => status'[mem'[s]] = 0
  BY <1>1 DEF IInv, CallSound
<1> QED  BY <1>1 DEF CallSound

\* A step that lends nothing new.
LEMMA LoansKept ==
    ASSUME IInv, loans' \subseteq loans,
           Headers \subseteq Headers',
           \A a \in Headers : size'[a] = size[a],
           \A l \in loans' : status'[Block(l)] = 1,
           \A t \in Actors : pc'[t] = "clear" => \A l \in loans' : mem'[t] # Block(l)
    PROVE  LoansBacked'
BY DEF IInv, LoansBacked, Block

LEMMA CallStep ==
    ASSUME IInv, [Next]_vars
    PROVE  CallSound'
<1> USE Members DEF IInv
<1>0. UNCHANGED size => Headers' = Headers
  BY DEF Headers
<1>1. ASSUME NEW t \in Threads, NEW n \in Sizes, Malloc(t, n)  PROVE CallSound'
  BY <1>0, <1>1, CallMoved DEF Malloc, Queue, Goto, TypeOK
<1>2. ASSUME NEW t \in Threads, Enter(t) \/ Skip(t)  PROVE CallSound'
  <2>1. want[t] \in Sizes
    BY <1>2 DEF Enter, Skip, CallSound
  <2> QED  BY <1>0, <1>2, <2>1, CallMoved DEF Enter, Skip, Goto, TypeOK
<1>3. ASSUME NEW t \in Threads, Reuse(t)  PROVE CallSound'
  <2>1. mem[t] \in Headers /\ want[t] \in Sizes
    BY <1>3, OnChain DEF Reuse, CallSound
  <2>2. want[t] <= size[mem[t]] /\ mem[t] \in Addresses
    BY <1>3, <2>1, HeaderFacts, HeapAssumption DEF Reuse, Fits, Headers
  <2>3. /\ \A s \in Actors \ {t} : pc'[s] = pc[s] /\ mem'[s] = mem[s] /\ want'[s] = want[s]
        /\ UNCHANGED <<size, mem, want>>
    BY <1>3 DEF Reuse, Goto, TypeOK
  <2>4. \A s \in Actors \ {t} : pc[s] \notin {"clear", "scrubClear"}
    BY <1>3, Alone DEF Reuse, Inside
  <2>5. status'[mem[t]] = 1 /\ pc'[t] = "clear"
    BY <1>3, <2>2 DEF Reuse, Goto, TypeOK
  <2> QED  BY <1>0, <2>1, <2>2, <2>3, <2>4, <2>5, CallMoved
<1>4. ASSUME NEW t \in Threads, Grow(t)  PROVE CallSound'
  <2>1. /\ want[t] \in Sizes /\ last_alloc \in Addresses
        /\ Headers' = Headers \cup {last_alloc}
        /\ \A a \in Headers : size'[a] = size[a]
        /\ size'[last_alloc] = want[t]
    BY <1>4, GrowFacts
  <2>2. /\ \A s \in Actors \ {t} : pc'[s] = pc[s] /\ mem'[s] = mem[s] /\ want'[s] = want[s]
        /\ want' = want
        /\ mem'[t] = last_alloc /\ pc'[t] = "clear"
    BY <1>4 DEF Grow, Goto, TypeOK
  <2>3. \A s \in Actors \ {t} : pc[s] \notin {"clear", "scrubClear"}
    BY <1>4, Alone DEF Grow, Inside
  <2>4. status'[last_alloc] = 1
    BY <1>4, <2>1 DEF Grow, TypeOK
  <2>5. want[t] <= want[t]
    <3>1. want[t] \in Nat
      BY <2>1, HeapAssumption
    <3> QED  BY <3>1
  <2> QED  BY <2>1, <2>2, <2>3, <2>4, <2>5, CallMoved
<1>5. ASSUME NEW t \in Threads, Panic(t) \/ Return(t) \/ Wipe(t)  PROVE CallSound'
  BY <1>0, <1>5, CallMoved DEF Panic, Return, Wipe, Goto, TypeOK
<1>6. ASSUME NEW l \in loans, NEW t \in Threads, Free(t, l)  PROVE CallSound'
  <2>1. \A s \in Actors : pc[s] \in {"clear", "scrubClear"} => mem[s] # Block(l)
    BY <1>6 DEF LoansBacked, CallSound
  <2>2. \A s \in Actors : pc[s] \in {"clear", "scrubClear"} => status'[mem[s]] = status[mem[s]]
    BY <1>6, <2>1 DEF Free, TypeOK
  <2>3. /\ \A s \in Actors \ {t} : pc'[s] = pc[s] /\ mem'[s] = mem[s] /\ want'[s] = want[s]
        /\ pc'[t] = "wipe"
        /\ UNCHANGED size
    BY <1>6 DEF Free, Goto, TypeOK
  <2> QED  BY <1>0, <2>2, <2>3, CallMoved
<1>7. ASSUME NEW l \in loans, Write(l)  PROVE CallSound'
  BY <1>0, <1>7 DEF Write, CallSound
<1>8. ASSUME ScrubLock \/ ScrubEnter \/ ScrubStop \/ ScrubClear  PROVE CallSound'
  <2>1. /\ \A s \in Actors \ {Scrubber} : pc'[s] = pc[s] /\ mem'[s] = mem[s]
        /\ pc'[Scrubber] \in {"scrubWait", "scrub", "run"}
        /\ UNCHANGED <<size, status, want>>
    BY <1>8 DEF ScrubLock, Queue, ScrubEnter, ScrubStop, ScrubClear, Goto, TypeOK
  <2> QED  BY <1>0, <2>1, CallMoved
<1>9. ASSUME ScrubLook  PROVE CallSound'
  <2>1. mem[Scrubber] \in Headers /\ status[mem[Scrubber]] = 0
    BY <1>9, OnChain DEF ScrubLook
  <2> QED  BY <1>0, <1>9, <2>1, CallMoved DEF ScrubLook, Goto, TypeOK
<1>10. CASE UNCHANGED vars
  BY <1>0, <1>10 DEF vars, CallSound
<1> QED
  BY <1>1, <1>2, <1>3, <1>4, <1>5, <1>6, <1>7, <1>8, <1>9, <1>10 DEF Next, malloc, scrub
\* The only step that lends: the block stood on is nobody's yet.
LEMMA ReturnFacts ==
    ASSUME IInv, NEW t \in Threads, Return(t)
    PROVE  LET new == [to |-> t, at |-> mem[t] + Header, size |-> want[t]]
           IN  /\ loans' = loans \cup {new}
               /\ Block(new) = mem[t]
               /\ mem[t] \in Headers
               /\ status[mem[t]] = 1
               /\ want[t] <= size[mem[t]]
               /\ \A l \in loans : Block(l) # mem[t]
               /\ \A s \in Actors : pc'[s] # "clear"
<1> USE Members DEF IInv
<1> DEFINE new == [to |-> t, at |-> mem[t] + Header, size |-> want[t]]
<1>1. mem[t] \in Headers /\ status[mem[t]] = 1 /\ want[t] <= size[mem[t]]
  BY DEF Return, CallSound
<1>2. mem[t] + Header - Header = mem[t]
  BY <1>1, HeaderFacts, HeapAssumption
<1>3. \A l \in loans : Block(l) # mem[t]
  BY DEF Return, LoansBacked
<1>4. \A s \in Actors : pc'[s] # "clear"
  BY Alone DEF Return, Goto, TypeOK, Inside
<1>5. loans' = loans \cup {new}
  BY DEF Return
<1>6. Block(new) = mem[t]
  <2>1. new.at = mem[t] + Header
    OBVIOUS
  <2> HIDE DEF new
  <2>2. mem[t] \in Int /\ Header \in Int
    BY <1>1, HeaderFacts, HeapAssumption
  <2> QED  BY <2>1, <2>2 DEF Block
<1> QED  BY <1>1, <1>3, <1>4, <1>5, <1>6

LEMMA LoansStep ==
    ASSUME IInv, [Next]_vars
    PROVE  LoansBacked'
<1> USE Members DEF IInv
<1>0. UNCHANGED size => Headers' = Headers
  BY DEF Headers
<1>00. \A l \in loans : status[Block(l)] = 1 /\ Block(l) \in Headers
  BY DEF LoansBacked
<1>1. ASSUME UNCHANGED <<size, status, loans>>,
             \A t \in Actors : pc'[t] = "clear" => pc[t] = "clear" /\ mem'[t] = mem[t]
      PROVE  LoansBacked'
  BY <1>0, <1>1 DEF LoansBacked
<1>2. ASSUME NEW t \in Threads, NEW n \in Sizes, Malloc(t, n)  PROVE LoansBacked'
  BY <1>1, <1>2 DEF Malloc, Queue, Goto, TypeOK
<1>3. ASSUME NEW t \in Threads, Enter(t) \/ Skip(t) \/ Panic(t) \/ Wipe(t)  PROVE LoansBacked'
  BY <1>1, <1>3 DEF Enter, Skip, Panic, Wipe, Goto, TypeOK
<1>4. ASSUME NEW t \in Threads, Reuse(t)  PROVE LoansBacked'
  <2>1. mem[t] \in Headers /\ status[mem[t]] = 0
    BY <1>4, OnChain DEF Reuse, Fits
  <2>2. \A l \in loans : Block(l) # mem[t]
    BY <1>00, <2>1
  <2>3. \A l \in loans' : status'[Block(l)] = 1
    BY <1>00, <1>4, <2>2 DEF Reuse, TypeOK
  <2>4. \A s \in Actors : pc'[s] = "clear" => s = t /\ mem'[s] = mem[t]
    BY <1>4, Alone DEF Reuse, Goto, TypeOK, Inside
  <2> QED  BY <1>0, <1>4, <2>2, <2>3, <2>4, LoansKept DEF Reuse
<1>5. ASSUME NEW t \in Threads, Grow(t)  PROVE LoansBacked'
  <2>1. /\ Headers' = Headers \cup {last_alloc}
        /\ \A a \in Headers : size'[a] = size[a]
        /\ last_alloc \notin Headers
    BY <1>5, GrowFacts
  <2>2. \A l \in loans : Block(l) # last_alloc
    BY <1>00, <2>1
  <2>3. \A l \in loans' : status'[Block(l)] = 1
    BY <1>00, <1>5, <2>2 DEF Grow, TypeOK
  <2>4. \A s \in Actors : pc'[s] = "clear" => mem'[s] = last_alloc
    BY <1>5, Alone DEF Grow, Goto, TypeOK, Inside
  <2> QED  BY <1>5, <2>1, <2>2, <2>3, <2>4, LoansKept DEF Grow
<1>6. ASSUME NEW t \in Threads, Return(t)  PROVE LoansBacked'
  <2> DEFINE new == [to |-> t, at |-> mem[t] + Header, size |-> want[t]]
  <2>1. /\ loans' = loans \cup {new}
        /\ Block(new) = mem[t]
        /\ mem[t] \in Headers /\ status[mem[t]] = 1 /\ want[t] <= size[mem[t]]
        /\ \A l \in loans : Block(l) # mem[t]
        /\ \A s \in Actors : pc'[s] # "clear"
    BY <1>6, ReturnFacts
  <2>2. new.size = want[t]
    OBVIOUS
  <2>3. UNCHANGED <<size, status>>
    BY <1>6 DEF Return
  <2> HIDE DEF new
  <2>4. ASSUME NEW l \in loans'
        PROVE  /\ Block(l) \in Headers' /\ status'[Block(l)] = 1
               /\ l.size <= size'[Block(l)]
               /\ \A m \in loans' : Block(m) = Block(l) => m = l
    BY <1>0, <2>1, <2>2, <2>3, <2>4 DEF LoansBacked
  <2> QED  BY <2>1, <2>4 DEF LoansBacked, Block
<1>7. ASSUME NEW l \in loans, Write(l)  PROVE LoansBacked'
  BY <1>1, <1>7 DEF Write
<1>8. ASSUME NEW l \in loans, NEW t \in Threads, Free(t, l)  PROVE LoansBacked'
  <2>1. \A m \in loans' : m \in loans /\ Block(m) # Block(l)
    BY <1>8 DEF Free, LoansBacked
  <2>2. \A m \in loans' : status'[Block(m)] = 1
    BY <1>00, <1>8, <2>1 DEF Free, TypeOK
  <2>3. \A s \in Actors : pc'[s] = "clear" => pc[s] = "clear" /\ mem'[s] = mem[s]
    BY <1>8 DEF Free, Goto, TypeOK
  <2>4. \A s \in Actors : pc'[s] = "clear" => \A m \in loans' : mem'[s] # Block(m)
    BY <2>1, <2>3 DEF LoansBacked
  <2>5. UNCHANGED size
    BY <1>8 DEF Free
  <2> QED  BY <1>0, <2>1, <2>2, <2>4, <2>5, LoansKept
<1>9. ASSUME scrub \/ ScrubLock  PROVE LoansBacked'
  BY <1>1, <1>9
  DEF scrub, ScrubLock, Queue, ScrubEnter, ScrubLook, ScrubStop, ScrubClear, Goto, TypeOK
<1>10. CASE UNCHANGED vars
  BY <1>1, <1>10 DEF vars
<1> QED
  BY <1>2, <1>3, <1>4, <1>5, <1>6, <1>7, <1>8, <1>9, <1>10 DEF Next, malloc

-----------------------------------------------------------------------------
THEOREM Invariance == Spec => []IInv
<1>1. IInv /\ [Next]_vars => IInv'
  BY TypeStep, QueueStep, ChainStep, CallStep, LoansStep DEF IInv
<1> QED  BY <1>1, InitIInv, PTL DEF Spec

\* The state stays well typed; in particular last_alloc never runs past the
\* heap by more than the gap.
THEOREM TypeCorrect == Spec => []TypeOK
<1>1. IInv => TypeOK
  BY DEF IInv
<1> QED  BY <1>1, Invariance, PTL

\* The chain of headers tiles the heap and the walks stay on it.
THEOREM ChainCorrect == Spec => []ChainSound
<1>1. IInv => ChainSound
  BY DEF IInv
<1> QED  BY <1>1, Invariance, PTL

\* Every loan has a used block of its own.
THEOREM LoansCorrect == Spec => []LoansBacked
<1>1. IInv => LoansBacked
  BY DEF IInv
<1> QED  BY <1>1, Invariance, PTL

\* The block that services_heap is about to clear is free and nobody's.
THEOREM ScrubberCorrect == Spec => []ScrubsFreeBlocks
<1>1. ASSUME IInv  PROVE ScrubsFreeBlocks
  <2>1. SUFFICES ASSUME pc[Scrubber] = "scrubClear"
                 PROVE  /\ status[mem[Scrubber]] = 0
                        /\ \A l \in loans : Block(l) # mem[Scrubber]
                        /\ \A t \in Threads : pc[t] = "clear" => mem[t] # mem[Scrubber]
    BY DEF ScrubsFreeBlocks
  <2>2. status[mem[Scrubber]] = 0
    BY <1>1, <2>1, Members DEF IInv, CallSound
  <2>3. \A l \in loans : Block(l) # mem[Scrubber]
    BY <1>1, <2>2 DEF IInv, LoansBacked
  <2>4. \A t \in Threads : pc[t] = "clear" => mem[t] # mem[Scrubber]
    BY <1>1, <2>2, Members DEF IInv, CallSound
  <2> QED  BY <2>2, <2>3, <2>4
<1> QED  BY <1>1, Invariance, PTL

-----------------------------------------------------------------------------
(* malloc and free implement Allocator. *)

\* Loans backed by different blocks do not overlap.
LEMMA LoansApart ==
    ASSUME IInv, NEW a \in Headers, NEW b \in Headers, a # b,
           NEW m \in Int, NEW n \in Int, m <= size[a], n <= size[b]
    PROVE  \/ a + Header + m <= b + Header
           \/ b + Header + n <= a + Header
<1>1. /\ a \in Int /\ b \in Int /\ size[a] \in Int /\ size[b] \in Int
      /\ Successor(a) \in Int /\ Successor(b) \in Int
      /\ Successor(a) > a + size[a] /\ Successor(b) > b + size[b]
  BY HeaderFacts DEF IInv
<1>2. CASE a < b
  <2>1. Successor(a) <= b
    BY <1>2 DEF IInv, ChainSound
  <2> QED  BY <1>1, <2>1, HeapAssumption
<1>3. CASE b < a
  <2>1. Successor(b) <= a
    BY <1>3 DEF IInv, ChainSound
  <2> QED  BY <1>1, <2>1, HeapAssumption
<1> QED  BY <1>1, <1>2, <1>3

LEMMA ReturnLends ==
    ASSUME IInv, NEW t \in Threads, Return(t)
    PROVE  Abstract!Next
<1> DEFINE new == [to |-> t, at |-> mem[t] + Header, size |-> want[t]]
<1>1. /\ loans' = loans \cup {new}
      /\ mem[t] \in Headers /\ want[t] <= size[mem[t]]
      /\ \A l \in loans : Block(l) # mem[t]
  BY ReturnFacts
<1>2. new \in loans' /\ TypeOK'
  BY <1>1, TypeStep DEF Next, malloc
<1>3. new \in Abstract!Loan
  BY <1>2 DEF TypeOK, Abstract!Loan
<1>4. new.at = mem[t] + Header /\ new.size = want[t]
  OBVIOUS
<1>5. want[t] \in Nat \ {0} /\ mem[t] \in Int
      /\ size[mem[t]] \in Nat /\ Successor(mem[t]) <= HeapEnd + Gap - 1
  <2>1. want[t] \in Sizes
    BY Members DEF Return, IInv, CallSound
  <2>2. mem[t] \in Int /\ size[mem[t]] \in Nat
        /\ Successor(mem[t]) \in HeapBegin .. HeapEnd + Gap - 1
    BY <1>1, HeaderFacts DEF IInv
  <2>3. want[t] \in Nat \ {0}
    BY <2>1, HeapAssumption
  <2>4. Successor(mem[t]) <= HeapEnd + Gap - 1
    BY <2>2, HeapAssumption
  <2> QED  BY <2>2, <2>3, <2>4
<1>6. Abstract!Within(new)
  BY <1>1, <1>4, <1>5, HeapAssumption DEF Abstract!Within, Successor
<1>7. ASSUME NEW l \in loans  PROVE Abstract!Apart(new, l)
  <2>1. /\ Block(l) \in Headers /\ Block(l) # mem[t]
        /\ l.size <= size[Block(l)]
    BY <1>1, <1>7 DEF IInv, LoansBacked
  <2>2. l.at \in Int /\ l.size \in Int
    <3>1. l.at \in HeapBegin .. HeapEnd /\ l.size \in Sizes
      BY <1>7 DEF IInv, TypeOK
    <3>2. \A x \in HeapBegin .. HeapEnd : x \in Int
      BY HeapAssumption
    <3>3. \A x \in Sizes : x \in Int
      BY HeapAssumption
    <3> QED  BY <3>1, <3>2, <3>3
  <2>3. Block(l) + Header = l.at
    BY <2>2, HeapAssumption DEF Block
  <2>4. \/ mem[t] + Header + want[t] <= Block(l) + Header
        \/ Block(l) + Header + l.size <= mem[t] + Header
    BY <1>1, <1>5, <2>1, <2>2, LoansApart
  <2> HIDE DEF new
  <2> QED  BY <1>4, <2>3, <2>4 DEF Abstract!Apart
<1> HIDE DEF new
<1>8. Abstract!Lend(new)
  BY <1>1, <1>6, <1>7 DEF Abstract!Lend
<1> QED  BY <1>3, <1>8 DEF Abstract!Next

LEMMA StepRefines ==
    ASSUME IInv, [Next]_vars
    PROVE  [Abstract!Next]_loans
<1>1. ASSUME NEW l \in loans, NEW t \in Threads, Free(t, l)  PROVE Abstract!Next
  <2>1. l \in Abstract!Loan
    BY <1>1 DEF IInv, TypeOK, Abstract!Loan
  <2>2. Abstract!Return(l)
    BY <1>1 DEF Free, Abstract!Return
  <2> QED  BY <2>1, <2>2 DEF Abstract!Next
<1>2. ASSUME NEW t \in Threads, malloc(t), ~Return(t)  PROVE UNCHANGED loans
  BY <1>2 DEF malloc, Enter, Skip, Reuse, Grow, Panic
<1>3. ASSUME NEW t \in Threads, NEW n \in Sizes, Malloc(t, n)  PROVE UNCHANGED loans
  BY <1>3 DEF Malloc
<1>4. ASSUME NEW t \in Threads, Wipe(t)  PROVE UNCHANGED loans
  BY <1>4 DEF Wipe
<1>5. ASSUME NEW l \in loans, Write(l)  PROVE UNCHANGED loans
  BY <1>5 DEF Write
<1>6. ASSUME scrub \/ ScrubLock  PROVE UNCHANGED loans
  BY <1>6 DEF scrub, ScrubLock, ScrubEnter, ScrubLook, ScrubStop, ScrubClear
<1>7. CASE UNCHANGED vars
  BY <1>7 DEF vars
<1> QED
  BY <1>1, <1>2, <1>3, <1>4, <1>5, <1>6, <1>7, ReturnLends DEF Next

\* What malloc returns lies inside the heap and no byte of it is lent twice
\* before it is freed.
THEOREM Implementation == Spec => ImplementsAllocator
<1>1. Init => Abstract!Init
  BY DEF Init, Abstract!Init
<1>2. IInv /\ [Next]_vars => [Abstract!Next]_loans
  BY StepRefines
<1>3. Spec => Abstract!Spec
  BY <1>1, <1>2, Invariance, PTL DEF Spec, Abstract!Spec
<1> QED  BY <1>3 DEF ImplementsAllocator
=============================================================================
