-------------------------------- MODULE Heap --------------------------------
(***************************************************************************)
(* The kernel heap of src/memory.c and its scrubber, the thread            *)
(* services_heap of src/services.c.                                        *)
(*                                                                         *)
(* The heap is a chain of blocks: a header (alloc_t), the payload and a    *)
(* gap of four bytes, then the next header.  malloc walks the chain under  *)
(* malloc_mutex, takes the first free block that is large enough or starts *)
(* a new block at last_alloc.  free takes no mutex: it clears the status   *)
(* and then the payload.  The timer may fall between any two steps below.  *)
(* One round of a walk is one step: the header it looks at can only change *)
(* from used to free meanwhile, because only the owner of the mutex sets a *)
(* status.                                                                 *)
(*                                                                         *)
(* The mutex is the FIFO queue that module Mutex shows it to be.           *)
(* needs_alligning stays 0: nothing calls malloc_a or malloc_ap.           *)
(***************************************************************************)
EXTENDS Integers, SequencesExt

CONSTANTS
    Threads,    \* the threads that allocate and free
    Scrubber,   \* the thread that runs services_heap
    Sizes,      \* the sizes asked of malloc
    HeapBegin,  \* heap_begin
    HeapEnd,    \* heap_end
    Header,     \* sizeof(alloc_t)
    Gap         \* the 4 bytes behind a payload

\* The sums of malloc do not wrap: sizes are small against 2^32 - heap_end.
ASSUME HeapAssumption ==
    /\ HeapBegin \in Nat
    /\ HeapEnd \in Nat
    /\ HeapBegin < HeapEnd
    /\ Sizes \subseteq Nat \ {0}
    /\ Header \in Nat \ {0}
    /\ Gap \in Nat
    /\ Scrubber \notin Threads

VARIABLES
    last_alloc,     \* the end of the chain
    size,           \* alloc_t.size of a header at an address; 0 where none is
    status,         \* alloc_t.status of a header at an address
    content,        \* who wrote last to the payload behind a header, or Zero
    malloc_queue,   \* malloc_mutex: the threads waiting for it, its owner first
    pc,             \* what a thread is doing
    mem,            \* the header it is looking at
    want,           \* the size it asked for
    loans           \* the memory that malloc returned and free did not get yet

vars == <<last_alloc, size, status, content, malloc_queue, pc, mem, want, loans>>

Actors == Threads \cup {Scrubber}
Addresses == HeapBegin .. HeapEnd - 1
Zero == Scrubber            \* nobody's data: what memset leaves

\* What a thread does: outside the heap code; inside malloc; inside free; a
\* round of the scrubber.
Doing == {"run", "wait", "walk", "clear", "panic", "wipe",
          "scrubWait", "scrub", "scrubClear"}

Headers == {a \in Addresses : size[a] # 0}
Successor(a) == a + size[a] + Header + Gap
Block(l) == l.at - Header

TypeOK ==
    /\ last_alloc \in HeapBegin .. HeapEnd + Gap - 1
    /\ size \in [Addresses -> Sizes \cup {0}]
    /\ status \in [Addresses -> {0, 1}]
    /\ content \in [Addresses -> Actors]
    /\ malloc_queue \in Seq(Actors)
    /\ pc \in [Actors -> Doing]
    /\ mem \in [Actors -> HeapBegin .. HeapEnd + Gap - 1]
    /\ want \in [Actors -> Sizes \cup {0}]
    /\ loans \subseteq [to : Threads, at : HeapBegin .. HeapEnd, size : Sizes]

Init ==
    /\ last_alloc = HeapBegin
    /\ size = [a \in Addresses |-> 0]
    /\ status = [a \in Addresses |-> 0]
    /\ content = [a \in Addresses |-> Zero]
    /\ malloc_queue = <<>>
    /\ pc = [t \in Actors |-> "run"]
    /\ mem = [t \in Actors |-> HeapBegin]
    /\ want = [t \in Actors |-> 0]
    /\ loans = {}

Goto(t, step) == pc' = [pc EXCEPT ![t] = step]

-----------------------------------------------------------------------------
(* malloc_mutex *)

\* mutexlock(malloc_mutex): the queueing half, then the waiting half.
Queue(t, step) ==
    /\ malloc_queue' = Append(malloc_queue, t)
    /\ Goto(t, step)

First(t) == malloc_queue # <<>> /\ Head(malloc_queue) = t

\* mutexunlock(malloc_mutex)
Unlock == malloc_queue' = Tail(malloc_queue)

-----------------------------------------------------------------------------
(* malloc(n) *)

Malloc(t, n) ==
    /\ pc[t] = "run"
    /\ want' = [want EXCEPT ![t] = n]
    /\ Queue(t, "wait")
    /\ UNCHANGED <<last_alloc, size, status, content, mem, loans>>

Enter(t) ==
    /\ pc[t] = "wait"
    /\ First(t)
    /\ mem' = [mem EXCEPT ![t] = HeapBegin]
    /\ Goto(t, "walk")
    /\ UNCHANGED <<last_alloc, size, status, content, malloc_queue, want, loans>>

\* The walk is on a header.
OnHeader(t) == mem[t] < last_alloc /\ size[mem[t]] # 0

\* Mutant of Fits: the comparison the other way round.
FitsSmaller(t) == status[mem[t]] = 0 /\ size[mem[t]] <= want[t]

Fits(t) == status[mem[t]] = 0 /\ size[mem[t]] >= want[t]

\* One round that takes nothing.
Skip(t) ==
    /\ pc[t] = "walk"
    /\ OnHeader(t)
    /\ ~Fits(t)
    /\ mem' = [mem EXCEPT ![t] = Successor(@)]
    /\ UNCHANGED <<last_alloc, size, status, content, malloc_queue, pc, want, loans>>

\* Mutant of Reuse: the block stays marked free.
ReuseStillFree(t) ==
    /\ pc[t] = "walk"
    /\ OnHeader(t)
    /\ Fits(t)
    /\ Goto(t, "clear")
    /\ UNCHANGED <<last_alloc, size, status, content, malloc_queue, mem, want, loans>>

\* The round that takes a free block; its header keeps the larger size.
Reuse(t) ==
    /\ pc[t] = "walk"
    /\ OnHeader(t)
    /\ Fits(t)
    /\ status' = [status EXCEPT ![mem[t]] = 1]
    /\ Goto(t, "clear")
    /\ UNCHANGED <<last_alloc, size, content, malloc_queue, mem, want, loans>>

\* Mutant of OutOfMemory: the header is forgotten.
OutOfMemoryBare(n) == last_alloc + n >= HeapEnd

OutOfMemory(n) == last_alloc + n + Header >= HeapEnd

\* Mutant of Grow: last_alloc moves without the gap.
GrowNoGap(t) ==
    /\ pc[t] = "walk"
    /\ ~OnHeader(t)
    /\ ~OutOfMemory(want[t])
    /\ status' = [status EXCEPT ![last_alloc] = 1]
    /\ size' = [size EXCEPT ![last_alloc] = want[t]]
    /\ last_alloc' = last_alloc + want[t] + Header
    /\ mem' = [mem EXCEPT ![t] = last_alloc]
    /\ Goto(t, "clear")
    /\ UNCHANGED <<content, malloc_queue, want, loans>>

\* nalloc: a new block at the end of the chain.
Grow(t) ==
    /\ pc[t] = "walk"
    /\ ~OnHeader(t)
    /\ ~OutOfMemory(want[t])
    /\ status' = [status EXCEPT ![last_alloc] = 1]
    /\ size' = [size EXCEPT ![last_alloc] = want[t]]
    /\ last_alloc' = last_alloc + want[t] + Header + Gap
    /\ mem' = [mem EXCEPT ![t] = last_alloc]
    /\ Goto(t, "clear")
    /\ UNCHANGED <<content, malloc_queue, want, loans>>

\* PANIC: the thread halts for ever and keeps the mutex.
Panic(t) ==
    /\ pc[t] = "walk"
    /\ ~OnHeader(t)
    /\ OutOfMemory(want[t])
    /\ Goto(t, "panic")
    /\ UNCHANGED <<last_alloc, size, status, content, malloc_queue, mem, want, loans>>

\* Mutant of Return: returns with the mutex locked.
ReturnLocked(t) ==
    /\ pc[t] = "clear"
    /\ content' = [content EXCEPT ![mem[t]] = Zero]
    /\ loans' = loans \cup {[to |-> t, at |-> mem[t] + Header, size |-> want[t]]}
    /\ Goto(t, "run")
    /\ UNCHANGED <<last_alloc, size, status, malloc_queue, mem, want>>

\* memset of the bytes asked for, mutexunlock, return.
Return(t) ==
    /\ pc[t] = "clear"
    /\ content' = [content EXCEPT ![mem[t]] = Zero]
    /\ Unlock
    /\ loans' = loans \cup {[to |-> t, at |-> mem[t] + Header, size |-> want[t]]}
    /\ Goto(t, "run")
    /\ UNCHANGED <<last_alloc, size, status, mem, want>>

-----------------------------------------------------------------------------
(* The borrower, and free *)

Write(l) ==
    /\ pc[l.to] = "run"
    /\ content' = [content EXCEPT ![Block(l)] = l.to]
    /\ UNCHANGED <<last_alloc, size, status, malloc_queue, pc, mem, want, loans>>

\* alloc->status = 0, by whoever holds the pointer: the borrower, or the
\* Process Manager for a dead thread.  Nobody frees a pointer twice.
Free(t, l) ==
    /\ pc[t] = "run"
    /\ status' = [status EXCEPT ![Block(l)] = 0]
    /\ loans' = loans \ {l}
    /\ mem' = [mem EXCEPT ![t] = Block(l)]
    /\ Goto(t, "wipe")
    /\ UNCHANGED <<last_alloc, size, content, malloc_queue, want>>

\* memset of the whole payload.
Wipe(t) ==
    /\ pc[t] = "wipe"
    /\ content' = [content EXCEPT ![mem[t]] = Zero]
    /\ Goto(t, "run")
    /\ UNCHANGED <<last_alloc, size, status, malloc_queue, mem, want, loans>>

-----------------------------------------------------------------------------
(* services_heap *)

ScrubLock ==
    /\ pc[Scrubber] = "run"
    /\ Queue(Scrubber, "scrubWait")
    /\ UNCHANGED <<last_alloc, size, status, content, mem, want, loans>>

\* Mutant of ScrubEnter: the mutex is not waited for.
ScrubEnterAtOnce ==
    /\ pc[Scrubber] = "scrubWait"
    /\ mem' = [mem EXCEPT ![Scrubber] = HeapBegin]
    /\ Goto(Scrubber, "scrub")
    /\ UNCHANGED <<last_alloc, size, status, content, malloc_queue, want, loans>>

ScrubEnter ==
    /\ pc[Scrubber] = "scrubWait"
    /\ First(Scrubber)
    /\ mem' = [mem EXCEPT ![Scrubber] = HeapBegin]
    /\ Goto(Scrubber, "scrub")
    /\ UNCHANGED <<last_alloc, size, status, content, malloc_queue, want, loans>>

\* After sleep(1), still inside the mutex, the scrubber looks at a header:
\* a free block is cleared next, a used one ends the round.
ScrubLook ==
    /\ pc[Scrubber] = "scrub"
    /\ OnHeader(Scrubber)
    /\ status[mem[Scrubber]] = 0
    /\ Goto(Scrubber, "scrubClear")
    /\ UNCHANGED <<last_alloc, size, status, content, malloc_queue, mem, want, loans>>

ScrubStop ==
    /\ pc[Scrubber] = "scrub"
    /\ OnHeader(Scrubber) => status[mem[Scrubber]] = 1
    /\ Unlock
    /\ Goto(Scrubber, "run")
    /\ UNCHANGED <<last_alloc, size, status, content, mem, want, loans>>

ScrubClear ==
    /\ pc[Scrubber] = "scrubClear"
    /\ content' = [content EXCEPT ![mem[Scrubber]] = Zero]
    /\ mem' = [mem EXCEPT ![Scrubber] = Successor(@)]
    /\ Goto(Scrubber, "scrub")
    /\ UNCHANGED <<last_alloc, size, status, malloc_queue, want, loans>>

-----------------------------------------------------------------------------
malloc(t) == Enter(t) \/ Skip(t) \/ Reuse(t) \/ Grow(t) \/ Panic(t) \/ Return(t)
scrub == ScrubEnter \/ ScrubLook \/ ScrubStop \/ ScrubClear

Next ==
    \/ \E t \in Threads : malloc(t) \/ Wipe(t)
    \/ \E t \in Threads, n \in Sizes : Malloc(t, n)
    \/ \E l \in loans : Write(l) \/ \E t \in Threads : Free(t, l)
    \/ ScrubLock \/ scrub

Spec == Init /\ [][Next]_vars

\* The scheduler starves nobody and wakes every sleeper (Tasking!NoStarvation
\* and Tasking!SleepersRun): a thread inside malloc or a round of the scrubber
\* gets on.  Nobody is obliged to call malloc, to write or to free.
FairSpec == Spec /\ (\A t \in Threads : WF_vars(malloc(t))) /\ WF_vars(scrub)

-----------------------------------------------------------------------------
(* Properties. *)

\* The walks of malloc and of the scrubber stay on the chain: the first
\* header is at heap_begin, behind every block is the next header or
\* last_alloc, blocks do not overlap, and a walk that is on its way never
\* stands anywhere else.  So `if(!a->size)` never ends a walk early.
ChainSound ==
    /\ HeapBegin \in Headers \cup {last_alloc}
    /\ \A a \in Headers : Successor(a) \in Headers \cup {last_alloc}
    /\ \A a, b \in Headers : a < b => Successor(a) <= b
    /\ \A a \in Headers : Successor(a) <= last_alloc
    /\ \A t \in Actors : pc[t] \in {"walk", "scrub"} => mem[t] \in Headers \cup {last_alloc}

\* Every loan is backed by a used block of its own that is large enough, and
\* nobody inside malloc is about to hand that block out again.
LoansBacked ==
    /\ \A l \in loans :
        /\ Block(l) \in Headers
        /\ status[Block(l)] = 1
        /\ l.size <= size[Block(l)]
        /\ \A m \in loans : Block(m) = Block(l) => m = l
        /\ \A t \in Actors : pc[t] = "clear" => mem[t] # Block(l)

\* The scrubber acts on a status it read earlier.  The block it is about to
\* clear is still free, and nobody's.
ScrubsFreeBlocks ==
    pc[Scrubber] = "scrubClear" =>
        /\ status[mem[Scrubber]] = 0
        /\ \A l \in loans : Block(l) # mem[Scrubber]
        /\ \A t \in Threads : pc[t] = "clear" => mem[t] # mem[Scrubber]

\* malloc and free are an allocator: what is lent lies inside the heap and
\* no byte is lent twice.
Abstract == INSTANCE Allocator WITH
    Low <- HeapBegin,
    High <- HeapEnd,
    lent <- loans
ImplementsAllocator == Abstract!Spec

\* A call of malloc comes back, unless the heap is exhausted for somebody:
\* PANIC keeps the mutex.
MallocAnswers ==
    \A t \in Threads :
        pc[t] = "wait" ~> (pc[t] = "run" \/ \E s \in Threads : pc[s] = "panic")
=============================================================================
