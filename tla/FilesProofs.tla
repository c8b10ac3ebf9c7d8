----------------------------- MODULE FilesProofs -----------------------------
(***************************************************************************)
(* Proofs about the file system and the shell: the loops of fread move as  *)
(* many bytes as the file has, the search of fopen and fexists finds what  *)
(* the disk has, and only a cd of several pieces leaves the tree.          *)
(***************************************************************************)
EXTENDS Files, SequenceTheorems, WellFoundedInduction, TLAPS

-----------------------------------------------------------------------------
(* The inductive invariant of the reading loops. *)

Typed ==
    /\ disk \in Disks
    /\ currentDir \in Seq(Names)
    /\ phase \in {"prompt", "call", "read", "close"}
    /\ job \in {"cat", "load"}
    /\ size \in Int /\ progress \in Int /\ total \in Int
    /\ count \in Int /\ readBytes \in Int /\ offset \in Nat
    /\ left \in Int /\ skip \in Int

\* A file of at most 2 GiB, without the last sector of them.
Small == size >= 0 /\ Below2GiB

\* No sum of such a file leaves the natural numbers.
InNat ==
    /\ size \in Nat /\ progress \in Nat /\ total \in Nat
    /\ phase = "read" => count \in Nat /\ readBytes \in Nat

\* What one call of fread is to move: the count it was given, cut at the end
\* of the file.
Goal == IF total + Request >= size THEN size - total ELSE Request

\* Between two calls: load calls once, and where cat stands the remainder of
\* toread, with its operands the wrong way round, is 0 or a whole sector.
BetweenCalls ==
    /\ total = progress /\ progress <= size
    /\ job = "load" => progress = 0
    /\ progress \in {0, size} \/ progress >= Sector

\* In the loops: what is moved and what is missing make up the goal, and the
\* loops end when nothing is missing, no sooner.
InLoops ==
    /\ total + readBytes = progress /\ progress <= size
    /\ total <= size
    /\ readBytes + count = Goal
    /\ left <= 0 <=> count = 0

\* cat, with something to read, moves it in one round, when the sectors
\* behind progress are skipped; SIZE lasts until then.
CatWaits ==
    job = "cat" /\ count > 0 =>
        /\ readBytes = 0
        /\ progress = 0 \/ progress >= Sector
        /\ skip >= 0
        /\ left > skip * Sector

\* load moves the first sector, then all but the last, then the last.
LoadStages ==
    job = "load" /\ count > 0 =>
        /\ total = 0
        /\ \/ progress = 0 /\ skip = 0 /\ left = size
           \/ progress = Sector /\ skip < 0 /\ left >= size - Sector
           \/ progress > Sector /\ skip < 0 /\ count <= Sector

ReadInv ==
    /\ phase = "call" => BetweenCalls
    /\ phase = "read" => InLoops /\ CatWaits /\ LoadStages
    /\ job = "load" /\ phase = "read" => total = 0
    /\ phase = "close" => total = size

\* cat of a file with a negative size: its only call cuts the count to the
\* size and does not go into the loops.
Nothing ==
    /\ progress = 0
    /\ phase \in {"call", "read", "close"} => job = "cat" /\ total = 0
    /\ phase = "read" => left = 0 /\ readBytes = 0

IInv ==
    /\ Typed
    /\ Small => InNat /\ ReadInv
    /\ size < 0 => Nothing
-----------------------------------------------------------------------------
(* What is cached of a directory. *)

\* A set of natural numbers that is not empty has a least element: what fails
\* for some number fails first at one.
LEMMA LeastNat ==
    ASSUME NEW T \in SUBSET Nat, T # {}
    PROVE  \E n \in T : \A k \in T : n <= k
<1> DEFINE R == {ss \in Nat \X Nat : ss[1] < ss[2]}
<1>1. PICK n \in T : \A k \in T : ~(<<k, n>> \in R)
  <2>1. IsWellFoundedOn(R, Nat)
    BY NatLessThanWellFounded DEF OpToRel
  <2> HIDE DEF R
  <2> QED BY <2>1, WFMin
<1>2. \A k \in T : k < n => <<k, n>> \in R
  OBVIOUS
<1> HIDE DEF R
<1>3. \A k \in T : ~(k < n)
  BY <1>1, <1>2
<1> QED BY <1>3

\* cache_search_directory takes entries of the directory, and all of them
\* when they fit a sector.
LEMMA CachedEntries ==
    ASSUME Typed, NEW dir \in DOMAIN disk
    PROVE  /\ Live(dir) \in Seq(Entry) /\ Cached(dir) \in Seq(Entry)
           /\ Len(Live(dir)) <= PerSector => Cached(dir) = Live(dir)
<1>1. disk[dir] \in Seq(Entry)
  BY FilesAssumption DEF Typed
<1> DEFINE ends == {i \in 1 .. Len(disk[dir]) : disk[dir][i].kind = "end"}
<1>2. ends # {} => Min(ends) \in 1 .. Len(disk[dir])
  <2>1. ends \in SUBSET Nat
    BY <1>1
  <2>2. ends # {} => \E n \in ends : \A k \in ends : n <= k
    BY <2>1, LeastNat
  <2> QED BY <2>2 DEF Min
<1>3. \A n \in 0 .. Len(disk[dir]) : SubSeq(disk[dir], 1, n) \in Seq(Entry)
  BY <1>1
<1>4. Live(dir) \in Seq(Entry)
  <2>1. CASE ends = {}
    BY <1>1, <2>1 DEF Live, SelectInSeq
  <2>2. CASE ends # {}
    <3>1. Live(dir) = SubSeq(disk[dir], 1, Min(ends) - 1)
      <4>1. SelectInSeq(disk[dir], LAMBDA e : e.kind = "end") = Min(ends)
        BY <2>2 DEF SelectInSeq
      <4>2. Min(ends) # 0
        BY <1>2, <2>2
      <4> HIDE DEF ends
      <4> QED BY <4>1, <4>2 DEF Live
    <3>2. Min(ends) - 1 \in 0 .. Len(disk[dir])
      BY <1>1, <1>2, <2>2
    <3> QED BY <1>3, <3>1, <3>2
  <2> QED BY <2>1, <2>2
<1> DEFINE n == Min({Len(Live(dir)), PerSector})
<1>5. n \in 0 .. Len(Live(dir)) /\ (Len(Live(dir)) <= PerSector => n = Len(Live(dir)))
  <2>1. Len(Live(dir)) \in Nat /\ PerSector \in Nat
    BY <1>4, FilesAssumption
  <2> QED BY <2>1 DEF Min
<1>6. Cached(dir) = SubSeq(Live(dir), 1, n)
  BY DEF Cached, FirstSector
<1>7. SubSeq(Live(dir), 1, Len(Live(dir))) = Live(dir)
  BY <1>4, SubSeqFull
<1> HIDE DEF n
<1>8. SubSeq(Live(dir), 1, n) \in Seq(Entry)
  BY <1>4, <1>5
<1> QED BY <1>4, <1>5, <1>6, <1>7, <1>8

\* A node with an entry belongs to a directory of the disk.
LEMMA InNode ==
    ASSUME NEW dir, NEW kind, NEW name, Named(Node(dir), kind, name) # {}
    PROVE  /\ dir \in DOMAIN disk /\ Node(dir) = Cached(dir)
           /\ Named(Node(dir), kind, name) \in SUBSET DOMAIN Cached(dir)
<1>1. dir \in DOMAIN disk
  <2>1. \A i : i \notin DOMAIN <<>>
    OBVIOUS
  <2> QED BY <2>1 DEF Named, Node
<1> QED BY <1>1 DEF Named, Node

\* Of the entries with a name, the one that fopen takes, the last, exists.
LEMMA LastFound ==
    ASSUME Typed, NEW dir \in DOMAIN disk, NEW found \in SUBSET DOMAIN Cached(dir),
           found # {}
    PROVE  (CHOOSE i \in found : \A j \in found : j <= i) \in found
<1>1. Cached(dir) \in Seq(Entry)
  BY CachedEntries
<1> DEFINE behind == {k \in Nat : \A j \in found : j <= k}
<1>2. Len(Cached(dir)) \in behind /\ behind \in SUBSET Nat /\ found \subseteq Nat \ {0}
  BY <1>1
<1>3. PICK k \in behind : \A m \in behind : k <= m
  <2> HIDE DEF behind
  <2> QED BY <1>2, LeastNat
<1>4. k \in found
  <2> SUFFICES ASSUME k \notin found  PROVE FALSE
    OBVIOUS
  <2>1. \A j \in found : j <= k - 1
    BY <1>2, <1>3
  <2>2. k - 1 \in Nat
    <3>1. PICK j \in found : TRUE
      OBVIOUS
    <3> QED BY <1>2, <2>1, <3>1
  <2>3. k - 1 \in behind
    BY <2>1, <2>2
  <2> QED BY <1>3, <2>3
<1> QED BY <1>3, <1>4

\* Within the range of an int32_t nothing wraps.
LEMMA SignedFacts ==
    ASSUME NEW n \in Int
    PROVE  /\ Signed(n) \in Int
           /\ 2 * n < WordSize /\ n >= 0 => Signed(n) = n
BY FilesAssumption DEF Signed

\* fopen gives a file a size.
LEMMA FopenSize ==
    ASSUME Typed, NEW path
    PROVE  fopen(path).size \in Int
<1> DEFINE parts == Parts(path)
           dir == Reached(parts)
           found == IF parts = <<>> THEN {} ELSE Named(Node(dir), "file", Target(parts))
           i == CHOOSE i \in found : \A j \in found : j <= i
<1>1. CASE found = {}
  BY <1>1 DEF fopen, NoFile
<1>2. CASE found # {}
  <2>1. dir \in DOMAIN disk /\ found \in SUBSET DOMAIN Cached(dir) /\ Node(dir) = Cached(dir)
    BY <1>2, InNode
  <2>2. i \in found
    <3> HIDE DEF found, dir
    <3> QED BY <1>2, <2>1, LastFound
  <2>3. Cached(dir) \in Seq(Entry) /\ i \in DOMAIN Cached(dir)
    BY <2>1, <2>2, CachedEntries
  <2>4. Cached(dir)[i] \in Entry
    BY <2>3, ElementOfSeq
  <2>5. fopen(path).size = Signed(Cached(dir)[i].size)
    BY <1>2, <2>1 DEF fopen
  <2>6. Cached(dir)[i].size \in Int
    BY <2>4, FilesAssumption DEF Entry
  <2> QED BY <2>5, <2>6, SignedFacts
<1> QED BY <1>1, <1>2
-----------------------------------------------------------------------------
(* The loops of fread. *)

LEMMA InitReads == Init => IInv
BY FilesAssumption DEF Init, IInv, Typed, ReadInv, InNat, Nothing

\* The commands at the prompt.
LEMMA PromptReads ==
    ASSUME IInv, \/ \E arg \in Args : Cd(arg) \/ \E what \in {"cat", "load"} : Open(what, arg)
                 \/ CdUp \/ Close
    PROVE  IInv'
<1> USE DEF IInv
<1>1. \A arg \in Args : currentDir \o arg \in Seq(Names)
  BY FilesAssumption DEF Typed
<1>2. ASSUME NEW arg \in Args, Cd(arg)  PROVE IInv'
  BY <1>1, <1>2 DEF Cd, Typed, ReadInv, InNat, Nothing, Small, Below2GiB, file, reading
<1>3. ASSUME NEW arg \in Args, NEW what \in {"cat", "load"}, Open(what, arg)  PROVE IInv'
  <2>1. /\ size' \in Int /\ progress' = 0 /\ total' = 0 /\ phase' = "call"
        /\ job' \in {"cat", "load"} /\ (size' < 0 => job' = "cat")
    BY <1>3, FopenSize DEF Open
  <2>2. Typed'
    BY <1>3, <2>1 DEF Open, Typed, reading
  <2>3. size' >= 0 => ReadInv'
    BY <2>1 DEF ReadInv, BetweenCalls
  <2>4. size' < 0 => Nothing'
    BY <2>1 DEF Nothing
  <2>5. size' >= 0 => InNat'
    BY <2>1 DEF InNat
  <2> QED BY <2>2, <2>3, <2>4, <2>5 DEF Small
<1>4. CASE CdUp
  <2>1. Front(currentDir) \in Seq(Names)
    BY DEF Front, Typed
  <2> QED
    BY <1>4, <2>1 DEF CdUp, Typed, ReadInv, InNat, Nothing, Small, Below2GiB, file, reading
<1>5. CASE Close
  BY <1>5 DEF Close, Typed, ReadInv, InNat, Nothing, Small, Below2GiB, file, reading
<1> QED BY <1>2, <1>3, <1>4, <1>5

LEMMA ToReadInt ==
    ASSUME Typed
    PROVE  ToRead \in Int
<1> DEFINE d == IF progress < 0 THEN 0 - progress ELSE progress
<1>1. progress # 0 => d \in Nat /\ d > 0
  BY DEF Typed
<1>2. Sector \in Nat /\ count \in Int
  BY FilesAssumption DEF Typed
<1> HIDE DEF d
<1>3. progress # 0 => (Sector % d) \in Int
  BY <1>1, <1>2
<1> QED BY <1>2, <1>3 DEF ToRead, d

\* The steps of fread stay with the integers, whatever wraps.
LEMMA ReadTyped ==
    ASSUME Typed, Call \/ ReadSector \/ Return
    PROVE  Typed'
<1>1. Sector \in Nat /\ Sector > 0 /\ Request \in Int
  BY FilesAssumption DEF Typed, Request
<1>2. CASE Call
  <2>1. Cut \in Int
    BY <1>1, SignedFacts DEF Cut, Typed
  <2>2. Skipped \in Int
    BY <1>1 DEF Skipped, Typed
  <2> QED BY <1>2, <2>1, <2>2 DEF Call, Typed, file
<1>3. CASE ReadSector
  <2> DEFINE n == IF skip <= 0 THEN ToRead ELSE 0
  <2>1. n \in Int
    BY <1>1, ToReadInt
  <2>2. /\ count' = count - n /\ readBytes' = readBytes + n /\ progress' = Signed(progress + n)
        /\ skip' \in {skip, skip - 1} /\ left' \in {0, left, left - Sector}
        /\ offset' \in {0, offset, offset + 1}
        /\ UNCHANGED <<disk, currentDir, phase, job, size, total>>
    BY <1>3 DEF ReadSector
  <2> HIDE DEF n
  <2>3. count' \in Int /\ readBytes' \in Int /\ progress' \in Int /\ left' \in Int
        /\ skip' \in Int /\ offset' \in Nat
    BY <1>1, <2>1, <2>2, SignedFacts DEF Typed
  <2> QED BY <2>2, <2>3 DEF Typed
<1>4. CASE Return
  BY <1>4 DEF Return, Typed, file, reading
<1> QED BY <1>2, <1>3, <1>4

\* Up to the loops.  Of the sectors behind progress, rounded up, one less
\* than all lies before the end of the file.
LEMMA CallReads ==
    ASSUME Typed, InNat, ReadInv, Below2GiB, Call
    PROVE  InNat' /\ ReadInv'
<1>1. InNat /\ BetweenCalls /\ job \in {"cat", "load"}
  BY DEF Call, ReadInv, Typed
<1>2. Sector \in Nat /\ Sector > 0
  BY FilesAssumption
<1>3. UNCHANGED <<disk, currentDir, job, size, progress, total, Request>> /\ phase' = "read"
  BY DEF Call, file, Request
<1>5. Request \in Nat /\ (job = "load" => Request = size) /\ (job = "cat" => Request = Sector)
  BY <1>1, <1>2 DEF Request, InNat
<1>4. count' = (IF progress + Request >= size THEN size - progress ELSE Request)
  <2>1. 2 * (progress + Request) < WordSize /\ 2 * (size - progress) < WordSize
    BY <1>1, <1>2, <1>5, FilesAssumption DEF InNat, BetweenCalls, Below2GiB
  <2>2. Signed(progress + Request) = progress + Request /\ Signed(size - progress) = size - progress
    BY <1>1, <1>5, <2>1, SignedFacts DEF InNat, BetweenCalls
  <2> QED BY <2>2 DEF Call, Cut
<1>6. count' \in Nat /\ count' = Goal' /\ (count' = 0 <=> progress = size)
  BY <1>1, <1>2, <1>3, <1>4, <1>5 DEF Goal, InNat, BetweenCalls
<1> DEFINE before == (progress + Sector - 1) \div Sector - 1
<1>7. progress > 0 => before \in Nat /\ before * Sector < progress
  BY <1>1, <1>2 DEF InNat
<1>8. skip' = IF progress = 0 THEN 0 ELSE before
  BY <1>1 DEF Call, Skipped, InNat
<1>9. left' = (IF progress >= size THEN 0 ELSE size) /\ readBytes' = 0 /\ offset' = 0
  BY DEF Call
<1> HIDE DEF before
<1>10. skip' \in Nat /\ (progress < size => left' > skip' * Sector)
  <2>1. CASE progress = 0
    BY <1>1, <1>2, <1>8, <1>9, <2>1 DEF InNat
  <2>2. CASE progress > 0
    <3>1. skip' = before /\ before \in Nat /\ before * Sector \in Int
      BY <1>2, <1>7, <1>8, <2>2
    <3> QED BY <1>1, <1>7, <1>9, <2>2, <3>1 DEF InNat
  <2> QED BY <1>1, <2>1, <2>2 DEF InNat
<1>11. InNat'
  BY <1>1, <1>3, <1>6, <1>9 DEF InNat
<1>12. /\ size' = size /\ progress' = progress /\ total' = total /\ job' = job
       /\ size \in Nat /\ progress \in Nat /\ progress <= size /\ total = progress
  BY <1>1, <1>3 DEF BetweenCalls, InNat
<1>13. InLoops'
  <2>1. left' <= 0 <=> count' = 0
    BY <1>6, <1>9, <1>12
  <2>2. total' + readBytes' = progress'
    BY <1>9, <1>12
  <2>3. readBytes' + count' = Goal'
    <3>1. readBytes' = 0 /\ count' \in Nat
      BY <1>6, <1>9
    <3>2. \A b, c : b = 0 /\ c \in Nat => b + c = c
      OBVIOUS
    <3> QED BY <1>6, <3>1, <3>2
  <2> QED BY <1>12, <2>1, <2>2, <2>3 DEF InLoops
<1>14. CatWaits'
  <2>1. count' > 0 => progress < size
    BY <1>6, <1>12
  <2>2. progress < size => progress = 0 \/ progress >= Sector
    BY <1>1, <1>2, <1>12 DEF BetweenCalls
  <2> QED BY <1>9, <1>10, <1>12, <2>1, <2>2 DEF CatWaits
<1>15. LoadStages' /\ (job' = "load" => total' = 0)
  BY <1>1, <1>3, <1>6, <1>8, <1>9 DEF LoadStages, BetweenCalls, InNat
<1> QED BY <1>3, <1>11, <1>13, <1>14, <1>15 DEF ReadInv

\* One round: cat's moves everything or skips, load's three stages follow
\* each other.
LEMMA SectorReads ==
    ASSUME Typed, InNat, ReadInv, Below2GiB, ReadSector
    PROVE  InNat' /\ ReadInv'
<1>1. /\ InLoops /\ CatWaits /\ LoadStages /\ left > 0 /\ phase = "read"
      /\ left \in Int /\ skip \in Int /\ offset \in Nat /\ job \in {"cat", "load"}
  BY DEF ReadSector, ReadInv, Typed
<1>2. Sector \in Nat /\ Sector > 0
  BY FilesAssumption
<1> DEFINE n == IF skip <= 0 THEN ToRead ELSE 0
<1>3. /\ count' = count - n /\ readBytes' = readBytes + n /\ progress' = Signed(progress + n)
      /\ UNCHANGED <<disk, currentDir, phase, job, size, total>>
  BY DEF ReadSector
<1>4. /\ count' <= 0 => left' = 0 /\ skip' = skip /\ offset' = offset
      /\ count' > 0 => /\ skip' = skip - 1 /\ left' \in {left, left - Sector}
                       /\ offset' \in {0, offset + 1}
      /\ count' \in Int
  <2>1. count' \in Int
    <3>1. ToRead \in Int
      BY ToReadInt
    <3> QED BY <1>1, <1>3, <3>1 DEF InNat
  <2>2. count' > 0 => ~(count' <= 0)
    BY <2>1
  <2> QED BY <2>1, <2>2 DEF ReadSector
<1>5. /\ size \in Nat /\ progress \in Nat /\ total \in Nat /\ count \in Nat /\ readBytes \in Nat
      /\ left \in Int /\ skip \in Int /\ total + readBytes = progress /\ progress <= size
      /\ readBytes + count = Goal /\ count > 0
  BY <1>1 DEF InNat, InLoops
<1>6. Goal' = Goal /\ Goal <= size - total /\ (job = "cat" => Goal <= Sector)
      /\ (job = "load" /\ total = 0 => Goal = size)
  BY <1>1, <1>2, <1>3, <1>5 DEF Goal, Request, InNat
<1>0. n \in 0 .. count => progress' = progress + n
  <2> HIDE DEF n
  <2>1. ASSUME n \in 0 .. count  PROVE progress' = progress + n
    <3>1. n \in Int /\ progress + n >= 0 /\ progress + n <= size
      BY <1>5, <1>6, <2>1
    <3>2. 2 * (progress + n) < WordSize
      BY <1>2, <1>5, <3>1, FilesAssumption DEF Below2GiB
    <3> QED BY <1>3, <1>5, <3>1, <3>2, SignedFacts
  <2> QED BY <2>1
\* It is enough to know what is moved, and when the loops go on.
<1>7. SUFFICES /\ n \in 0 .. count
               /\ n < count => left' > 0
               /\ CatWaits' /\ LoadStages'
  <2> HIDE DEF n
  <2>1. ASSUME n \in 0 .. count, n < count => left' > 0, CatWaits', LoadStages'
        PROVE  InNat' /\ ReadInv'
    <3>0. progress' = progress + n
      BY <1>0, <2>1
    <3>1. count' \in Nat /\ readBytes' \in Nat /\ progress' \in Nat /\ progress' <= size
      BY <1>3, <1>5, <1>6, <2>1, <3>0
    <3>2. left' \in Int /\ skip' \in Int /\ offset' \in Nat
      BY <1>1, <1>2, <1>4
    <3>3. InNat'
      BY <1>1, <1>3, <1>5, <3>1, <3>2 DEF InNat
    <3>4. InLoops'
      <4>1. total' + readBytes' = progress' /\ progress' <= size' /\ total' <= size'
        BY <1>3, <1>5, <2>1, <3>0, <3>1
      <4>2. readBytes' + count' = Goal'
        BY <1>3, <1>5, <1>6, <2>1
      <4>3. left' <= 0 <=> count' = 0
        BY <1>3, <1>4, <1>5, <2>1, <3>1, <3>2
      <4> QED BY <4>1, <4>2, <4>3 DEF InLoops
    <3> QED BY <1>1, <1>3, <2>1, <3>3, <3>4 DEF ReadInv, InLoops, LoadStages
  <2> QED BY <2>1
<1>8. CASE job = "cat"
  <2>1. /\ readBytes = 0 /\ (progress = 0 \/ progress >= Sector)
        /\ skip >= 0 /\ left > skip * Sector
    BY <1>1, <1>5, <1>8 DEF CatWaits
  <2>2. LoadStages'
    BY <1>3, <1>8 DEF LoadStages
  <2>3. CASE skip > 0
    <3>1. n = 0
      BY <1>5, <2>3
    <3>2. count' = count /\ readBytes' = readBytes /\ progress' = progress
      BY <1>0, <1>3, <1>5, <3>1
    <3>3. skip' = skip - 1 /\ left' >= left - Sector
      BY <1>2, <1>4, <1>5, <3>2
    <3>4. (skip - 1) * Sector = skip * Sector - Sector /\ skip * Sector \in Int
          /\ (skip - 1) * Sector >= 0
      BY <1>2, <1>5, <2>3
    <3>5. left' \in Int
      BY <1>2, <1>4, <1>5
    <3>6. left' > skip' * Sector /\ left' > 0
      BY <1>2, <1>5, <2>1, <3>3, <3>4, <3>5
    <3>7. CatWaits'
      BY <1>3, <1>5, <2>1, <2>3, <3>2, <3>3, <3>6 DEF CatWaits
    <3> QED BY <1>5, <2>2, <3>1, <3>6, <3>7
  <2>4. CASE skip = 0
    <3>1. n = ToRead
      BY <2>4
    <3>2. count <= Sector
      BY <1>2, <1>5, <1>6, <1>8, <2>1
    <3>3. ToRead = count
      BY <1>2, <1>5, <2>1, <3>2 DEF ToRead
    <3>4. count' = 0
      BY <1>3, <1>5, <3>1, <3>3
    <3> QED BY <1>5, <2>2, <3>1, <3>3, <3>4 DEF CatWaits
  <2> QED BY <1>5, <2>1, <2>3, <2>4
<1>9. CASE job = "load"
  <2>1. /\ total = 0 /\ readBytes = progress /\ progress + count = size
        /\ \/ progress = 0 /\ skip = 0 /\ left = size
           \/ progress = Sector /\ skip < 0 /\ left >= size - Sector
           \/ progress > Sector /\ skip < 0 /\ count <= Sector
    BY <1>1, <1>5, <1>6, <1>9 DEF LoadStages
  <2>2. CatWaits'
    BY <1>3, <1>9 DEF CatWaits
  <2>3. n = ToRead
    BY <1>5, <2>1
  <2>4. CASE ToRead = count
    <3>1. count' = 0
      BY <1>3, <1>5, <2>3, <2>4
    <3> QED BY <1>5, <2>2, <2>3, <2>4, <3>1 DEF LoadStages
  <2>5. CASE ToRead # count
    <3>1. \/ progress = 0 /\ count > Sector /\ ToRead = Sector
          \/ progress = Sector /\ count > Sector /\ ToRead = count - Sector
      BY <1>2, <1>5, <2>1, <2>5 DEF ToRead
    <3>2. n \in 0 .. count /\ n < count /\ count' > 0
      BY <1>2, <1>3, <1>5, <2>3, <3>1
    <3>3. skip' = skip - 1 /\ left' \in Int /\ left' >= left - Sector
      <4>1. skip' = skip - 1 /\ left' \in {left, left - Sector}
        BY <1>4, <3>2
      <4> QED BY <1>2, <1>5, <4>1
    <3>4. CASE progress = 0 /\ count > Sector /\ ToRead = Sector
      <4>1. progress' = Sector /\ skip' < 0 /\ left' >= size - Sector /\ left' > 0
        BY <1>0, <1>2, <1>5, <2>1, <2>3, <3>2, <3>3, <3>4
      <4> QED BY <1>3, <2>1, <2>2, <3>2, <4>1 DEF LoadStages
    <3>5. CASE progress = Sector /\ count > Sector /\ ToRead = count - Sector
      <4>1. progress' > Sector /\ skip' < 0 /\ count' <= Sector
        BY <1>0, <1>2, <1>3, <1>5, <2>1, <2>3, <3>2, <3>3, <3>5
      <4>2. left' > 0
        BY <1>2, <1>5, <2>1, <3>3, <3>5
      <4> QED BY <1>3, <2>1, <2>2, <3>2, <4>1, <4>2 DEF LoadStages
    <3> QED BY <3>1, <3>4, <3>5
  <2> QED BY <2>4, <2>5
<1> HIDE DEF n
<1> QED BY <1>1, <1>8, <1>9

\* Behind the loops: the goal is reached.  cat stops at a goal of nothing,
\* which it has only at the end of the file.
LEMMA ReturnReads ==
    ASSUME Typed, InNat, ReadInv, Return
    PROVE  InNat' /\ ReadInv'
<1>1. /\ InLoops /\ left <= 0 /\ (job = "load" => total = 0)
      /\ left \in Int /\ phase = "read" /\ job \in {"cat", "load"}
  BY DEF Return, ReadInv, Typed
<1>2. Sector \in Nat /\ Sector > 0
  BY FilesAssumption
<1>3. /\ total' = total + readBytes /\ size' = size /\ progress' = progress /\ job' = job
      /\ phase' = IF job = "cat" /\ readBytes > 0 THEN "call" ELSE "close"
      /\ UNCHANGED <<disk, currentDir, reading>>
  BY DEF Return, file
<1>4. /\ size \in Nat /\ progress \in Nat /\ total \in Nat /\ readBytes \in Nat
      /\ count = 0 /\ total + readBytes = progress /\ progress <= size /\ total <= size
      /\ readBytes = Goal
  BY <1>1 DEF InLoops, InNat
<1>5. InNat'
  BY <1>3, <1>4 DEF InNat
<1>6. CASE job = "cat" /\ readBytes > 0
  <2>1. progress = size \/ progress >= Sector
    BY <1>2, <1>4, <1>6 DEF Goal, Request
  <2> QED BY <1>3, <1>4, <1>5, <1>6, <2>1 DEF ReadInv, BetweenCalls
<1>7. CASE ~(job = "cat" /\ readBytes > 0)
  <2>1. job = "cat" => readBytes = 0
    BY <1>4, <1>7
  <2>2. job = "cat" \/ job = "load"
    BY <1>1
  <2>3. total + readBytes = size
    BY <1>1, <1>2, <1>4, <2>1, <2>2 DEF Goal, Request
  <2> QED BY <1>3, <1>5, <1>7, <2>3 DEF ReadInv
<1> QED BY <1>6, <1>7

\* Of a file with a negative size no loop reads anything.
LEMMA NothingStays ==
    ASSUME Typed, size < 0, Nothing, Call \/ ReadSector \/ Return
    PROVE  size' < 0 /\ Nothing'
<1>1. CASE Call
  BY <1>1 DEF Call, file, Nothing, Typed
<1>2. CASE ReadSector
  BY <1>2 DEF ReadSector, Nothing
<1>3. CASE Return
  BY <1>3 DEF Return, file, Nothing, Typed
<1> QED BY <1>1, <1>2, <1>3

\* One step of fread.
LEMMA ReadStep ==
    ASSUME IInv, Call \/ ReadSector \/ Return
    PROVE  IInv'
<1>1. size' = size /\ size \in Int
  BY DEF Call, ReadSector, Return, file, IInv, Typed
<1>2. Small' <=> Small
  BY <1>1 DEF Small, Below2GiB
<1>3. Small => InNat' /\ ReadInv'
  BY CallReads, SectorReads, ReturnReads DEF IInv, Small
<1>4. size < 0 => Nothing'
  BY NothingStays DEF IInv
<1> QED BY <1>1, <1>2, <1>3, <1>4, ReadTyped DEF IInv

LEMMA ReadInvariance == Spec => []IInv
<1>1. ASSUME IInv, [Next]_vars  PROVE IInv'
  <2>1. CASE UNCHANGED vars
    BY <1>1, <2>1 DEF vars, file, reading, IInv, Typed, Small, Below2GiB, InNat, Nothing, ReadInv,
                      BetweenCalls, InLoops, CatWaits, LoadStages, Goal, Request
  <2>2. CASE Next
    <3>1. \/ \/ \E arg \in Args : Cd(arg) \/ \E what \in {"cat", "load"} : Open(what, arg)
             \/ CdUp \/ Close
          \/ Call \/ ReadSector \/ Return
      BY <2>2 DEF Next
    <3> QED BY <1>1, <3>1, PromptReads, ReadStep
  <2> QED BY <1>1, <2>1, <2>2
<1> QED BY <1>1, InitReads, PTL DEF Spec

\* cat and load move as many bytes as the file has, for every size of file
\* below 2 GiB (less its last sector), sector and cluster, and no call of fread
\* more than it was asked for; of a file from 2 GiB on, whose size is negative
\* as an int32_t, cat moves nothing.
THEOREM ReadsWholeCorrect == Spec => []ReadsWhole
<1>1. IInv => ReadsWhole
  <2>1. ASSUME IInv, Below2GiB, size >= 0, phase = "read"
        PROVE  readBytes <= Request /\ readBytes <= size /\ progress <= size
    <3>1. InNat /\ InLoops
      BY <2>1 DEF IInv, ReadInv, Small
    <3>2. Request \in Nat
      BY <3>1, FilesAssumption DEF Request, InNat
    <3> QED BY <2>1, <3>1, <3>2 DEF InLoops, Goal, InNat
  <2>2. ASSUME IInv, Below2GiB, size >= 0, phase = "close"
        PROVE  total = size
    BY <2>2 DEF IInv, ReadInv, Small
  <2>3. ASSUME IInv, size < 0
        PROVE  /\ progress <= 0
               /\ phase = "close" => total = 0
               /\ phase = "read" => readBytes <= 0
    BY <2>3 DEF IInv, Nothing
  <2>4. IInv => size \in Int
    BY DEF IInv, Typed
  <2> QED BY <2>1, <2>2, <2>3, <2>4 DEF ReadsWhole, Readable
<1> QED BY <1>1, ReadInvariance, PTL

-----------------------------------------------------------------------------
(* The pieces of a path.  strsplit goes along the string: what it has kept *)
(* after i pieces is a function of these pieces only.                      *)

KeptIs(f, path, n) ==
    f = [i \in 0 .. n |->
            IF i = 0 THEN <<>>
            ELSE IF path[i] = "" THEN f[i - 1] ELSE Append(f[i - 1], path[i])]

LEMMA KeptAt ==
    ASSUME NEW f, NEW path, NEW n \in Nat, KeptIs(f, path, n)
    PROVE  /\ f[0] = <<>>
           /\ \A i \in 1 .. n : f[i] = IF path[i] = "" THEN f[i - 1] ELSE Append(f[i - 1], path[i])
<1>1. \A i \in 0 .. n :
        f[i] = IF i = 0 THEN <<>>
               ELSE IF path[i] = "" THEN f[i - 1] ELSE Append(f[i - 1], path[i])
  BY DEF KeptIs
<1>2. 0 \in 0 .. n /\ \A i \in 1 .. n : i \in 0 .. n /\ i # 0
  OBVIOUS
<1>3. f[0] = <<>>
  BY <1>1, <1>2
<1>4. ASSUME NEW i \in 1 .. n
      PROVE  f[i] = IF path[i] = "" THEN f[i - 1] ELSE Append(f[i - 1], path[i])
  BY <1>1, <1>2
<1> QED BY <1>3, <1>4

\* Two searches along paths that begin alike keep the same pieces of it.
LEMMA KeptAlike ==
    ASSUME NEW f, NEW path, NEW n \in Nat, KeptIs(f, path, n),
           NEW g, NEW other, NEW m \in Nat, KeptIs(g, other, m), n <= m,
           \A i \in 1 .. n : path[i] = other[i]
    PROVE  f[n] = g[n]
<1> DEFINE apart == {k \in 0 .. n : f[k] # g[k]}
<1> SUFFICES ASSUME apart # {}  PROVE FALSE
  OBVIOUS
<1>1. PICK k \in apart : \A l \in apart : k <= l
  <2>1. apart \in SUBSET Nat
    OBVIOUS
  <2> HIDE DEF apart
  <2> QED BY <2>1, LeastNat
<1>2. /\ f[0] = <<>> /\ g[0] = <<>>
      /\ \A i \in 1 .. n : f[i] = IF path[i] = "" THEN f[i - 1] ELSE Append(f[i - 1], path[i])
      /\ \A i \in 1 .. m : g[i] = IF other[i] = "" THEN g[i - 1] ELSE Append(g[i - 1], other[i])
  BY KeptAt
<1>3. k \in 1 .. n /\ k \in 1 .. m /\ k - 1 \in 0 .. n /\ ~(k <= k - 1)
  <2>1. k # 0
    BY <1>1, <1>2
  <2> QED BY <1>1, <2>1
<1>4. f[k - 1] = g[k - 1]
  BY <1>1, <1>3
<1> QED BY <1>1, <1>2, <1>3, <1>4

LEMMA KeptExists ==
    ASSUME NEW path, NEW n \in Nat
    PROVE  \E f : KeptIs(f, path, n)
<1> DEFINE lacking == {k \in Nat : ~\E f : KeptIs(f, path, k)}
<1> SUFFICES ASSUME lacking # {}  PROVE FALSE
  OBVIOUS
<1>1. PICK m \in lacking : \A k \in lacking : m <= k
  <2>1. lacking \in SUBSET Nat
    OBVIOUS
  <2> HIDE DEF lacking
  <2> QED BY <2>1, LeastNat
<1>2. m # 0
  <2> DEFINE f == [i \in 0 .. 0 |-> <<>>]
  <2>1. f = [i \in 0 .. 0 |->
                IF i = 0 THEN <<>>
                ELSE IF path[i] = "" THEN f[i - 1] ELSE Append(f[i - 1], path[i])]
    <3>1. \A i \in 0 .. 0 : i = 0
      OBVIOUS
    <3> QED BY <3>1
  <2>2. KeptIs(f, path, 0)
    BY <2>1 DEF KeptIs
  <2> QED BY <1>1, <2>2
<1>3. m - 1 \in Nat /\ m - 1 \notin lacking
  BY <1>1, <1>2
<1>4. PICK f : KeptIs(f, path, m - 1)
  BY <1>3
<1> DEFINE add(v, i) == IF path[i] = "" THEN v ELSE Append(v, path[i])
           g == [i \in 0 .. m |-> IF i < m THEN f[i] ELSE add(f[m - 1], m)]
<1>5. f[0] = <<>> /\ \A i \in 1 .. m - 1 : f[i] = add(f[i - 1], i)
  <2> DEFINE l == m - 1
  <2>1. l \in Nat /\ KeptIs(f, path, l)
    BY <1>3, <1>4
  <2> HIDE DEF l
  <2>2. /\ f[0] = <<>>
        /\ \A i \in 1 .. l : f[i] = IF path[i] = "" THEN f[i - 1] ELSE Append(f[i - 1], path[i])
    BY <2>1, KeptAt
  <2> QED BY <2>2 DEF l
<1> HIDE DEF add
<1>6. \A i \in 0 .. m : g[i] = IF i = 0 THEN <<>> ELSE add(g[i - 1], i)
  <2> TAKE i \in 0 .. m
  <2>1. CASE i = 0
    BY <1>2, <1>5, <2>1
  <2>2. CASE i \in 1 .. m - 1
    <3>1. g[i] = f[i] /\ g[i - 1] = f[i - 1]
      BY <2>2
    <3> QED BY <1>5, <2>2, <3>1
  <2>3. CASE i = m
    <3>1. g[m - 1] = f[m - 1] /\ g[m] = add(f[m - 1], m)
      BY <1>2, <1>3
    <3> QED BY <1>2, <2>3, <3>1
  <2> QED BY <2>1, <2>2, <2>3
<1>7. KeptIs(g, path, m)
  <2>1. g = [i \in 0 .. m |-> g[i]]
    OBVIOUS
  <2> HIDE DEF g
  <2> QED BY <1>6, <2>1 DEF KeptIs, add
<1> QED BY <1>7

\* Parts is what such a function has at the end of the path.
LEMMA PartsKept ==
    ASSUME NEW path \in Seq(Names)
    PROVE  \E f : KeptIs(f, path, Len(path)) /\ Parts(path) = f[Len(path)]
<1>1. \E f : KeptIs(f, path, Len(path))
  BY KeptExists, LenProperties
<1> DEFINE kept == CHOOSE f : KeptIs(f, path, Len(path))
<1>2. KeptIs(kept, path, Len(path))
  BY <1>1
<1>3. Parts(path) = kept[Len(path)]
  BY DEF Parts, KeptIs
<1> QED BY <1>2, <1>3

\* A piece at the end of a path, when it is not empty, is the last part.
LEMMA PartsAppend ==
    ASSUME NEW path \in Seq(Names), NEW piece \in Names
    PROVE  Parts(Append(path, piece)) =
                IF piece = "" THEN Parts(path) ELSE Append(Parts(path), piece)
<1> DEFINE longer == Append(path, piece)
           n == Len(path)
<1>1. /\ longer \in Seq(Names) /\ Len(longer) = n + 1 /\ n \in Nat /\ longer[n + 1] = piece
      /\ \A i \in 1 .. n : path[i] = longer[i]
  OBVIOUS
<1> HIDE DEF longer
<1>2. PICK f : KeptIs(f, path, n) /\ Parts(path) = f[n]
  BY PartsKept
<1>3. PICK g : KeptIs(g, longer, n + 1) /\ Parts(longer) = g[n + 1]
  BY <1>1, PartsKept
<1> HIDE DEF n
<1>4. n + 1 \in Nat /\ n <= n + 1
  BY <1>1
<1>5. f[n] = g[n]
  BY <1>1, <1>2, <1>3, <1>4, KeptAlike
<1>6. g[n + 1] = IF piece = "" THEN g[n] ELSE Append(g[n], piece)
  <2>1. \A i \in 1 .. n + 1 :
            g[i] = IF longer[i] = "" THEN g[i - 1] ELSE Append(g[i - 1], longer[i])
    BY <1>3, <1>4, KeptAt
  <2>2. PICK k \in 1 .. n + 1 : k = n + 1 /\ k - 1 = n
    BY <1>1
  <2>3. g[k] = IF longer[k] = "" THEN g[k - 1] ELSE Append(g[k - 1], longer[k])
    BY <2>1
  <2> QED BY <1>1, <2>2, <2>3
<1> QED BY <1>2, <1>3, <1>5, <1>6 DEF longer

\* The parts are names.
LEMMA PartsNames ==
    ASSUME NEW path \in Seq(Names)
    PROVE  Parts(path) \in Seq(Names)
<1>1. PICK f : KeptIs(f, path, Len(path)) /\ Parts(path) = f[Len(path)]
  BY PartsKept
<1>2. Len(path) \in Nat /\ \A i \in 1 .. Len(path) : path[i] \in Names
  BY LenProperties, ElementOfSeq
<1> DEFINE wrong == {k \in 0 .. Len(path) : f[k] \notin Seq(Names)}
<1>3. wrong = {}
  <2> SUFFICES ASSUME wrong # {}  PROVE FALSE
    OBVIOUS
  <2>1. PICK k \in wrong : \A l \in wrong : k <= l
    <3>1. wrong \in SUBSET Nat
      OBVIOUS
    <3> HIDE DEF wrong
    <3> QED BY <3>1, LeastNat
  <2>2. f[0] = <<>> /\ \A i \in 1 .. Len(path) :
            f[i] = IF path[i] = "" THEN f[i - 1] ELSE Append(f[i - 1], path[i])
    BY <1>1, <1>2, KeptAt
  <2>3. k # 0
    <3>1. <<>> \in Seq(Names)
      OBVIOUS
    <3> QED BY <2>1, <2>2, <3>1
  <2>4. k \in 1 .. Len(path) /\ k - 1 \in 0 .. Len(path) /\ ~(k <= k - 1)
    BY <1>2, <2>1, <2>3
  <2>5. f[k - 1] \in Seq(Names) /\ path[k] \in Names
    BY <1>2, <2>1, <2>4
  <2>6. f[k] \in Seq(Names)
    <3>1. Append(f[k - 1], path[k]) \in Seq(Names)
      BY <2>5
    <3> QED BY <2>2, <2>4, <2>5, <3>1
  <2> QED BY <2>1, <2>6
<1> QED BY <1>1, <1>2, <1>3

LEMMA NoParts == Parts(<<>>) = <<>>
<1>1. <<>> \in Seq(Names) /\ Len(<<>>) = 0
  OBVIOUS
<1>2. PICK f : KeptIs(f, <<>>, 0) /\ Parts(<<>>) = f[0]
  BY <1>1, PartsKept
<1> QED BY <1>2, KeptAt

-----------------------------------------------------------------------------
(* The search along the parts. *)

\* All but the last part, and the way there.
LEMMA FrontFacts ==
    ASSUME NEW parts \in Seq(Names), parts # <<>>
    PROVE  /\ Len(parts) \in Nat \ {0}
           /\ Front(parts) \in Seq(Names) /\ Len(Front(parts)) = Len(parts) - 1
           /\ Last(parts) \in Names
           /\ Front(parts) = SubSeq(parts, 1, Len(parts) - 1)
           /\ \A i \in 1 .. Len(parts) - 1 : Front(parts)[i] = parts[i]
           /\ \A i \in 1 .. Len(parts) : SubSeq(Front(parts), 1, i - 1) = SubSeq(parts, 1, i - 1)
<1>1. Len(parts) \in Nat \ {0}
  BY EmptySeq, LenProperties
<1>2. \A i \in 1 .. Len(parts) : parts[i] \in Names
  BY ElementOfSeq
<1> DEFINE n == Len(parts) - 1
           front == SubSeq(parts, 1, n)
<1>3. n \in Nat /\ n < Len(parts)
  BY <1>1
<1> HIDE DEF n
<1>4. front \in Seq(Names) /\ Len(front) = n /\ \A i \in 1 .. n : front[i] = parts[i]
  BY <1>1, <1>2, <1>3
<1> HIDE DEF front
<1>5. ASSUME NEW i \in 1 .. Len(parts)
      PROVE  SubSeq(front, 1, i - 1) = SubSeq(parts, 1, i - 1)
  <2>1. i - 1 \in Nat /\ i - 1 <= n
    BY <1>1, <1>5 DEF n
  <2>2. PICK k \in Nat : k = i - 1 /\ k <= n
    BY <2>1
  <2>3. SubSeq(front, 1, k) = SubSeq(parts, 1, k)
    <3>1. /\ SubSeq(front, 1, k) \in Seq(Names) /\ Len(SubSeq(front, 1, k)) = k
          /\ \A j \in 1 .. k : SubSeq(front, 1, k)[j] = parts[j]
      BY <1>3, <1>4, <2>2
    <3>2. /\ SubSeq(parts, 1, k) \in Seq(Names) /\ Len(SubSeq(parts, 1, k)) = k
          /\ \A j \in 1 .. k : SubSeq(parts, 1, k)[j] = parts[j]
      BY <1>2, <1>3, <2>2
    <3> QED BY <3>1, <3>2, SeqEqual
  <2> QED BY <2>2, <2>3
<1>6. Front(parts) = front /\ n = Len(parts) - 1 /\ front = SubSeq(parts, 1, Len(parts) - 1)
  BY DEF Front, front, n
<1>7. Last(parts) \in Names
  BY <1>1, <1>2 DEF Last
<1> QED BY <1>1, <1>4, <1>5, <1>6, <1>7

\* The beginning of a path in the tree is in the tree.
LEMMA InTreePrefix ==
    ASSUME NEW path \in Seq(Names), InTree(path), NEW k \in 0 .. Len(path)
    PROVE  InTree(SubSeq(path, 1, k))
<1> DEFINE s == SubSeq(path, 1, k)
<1>1. \A i \in 1 .. Len(path) : path[i] \in Names
  BY ElementOfSeq
<1>2. s \in Seq(Names) /\ Len(s) = k /\ \A i \in 1 .. k : s[i] = path[i]
  BY <1>1
<1>3. ASSUME NEW i \in 1 .. k  PROVE SubSeq(s, 1, i - 1) = SubSeq(path, 1, i - 1)
  <2>1. SubSeq(path, 1, i - 1) = SubSeq(SubSeq(path, 1, k), 1, i - 1)
    BY <1>1
  <2> QED BY <2>1
<1> HIDE DEF s
<1>4. DOMAIN s = 1 .. k /\ 1 .. k \subseteq DOMAIN path
  BY <1>2
<1> QED BY <1>2, <1>3, <1>4 DEF InTree, s

\* A path with its last part is in the tree when the way there is and it is
\* listed there.
LEMMA InTreeLast ==
    ASSUME NEW parts \in Seq(Names), parts # <<>>
    PROVE  InTree(parts) <=> InTree(Front(parts)) /\ HasDir(Front(parts), Last(parts))
<1>0. /\ Len(parts) \in Nat \ {0}
      /\ Front(parts) \in Seq(Names) /\ Len(Front(parts)) = Len(parts) - 1
      /\ \A i \in 1 .. Len(parts) - 1 : Front(parts)[i] = parts[i]
      /\ \A i \in 1 .. Len(parts) : SubSeq(Front(parts), 1, i - 1) = SubSeq(parts, 1, i - 1)
  BY FrontFacts
<1>1. /\ DOMAIN parts = (1 .. Len(parts) - 1) \cup {Len(parts)}
      /\ DOMAIN Front(parts) = 1 .. Len(parts) - 1
      /\ 1 .. Len(parts) - 1 \subseteq 1 .. Len(parts)
  BY <1>0
<1>2. \A i \in 1 .. Len(parts) - 1 :
        HasDir(SubSeq(Front(parts), 1, i - 1), Front(parts)[i]) <=>
            HasDir(SubSeq(parts, 1, i - 1), parts[i])
  BY <1>0, <1>1
<1>3. SubSeq(parts, 1, Len(parts) - 1) = Front(parts) /\ parts[Len(parts)] = Last(parts)
  BY FrontFacts DEF Last
<1> QED BY <1>1, <1>2, <1>3 DEF InTree

\* On the disk: the same, with what the disk lists instead of the cache.
Lists(dir, name) ==
    \/ Len(dir) + 1 <= Len(Mount) /\ name = Mount[Len(dir) + 1] /\ dir = SubSeq(Mount, 1, Len(dir))
    \/ dir \in DOMAIN disk /\ Named(Live(dir), "dir", name) # {}

LEMMA OnDiskIs ==
    ASSUME NEW path \in Seq(Names)
    PROVE  OnDisk(path) <=> \A i \in DOMAIN path : Lists(SubSeq(path, 1, i - 1), path[i])
<1>1. ASSUME NEW i \in DOMAIN path
      PROVE  Len(SubSeq(path, 1, i - 1)) = i - 1 /\ Len(SubSeq(path, 1, i - 1)) + 1 = i
  BY <1>1
<1> QED BY <1>1 DEF OnDisk, Lists

LEMMA OnDiskLast ==
    ASSUME NEW parts \in Seq(Names), parts # <<>>
    PROVE  OnDisk(parts) <=> OnDisk(Front(parts)) /\ Lists(Front(parts), Last(parts))
<1>0. /\ Len(parts) \in Nat \ {0}
      /\ Front(parts) \in Seq(Names) /\ Len(Front(parts)) = Len(parts) - 1
      /\ \A i \in 1 .. Len(parts) - 1 : Front(parts)[i] = parts[i]
      /\ \A i \in 1 .. Len(parts) : SubSeq(Front(parts), 1, i - 1) = SubSeq(parts, 1, i - 1)
  BY FrontFacts
<1>1. /\ DOMAIN parts = (1 .. Len(parts) - 1) \cup {Len(parts)}
      /\ DOMAIN Front(parts) = 1 .. Len(parts) - 1
      /\ 1 .. Len(parts) - 1 \subseteq 1 .. Len(parts)
  BY <1>0
<1>2. \A i \in 1 .. Len(parts) - 1 :
        Lists(SubSeq(Front(parts), 1, i - 1), Front(parts)[i]) <=>
            Lists(SubSeq(parts, 1, i - 1), parts[i])
  BY <1>0, <1>1
<1>3. SubSeq(parts, 1, Len(parts) - 1) = Front(parts) /\ parts[Len(parts)] = Last(parts)
  BY FrontFacts DEF Last
<1>4. Front(parts) \in Seq(Names)
  BY FrontFacts
<1> QED BY <1>1, <1>2, <1>3, <1>4, OnDiskIs

\* The two directories that fs_init makes lie above the mount point.
LEMMA AboveMount ==
    ASSUME NEW dir \in Seq(Names), NEW name
    PROVE  Len(dir) + 1 <= Len(Mount) /\ name = Mount[Len(dir) + 1] /\ dir = SubSeq(Mount, 1, Len(dir))
            <=> (dir = <<>> /\ name = "mnt") \/ (dir = <<"mnt">> /\ name = "hda")
<1>1. Len(Mount) = 2 /\ Mount[1] = "mnt" /\ Mount[2] = "hda"
  BY DEF Mount
<1>2. SubSeq(Mount, 1, 0) = <<>>
  BY SubSeqEmpty
<1>3. SubSeq(Mount, 1, 1) = <<"mnt">>
  <2>0. "mnt" \in Names
    BY FilesAssumption
  <2>1. /\ SubSeq(Mount, 1, 1) \in Seq(Names) /\ Len(SubSeq(Mount, 1, 1)) = 1
        /\ SubSeq(Mount, 1, 1)[1] = "mnt"
    <3>1. \A i \in 1 .. 1 : Mount[i] \in Names
      BY <1>1, <2>0
    <3> QED BY <1>1, <3>1, SubSeqProperties
  <2>2. <<"mnt">> \in Seq(Names) /\ Len(<<"mnt">>) = 1 /\ <<"mnt">>[1] = "mnt"
    BY <2>0
  <2>3. \A s, t \in Seq(Names) : Len(s) = 1 /\ Len(t) = 1 /\ s[1] = t[1] => s = t
    OBVIOUS
  <2> QED BY <2>1, <2>2, <2>3
<1>4. PICK n \in Nat : n = Len(dir)
  BY LenProperties
<1>5. CASE n = 0
  <2>1. dir = <<>> /\ dir # <<"mnt">>
    BY <1>4, <1>5, EmptySeq
  <2> QED BY <1>1, <1>2, <1>4, <1>5, <2>1
<1>6. CASE n = 1
  <2>1. dir # <<>>
    <3>1. n # 0
      BY <1>6
    <3> QED BY <1>4, <3>1, EmptySeq
  <2> QED BY <1>1, <1>3, <1>4, <1>6, <2>1
<1>7. CASE n > 1
  <2>1. ~(n + 1 <= 2) /\ n # 0 /\ n # 1
    BY <1>7
  <2>2. dir # <<>> /\ dir # <<"mnt">>
    BY <1>4, <2>1, EmptySeq
  <2> QED BY <1>1, <1>4, <2>1, <2>2
<1> QED BY <1>5, <1>6, <1>7

\* Where no directory is longer than a sector, the tree is the disk's.
LEMMA CacheIsDisk ==
    ASSUME Typed, NEW dir \in Seq(Names), NEW name,
           dir \in DOMAIN disk => Len(Live(dir)) <= PerSector
    PROVE  HasDir(dir, name) <=> Lists(dir, name)
<1>1. dir \in DOMAIN disk => Cached(dir) = Live(dir)
  BY CachedEntries
<1> QED BY <1>1, AboveMount DEF HasDir, Lists

\* The two copies of the search do the same.
LEMMA CopiesAgree ==
    ASSUME NEW parts
    PROVE  /\ ExistsReached(parts) = Reached(parts)
           /\ ExistsTarget(parts) = Target(parts)
<1>1. ExistsWalked(parts) = Walked(parts)
  BY DEF ExistsWalked, Walked
<1> QED BY <1>1 DEF ExistsReached, Reached, ExistsTarget, Target

\* When the directory that a path looks into is in the tree, the search gets
\* there, no further, and looks for the last part.
LEMMA SearchEnds ==
    ASSUME NEW parts \in Seq(Names), parts # <<>>, InTree(Front(parts))
    PROVE  Reached(parts) = Front(parts) /\ Target(parts) = Last(parts)
<1> DEFINE Stops(k) == /\ InTree(SubSeq(parts, 1, k))
                       /\ k > 0 => k < Len(parts)
                       /\ k + 1 < Len(parts) => ~InTree(SubSeq(parts, 1, k + 1))
<1>1. PICK n \in Nat : Len(parts) = n + 1
  <2>1. Len(parts) \in Nat \ {0}
    BY FrontFacts
  <2>2. Len(parts) - 1 \in Nat /\ Len(parts) = (Len(parts) - 1) + 1
    BY <2>1
  <2> QED BY <2>2
<1>2. Front(parts) \in Seq(Names) /\ Len(Front(parts)) = n /\ Front(parts) = SubSeq(parts, 1, n)
  BY <1>1, FrontFacts
<1>3. n \in 0 .. Len(parts) /\ Stops(n)
  BY <1>1, <1>2
<1>4. ASSUME NEW k \in 0 .. Len(parts), Stops(k)  PROVE k = n
  <2>1. CASE k < n
    <3>1. k + 1 \in 0 .. n /\ k + 1 < Len(parts)
      BY <1>1, <2>1
    <3>2. InTree(SubSeq(Front(parts), 1, k + 1))
      BY <1>2, <3>1, InTreePrefix
    <3>3. SubSeq(SubSeq(parts, 1, n), 1, k + 1) = SubSeq(parts, 1, k + 1)
      <4>1. k + 1 + 1 \in 1 .. Len(parts) /\ k + 1 + 1 - 1 = k + 1
        BY <1>1, <3>1
      <4>2. SubSeq(Front(parts), 1, k + 1 + 1 - 1) = SubSeq(parts, 1, k + 1 + 1 - 1)
        BY <4>1, FrontFacts
      <4> QED BY <1>2, <4>1, <4>2
    <3> QED BY <1>2, <1>4, <3>1, <3>2, <3>3
  <2>2. CASE k > n
    BY <1>1, <1>4, <2>2
  <2> QED BY <1>1, <2>1, <2>2
<1>5. Walked(parts) = n
  <2>1. Walked(parts) = CHOOSE k \in 0 .. Len(parts) : Stops(k)
    BY DEF Walked
  <2> HIDE DEF Stops
  <2> QED BY <1>3, <1>4, <2>1
<1>6. ~(n + 2 <= n + 1)
  OBVIOUS
<1> QED BY <1>1, <1>2, <1>5, <1>6 DEF Reached, Target

\* A directory that the disk has, on whose way none is longer than a sector,
\* is in the tree.
LEMMA OnDiskInTree ==
    ASSUME Typed, NEW path \in Seq(Names), OnDisk(path), Fits(path)
    PROVE  InTree(path)
<1>1. ASSUME NEW i \in DOMAIN path  PROVE HasDir(SubSeq(path, 1, i - 1), path[i])
  <2> DEFINE dir == SubSeq(path, 1, i - 1)
  <2>1. i - 1 \in 0 .. Len(path) /\ dir \in Seq(Names)
    BY <1>1
  <2>2. dir \in DOMAIN disk => Len(Live(dir)) <= PerSector
    BY <2>1 DEF Fits
  <2>3. Lists(dir, path[i])
    BY <1>1, OnDiskIs
  <2> HIDE DEF dir
  <2>4. HasDir(dir, path[i])
    BY <2>1, <2>2, <2>3, CacheIsDisk
  <2> QED BY <2>4 DEF dir
<1> QED BY <1>1 DEF InTree

\* fexists and fopen find what the disk has.
LEMMA SearchFinds ==
    ASSUME Typed, NEW path \in Seq(Names)
    PROVE  FindsWhatIsThere(path)
<1> DEFINE parts == Parts(path)
           dir == Front(parts)
           name == Last(parts)
           here == IF dir \in DOMAIN disk THEN Named(Live(dir), "file", name) ELSE {}
<1> HIDE DEF parts
<1>1. SUFFICES ASSUME parts # <<>>, OnDisk(dir), Fits(dir)
               PROVE  /\ 2 \in fexists(path) <=> here # {}
                      /\ 1 \in fexists(path) <=> here = {} /\ OnDisk(parts)
                      /\ here # {} => fopen(path) \in
                                {[dir |-> dir, size |-> Signed(Live(dir)[i].size)] : i \in here}
  BY DEF FindsWhatIsThere, parts
<1>2. parts \in Seq(Names)
  BY PartsNames DEF parts
<1>3. dir \in Seq(Names) /\ Len(dir) \in 0 .. Len(dir) /\ SubSeq(dir, 1, Len(dir)) = dir
  <2>1. dir \in Seq(Names)
    BY <1>1, <1>2, FrontFacts
  <2> HIDE DEF dir
  <2> QED BY <2>1, LenProperties, SubSeqFull
<1>4. dir \in DOMAIN disk => Len(Live(dir)) <= PerSector /\ Cached(dir) = Live(dir)
  <2>1. dir \in DOMAIN disk => Len(Live(dir)) <= PerSector
    BY <1>1, <1>3 DEF Fits
  <2> QED BY <2>1, CachedEntries
<1>5. InTree(dir)
  BY <1>1, <1>3, OnDiskInTree
<1>6. Reached(parts) = dir /\ Target(parts) = name
  BY <1>1, <1>2, <1>5, SearchEnds
<1>7. Named(Node(dir), "file", name) = here
  <2>1. Named(<<>>, "file", name) = {}
    BY DEF Named
  <2> QED BY <1>4, <2>1 DEF Node
<1>8. HasDir(dir, name) <=> OnDisk(parts)
  <2>1. HasDir(dir, name) <=> Lists(dir, name)
    BY <1>3, <1>4, CacheIsDisk
  <2>2. OnDisk(parts) <=> OnDisk(dir) /\ Lists(dir, name)
    BY <1>1, <1>2, OnDiskLast
  <2> QED BY <1>1, <2>1, <2>2
<1> HIDE DEF dir, name, here
<1>9. /\ 2 \in fexists(path) <=> here # {}
      /\ 1 \in fexists(path) <=> here = {} /\ OnDisk(parts)
  <2>1. fexists(path) = IF here # {} THEN {2} ELSE IF HasDir(dir, name) THEN {1} ELSE {0}
    BY <1>1, <1>6, <1>7, CopiesAgree DEF fexists, parts
  <2> QED BY <1>8, <2>1
<1>10. ASSUME here # {}
       PROVE  fopen(path) \in {[dir |-> dir, size |-> Signed(Live(dir)[i].size)] : i \in here}
  <2> DEFINE i == CHOOSE i \in here : \A j \in here : j <= i
  <2>1. dir \in DOMAIN disk /\ here \in SUBSET DOMAIN Cached(dir) /\ Node(dir) = Cached(dir)
    BY <1>4, <1>10 DEF here, Named, Node
  <2>2. i \in here
    BY <1>10, <2>1, LastFound
  <2>3. fopen(path) = [dir |-> dir, size |-> Signed(Cached(dir)[i].size)]
    BY <1>1, <1>6, <1>7, <1>10, <2>1 DEF fopen, parts
  <2> QED BY <1>4, <2>1, <2>2, <2>3
<1> QED BY <1>9, <1>10

\* fexists and fopen agree on every path: what fopen finds has a directory,
\* which is below the mount point.
LEMMA SearchesAgree ==
    ASSUME Typed, NEW path
    PROVE  ExistsAgreesWithOpen(path)
<1> DEFINE parts == Parts(path)
           dir == Reached(parts)
           found == IF parts = <<>> THEN {} ELSE Named(Node(dir), "file", Target(parts))
<1>1. 2 \in fexists(path) <=> found # {}
  BY CopiesAgree DEF fexists
<1>2. found = {} => fopen(path).dir = <<>>
  BY DEF fopen, NoFile
<1>3. found # {} => fopen(path).dir # <<>>
  <2>1. found # {} => fopen(path).dir = dir /\ dir \in DOMAIN disk
    BY InNode DEF fopen
  <2>2. \A d \in DOMAIN disk : d # <<>>
    <3>1. \A d \in DOMAIN disk : IsPrefix(Mount, d)
      BY FilesAssumption DEF Typed
    <3>2. ~IsPrefix(Mount, <<>>)
      BY DEF IsPrefix, Mount
    <3> QED BY <3>1, <3>2
  <2> HIDE DEF dir, found
  <2> QED BY <2>1, <2>2
<1> QED BY <1>1, <1>2, <1>3 DEF ExistsAgreesWithOpen, NoFile

\* For every disk, every path typed in every directory: fexists and fopen
\* agree, and they find what is there, unless a directory on the way is
\* longer than the one sector that is read of it.
THEOREM LookupRightCorrect == Spec => []LookupRight
<1>1. IInv => LookupRight
  <2>1. SUFFICES ASSUME IInv, NEW arg \in Args
                 PROVE  FindsWhatIsThere(currentDir \o arg) /\ ExistsAgreesWithOpen(currentDir \o arg)
    BY DEF LookupRight
  <2>2. currentDir \o arg \in Seq(Names) /\ Typed
    BY <2>1, FilesAssumption DEF IInv, Typed
  <2> QED BY <2>2, SearchFinds, SearchesAgree
<1> QED BY <1>1, ReadInvariance, PTL

-----------------------------------------------------------------------------
(* The commands and the tree. *)

\* cd of one piece: fexists looked for that piece where currentDir is.
LEMMA ShortCdStays ==
    ASSUME NEW path \in Seq(Names), NEW piece \in Names, InTree(Parts(path)),
           1 \in fexists(Append(path, piece))
    PROVE  InTree(Parts(Append(path, piece)))
<1>1. CASE piece = ""
  BY <1>1, PartsAppend
<1>2. CASE piece # ""
  <2> DEFINE parts == Parts(Append(path, piece))
  <2>1. parts = Append(Parts(path), piece) /\ Parts(path) \in Seq(Names)
    BY <1>2, PartsAppend, PartsNames
  <2> HIDE DEF parts
  <2>2. parts \in Seq(Names) /\ parts # <<>> /\ Front(parts) = Parts(path)
    BY <2>1 DEF Front
  <2>3. ExistsReached(parts) = Front(parts) /\ ExistsTarget(parts) = Last(parts)
    BY <2>2, SearchEnds, CopiesAgree
  <2>4. HasDir(ExistsReached(parts), ExistsTarget(parts))
    BY <2>2 DEF fexists, parts
  <2> QED BY <2>2, <2>3, <2>4, InTreeLast DEF parts
<1> QED BY <1>1, <1>2

\* cd ..: what is left of the path is the beginning of it.
LEMMA UpStays ==
    ASSUME NEW path \in Seq(Names), path # <<>>, InTree(Parts(path))
    PROVE  InTree(Parts(Front(path)))
<1>1. /\ Front(path) \in Seq(Names) /\ Last(path) \in Names
      /\ path = Append(Front(path), Last(path))
  <2>1. Front(path) \in Seq(Names) /\ Last(path) \in Names
    BY FrontFacts
  <2>2. Len(path) \in Nat \ {0}
    BY FrontFacts
  <2>3. Len(Append(Front(path), Last(path))) = Len(path)
    BY <2>1, <2>2, FrontFacts
  <2>4. \A i \in 1 .. Len(path) : Append(Front(path), Last(path))[i] = path[i]
    BY <2>1, <2>2, FrontFacts DEF Last
  <2> QED BY <2>1, <2>3, <2>4, SeqEqual
<1> DEFINE rest == Parts(Front(path))
<1>2. rest \in Seq(Names)
  BY <1>1, PartsNames
<1>3. Parts(path) = rest \/ Parts(path) = Append(rest, Last(path))
  BY <1>1, PartsAppend
<1> HIDE DEF rest
<1>4. CASE Parts(path) = Append(rest, Last(path))
  <2>1. Parts(path) \in Seq(Names) /\ Parts(path) # <<>> /\ Front(Parts(path)) = rest
    BY <1>1, <1>2, <1>4 DEF Front
  <2> QED BY <2>1, InTreeLast DEF rest
<1> QED BY <1>3, <1>4 DEF rest

\* Whatever is typed on whatever disk: currentDir leaves the tree of the
\* directories by a cd of two or more pieces only.
THEOREM OnlyLongCdCorrect == Spec => OnlyLongCdLeavesTree
<1>1. ASSUME IInv, [Next]_vars, InTree(Parts(currentDir)), ~InTree(Parts(currentDir'))
      PROVE  Len(currentDir') >= Len(currentDir) + 2
  <2>1. currentDir \in Seq(Names) /\ currentDir' # currentDir
    BY <1>1 DEF IInv, Typed
  <2>2. CASE CdUp
    BY <1>1, <2>1, <2>2, UpStays DEF CdUp
  <2>3. ASSUME NEW arg \in Args, Cd(arg)
        PROVE  Len(currentDir') >= Len(currentDir) + 2
    <3>1. currentDir' = currentDir \o arg /\ 1 \in fexists(currentDir \o arg)
      BY <2>1, <2>3 DEF Cd
    <3>2. arg \in Seq(Names)
      BY FilesAssumption
    <3>3. Len(arg) # 0
      BY <2>1, <3>1, <3>2
    <3>4. Len(arg) # 1
      <4> SUFFICES ASSUME Len(arg) = 1  PROVE FALSE
        OBVIOUS
      <4>1. arg[1] \in Names
        BY <3>2, ElementOfSeq
      <4>2. currentDir \o arg = Append(currentDir, arg[1])
        <5>1. arg = <<arg[1]>>
          BY <3>2
        <5>2. currentDir \o <<arg[1]>> = Append(currentDir, arg[1])
          BY <2>1, <4>1, AppendIsConcat
        <5> QED BY <5>1, <5>2
      <4> QED BY <1>1, <2>1, <3>1, <4>1, <4>2, ShortCdStays
    <3>5. Len(currentDir') = Len(currentDir) + Len(arg)
      BY <2>1, <3>1, <3>2
    <3>6. Len(arg) \in Nat /\ Len(currentDir) \in Nat
      BY <2>1, <3>2
    <3>7. \A a, b \in Nat : b # 0 /\ b # 1 => a + b >= a + 2
      OBVIOUS
    <3> QED BY <3>3, <3>4, <3>5, <3>6, <3>7
  <2>4. CASE UNCHANGED currentDir
    BY <2>1, <2>4
  <2>5. \/ CdUp \/ \E arg \in Args : Cd(arg)
        \/ UNCHANGED currentDir
    BY <1>1 DEF Next, vars, Open, Close, Call, ReadSector, Return
  <2> QED BY <2>2, <2>3, <2>4, <2>5
<1>2. IInv /\ [Next]_vars =>
        [InTree(Parts(currentDir)) /\ ~InTree(Parts(currentDir')) =>
            Len(currentDir') >= Len(currentDir) + 2]_vars
  BY <1>1
<1> QED BY <1>2, ReadInvariance, PTL DEF Spec, OnlyLongCdLeavesTree

=============================================================================
