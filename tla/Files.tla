------------------------------- MODULE Files -------------------------------
(***************************************************************************)
(* The file system of src/fs.c as the shell of src/shell.c uses it: the    *)
(* tree of directories that fs_init caches, the search along a path of     *)
(* fopen and fexists, the commands cd, cat and load with currentDir, and   *)
(* the loops of fread.                                                     *)
(*                                                                         *)
(* A path is the sequence of the pieces before each '/' behind the first   *)
(* one: "/mnt//" is <<"mnt", "">>.  The shell ends every path with a '/'.  *)
(* A directory is named by its path from the root.  One disk with one      *)
(* partition is mounted.  The content of the files is left out: a read is  *)
(* the number of bytes it moves, from whatever sector and to whatever      *)
(* place.  So are the memory of the pieces and the thread that load makes. *)
(***************************************************************************)
EXTENDS Integers, SequencesExt

CONSTANTS
    Names,      \* what a piece of a path or an entry can be called
    Disks,      \* the disks: per directory the sequence of its entries
    Args,       \* what the user types behind a command: paths
    MaxPath,    \* pieces of currentDir (its 128 bytes are not checked)
    WordSize,   \* how many values an uint32_t or an int32_t has (2^32)
    PerSector,  \* directory entries in the one sector that is read (16)
    Sector,     \* bytes in a sector (512)
    SectorsPerCluster

\* Where the partition is mounted.
Mount == <<"mnt", "hda">>

\* An entry: "end" is a first byte of 0, "dot" a name that starts with '.',
\* "bare" an extension that starts with a byte of 0.
Kinds == {"file", "dir", "dot", "bare", "end"}

Entry == [kind : Kinds, name : Names, size : 0 .. WordSize - 1]

\* The mount point is a directory, and a disk has no directory outside.  Of
\* two directories with one path (the extension is not a part of it) every
\* search takes the first, so that a disk has the entries of that one only.
ASSUME FilesAssumption ==
    /\ \A d \in Disks :
        /\ Mount \in DOMAIN d
        /\ \A dir \in DOMAIN d : IsPrefix(Mount, dir) /\ d[dir] \in Seq(Entry)
    /\ Args \subseteq Seq(Names)
    /\ {"mnt", "hda"} \subseteq Names
    /\ MaxPath \in Nat
    /\ WordSize \in Nat
    /\ PerSector \in Nat \ {0}
    /\ Sector \in Nat \ {0}
    /\ SectorsPerCluster \in Nat \ {0}

VARIABLES
    disk,       \* the disk of this machine
    currentDir,
    phase,      \* at the prompt, or in the middle of cat or load
    job,        \* which of the two
    size, progress,             \* file_t.size, file_t.progress
    count, left, skip, offset,  \* fread: count, SIZE, skipblock, sectorOffset
    readBytes,
    total       \* what the calls of fread returned so far

file == <<size, progress>>
reading == <<count, left, skip, offset, readBytes>>
vars == <<disk, currentDir, phase, job, file, reading, total>>

Init ==
    /\ disk \in Disks
    /\ currentDir = <<"mnt">>
    /\ phase = "prompt" /\ job = "cat"
    /\ size = 0 /\ progress = 0
    /\ count = 0 /\ left = 0 /\ skip = 0 /\ offset = 0 /\ readBytes = 0
    /\ total = 0

-----------------------------------------------------------------------------
(* The tree in memory. *)

\* The entries of a directory up to the end mark.
Live(dir) ==
    LET end == SelectInSeq(disk[dir], LAMBDA e : e.kind = "end")
    IN  IF end = 0 THEN disk[dir] ELSE SubSeq(disk[dir], 1, end - 1)

FirstSector(entries) == SubSeq(entries, 1, Min({Len(entries), PerSector}))

\* cache_search_directory: the entries of one sector.
Cached(dir) == FirstSector(Live(dir))

\* Its two lists have the files and the directories, in the order of the
\* entries; the entries that begin with '.' and the bare ones are passed over.
Named(entries, kind, name) == {i \in DOMAIN entries : entries[i].kind = kind /\ entries[i].name = name}

\* dirs: the directories a node lists.  The root and mnt are made by fs_init.
HasDir(dir, name) ==
    \/ dir = <<>> /\ name = "mnt"
    \/ dir = <<"mnt">> /\ name = "hda"
    \/ dir \in DOMAIN disk /\ Named(Cached(dir), "dir", name) # {}

\* The nodes of the tree: every step of the path is in the list before it.
InTree(path) == \A i \in DOMAIN path : HasDir(SubSeq(path, 1, i - 1), path[i])

-----------------------------------------------------------------------------
(* Looking for a path. *)

\* strsplit: it goes along the string and does not keep a piece of no
\* characters.
Parts(path) ==
    LET kept[i \in 0 .. Len(path)] ==
            IF i = 0 THEN <<>>
            ELSE IF path[i] = "" THEN kept[i - 1] ELSE Append(kept[i - 1], path[i])
    IN  kept[Len(path)]

\* The entries that a node of the tree was made of.
Node(dir) == IF dir \in DOMAIN disk THEN Cached(dir) ELSE <<>>

\* fopen: the pieces that its search goes down, all but the last one, as long
\* as there is such a directory.
Walked(parts) ==
    CHOOSE k \in 0 .. Len(parts) :
        /\ InTree(SubSeq(parts, 1, k))
        /\ k > 0 => k < Len(parts)
        /\ k + 1 < Len(parts) => ~InTree(SubSeq(parts, 1, k + 1))

Reached(parts) == SubSeq(parts, 1, Walked(parts))

\* The piece that is looked for there.  A piece that was no directory has
\* been taken off the list, and the one behind it is looked for.
Target(parts) ==
    IF Walked(parts) + 2 <= Len(parts) THEN parts[Walked(parts) + 2] ELSE Last(parts)

\* What an int32_t becomes by a sum, or by an uint32_t that is stored in it.
Signed(n) ==
    CASE 2 * n >= WordSize -> n - WordSize
      [] 2 * n < -WordSize -> n + WordSize
      [] OTHER -> n

NoFile == [dir |-> <<>>, size |-> 0]

\* The last file of that name; file_t.size is an int32_t.
fopen(path) ==
    LET parts == Parts(path)
        found == IF parts = <<>> THEN {} ELSE Named(Node(Reached(parts)), "file", Target(parts))
    IN  IF found = {} THEN NoFile
        ELSE [dir |-> Reached(parts),
              size |-> Signed(Node(Reached(parts))
                                [CHOOSE i \in found : \A j \in found : j <= i].size)]

\* fexists has a copy of that search.
ExistsWalked(parts) ==
    CHOOSE k \in 0 .. Len(parts) :
        /\ InTree(SubSeq(parts, 1, k))
        /\ k > 0 => k < Len(parts)
        /\ k + 1 < Len(parts) => ~InTree(SubSeq(parts, 1, k + 1))

ExistsReached(parts) == SubSeq(parts, 1, ExistsWalked(parts))

\* Mutant of ExistsTarget: in this copy the piece that was no directory is
\* looked for.
ExistsTargetFirst(parts) ==
    IF ExistsWalked(parts) + 2 <= Len(parts) THEN parts[ExistsWalked(parts) + 1] ELSE Last(parts)

ExistsTarget(parts) ==
    IF ExistsWalked(parts) + 2 <= Len(parts) THEN parts[ExistsWalked(parts) + 2] ELSE Last(parts)

\* 2 for a file, 1 for a directory.  Of a path without pieces it compares
\* what lies at address 0 with the names in the root.
fexists(path) ==
    LET parts == Parts(path)
        listed == Named(Node(ExistsReached(parts)), "file", ExistsTarget(parts)) # {}
    IN  CASE parts = <<>> -> {0, 1}
          [] parts # <<>> /\ listed -> {2}
          [] parts # <<>> /\ ~listed /\ HasDir(ExistsReached(parts), ExistsTarget(parts)) -> {1}
          [] OTHER -> {0}

-----------------------------------------------------------------------------
(* The commands that use currentDir. *)

\* Mutant of Cd: the piece that was not found stays in currentDir.
CdKeeps(arg) ==
    /\ phase = "prompt"
    /\ Len(currentDir) + Len(arg) <= MaxPath
    /\ currentDir' = currentDir \o arg
    /\ UNCHANGED <<disk, phase, job, file, reading, total>>

\* cd, to anything but "..": the path is built in currentDir and taken back
\* when fexists does not find a directory.
Cd(arg) ==
    /\ phase = "prompt"
    /\ Len(currentDir) + Len(arg) <= MaxPath
    /\ \E found \in fexists(currentDir \o arg) :
        currentDir' = IF found = 1 THEN currentDir \o arg ELSE currentDir
    /\ UNCHANGED <<disk, phase, job, file, reading, total>>

\* cd ..: the last piece goes, an empty one too.
CdUp ==
    /\ phase = "prompt"
    /\ currentDir # <<>>
    /\ currentDir' = Front(currentDir)
    /\ UNCHANGED <<disk, phase, job, file, reading, total>>

\* cat and load: fexists says it is a file and fopen finds it.  load takes
\* the memory for it before it reads, and of 2 GiB (a negative size) malloc
\* panics.
Open(what, arg) ==
    LET f == fopen(currentDir \o arg) IN
    /\ phase = "prompt"
    /\ Len(currentDir) + Len(arg) <= MaxPath
    /\ 2 \in fexists(currentDir \o arg)
    /\ f # NoFile
    /\ what = "load" => f.size >= 0
    /\ job' = what
    /\ size' = f.size
    /\ progress' = 0
    /\ total' = 0
    /\ phase' = "call"
    /\ UNCHANGED <<disk, currentDir, reading>>

\* fclose, and the end of currentDir is cleared again.
Close ==
    /\ phase = "close"
    /\ phase' = "prompt"
    /\ UNCHANGED <<disk, currentDir, job, file, reading, total>>

-----------------------------------------------------------------------------
(* fread. *)

\* cat asks for a sector, load for the whole file.
Request == IF job = "cat" THEN Sector ELSE size

\* The sectors behind progress, one too few: a loop from progress down to 0.
Skipped ==
    CASE progress = 0 -> 0
      [] progress > 0 -> (progress + Sector - 1) \div Sector - 1
      [] progress < 0 -> 0 - 1

\* The count, cut at the end of the file.
Cut == IF Signed(progress + Request) >= size THEN Signed(size - progress) ELSE Request

\* Mutant of Call: the loops go over the rest of the file only.
CallRest ==
    /\ phase = "call"
    /\ count' = Cut
    /\ skip' = Skipped
    /\ left' = size - progress
    /\ offset' = 0
    /\ readBytes' = 0
    /\ phase' = "read"
    /\ UNCHANGED <<disk, currentDir, job, file, total>>

\* Up to the loops.
Call ==
    /\ phase = "call"
    /\ count' = Cut
    /\ skip' = Skipped
    /\ left' = IF progress >= size THEN 0 ELSE size
    /\ offset' = 0
    /\ readBytes' = 0
    /\ phase' = "read"
    /\ UNCHANGED <<disk, currentDir, job, file, total>>

\* toread, with its remainder the wrong way round (that of C looks at no sign).
ToRead ==
    LET rest == Sector % (IF progress < 0 THEN 0 - progress ELSE progress)
    IN  IF progress = 0 THEN (IF count > Sector THEN Sector ELSE count)
        ELSE IF rest + count > Sector THEN rest + count - Sector
        ELSE count

\* One round of the inner loop; behind a cluster the outer loop goes on, and
\* left is not lowered then.
ReadSector ==
    LET n == IF skip <= 0 THEN ToRead ELSE 0
    IN
    /\ phase = "read"
    /\ left > 0
    /\ count' = count - n
    /\ readBytes' = readBytes + n
    /\ progress' = Signed(progress + n)
    /\ IF count' <= 0
       THEN left' = 0 /\ UNCHANGED <<skip, offset>>
       ELSE /\ skip' = skip - 1
            /\ IF offset + 1 > SectorsPerCluster
               THEN offset' = 0 /\ left' = left
               ELSE offset' = offset + 1 /\ left' = left - Sector
    /\ UNCHANGED <<disk, currentDir, phase, job, size, total>>

\* The loops of fread have ended; cat calls it again until it returns 0.
Return ==
    /\ phase = "read"
    /\ left <= 0
    /\ total' = total + readBytes
    /\ phase' = IF job = "cat" /\ readBytes > 0 THEN "call" ELSE "close"
    /\ UNCHANGED <<disk, currentDir, job, file, reading>>

-----------------------------------------------------------------------------
Next ==
    \/ \E arg \in Args : Cd(arg) \/ \E what \in {"cat", "load"} : Open(what, arg)
    \/ CdUp \/ Close
    \/ Call \/ ReadSector \/ Return

Spec == Init /\ [][Next]_vars

-----------------------------------------------------------------------------
(* Properties. *)

\* What the disk says, without the limit of a sector: is this a directory?
OnDisk(path) ==
    \A i \in DOMAIN path :
        LET dir == SubSeq(path, 1, i - 1)
        IN  \/ i <= Len(Mount) /\ path[i] = Mount[i] /\ dir = SubSeq(Mount, 1, i - 1)
            \/ dir \in DOMAIN disk /\ Named(Live(dir), "dir", path[i]) # {}

Fits(path) ==
    \A i \in 0 .. Len(path) :
        SubSeq(path, 1, i) \in DOMAIN disk => Len(Live(SubSeq(path, 1, i))) <= PerSector

\* The search does what a path means: when the directory that a path looks
\* into exists, and no directory on the way is longer than a sector, fexists
\* and fopen tell what the disk has there, the size as an int32_t.
FindsWhatIsThere(path) ==
    LET parts == Parts(path)
        dir == Front(parts)
        here == IF dir \in DOMAIN disk THEN Named(Live(dir), "file", Last(parts)) ELSE {}
    IN  parts # <<>> /\ OnDisk(dir) /\ Fits(dir) =>
            /\ 2 \in fexists(path) <=> here # {}
            /\ 1 \in fexists(path) <=> here = {} /\ OnDisk(parts)
            /\ here # {} => fopen(path) \in
                                {[dir |-> dir, size |-> Signed(Live(dir)[i].size)] : i \in here}

\* fexists and fopen agree on every path, also on those whose directories do
\* not exist: cat and load test the one and use the other, and each has its
\* own copy of the search.
ExistsAgreesWithOpen(path) == 2 \in fexists(path) <=> fopen(path).dir # NoFile.dir

\* Both, for whatever is typed behind a command in any currentDir that a
\* sequence of commands leaves (the search loops of fopen and fexists).
LookupRight ==
    \A arg \in Args : /\ FindsWhatIsThere(currentDir \o arg)
                      /\ ExistsAgreesWithOpen(currentDir \o arg)

\* currentDir names a directory, unless somebody typed a cd with more than
\* one piece: the search skips a piece that it does not find.
OnlyLongCdLeavesTree ==
    [][InTree(Parts(currentDir)) /\ ~InTree(Parts(currentDir')) =>
            Len(currentDir') >= Len(currentDir) + 2]_vars

\* The calls of fread, with their count of sectors and remainders, return as
\* many bytes as the file has, in pieces or at once, and no call moves more
\* bytes than it was asked for, or past the end of the file; of a file of
\* 2 GiB or more, whose size is negative, cat gets nothing.  (In the last
\* sector below 2 GiB the sum of progress and count overflows.)
Below2GiB == 2 * (size + Sector) < WordSize
Readable == IF size < 0 THEN 0 ELSE size

ReadsWhole ==
    Below2GiB =>
        /\ phase = "close" => total = Readable
        /\ phase = "read" => readBytes <= Request \/ size < 0
        /\ phase = "read" => readBytes <= Readable /\ progress <= Readable
=============================================================================
