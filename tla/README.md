# A TLA+ model of the Omron kernel

Omron is a small 32-bit x86 kernel in C: one address space, kernel threads only,
a timer that switches between them anywhere, a heap with one mutex, a handful of
service threads and a shell. Nothing in it disables interrupts after booting
except the interrupt gates themselves, so almost every pair of C statements is
a place where another thread may run. This directory models the parts where
that matters, checks them with TLC on small instances, and proves the central
invariants with TLAPS for every instance.

Source paths below are relative to the repository (`src/tasking.c` is
`tasking.c` in its directory of C files). `PROJECT.json` maps each definition to
its lines.

## 1. The system

| component | state it keeps | operations | what must be true of it |
|---|---|---|---|
| **scheduler** `tasking.c`, `pit.c` | `thread_list`, `thread_list_dead`, `thread_current`; per thread `state`, `age`, `priority`, `arg`, saved `esp` | `create_thread_param`, `tasking_switch` (timer and `int 0x20`), `sleep`, `kill`, `send_sig` with `__notified`, `preempt` | every allocated record is in one list, once; the dead never run again; nobody starves; sleepers wake |
| **mutexes** `common.c` 380-425 | `mutexlist`; per mutex the list `waiting` and the fields `locked` (a saved priority) and `locker` | `mutexcreate`, `mutexlock`, `mutexunlock` | one owner, first come first served, the priority boost is taken back, `locker` accuses nobody wrongly |
| **lists** `common.c` 427-531 | `pointer`, `length`, `current` | `listadd`, `popfirst`, `poplast`, `popitem`, `peekitem` | a sequence, whatever the interleaving of the callers |
| **heap** `memory.c` | the chain of headers, `last_alloc`, `malloc_mutex` | `malloc`, `free` (`malloc_a`, `malloc_ap` for paging) | the chain is walkable, no byte is lent twice, malloc answers |
| **heap scrubber** `services.c` 51-84 | its place in the chain | the thread `services_heap` | clears free memory only |
| **Process Manager** `services.c` 10-49 | the record in its hands and a loop index | the thread `services_process`: collects corpses, resets their mutex, frees them | no record lost, doubled or freed while listed; every corpse is freed |
| **keyboard and scanf** `services.c` 86-180, `common.c` 306-378, `scanmap.c` | `services_keyboard_isr_flag`, the table of ten handlers, `inputBuffer`, `inputPosition`, `scanf_mutex` | the interrupt, the thread `services_keyboard`, register, unregister, `handleKeyboard`, `scanf` | keys in order, none lost or doubled, a line ends with its Enter, no store into a line that was given back |
| **traps** `descriptors.c` | IDT, `interrupt_handlers`, each thread's list of catchers | `isr_handler`: dispatch; on an exception resume at the catcher, or make the thread a zombie and unlock its mutexes | a fault leaves the mutexes usable |
| **shell** `shell.c` | `currentDir`, `input` | `shell_main`, `process_cmd` | a command sees the line typed for it; `currentDir` names a directory |
| **file system** `fs.c` | the tree of directories, open files | `fs_init`, `fopen`, `fread`, `fexists`, `fdirs` | a path finds its file or nothing; a file reads as it was written |
| **ATA driver** `ata.c` | the list of devices; the state of a poll; what the drives on two buses do meanwhile | `ata_init`, `ata_init_device`, `ata_poll`, `ata_read`, `ata_write` (no caller) | the list holds the real disks; the sector asked for is the one that arrives; every call ends, whatever a drive does |
| **text screen** `textscreen.c` | `textscreen_x`, `textscreen_y` (bytes), colours, the video memory; no lock | `write_char` and all that prints by it, `clear`, `movecursor`, `setcursor` | when nobody prints the cursor is on the screen; characters are stored inside it |
| **clock** `rtc.c` | the date fields | the thread `services_rtc`, `get_weekday_from_date` | a date that was true at some moment, with its day of the week |
| **strings and numbers** `string.c`, `common.c`, `textscreen.c` | none | `strsplit`, `atoi`, `itoa`, `write_dec`, `write_hex` | what is printed denotes the number, what is typed is the number read |
| **processors** `cpu.c`, `lapic.c`, `ioapic.c`, `mod/smp.asm` | count of active processors, one shared start stack | start of the application processors | they start once each |
| ACPI, PCI and device list, PIC, paging, boot code, build files | tables read or written once while booting | | |

How they interact. The timer calls `tasking_switch` from `pit_irq`, and
`mutexlock` calls it by `preempt` while it waits. A mutex raises and restores
the caller's priority through `send_sig`, so locking changes what the scheduler
elects. `malloc`, `scanf` and the scrubber take mutexes; `free` takes none. A
fault makes the thread a ZOMBIE and unlocks by searching `mutexlist` for the
`locker`; a signal makes it DEAD and unlocks nothing; the Process Manager later
searches `mutexlist` again, and frees the record that all three know by its
tid. The keyboard interrupt raises a flag that a thread polls, which calls
through a table that `scanf` fills and empties from another thread, and the
handler ends `scanf` by clearing `inputBuffer`. It also moves the cursor when a
character is rubbed out, while any other thread may be inside `printf`. The file
system reads by `ata_read`, in the boot thread and later in the Shell.

What is hard to test here is nearly all of one kind: a timer interrupt between
two statements, in an order that needs several threads. `PROJECT.json` lists
these places under `hazards`, each with its line and the properties about it.

## 2. The modules

| module | models | abstract specification | instance | proofs |
|---|---|---|---|---|
| `Tasking` | scheduler, with the deaths and the list moves of the Process Manager | | `MCTasking` | `TaskingProofs` |
| `Mutex` | mutexes, assignment by assignment, with the unlocking of `isr_handler` | `FifoLock` | `MCMutex` | `MutexProofs` |
| `SharedList` | `listadd` and `popfirst` of one waiting list, access by access, interrupted anywhere | `FifoLock` | `MCSharedList` | `MutexProofs` |
| `Heap` | heap and scrubber | `Allocator` | `MCHeap` | `HeapProofs` |
| `Reaper` | Process Manager, loop by loop, with the mutexes statement by statement | `Lifecycle` | `MCReaper` | `ReaperProofs` |
| `Console` | keyboard, `handleKeyboard`, `scanf`, the loop of the shell | | `MCConsole` | `ConsoleProofs` |
| `Files` | the cached tree, `fopen`, `fexists`, `fread`, and `cd`, `cat`, `load` with `currentDir` | what a path means on the disk (`OnDisk`) | `MCFiles` | `FilesProofs` |
| `Disk` | ATA driver with the drives beside it | | `MCDisk` | `DiskProofs` |
| `Screen` | the cursor of the text screen, access by access | | `MCScreen` | `ScreenProofs` |
| `Numerals` | numbers to text and back, BCD, day of the week | the value of a text, days counted from a known date | `MCScreen` | `ScreenProofs` |

The modules are layers. Each takes what the one below it shows as an atomic
step or as fairness:

- `Tasking` shows who gets the processor. The other modules replace it by free
  interleaving: any thread may be at any statement when another one steps,
  which the timer makes possible. `Tasking!NoStarvation` and
  `Tasking!SleepersRun` are why they assume weak fairness of a thread's steps.
- `SharedList` shows what a list call does in memory. `Mutex` and `Reaper` take a
  list call as one step; `MutexProofs!ListImplementation` shows that this is right,
  whatever the timer interrupts, until two calls overlap for the first time;
  `SharedListPreempted` shows that they may overlap and what comes of it.
- `Mutex` shows that a mutex is a FIFO lock. `Heap` uses the queue. `Reaper` has
  the statements themselves, without the priorities, because the Process
  Manager stores into `locker` while others are between two of them.
- `Heap` shows what malloc promises; `Console` keeps of it one block.
- `Files` is sequential: only the Shell thread opens and reads files. It takes
  a sector as one step; `Disk` shows what that step is made of.
- `Screen` has the threads that print as free interleaving, access by access;
  `Numerals` has the functions that produce what they print.

### Tasking

`thread_list` and `thread_list_dead` are sequences of records; `state`, `age`,
`priority` and `arg` are the fields of `thread_t`; `pc` says where in `sleep` a
thread is, or that it halts for ever. Only `thread_current` executes code, so
every action but `Tick` is a step of that thread, and `tasking_switch`, which
runs in an interrupt gate, is one step. The election is written twice: `Elects`
says who should win (the oldest ready thread whose age exceeds the current
one's, the first of equals), `ScanWinner` is the loop as written, with the
half-aged list and the moving `thread_current`; `ElectionIsTheLoop` compares
them in every reachable state. The loop is the recursive function `best` over
the positions of the list: `Better` is one round of it, and `AgeSeen` the age
that the round sees, with the entries before it aged already. `sleep` is three
statements and a loop; `Kill`, `Fault`, `Terminate` mark a thread, which goes on
running until it loses the processor. Ages and sleep counters are words modulo
`WordMod` (2^32).

### Mutex

One action per assignment of `mutexlock` and `mutexunlock`. There is no lock
bit: who appended itself owns the mutex when its tid has come to slot 0.
`held[t]` is the model's own record of that, and the refinement to `FifoLock`
maps `inside` to it. `locked` is a byte that holds a saved priority and, for
one statement, the tid that `popfirst` writes there (`Pop`, then
`ClearLocked`). `Fault` is `isr_handler` between the calls: it unlocks what the
`locker` field attributes to the thread. Mutexes nest by `Rank`: `scanf`
allocates under `scanf_mutex`, never the other way round.

### SharedList

`slot[0 .. Capacity]` and `current` are the array and the counter, with the
extra word that `popfirst` copies from behind the last entry. `current++` and
`current--` are a load and a store (the Makefile compiles without
optimisation). Any thread may take the next step at any time, as the timer
makes possible. `torn` only records that two list calls have overlapped:
`FifoUntilTorn` says that up to then every step is one of a FIFO lock, so the
promise of the module ends where the code's does, at the first overlap, and not
where an assumption would put it.

### Heap

Addresses are numbers; `size` and `status` hold the headers, `content` who wrote
a payload last. `malloc` is `Malloc` (join the queue), `Enter`, one `Skip` per
block, `Reuse` or `Grow`, `Return`; running out of memory is `Panic`, which
keeps the mutex as the code does. `free` is `Free` (the status) and `Wipe` (the
payload), without the mutex. The scrubber's look at a status and its clearing
are two steps.

### Reaper

`phase` is the statement of `services_process`, `i` its loop index, `crnt` the
record in its hands. A thread is its record; when the record is freed, what
mutexes still hold of the old tid becomes `Stale`. `i` grows after a `popitem`,
so an entry is passed over, as in the code.

The other threads go through `mutexlock` and `mutexunlock` by the stores that the
Process Manager can meet: `Lock` (the `listadd`), `Enter` (the loop is passed),
`SetLocker`, `Unlock` (the `popfirst`), `ClearLocker`; `call` and `on` say where a
thread is. So `locker` may name a thread that is no longer first in the queue,
and the reset of the Process Manager (`FindMutex`, then `ResetMutex`) may come
when the next owner has entered. An exception strikes outside these calls only,
as in `Mutex`; a signal strikes anywhere.

A thread dies by `Fault`, by `Kill`, or by `Terminate`, the SIG_TERM of another
thread or of its own. After the last it runs on (`own`) until it loses the
processor, and its next `sleep` revives it (`Revive`), as in `Tasking`: the record
may have been a corpse for the lists of others meanwhile, but it cannot be
collected, since the Process Manager would need the processor for that.

### Console

A key is its number and kind. The controller shows one byte until it is read.
`kpc` is the PS2Keyboard thread, from `set_int` to the handler's loads and
stores; `spc` the shell in and around `scanf`. A handler that is unregistered
between the test of its entry and the call is a jump to address 0
(`CallNull`): it may return, raise an exception that the catcher takes, or run
astray. `input` starts as 0 or as anything, because `shell_main` does not
initialise it. `last` and `again` only record what was read. The block that
the shell allocates can be taken by others while it is free. Only the Shell
thread calls `scanf`, so `scanf_mutex` is never contended and left out.

### Files

A path is the sequence of the pieces before each `/`, empty ones included, as
`currentDir` holds them; `Parts` is `strsplit`, which drops the empty ones. A
directory is named by its path. `Cached` is what `cache_search_directory` keeps
of a directory: one sector, up to the end mark, without names that begin with a
dot and without entries whose extension begins with a zero byte (kind `bare`);
extensions are dropped there, so a directory may list one name twice. Two
directories with one path share it: every search takes the first, so a disk has
the entries of that one only. `Walked` and `Target` are the loop of `fopen` with
its `goto` and the fall through: a piece that is no directory is skipped and the
next one looked for. `ExistsWalked` and `ExistsTarget` are the copy in
`fexists`. `Cd`, `CdUp` and `Open` are the commands; `Call`, one `ReadSector`
per round of the loops of `fread`, and `Return` read what `Open` found, `cat`
sector by sector, `load` at once. `left` is the variable `SIZE`, which is
lowered from the size of the whole file in every call. `fexists` and `fopen` are
compared on every path (`LookupRight`), and the sums of `fread` with the size of
the file and the length asked for (`ReadsWhole`). A size is unsigned on the disk
and an `int32_t` in `file_t` (`Signed`), so a file of 2 GiB or more has a
negative one: `cat` gets nothing of it, `load` panics in `malloc` (`Open` does
not start it). A file that ends in the last sector below 2 GiB, where the sum of
`progress` and the count overflows, is outside `ReadsWhole`. What the bytes are
is not modelled: `fread` takes the second and later sectors of a file from the
wrong place (see the hazard at fs.c:240), so no property says where they come
from.

### Disk

The driver is one thread: `pc` names the access to the registers or the round of
a poll that comes next, `trys` counts the rounds of a poll that failed. The
drives are processes of their own. A drive is idle, busy, has words to hand
over, or has failed, with ERR or with DF alone; it may take any time to answer,
also for ever. A bus without drives floats and reads as ones. The firmware has
waited for the drives before the kernel starts, so all are idle then; which
drive of a bus it left selected is open.

The two drives of a bus share its ports. `selected` is the one that the ports
lead to: its status and its words are read and it takes the commands. While it
is busy or has words left the bus ignores what is written to its registers, the
device register of `ata_select_drive` included, so the driver may go on with the
wrong drive without noticing (`Addressed`). `reg` is the sector that the
registers name; a drive that fails while they are being written leaves a
mixture. `job` and `sent` say what a drive works on and how much of it was taken,
and a word in `buf` carries the drive and the sector it belongs to.

`outcome`, `gaveUp` and `missed` only record how polls ended, which `ata_poll`
does not return: `gaveUp` of a bus, that the last poll on it ran out waiting for
BSY to fall; `missed`, the places where IDENTIFY did. They state the exceptions
of the two promises. `RightSector`: the block behind one that was given up on
the same bus may be the late answer to that one, of the other drive too, and a
sector number of more than 28 bits loses its upper part; but every poll that
ends with DRQ leaves the bus in step again. `DevicesReal`: a master that was
given up is not listed, and its late answer may list it in its slave's place,
under which `fs.c` then reads from the slave, or from nothing. `ata_write` has
no callers and is left out. `fs.c` and `main.c` read from a device of the list
only; the loops over an empty list are not steps of the model, so a board
without a disk stops after `ata_init`.

### Screen

`textscreen_x` and `textscreen_y` are bytes that every thread changes without a
lock. The Makefile compiles without optimisation, so each statement is a load
and a store with whatever other threads do between them; each is an action here.
`byte` is the value a thread has loaded. `TestX`, `WrapX`, `TestY` and `Clip` are
the tests at the end of `write_char`, which correct what they find.
`clear` is called by threads other than the keyboard's, `movecursor` by the
keyboard's. `movedX` and `movedY` say that the last store of that coordinate
was one of `movecursor`, which tests nothing: they are the exception of
`QuietOnScreen`, as the character rubbed out at the left edge is that of
`StoresInside`. `alone` records that a writer found the screen quiet and has been
by itself since. The picture, what scrolling copies, the colours and the
registers of the hardware cursor are left out.

### Numerals

Texts are sequences of character codes. `textscreen_write_dec`,
`textscreen_write_hex`, `itoa`, `atoiDec` and `atoiHex` are recursive functions in
the order in which the code takes the digits: `atoi` reads a decimal number from
the end of the text and drops what it has when it meets something else, a
hexadecimal one from the front with a weight by depth. Integers are words modulo
`WordSize` (2^32), signed where the code has `int32_t`. `NumeralsAgree` compares
with `Value`, the reference definition of what a text denotes; the smallest
integer, whose negative is itself, is left out there. `FromBcd`, `HourFromBcd`
and `get_weekday_from_date` are the arithmetic of `rtc.c`, compared by
`CalendarAgrees` with a count of days through the years 2000 to 2099. `MCScreen`
states both of the first state (`NumeralsRight`, `ClockRight`): the functions keep
no state, so what is true of them there is true of every later call.

## 3. The runs

Twelve runs. In each, "pass" means TLC finds no violation in the whole bounded
state space.

| run | question | bounds | size |
|---|---|---|---|
| `Tasking` | do lists, states and election agree, does a corpse stay down unless it terminated itself and its own `sleep` revives it, can an age wrap | boot thread, Process Manager, one thread that comes and goes; sleeps of 2; words of 16 | 335 000 states |
| `TaskingLive` | does everybody run and wake when the timer is all that is fair | the same, words of 8 | 108 000 |
| `Mutex` | is a mutex a FIFO lock, is the priority restored, does a waiter enter | three threads, both kernel mutexes, nested, faults anywhere | 506 000 |
| `SharedList` | is the array with its counter a queue until two calls overlap | three threads, capacity 4, the timer anywhere | 10 600 |
| `SharedListPreempted` | and when they have overlapped (violation) | the same | |
| `Heap` | chain, loans, scrubber, allocator, and does malloc answer | two threads, sizes 1 and 2, header 2, gap 1, room for three blocks | 300 000 |
| `Reaper` | are records kept, does a late reset let anybody overtake, do corpses stay on their way, are all freed | three threads, two of which lock one mutex, at most two waiting | 262 000 |
| `ReaperKilled` | does a killed owner stay in the queue (violation) | two threads, one mutex, nobody terminates itself | |
| `Console` | key order, late stores, does Enter end the line | four keys of six kinds, two table entries, words of 8 | 182 000 |
| `Files` | does the search find what a path names, where can `currentDir` get to, do the sums of `fread` come out | twenty-four disks, paths of one and two pieces typed behind a `currentDir` of up to four, sectors of 4, words of 64 | 30 900 |
| `Disk` | is the device list real, does the right sector arrive, does every call end | three boards, sectors 0 and 3 of four, one or two blocks, two words per sector, one failed poll allowed | 1 003 000 |
| `Screen` | is the cursor on the screen when all is quiet, are a lone writer's stores inside; do numbers and dates come out | two writers, a screen of 2 by 2, a byte of five values, words of 256 | 243 000 |

Why the bounds are enough.

- *Three threads in Tasking.* The boot thread and the Process Manager are
  always there; the third one is created, sleeps, faults, is killed by itself
  or by another one, is collected, freed and created again in the same record.
  Elections among three have all the cases: two candidates of equal age, one
  that outruns the current thread and is outrun by a later entry.
- *WordMod.* Ages stay below `AgeBound`, so the word is large enough not to
  wrap for a live thread: `Tasking` checks the bound with words of 16, and
  `TaskingLive` uses 8. A corpse's age may wrap; nobody reads it.
- *LiveData (VIEW of Tasking)* hides what a corpse off the processor keeps in
  its fields: no guard reads them. *Chain (VIEW of Heap)* hides `content`,
  which no guard and no property of that run reads.
- *CorpsesOnProcessor (CONSTRAINT of TaskingLive)* stops behind states where a
  corpse has lost the processor; by `CorpseStaysDown` it takes no further part,
  and the liveness of the others is checked with fewer of them.
- *Heap.* Three blocks give a first, a middle and a last one, sizes 1 and 2 a
  block that fits and one that does not, and 13 words an allocation that fits
  only without its gap, and one that runs out of memory.
- *Untorn (CONSTRAINT of SharedList)* stops behind the first overlap of two list
  calls, after which `FifoUntilTorn` claims nothing.
- *TwoAtMutexes (CONSTRAINT of Reaper).* Behind a stale entry a queue only grows
  (this is `ReaperKilled`), so queues of more than two are cut. With two there
  is an owner, a waiter, and a stale entry before or behind it. The third thread
  lives and dies next to the others in the lists, locks nothing and does not
  send SIG_TERM to itself. The cuts end behaviours in which threads go on
  calling `mutexlock`; the Process Manager's loops do not read the queues.
  *KilledByOthers (CONSTRAINT of ReaperKilled)* keeps the counterexample to the
  plain case.
- *Console.* Four keys are enough for the interrupt to run ahead of the thread
  at start, for a doubled key and for an Enter after it; two table entries give
  an empty one before and behind the used one.
- *Files.* The disks have a file and a directory of one name, two files of one
  name, an end mark with an entry behind it, and a directory longer than
  a sector, dots and bare entries. The sizes are nothing, less than a sector,
  one, several with and without a rest, and two that are negative as an
  `int32_t`; one sector per cluster makes the inner loop of `fread` end by
  its `break` as well as by its condition. Four pieces reach a file two
  directories below the root by every detour of one unknown or empty piece.
- *Disk.* The boards have two disks on one bus, a disk beside a drive that
  refuses IDENTIFY with an empty bus or place elsewhere, and a single disk
  where the kernel looks third; either drive of a bus may be selected at the
  start. One failed poll is enough for a poll to run
  out at every place where the code polls; two words for a transfer that breaks
  off in the middle; two blocks for an answer that arrives one too late. The
  requests reach behind the last sector that the registers can name (block 3 + 1
  of 4).
- *Screen.* Two writers have all the lost updates of two unprotected counters;
  the third value behind the edge of a 2 by 2 screen is the first that two
  increments without a test between them can reach, and five values leave room
  to wrap. The theorems hold for any number of writers and any screen.
- *Numerals.* Every word of eight bits is printed and read back, in both bases;
  typed texts are up to four characters of both kinds of digits, with four
  endings; all dates of a century. The theorems hold for every size of a word and
  texts of any length.

Deadlock is checked except where the system may stop: `Mutex` (every thread may
have faulted), `Heap` (out of memory ends in PANIC, which holds the mutex for
ever), `Console` (the last key was typed) and `Disk` (no disk was found, so
nothing is read).

Fairness. `Tasking` assumes that the timer fires again and again, nothing else.
The other modules assume weak fairness of the steps of a thread that is inside
a call, which is what `NoStarvation` and `SleepersRun` give; `Mutex` also
that a section under `malloc_mutex` ends, not one under `scanf_mutex`, which
lasts as long as a user types. `Disk` assumes weak fairness of the driver and
nothing of the drives, which need never answer; `Screen` assumes none. Nobody is
obliged to lock, allocate, write, free, fault, die or type.

### What the violations show

1. `SharedListPreempted`: a timer tick inside `listadd` or `popfirst` lets two
   threads into one mutex.
2. `ReaperKilled`: a thread inside a mutex is terminated by another one; the
   Process Manager clears the `locker` and frees the record, but the dead tid
   stays at the front of the queue: nobody enters any more.

Two more weaknesses are inside the properties as they are stated. `sleep` stores
`THREAD_STATE_WAITING_SLEEP` whatever the state was (line 190 of `tasking.c`). A
thread that has sent SIG_TERM to itself, as `virus` does before its `sleep(1)`
(lines 297 and 300 of `shell.c`), and that has not lost the processor since, wakes
up alive: `CorpseStaysDown` names that store as the only way back, and
`ImplementsLifecycle` that it comes before the record is collected. A signal of
another thread is no such case: its victim is off the processor, and a corpse
is not elected again. `free` releases a block first and clears it
afterwards (line 118 of `memory.c`), when malloc may have lent it again: the wipe is
an action of `Heap`, and no property there forbids it.

## 4. The theorems

TLAPS checks them for any number of threads, mutexes, blocks, keys, any disk,
any sizes and any word size that the modules' assumptions allow.

| theorem | says | inductive invariant |
|---|---|---|
| `TaskingProofs!TypeCorrect`, `ListsAgreeCorrect` | types; lists and states agree, the processor is at a listed record | `ListsAgree` needs `ManagerFit`: the Process Manager, the only one that takes records off a list, is never a corpse while it runs, so it never collects `thread_current` |
| `TaskingProofs!CorpseStaysDownCorrect` | a dead thread stays dead unless the store of its own `sleep` revives it, and one that lost the processor does not get it back | from `IInv`: an election takes ready threads, and of the other actions only `SleepState` stores over a `DEAD` |
| `TaskingProofs!AgeBoundCorrect` | no age of a live thread wraps | `AgeInv`: the threads that are overdue by `k` are fewer the larger `k` is (`OverdueFew`); a sleeper's age and the sleep it has left are bounded together (`SleepSound`) |
| `TaskingProofs!ElectionCorrect` | the loop of `tasking_switch` elects whom `Elects` names | none over time; along the list, `Passed` (see below) |
| `MutexProofs!TypeCorrect`, `MutualExclusionCorrect`, `LockerSoundCorrect` | types; one owner; `locker` names the owner or one that is just leaving | a queue holds a thread once (`QueueSound`), owners are first (`OwnerFirst`), and the statement of a thread says what it owns (`OwnsAt`) |
| `MutexProofs!PriorityCorrect` | outside every mutex a thread has its own priority or 0 | `PInv`: mutexes nest by rank (`Nested`), and the outermost one that a thread holds keeps its own priority or 0 in `locked` from the save to the restore (`PriorityKept`) |
| `MutexProofs!Implementation` | `Mutex` implements `FifoLock` | each assignment is a `Request`, `Acquire`, `Release` or a stutter |
| `MutexProofs!ListImplementation` | until two calls overlap, `SharedList` implements `FifoLock` | `torn`, or `CallsSound` and `OrderSound`: one call at most is under way, and at each of its statements the array differs from the queue in a known way (below) |
| `HeapProofs!TypeCorrect`, `ChainCorrect`, `LoansCorrect`, `ScrubberCorrect` | the chain, the loans, the scrubber | `QueueSound` (who is inside is the queue's head) gives that one walk is under way; `CallSound` says where that walk may stand and that the block it has taken is nobody's |
| `HeapProofs!Implementation` | `Heap` implements `Allocator` | blocks are disjoint and loans have blocks of their own |
| `ReaperProofs!TypeCorrect`, `RecordsCorrect`, `OwnersCorrect` | records; nobody overtakes a queue, late resets included | `CarriesSound` (a record is in the manager's hands in four phases), `OwnListed` (a corpse that still runs is not collected) and `CallsSound` (a thread is in a queue once, and in the one whose loop it has passed) |
| `ReaperProofs!Implementation` | `Reaper` implements `Lifecycle` | under the same invariant, each step changes the stage of one record at most, by one step of its life, or from dead to live by its own `sleep` |
| `FilesProofs!ReadsWholeCorrect` | of a file below 2 GiB less a sector `cat` and `load` get as many bytes as it has, and no call more than it asked for; of one of 2 GiB or more `cat` gets nothing | `ReadInv`, below |
| `FilesProofs!LookupRightCorrect`, `OnlyLongCdCorrect` | `fexists` and `fopen` agree and find what is there; only a long `cd` leaves the tree | only types: both hold of every path, whatever commands led to it |
| `ConsoleProofs!TypeCorrect`, `KeysCorrect`, `StoresCorrect` | catchers, key order, late stores | `Keyed`: interrupts not answered yet are counted as tickets, at least one per unread byte and at most one more, and that one is spent on the doubled key; `Pointed`: `inputBuffer` is set only while `scanf` waits |
| `DiskProofs!TypeCorrect`, `RightSectorCorrect`, `DevicesCorrect` | types; the sector that arrives; the list of devices | `DriveSound` (only the selected drive of a bus works) with `BusSound` (a bus at work that nobody waits for was given up), `FillSound` (the buffer and the counters), `BootSound` and `IdentSound` (IDENTIFY speaks to its drive unless the bus was given up, and takes one whole answer), `ReadSound` (the same of `ata_read`, and what the poll has seen), `ListSound` (the entries so far are real and in order) |
| `ScreenProofs!TypeCorrect`, `QuietOnScreenCorrect`, `StoresInsideCorrect` | types; where the cursor is when nobody prints; where a lone writer stores | `XTested`, `YTested`: a coordinate outside the screen has a writer whose test is still to come, or was stored by `movecursor`; `AloneSound`: what a lone writer has loaded is what is there |
| `ScreenProofs!NumeralsCorrect`, `AnyTextRead` | numbers are written as their numerals and read as their values modulo the word, texts of any length | none over time; along a recursion, `Recursion` and `SameFunction` (below) |
| `ScreenProofs!ClockCorrect` | the date and the day of the week | none over time; a closed form of `DaysBefore` |

Seven of the arguments deserve more than a line.

*No age wraps.* `tasking_switch` ages every ready thread and gives the elected
one its priority as age, so a thread that waits may be passed over again and
again, and nothing in one step bounds its age. What does is a count: call a live
thread overdue by `k` when its age is above `Realtime + longest sleep + k`. When
threads become overdue by `k + 1`, they were overdue by `k` before, and the
oldest thread, one of these, was elected and has a young age again. Hence at
most `Cardinality(Threads) - 1 - k` threads are overdue by `k`, for all `k` at
once, which is inductive; at `k = Cardinality(Threads) - 1` nobody is left. A
sleeper counts its sleep down while it ages, so when it wakes it is at most a
longest sleep older than the highest priority.

*The election.* `Passed(i)` says what `best[i]` is after `i` entries: the running
thread, and nobody so far outruns it, or the oldest ready entry so far, the
first of these, and somebody outruns it. The case that needs care is the entry
of the running thread itself, before which it is compared with its own age and
behind which with the age it has been given in the loop.

*The priority.* The byte `locked` holds the priority that `mutexlock` saved. It is
right when it was saved by the one who restores it, before its priority was
raised; `Pop` overwrites it with a tid and `ClearLocked` with 0, both while the
next owner may already have come in. `PriorityKept` follows the byte through
these statements. With two mutexes held the inner one has saved the raised
priority and restores that; only the outermost one gives back the thread's own
(`Outermost`), so the invariant speaks of that one.

*The loops of fread.* They contain three slips: the sectors before `progress` are
counted one too few, the remainder in `toread` has its operands the wrong way
round, and `SIZE` starts at the size of the whole file in every call. The sums
come out all the same, and `ReadInv` says why. Between two calls `progress` is 0,
at least a sector, or the end of the file (`BetweenCalls`), and there
`512 % progress` is 512 or 0, which the code takes for nothing missing. `cat`
moves what it asked for in the one round in which `skip` reaches 0, and `SIZE` is
larger than `skip` sectors until then (`CatWaits`). `load` moves the first
sector, then all but the last, then the last (`LoadStages`). `InLoops` adds it
up: what was moved and what is missing are what was asked for, and the loops end
when nothing is missing, not sooner and not later.

*The selected drive.* A bus at work cannot be switched, so after a poll that was
given up nothing is certain of the drive that answers next. What is certain is
that only the selected drive of a bus works (`DriveSound`), and that a bus is left
at work by such a poll only (`BusSound`). Hence when the last poll on a bus was
not given up the registers arrive, the drive that is asked takes the command,
and `ReadSound` follows it to the last word. And when a poll ends with DRQ after
all, the 256 words that follow empty whichever drive it was, so the bus is idle
again, whoever had been given up before. While booting, the one drive of a bus
that can have been given up before the driver comes to `drive` is its master,
which is why the exception of `DevicesReal` names that one (`BootSound`).

*The list in memory.* `popfirst` copies the entries one down, the word behind the
last one with them, and only then lowers the counter; `listadd` stores first and
raises the counter afterwards. So there are moments at which the array holds a
thread twice, or one that the counter does not reach, and slot 0 may show the
next owner while the last one is still in its call. The refinement counts a
thread as queued once the counter is raised, and as gone when its `popfirst`
begins; between two copies the queue is the part that was moved and the part
that was not. `OrderSound` adds that exactly the threads that wait or own are
queued, once each, so a word from behind the end that comes to slot 0 lets
nobody in: who is not queued does not look. A timer tick in the middle of
a call does no harm by itself, as long as no other list call comes before the
interrupted one goes on; the first one that does sets `torn`, where the
theorem ends and the counterexample of `SharedListPreempted` begins.

*Numbers and dates.* What a recursive definition computes is proved in two
steps. `Recursion` says that a function as the definition describes it exists,
if each argument leads to one of lower rank; `SameFunction` that two functions
agree if they agree wherever they do so at all lower ranks. The first gives
`WriteDec[v]` and the others their defining equation, the second compares the
loops of `atoi` with `Value`: for `%d` from the end of the text, each digit with
the power of ten it counts, for `%x` from the front, `out` being the number read
so far times the weight of what is still to come. `WordSum` and `WordProduct`
carry the remainders through. The smallest integer, whose sign `write_dec`
cannot change, is left out as in `NumeralsAgree`. The days of a century are
counted by `365 * year + (year + 3) \div 4` and a table of months (`NextMonth`,
`DaysCounted`), which agrees with the table of `rtc.c` modulo seven.

The search of `Files` is proved along the path: the tree is closed under
prefixes, so the walk stops at the directory before the last part exactly when
that is in the tree (`SearchEnds`), and there the cache is the disk's directory
when this fits a sector (`CacheIsDisk`).

Where a definition is a loop (`best`, the pieces that `Parts` keeps) the proof
goes over it by its least counterexample: the library's induction theorems need
an operator for an argument, which the provers cannot supply, but a set of
numbers that is not empty has a least element (`LeastNat`), and at the least
number where an equation fails it holds one before.

The theorems rest on the named assumptions of the modules (`ThreadsAssumption`,
`NumbersAssumption`, `AgeAssumption`, `MutexAssumption`, `HeapAssumption`,
`ReaperAssumption`, `ConsoleAssumption`, `DiskAssumption`, `FilesAssumption`,
`ScreenAssumption`, `NumeralsAssumption`), which TLC evaluates in the runs.
`ListImplementation` names its own, a capacity that is not 0.
`NumeralsAssumption` asks for an even size of a word above 16.
`NumbersAssumption` excludes `sleep(0)`, and `HeapAssumption` stands for sizes
whose sums do not wrap. `AgeAssumption` says that the highest priority, the
longest sleep and the number of threads together are below 2^32: the code's
priorities end at 40, the longest `sleep` it calls is 3000, and each thread
needs a record and a stack of a memory smaller than that. `FilesAssumption` says
that a disk's directories lie below its mount point, as `fs_init` builds them.

Every safety property of the passing runs is a theorem. Only model-checked is
what is said under fairness (`NoStarvation`, `SleepersRun`, `WaitersEnter`,
`MallocAnswers`, `CorpsesFreed`, `EnterEndsLine`, `ReadsReturn`), which is beyond
the prover, and the two violations, which are counterexamples.

## 5. What is not modelled

- Data that no property tells apart: characters, names, messages, registers,
  the stack frame of a new thread, the picture on the screen, the scrolled
  lines, the colours, the hardware cursor.
- The random tid of a new thread: records stand for tids and a freed one is
  forgotten (`Stale`), so a tid that is given twice is not in the models.
- Interleavings inside calls on `thread_list`, `thread_list_dead` and
  `mutexlist`; only the waiting list is opened up.
- A record that a timer tick reads after it was freed: `Free` is one step.
- What `cat` and `load` read: `Files` counts the bytes.
- `ata_write`, which nothing calls, and drives that take a command or a selection
  while their bus is at work: those of the emulator that the Makefile starts do
  not.
- The death of the Process Manager itself: `Reaper` has no record for it.
- The registers of the clock and the Shell's reading of a date while it is
  converted: `Numerals` has the conversion as a function.
- ACPI, PCI and the device list: searches of tables that the firmware or the
  hardware holds, once while booting, on which no later state depends.
- Several processors: the application processors halt after starting.
- The components that `PROJECT.json` marks `not_modelled`, each with its reason.

## 6. The plan

1. `Files` with memory: the pieces of the path and their double frees on top of
   `Heap`, the clusters of a file with the outcomes of `Disk`, and the 128
   bytes of `currentDir`.
2. `Lists`: `listadd` with its growth, `popitem`, `poplast`, `peekitem` over
   memory, against sequences; then the interleaving of `create_thread_param`
   with the two loops of the Process Manager on `thread_list`. It would take
   the place of `SharedList`.
3. The line of the shell with its neighbours in memory: `Console` with `Heap`,
   for the line that is freed twice and the 21st key.
4. `Clock`: the date as shared variables that the RTC thread converts in place,
   and what the Shell reads of them; the update bit of the registers.
5. `Processors`: the start of the application processors, with the shared
   counter and the shared stack.
6. A sleeping clock in `Tasking`: how much shorter than asked a sleep may be
   when others call `preempt`.
7. Proofs: the invariants of `Lists`, when it is written; the growth of a list as
   an implementation of a sequence.
