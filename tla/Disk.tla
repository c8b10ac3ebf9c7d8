--------------------------------- MODULE Disk ---------------------------------
(***************************************************************************)
(* The ATA driver of src/ata.c: ata_init looks for drives at four          *)
(* positions, two on each bus, and ata_read fetches sectors with           *)
(* programmed I/O, polling a bounded number of times.                      *)
(*                                                                         *)
(* The drives work on their own.  A drive is busy (BSY), has words to      *)
(* hand over (DRQ), has failed (ERR, or DF alone) or is idle; it may take  *)
(* any time to answer, also for ever.  The two drives of a bus share its   *)
(* ports: one of them is selected; its status and its words are read, and  *)
(* it takes the commands.  While the selected drive is busy or has words   *)
(* left, whatever is written to the ports of the bus is ignored, by the    *)
(* emulator that the Makefile starts too, and that includes the register   *)
(* which selects.  The firmware has waited for the drives before the       *)
(* kernel starts.  The driver is one thread: ata_init runs while booting,  *)
(* ata_read in fs_init and later in the Shell.                             *)
(***************************************************************************)
EXTENDS Naturals, Sequences

CONSTANTS
    Boards,         \* what may be plugged in: functions from Positions to Kinds
    Requests,       \* the first sectors asked for
    Counts,         \* the numbers of sectors asked for; fs.c asks for one
    Words,          \* 256: the words of a sector, and of the answer to IDENTIFY
    MaxTrys,        \* 500000: the polls that may fail
    LbaMod,         \* 2^28: the sectors that the registers can name
    Identity,       \* what IDENTIFY asks for, instead of a sector
    Junk            \* what the data port reads when there is no word

\* (bus << 1) | drive, in the order in which ata_init looks.
Positions == 0 .. 3
Buses == 0 .. 1

\* "float": nothing on the bus, whose lines then read as ones; "none":
\* nothing there, read as zero; "packet": a drive that refuses IDENTIFY.
Kinds == {"disk", "packet", "none", "float"}

ASSUME DiskAssumption ==
    /\ Boards \subseteq [Positions -> Kinds]
    /\ Requests \subseteq Nat
    /\ Counts \subseteq Nat \ {0}
    /\ Words \in Nat \ {0}
    /\ MaxTrys \in Nat \ {0}
    /\ LbaMod \in Nat \ {0}
    /\ Identity \notin Nat

VARIABLES
    board,      \* what is plugged in
    phase,      \* of each drive: its status bits
    job,        \* of each drive: the sector, or Identity, that it works on
    sent,       \* of each drive: how many words of job it has handed over
    selected,   \* of each bus: the position that is selected
    reg,        \* of each bus: the sector that its registers name
    pc,         \* where the driver is
    drive,      \* the position it is busy with
    trys,       \* trys of ata_poll and ata_init_device
    first,      \* this call of ata_read: its first sector,
    count,      \* how many it wants
    i,          \* and how many it has
    buf,        \* the words that were put into the buffer
    devices,    \* what deviceadd was given
    outcome,    \* history: how the poll ended, which ata_poll does not return
    gaveUp,     \* history: of each bus, whether the last poll ran out of trys
                \* waiting for BSY to fall
    missed      \* history: the positions where IDENTIFY ended so

drives == <<board, phase, job, sent, selected, reg>>
history == <<outcome, gaveUp, missed>>
vars == <<drives, pc, drive, trys, first, count, i, buf, devices, history>>

Bus(p) == p \div 2

\* A sector, or the answer to IDENTIFY; a word is the k-th of one of them.
Jobs == Nat \cup {Identity}
Word == [from : Positions, of : Jobs, at : 0 .. Words] \cup {Junk}

\* All words of one answer of a drive.
Whole(p, j) == [k \in 1 .. Words |-> [from |-> p, of |-> j, at |-> k - 1]]

Working == {"busy", "data"}

Init ==
    /\ board \in Boards
    /\ phase = [p \in Positions |-> "idle"]
    /\ job = [p \in Positions |-> 0]
    /\ sent = [p \in Positions |-> 0]
    /\ selected \in {s \in [Buses -> Positions] : \A b \in Buses : Bus(s[b]) = b}
    /\ reg = [b \in Buses |-> 0]
    /\ pc = "identify"
    /\ drive = 0
    /\ trys = 0
    /\ first = 0
    /\ count = 0
    /\ i = 0
    /\ buf = <<>>
    /\ devices = <<>>
    /\ outcome = "none"
    /\ gaveUp = [b \in Buses |-> FALSE]
    /\ missed = {}

-----------------------------------------------------------------------------
(* The drives. *)

\* The drive that the ports of the driver's bus lead to.
Selected == selected[Bus(drive)]

\* What the status register reads; "RDY" stands for the bits that the driver
\* does not look at.
Status ==
    CASE board[Selected] = "float" -> {"BSY", "ERR", "DRQ", "RDY"}
      [] board[Selected] = "none" -> {}
      [] OTHER -> [idle  |-> {"RDY"},
                   busy  |-> {"BSY"},
                   data  |-> {"RDY", "DRQ"},
                   error |-> {"RDY", "ERR"},
                   fault |-> {"RDY"}][phase[Selected]]   \* DF: nobody tests it

\* A command: the drive that is selected takes it, unless it is at work.
Given(j) ==
    IF board[Selected] \in {"disk", "packet"} /\ phase[Selected] \notin Working
    THEN /\ phase' = [phase EXCEPT ![Selected] = "busy"]
         /\ job' = [job EXCEPT ![Selected] = j]
         /\ sent' = [sent EXCEPT ![Selected] = 0]
    ELSE UNCHANGED <<phase, job, sent>>

\* The device register and the registers of the sector are written.
Addressed(sector) ==
    IF phase[Selected] \notin Working
    THEN /\ selected' = [selected EXCEPT ![Bus(drive)] = drive]
         /\ reg' = [reg EXCEPT ![Bus(drive)] = sector % LbaMod]
    ELSE UNCHANGED <<selected, reg>>

\* A drive has found what it was asked for, or has failed.  If it fails while
\* the registers of its bus are being written, the last of them still arrive.
Answer(p) ==
    /\ phase[p] = "busy"
    /\ \E end \in IF board[p] = "disk" THEN {"data", "error", "fault"} ELSE {"error"} :
        /\ phase' = [phase EXCEPT ![p] = end]
        /\ \/ UNCHANGED reg
           \/ /\ end # "data" /\ pc \in {"identCommand", "command"} /\ p = Selected
              /\ \E mixture \in 0 .. LbaMod - 1 :
                    reg' = [reg EXCEPT ![Bus(p)] = mixture]
    /\ UNCHANGED <<board, job, sent, selected, pc, drive, trys, first, count, i, buf,
                   devices, history>>

Drive == \E p \in Positions : Answer(p)

-----------------------------------------------------------------------------
(* inw, and the end of the loops that call it. *)

\* Mutant of InWord: the loop runs to i <= 256.
InWordOneMore(where, behind) ==
    /\ pc = where
    /\ IF phase[Selected] = "data"
       THEN /\ buf' = Append(buf, [from |-> Selected, of |-> job[Selected],
                                   at |-> sent[Selected]])
            /\ sent' = [sent EXCEPT ![Selected] = @ + 1]
            /\ phase' = IF sent[Selected] + 1 = Words
                        THEN [phase EXCEPT ![Selected] = "idle"] ELSE phase
       ELSE buf' = Append(buf, Junk) /\ UNCHANGED <<sent, phase>>
    /\ pc' = IF Len(buf) + 1 > Words THEN behind ELSE where
    /\ UNCHANGED <<board, job, selected, reg, drive, trys, first, count, i, devices,
                   history>>

\* One word of the transfer, whether there is one or not.
InWord(where, behind) ==
    /\ pc = where
    /\ IF phase[Selected] = "data"
       THEN /\ buf' = Append(buf, [from |-> Selected, of |-> job[Selected],
                                   at |-> sent[Selected]])
            /\ sent' = [sent EXCEPT ![Selected] = @ + 1]
            /\ phase' = IF sent[Selected] + 1 = Words
                        THEN [phase EXCEPT ![Selected] = "idle"] ELSE phase
       ELSE buf' = Append(buf, Junk) /\ UNCHANGED <<sent, phase>>
    /\ pc' = IF Len(buf) + 1 = Words THEN behind ELSE where
    /\ UNCHANGED <<board, job, selected, reg, drive, trys, first, count, i, devices,
                   history>>

-----------------------------------------------------------------------------
(* ata_init: ata_init_device for one position after the other. *)

\* Return from ata_init_device, whatever it found.
NextPosition(inVain) ==
    /\ IF drive = 3
       THEN pc' = "idle" /\ UNCHANGED drive
       ELSE pc' = "identify" /\ drive' = drive + 1
    /\ gaveUp' = [gaveUp EXCEPT ![Bus(drive)] = inVain]
    /\ missed' = IF inVain THEN missed \cup {drive} ELSE missed

\* ata_select_drive and the registers.
Identify ==
    /\ pc = "identify"
    /\ Addressed(0)
    /\ pc' = "identCommand"
    /\ UNCHANGED <<board, phase, job, sent, drive, trys, first, count, i, buf, devices,
                   history>>

\* The command.
IdentCommand ==
    /\ pc = "identCommand"
    /\ Given(Identity)
    /\ pc' = "identZero"
    /\ UNCHANGED <<board, selected, reg, drive, trys, first, count, i, buf, devices,
                   history>>

\* if(status): a position that reads as zero is empty.
IdentZero ==
    /\ pc = "identZero"
    /\ trys' = 0
    /\ IF Status = {}
       THEN NextPosition(FALSE)
       ELSE pc' = "identBusy" /\ UNCHANGED <<drive, gaveUp, missed>>
    /\ UNCHANGED <<drives, first, count, i, buf, devices, outcome>>

\* One round of the loop on BSY.
IdentBusy ==
    /\ pc = "identBusy"
    /\ IF "BSY" \in Status
       THEN /\ trys' = trys + 1
            /\ IF trys + 1 > MaxTrys
               THEN NextPosition(TRUE) ELSE UNCHANGED <<pc, drive, gaveUp, missed>>
       ELSE /\ trys' = 0
            /\ pc' = "identReady"
            /\ UNCHANGED <<drive, gaveUp, missed>>
    /\ UNCHANGED <<drives, first, count, i, buf, devices, outcome>>

\* One round of the loop behind pm_stat_read.
IdentReady ==
    /\ pc = "identReady"
    /\ trys' = trys + 1
    /\ IF "ERR" \in Status \/ trys + 1 > MaxTrys
       THEN NextPosition(FALSE) /\ UNCHANGED buf
       ELSE /\ buf' = <<>>
            /\ pc' = IF "DRQ" \in Status THEN "identWord" ELSE pc
            /\ UNCHANGED <<drive, gaveUp, missed>>
    /\ UNCHANGED <<drives, first, count, i, devices, outcome>>

IdentWord == InWord("identWord", "identAdd")

\* Mutant of IdentAdd: the bus is not shifted.
IdentAddUnshifted ==
    /\ pc = "identAdd"
    /\ devices' = Append(devices,
                         [drive |-> IF Bus(drive) = 0 THEN drive ELSE 1, name |-> buf])
    /\ NextPosition(FALSE)
    /\ UNCHANGED <<drives, trys, first, count, i, buf, outcome>>

\* The device with its name, which is cut out of the answer, goes to deviceadd.
IdentAdd ==
    /\ pc = "identAdd"
    /\ devices' = Append(devices, [drive |-> drive, name |-> buf])
    /\ NextPosition(FALSE)
    /\ UNCHANGED <<drives, trys, first, count, i, buf, outcome>>

-----------------------------------------------------------------------------
(* ata_read. *)

lba == first + i

\* A call of ata_read on a device of the list.
Read(d, from, n) ==
    /\ pc = "idle"
    /\ drive' = devices[d].drive
    /\ first' = from
    /\ count' = n
    /\ i' = 0
    /\ pc' = "address"
    /\ UNCHANGED <<drives, trys, buf, devices, history>>

\* Mutant of Address: the loop of ata_read forgets its index.
AddressFirst ==
    /\ pc = "address"
    /\ Addressed(first)
    /\ pc' = "command"
    /\ UNCHANGED <<board, phase, job, sent, drive, trys, first, count, i, buf, devices,
                   history>>

\* ata_read_block: the drive, the registers.
Address ==
    /\ pc = "address"
    /\ Addressed(lba)
    /\ pc' = "command"
    /\ UNCHANGED <<board, phase, job, sent, drive, trys, first, count, i, buf, devices,
                   history>>

\* The command, and the first lines of ata_poll.
Command ==
    /\ pc = "command"
    /\ Given(reg[Bus(drive)])
    /\ trys' = 0
    /\ pc' = "pollBusy"
    /\ UNCHANGED <<board, selected, reg, drive, first, count, i, buf, devices, history>>

\* ata_poll returns: nothing, so the transfer follows in any case.
EndPoll(how) ==
    /\ outcome' = how
    /\ buf' = <<>>
    /\ pc' = "word"

\* Mutant of PollBusy: the rounds are not counted.
PollBusyUncounted ==
    /\ pc = "pollBusy"
    /\ IF "BSY" \in Status
       THEN UNCHANGED <<trys, pc, outcome, buf>>
       ELSE trys' = 0 /\ pc' = "pollReady" /\ UNCHANGED <<outcome, buf>>
    /\ UNCHANGED <<drives, drive, first, count, i, devices, gaveUp, missed>>

\* One round at retry.
PollBusy ==
    /\ pc = "pollBusy"
    /\ \/ /\ trys + 1 > MaxTrys
          /\ trys' = trys + 1
          /\ EndPoll("busy")
       \/ /\ trys + 1 <= MaxTrys
          /\ "BSY" \in Status
          /\ trys' = trys + 1
          /\ UNCHANGED <<pc, outcome, buf>>
       \/ /\ trys + 1 <= MaxTrys
          /\ "BSY" \notin Status
          /\ trys' = 0
          /\ pc' = "pollReady"
          /\ UNCHANGED <<outcome, buf>>
    /\ UNCHANGED <<drives, drive, first, count, i, devices, gaveUp, missed>>

\* One round at retry2.
PollReady ==
    /\ pc = "pollReady"
    /\ \/ /\ "ERR" \in Status
          /\ UNCHANGED trys
          /\ EndPoll("error")
       \/ /\ "ERR" \notin Status
          /\ trys' = trys + 1
          /\ \/ trys + 1 > MaxTrys /\ EndPoll("silent")
             \/ trys + 1 <= MaxTrys /\ "DRQ" \in Status /\ EndPoll("ready")
             \/ /\ trys + 1 <= MaxTrys
                /\ "DRQ" \notin Status
                /\ UNCHANGED <<pc, outcome, buf>>
    /\ UNCHANGED <<drives, drive, first, count, i, devices, gaveUp, missed>>

DataWord == InWord("word", "blockDone")

\* The loop of ata_read.
NextSector ==
    /\ pc = "blockDone"
    /\ i' = i + 1
    /\ gaveUp' = [gaveUp EXCEPT ![Bus(drive)] = outcome = "busy"]
    /\ pc' = IF i + 1 < count THEN "address" ELSE "idle"
    /\ UNCHANGED <<drives, drive, trys, first, count, buf, devices, outcome, missed>>

Driver ==
    \/ Identify \/ IdentCommand \/ IdentZero
    \/ IdentBusy \/ IdentReady \/ IdentWord \/ IdentAdd
    \/ Address \/ Command \/ PollBusy \/ PollReady \/ DataWord \/ NextSector

Next ==
    \/ Driver
    \/ Drive
    \/ \E d \in DOMAIN devices, from \in Requests, n \in Counts : Read(d, from, n)

Spec == Init /\ [][Next]_vars

\* The driver is a thread that gets the processor again and again; a drive
\* need not do anything.
FairSpec == Spec /\ WF_vars(Driver)

-----------------------------------------------------------------------------
(* Properties. *)

TypeOK ==
    /\ board \in Boards
    /\ phase \in [Positions -> {"idle", "busy", "data", "error", "fault"}]
    /\ job \in [Positions -> Jobs]
    /\ sent \in [Positions -> 0 .. Words]
    /\ selected \in [Buses -> Positions]
    /\ reg \in [Buses -> 0 .. LbaMod - 1]
    /\ pc \in {"identify", "identCommand", "identZero", "identBusy", "identReady",
               "identWord", "identAdd", "idle", "address", "command", "pollBusy",
               "pollReady", "word", "blockDone"}
    /\ drive \in Positions
    /\ trys \in 0 .. MaxTrys + 1
    /\ first \in Nat /\ count \in Nat /\ i \in 0 .. count
    /\ buf \in Seq(Word)
    /\ Len(buf) <= Words
    /\ devices \in Seq([drive : Positions, name : Seq(Word)])
    /\ outcome \in {"none", "ready", "error", "busy", "silent"}
    /\ gaveUp \in [Buses -> BOOLEAN]
    /\ missed \subseteq Positions

\* What ata_read puts into the buffer after a poll that ended with DRQ is the
\* sector that was asked for, from the drive that was asked, if the registers
\* can name it and the poll before on the same bus was not given up.  After
\* one that was, the late answer may come instead, the answer of the other
\* drive too, because a bus at work cannot be switched; but a poll that ends
\* with DRQ always brings driver and bus back into step (ata_select_drive,
\* ata_poll, ata_read_block).
RightSector ==
    (pc = "blockDone" /\ outcome = "ready") =>
        /\ phase[Selected] \notin Working
        /\ ~gaveUp[Bus(drive)] /\ lba < LbaMod => buf = Whole(drive, lba)

\* The list of devices is made of disks, each once and with the name that it
\* gave itself, however slow the drives are, late answers and floating lines
\* included.  There is one exception: a master that ata_init_device gave up is
\* not listed itself, but its late answer may enter it in its slave's place.
DevicesReal ==
    \A d \in DOMAIN devices :
        /\ \E p \in Positions :
            /\ board[p] = "disk"
            /\ devices[d].name = Whole(p, Identity)
            /\ \/ devices[d].drive = p
               \/ devices[d].drive = p + 1 /\ Bus(p + 1) = Bus(p) /\ p \in missed
        /\ devices[d].drive \notin missed
        /\ \A e \in 1 .. d - 1 : devices[e].drive < devices[d].drive

\* ata_init and every ata_read come to their end although a drive may never
\* answer: all polls are bounded.
ReadsReturn == []<>(pc = "idle")
=============================================================================
