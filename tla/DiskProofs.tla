------------------------------ MODULE DiskProofs ------------------------------
(***************************************************************************)
(* Type correctness of Disk, what ata_read hands over and what the device  *)
(* list holds, for any boards, sectors, sector sizes and retry bounds.     *)
(***************************************************************************)
EXTENDS Disk, TLAPS

Identifying == {"identify", "identCommand", "identZero", "identBusy", "identReady",
                "identWord", "identAdd"}
Reading == {"address", "command", "pollBusy", "pollReady", "word", "blockDone"}
Between == {"idle", "identify", "address"}

Phases == {"idle", "busy", "data", "error", "fault"}

\* What has come so far are the first words of j, from p.
Begins(p, j) ==
    \A k \in 1 .. Len(buf) : buf[k] = [from |-> p, of |-> j, at |-> k - 1]

\* Only the selected drive of a bus works, and what it is at fits.
DriveSound ==
    /\ \A b \in Buses : Bus(selected[b]) = b
    /\ \A p \in Positions :
        /\ phase[p] \in Working =>
               board[p] \in {"disk", "packet"} /\ selected[Bus(p)] = p
        /\ phase[p] = "data" => board[p] = "disk" /\ sent[p] < Words
        /\ phase[p] = "busy" => sent[p] = 0

\* A bus that is at work while nobody waits for it was given up.
BusSound == \A b \in Buses :
    \/ phase[selected[b]] \notin Working
    \/ gaveUp[b]
    \/ b = Bus(drive) /\ pc \notin Between

\* The loops of inw end when the buffer is full, those on the status when the
\* trys are used up, that of ata_read when it has all its sectors.
FillSound ==
    /\ pc \in Reading => i < count
    /\ pc \in {"identBusy", "identReady", "pollBusy", "pollReady"} => trys <= MaxTrys
    /\ pc \in {"identWord", "word"} => Len(buf) < Words
    /\ pc \in {"identAdd", "blockDone"} => Len(buf) = Words

\* While booting a bus is given up only by ata_init_device, and drives are
\* asked for their identity only.
BootSound == pc \in Identifying =>
    /\ \A p \in missed : p < drive
    /\ \A b \in Buses : gaveUp[b] =>
           \E p \in Positions : Bus(p) = b /\ p < drive /\ p \in missed
    /\ \A p \in Positions : phase[p] \in Working =>
           /\ job[p] = Identity
           /\ pc # "identWord" \/ p # Selected => sent[p] = 0

\* ata_init_device speaks to its drive unless the bus was given up before,
\* and takes the words of one whole answer.
IdentSound ==
    /\ pc \in Identifying \ {"identify"} => Selected = drive \/ gaveUp[Bus(drive)]
    /\ pc = "identReady" => phase[Selected] # "busy" /\ (trys > 0 => phase[Selected] # "data")
    /\ pc = "identWord" =>
           /\ phase[Selected] = "data" /\ sent[Selected] = Len(buf)
           /\ Begins(Selected, Identity)
    /\ pc = "identAdd" =>
           /\ board[Selected] = "disk" /\ phase[Selected] \notin Working
           /\ Begins(Selected, Identity)

ListSound ==
    /\ DevicesReal
    /\ pc \in Identifying => \A e \in DOMAIN devices : devices[e].drive < drive

\* Between Address and the last word, on a bus that was not given up, the
\* drive works on the sector of this call, and the poll knows whether it is
\* still busy.
ReadSound ==
    /\ pc = "command" /\ ~gaveUp[Bus(drive)] =>
           /\ Selected = drive /\ phase[drive] \notin Working
           /\ reg[Bus(drive)] = lba % LbaMod
    /\ pc \in {"pollBusy", "pollReady"} /\ ~gaveUp[Bus(drive)] =>
           /\ Selected = drive
           /\ phase[drive] \in Working => job[drive] = lba % LbaMod /\ sent[drive] = 0
    /\ pc = "pollReady" => phase[Selected] # "busy"
    /\ pc = "word" /\ outcome # "busy" =>
           /\ phase[Selected] # "busy"
           /\ phase[Selected] = "data" => sent[Selected] >= Len(buf)
    /\ pc = "word" /\ outcome = "ready" /\ ~gaveUp[Bus(drive)] =>
           /\ Selected = drive
           /\ phase[drive] = "data" /\ job[drive] = lba % LbaMod
           /\ sent[drive] = Len(buf) /\ Begins(drive, lba % LbaMod)
    /\ pc = "blockDone" /\ outcome # "busy" => phase[Selected] \notin Working
    /\ pc = "blockDone" /\ outcome = "ready" /\ ~gaveUp[Bus(drive)] =>
           Begins(drive, lba % LbaMod)

IInv == /\ TypeOK /\ DriveSound /\ BusSound /\ FillSound /\ BootSound
        /\ IdentSound /\ ListSound /\ ReadSound

\* The four positions lie on two buses.
LEMMA Place ==
    ASSUME NEW p \in Positions
    PROVE  /\ Bus(p) \in Buses
           /\ \A q \in Positions : q < p /\ Bus(q) = Bus(p) =>
                  /\ p = q + 1
                  /\ \A r \in Positions : Bus(r) = Bus(p) => r \in {p, q}
<1>1. \A q \in Positions : Bus(q) = IF q \in {0, 1} THEN 0 ELSE 1
  BY DEF Bus, Positions
<1> QED
  BY <1>1 DEF Positions, Buses

\* The selected position lies on the bus of the driver.
LEMMA SelectedSound ==
    ASSUME TypeOK, DriveSound
    PROVE  /\ drive \in Positions /\ Bus(drive) \in Buses
           /\ Selected \in Positions /\ Bus(Selected) = Bus(drive)
<1>1. drive \in Positions /\ Bus(drive) \in Buses
  BY Place DEF TypeOK
<1> QED
  BY <1>1 DEF TypeOK, DriveSound, Selected

\* A full buffer that begins like an answer is that answer.
LEMMA FullIsWhole ==
    ASSUME NEW p, NEW j, NEW S, buf \in Seq(S), Len(buf) = Words, Begins(p, j)
    PROVE  buf = Whole(p, j)
<1>1. DOMAIN buf = 1 .. Words /\ buf = [k \in DOMAIN buf |-> buf[k]]
  OBVIOUS
<1> QED
  BY <1>1 DEF Begins, Whole

\* What the driver learns from the status.
LEMMA StatusSound ==
    ASSUME TypeOK, DriveSound
    PROVE  /\ "DRQ" \in Status /\ "ERR" \notin Status => phase[Selected] = "data"
           /\ phase[Selected] = "data" => "DRQ" \in Status /\ "ERR" \notin Status
           /\ "BSY" \notin Status => phase[Selected] # "busy"
           /\ "ERR" \in Status => phase[Selected] \notin Working
           /\ Status = {} => phase[Selected] \notin Working
<1>1. /\ phase[Selected] \in Phases
      /\ phase[Selected] \in Working => board[Selected] \in {"disk", "packet"}
      /\ phase[Selected] = "data" => phase[Selected] \in Working
  BY SelectedSound DEF TypeOK, DriveSound, Phases, Working
<1>2. CASE board[Selected] = "float"
  <2>1. Status = {"BSY", "ERR", "DRQ", "RDY"}
    BY <1>2 DEF Status
  <2> QED
    BY <1>1, <1>2, <2>1
<1>3. CASE board[Selected] = "none"
  <2>1. Status = {}
    BY <1>3 DEF Status
  <2> QED
    BY <1>1, <1>3, <2>1 DEF Working
<1>4. CASE board[Selected] # "float" /\ board[Selected] # "none"
  <2>1. Status = [idle |-> {"RDY"}, busy |-> {"BSY"}, data |-> {"RDY", "DRQ"},
                  error |-> {"RDY", "ERR"}, fault |-> {"RDY"}][phase[Selected]]
    BY <1>4 DEF Status
  <2> QED
    BY <1>1, <2>1 DEF Phases, Working
<1> QED
  BY <1>2, <1>3, <1>4

\* Appending to a sequence.
LEMMA Appended ==
    ASSUME NEW S, NEW s \in Seq(S), NEW w \in S
    PROVE  /\ Append(s, w) \in Seq(S)
           /\ Len(Append(s, w)) = Len(s) + 1
           /\ Len(s) \in Nat
           /\ \A k \in 1 .. Len(s) : Append(s, w)[k] = s[k]
           /\ Append(s, w)[Len(s) + 1] = w
  OBVIOUS

\* The positions in the device list are positions.
LEMMA Listed ==
    ASSUME TypeOK, NEW e \in DOMAIN devices
    PROVE  devices[e].drive \in Positions
<1> DEFINE Names == Seq(Word)
           Device == [drive : Positions, name : Names]
<1>1. devices \in Seq(Device)
  BY DEF TypeOK
<1> HIDE DEF Names, Device
<1>2. devices[e] \in Device
  BY <1>1
<1> QED
  BY <1>2 DEF Device

\* What is true of the device list stays true until something is added.
LEMMA ListKept ==
    ASSUME ListSound, UNCHANGED <<board, devices>>,
           missed' = missed \/ (pc \in Identifying /\ missed' = missed \cup {drive}),
           pc' \in Identifying =>
               /\ pc \in Identifying
               /\ \A p \in Positions : p < drive => p < drive',
           TypeOK
    PROVE  ListSound'
<1>1. \A e \in DOMAIN devices : devices[e].drive \notin missed'
  <2> SUFFICES ASSUME NEW e \in DOMAIN devices, pc \in Identifying
               PROVE  devices[e].drive # drive
    BY DEF ListSound, DevicesReal
  <2>1. devices[e].drive < drive /\ devices[e].drive \in Positions /\ drive \in Positions
    BY Listed DEF ListSound, TypeOK
  <2> QED
    BY <2>1 DEF Positions
<1>2. DevicesReal'
  <2>1. missed \subseteq missed'
    OBVIOUS
  <2> QED
    BY <1>1, <2>1 DEF ListSound, DevicesReal, Whole
<1>3. pc' \in Identifying => \A e \in DOMAIN devices : devices[e].drive < drive'
  BY Listed DEF ListSound
<1> QED
  BY <1>2, <1>3 DEF ListSound

\* What is true at the start.
LEMMA InitInvariant == Init => IInv
<1> SUFFICES ASSUME Init PROVE IInv
  OBVIOUS
<1> USE DiskAssumption
<1>1. TypeOK
  <2>1. buf \in Seq(Word) /\ Len(buf) <= Words
    <3>1. buf = <<>> /\ Len(buf) = 0
      BY DEF Init
    <3> QED
      BY <3>1
  <2>2. devices \in Seq([drive : Positions, name : Seq(Word)])
    BY DEF Init
  <2>3. gaveUp \in [Buses -> BOOLEAN] /\ missed \subseteq Positions
    BY DEF Init
  <2> QED
    BY <2>1, <2>2, <2>3 DEF Init, TypeOK, Positions, Jobs
<1>2. DriveSound /\ BusSound
  BY DEF Init, DriveSound, BusSound, Working, Buses, Bus
<1>3. FillSound /\ BootSound /\ IdentSound /\ ReadSound
  BY DEF Init, FillSound, BootSound, IdentSound, ReadSound, Reading, Working
<1>4. ListSound
  BY DEF Init, ListSound, DevicesReal
<1> QED
  BY <1>1, <1>2, <1>3, <1>4 DEF IInv

-----------------------------------------------------------------------------
(* The steps of the drives. *)

LEMMA AnswerInvariant ==
    ASSUME IInv, NEW p \in Positions, Answer(p) PROVE IInv'
<1> USE DiskAssumption
<1>1. PICK end \in {"data", "error", "fault"} :
        /\ phase' = [phase EXCEPT ![p] = end]
        /\ end = "data" => board[p] = "disk"
  BY DEF Answer
<1>2. /\ phase[p] = "busy"
      /\ UNCHANGED <<board, job, sent, selected, pc, drive, trys, first, count, i, buf,
                     devices, outcome, gaveUp, missed>>
  BY DEF Answer, history
<1>3. \/ reg' = reg
      \/ /\ p = Selected /\ pc \in {"identCommand", "command"}
         /\ \E mixture \in 0 .. LbaMod - 1 : reg' = [reg EXCEPT ![Bus(p)] = mixture]
  BY DEF Answer
<1>4. /\ TypeOK /\ DriveSound /\ sent[p] = 0
      /\ phase \in [Positions -> Phases] /\ Selected \in Positions
  BY <1>2, SelectedSound DEF IInv, TypeOK, DriveSound, Phases
<1>5. TypeOK'
  <2>1. reg' \in [Buses -> 0 .. LbaMod - 1]
    BY <1>3, <1>4 DEF TypeOK
  <2>2. phase' \in [Positions -> {"idle", "busy", "data", "error", "fault"}]
    BY <1>1, <1>4 DEF Phases
  <2> QED
    BY <1>2, <1>4, <2>1, <2>2 DEF TypeOK
<1>6. /\ Selected' = Selected
      /\ \A q \in Positions : phase'[q] \in Working => phase[q] \in Working
      /\ \A q \in Positions : q = p \/ phase'[q] = phase[q]
      /\ phase'[p] # "busy"
  BY <1>1, <1>2, <1>4 DEF Working, Selected
<1>7. DriveSound'
  <2>1. \A q \in Positions : phase'[q] = "data" => board[q] = "disk" /\ sent[q] < Words
    BY <1>1, <1>4 DEF DriveSound
  <2>2. \A q \in Positions : phase'[q] = "busy" => sent[q] = 0
    BY <1>1, <1>4 DEF DriveSound
  <2> QED
    BY <1>2, <1>4, <1>6, <2>1, <2>2 DEF DriveSound
<1>8. BusSound'
  BY <1>2, <1>4, <1>6 DEF IInv, BusSound, TypeOK
<1>9. FillSound' /\ BootSound'
  BY <1>2, <1>6 DEF IInv, FillSound, BootSound
<1>10. IdentSound'
  BY <1>2, <1>4, <1>6 DEF IInv, IdentSound, Begins, Working
<1>11. ListSound'
  BY <1>2, <1>4, ListKept DEF IInv
<1>12. ReadSound'
  <2>1. lba' = lba /\ drive \in Positions
    BY <1>2, <1>4 DEF lba, TypeOK
  <2> HIDE DEF lba
  <2>2. phase[Selected] # "busy" => phase'[Selected] = phase[Selected] /\ reg' = reg
    BY <1>2, <1>3, <1>4, <1>6
  <2>3. phase[Selected] \notin Working => phase[Selected] # "busy"
    BY DEF Working
  <2> QED
    BY <1>2, <1>4, <1>6, <2>1, <2>2, <2>3 DEF IInv, ReadSound, Begins
<1> QED
  BY <1>5, <1>7, <1>8, <1>9, <1>10, <1>11, <1>12 DEF IInv

-----------------------------------------------------------------------------
(* What the driver does to a bus. *)

\* The registers are taken, unless the bus is still at work.
LEMMA AddressedSound ==
    ASSUME TypeOK, DriveSound, BusSound, pc \in Between, NEW s \in Nat, Addressed(s),
           UNCHANGED <<board, phase, sent, drive, gaveUp>>
    PROVE  /\ selected' \in [Buses -> Positions]
           /\ reg' \in [Buses -> 0 .. LbaMod - 1]
           /\ DriveSound'
           /\ ~gaveUp[Bus(drive)] =>
                  /\ Selected' = drive /\ phase[drive] \notin Working
                  /\ reg'[Bus(drive)] = s % LbaMod
           /\ \A b \in Buses \ {Bus(drive)} : selected'[b] = selected[b]
<1> USE DiskAssumption
<1>1. /\ drive \in Positions /\ Bus(drive) \in Buses
      /\ selected \in [Buses -> Positions]
      /\ reg \in [Buses -> 0 .. LbaMod - 1]
      /\ s % LbaMod \in 0 .. LbaMod - 1
  BY SelectedSound DEF TypeOK
<1>2. CASE phase[Selected] \in Working
  <2>1. UNCHANGED <<selected, reg>> /\ gaveUp[Bus(drive)]
    BY <1>1, <1>2 DEF Addressed, BusSound, Selected
  <2> QED
    BY <1>1, <2>1 DEF DriveSound
<1>3. CASE phase[Selected] \notin Working
  <2>1. /\ selected' = [selected EXCEPT ![Bus(drive)] = drive]
        /\ reg' = [reg EXCEPT ![Bus(drive)] = s % LbaMod]
    BY <1>3 DEF Addressed
  <2>2. \A q \in Positions : phase[q] \in Working => Bus(q) # Bus(drive)
    BY <1>3 DEF DriveSound, Selected
  <2>3. \A q \in Positions : Bus(q) \in Buses
    BY Place
  <2>4. DriveSound'
    BY <1>1, <2>1, <2>2, <2>3 DEF DriveSound
  <2> QED
    BY <1>1, <2>1, <2>2, <2>4 DEF Selected
<1> QED
  BY <1>2, <1>3

\* A command starts the selected drive or is ignored, and no other drive notices.
LEMMA GivenSound ==
    ASSUME TypeOK, DriveSound, NEW j \in Jobs, Given(j),
           UNCHANGED <<board, selected, drive>>
    PROVE  /\ phase' \in [Positions -> {"idle", "busy", "data", "error", "fault"}]
           /\ job' \in [Positions -> Jobs]
           /\ sent' \in [Positions -> 0 .. Words]
           /\ DriveSound' /\ Selected' = Selected
           /\ \A q \in Positions \ {Selected} :
                  phase'[q] = phase[q] /\ job'[q] = job[q] /\ sent'[q] = sent[q]
           /\ phase[Selected] \in Working => UNCHANGED <<phase, job, sent>>
           /\ phase[Selected] \notin Working /\ phase'[Selected] \in Working =>
                  job'[Selected] = j /\ sent'[Selected] = 0
<1> USE DiskAssumption
<1>1. /\ phase \in [Positions -> {"idle", "busy", "data", "error", "fault"}]
      /\ job \in [Positions -> Jobs]
      /\ sent \in [Positions -> 0 .. Words]
      /\ Selected \in Positions /\ Bus(Selected) = Bus(drive)
      /\ Selected' = Selected
  BY SelectedSound DEF TypeOK, Selected
<1>2. CASE board[Selected] \in {"disk", "packet"} /\ phase[Selected] \notin Working
  <2>1. /\ phase' = [phase EXCEPT ![Selected] = "busy"]
        /\ job' = [job EXCEPT ![Selected] = j]
        /\ sent' = [sent EXCEPT ![Selected] = 0]
    BY <1>2 DEF Given
  <2>2. selected[Bus(Selected)] = Selected
    BY <1>1 DEF Selected
  <2> HIDE DEF Selected
  <2>3. DriveSound'
    BY <1>1, <1>2, <2>1, <2>2 DEF DriveSound
  <2> QED
    BY <1>1, <1>2, <2>1, <2>3
<1>3. CASE ~(board[Selected] \in {"disk", "packet"} /\ phase[Selected] \notin Working)
  <2>1. UNCHANGED <<phase, job, sent>>
    BY <1>3 DEF Given
  <2> QED
    BY <1>1, <1>3, <2>1 DEF DriveSound
<1> QED
  BY <1>2, <1>3

\* What one inw does to drive and buffer.
LEMMA InWordSound ==
    ASSUME IInv, NEW where, NEW behind, InWord(where, behind)
    PROVE  /\ phase' \in [Positions -> {"idle", "busy", "data", "error", "fault"}]
           /\ sent' \in [Positions -> 0 .. Words]
           /\ buf' \in Seq(Word)
           /\ Len(buf) \in Nat /\ Len(buf') = Len(buf) + 1
           /\ \A k \in 1 .. Len(buf) : buf'[k] = buf[k]
           /\ DriveSound' /\ Selected' = Selected
           /\ \A q \in Positions \ {Selected} : phase'[q] = phase[q] /\ sent'[q] = sent[q]
           /\ phase'[Selected] \in Working => phase'[Selected] = phase[Selected]
           /\ phase[Selected] = "data" =>
                  /\ buf'[Len(buf) + 1] = [from |-> Selected, of |-> job[Selected],
                                           at |-> sent[Selected]]
                  /\ sent'[Selected] = sent[Selected] + 1
                  /\ phase'[Selected] =
                         IF sent[Selected] + 1 = Words THEN "idle" ELSE "data"
<1> USE DiskAssumption
<1>1. /\ phase \in [Positions -> {"idle", "busy", "data", "error", "fault"}]
      /\ sent \in [Positions -> 0 .. Words]
      /\ job \in [Positions -> Jobs]
      /\ buf \in Seq(Word)
      /\ Selected \in Positions
      /\ DriveSound
  BY SelectedSound DEF IInv, TypeOK
<1>2. UNCHANGED <<board, job, selected, drive>> /\ Selected' = Selected
  BY DEF InWord, Selected
<1> HIDE DEF Selected
<1>3. CASE phase[Selected] = "data"
  <2> DEFINE w == [from |-> Selected, of |-> job[Selected], at |-> sent[Selected]]
  <2>1. /\ buf' = Append(buf, w)
        /\ sent' = [sent EXCEPT ![Selected] = @ + 1]
        /\ phase' = IF sent[Selected] + 1 = Words
                    THEN [phase EXCEPT ![Selected] = "idle"] ELSE phase
    BY <1>3 DEF InWord
  <2>2. sent[Selected] < Words
    BY <1>1, <1>3 DEF DriveSound
  <2>3. w \in Word
    BY <1>1 DEF Word
  <2>4. /\ buf' \in Seq(Word)
        /\ Len(buf) \in Nat /\ Len(buf') = Len(buf) + 1
        /\ \A k \in 1 .. Len(buf) : buf'[k] = buf[k]
        /\ buf'[Len(buf) + 1] = w
    <3> HIDE DEF w
    <3> QED
      BY <1>1, <2>1, <2>3, Appended
  <2>5. sent' \in [Positions -> 0 .. Words]
    BY <1>1, <2>1, <2>2
  <2>6. DriveSound'
    BY <1>1, <1>2, <1>3, <2>1, <2>2 DEF DriveSound, Working
  <2> QED
    BY <1>1, <1>2, <1>3, <2>1, <2>2, <2>4, <2>5, <2>6 DEF Working
<1>4. CASE phase[Selected] # "data"
  <2>1. buf' = Append(buf, Junk) /\ UNCHANGED <<sent, phase>>
    BY <1>4 DEF InWord
  <2>2. Junk \in Word
    BY DEF Word
  <2>3. /\ buf' \in Seq(Word)
        /\ Len(buf) \in Nat /\ Len(buf') = Len(buf) + 1
        /\ \A k \in 1 .. Len(buf) : buf'[k] = buf[k]
    BY <1>1, <2>1, <2>2, Appended
  <2>4. DriveSound'
    BY <1>1, <1>2, <2>1 DEF DriveSound
  <2> QED
    BY <1>1, <1>2, <1>4, <2>1, <2>3, <2>4
<1> QED
  BY <1>3, <1>4

\* One more word of the answer that the buffer begins like.
LEMMA BeginsLonger ==
    ASSUME NEW p, NEW j, Begins(p, j), Len(buf) \in Nat, Len(buf') = Len(buf) + 1,
           \A k \in 1 .. Len(buf) : buf'[k] = buf[k],
           buf'[Len(buf) + 1] = [from |-> p, of |-> j, at |-> Len(buf)]
    PROVE  \A k \in 1 .. Len(buf') : buf'[k] = [from |-> p, of |-> j, at |-> k - 1]
<1> SUFFICES ASSUME NEW k \in 1 .. Len(buf) + 1
             PROVE  buf'[k] = [from |-> p, of |-> j, at |-> k - 1]
  OBVIOUS
<1>1. CASE k = Len(buf) + 1
  BY <1>1
<1>2. CASE k \in 1 .. Len(buf)
  BY <1>2 DEF Begins
<1> QED
  BY <1>1, <1>2

-----------------------------------------------------------------------------
(* The steps of ata_init_device. *)

LEMMA IdentifyInvariant ==
    ASSUME IInv, Identify PROVE IInv'
<1> USE DiskAssumption
<1>1. /\ pc = "identify" /\ pc' = "identCommand" /\ Addressed(0)
      /\ UNCHANGED <<board, phase, job, sent, drive, trys, first, count, i, buf, devices,
                     outcome, gaveUp, missed>>
  BY DEF Identify, history
<1>2. /\ selected' \in [Buses -> Positions]
      /\ reg' \in [Buses -> 0 .. LbaMod - 1]
      /\ DriveSound'
      /\ ~gaveUp[Bus(drive)] => Selected' = drive
      /\ \A b \in Buses \ {Bus(drive)} : selected'[b] = selected[b]
  BY <1>1, AddressedSound DEF IInv, Between
<1>3. TypeOK'
  BY <1>1, <1>2 DEF IInv, TypeOK
<1>4. BusSound'
  BY <1>1, <1>2 DEF IInv, BusSound, Between
<1>5. FillSound' /\ ReadSound'
  BY <1>1 DEF IInv, FillSound, ReadSound, Reading
<1>6. BootSound' /\ IdentSound'
  BY <1>1, <1>2 DEF IInv, BootSound, IdentSound, Identifying
<1>7. ListSound'
  BY <1>1, ListKept DEF IInv, Identifying
<1> QED
  BY <1>2, <1>3, <1>4, <1>5, <1>6, <1>7 DEF IInv

LEMMA IdentCommandInvariant ==
    ASSUME IInv, IdentCommand PROVE IInv'
<1> USE DiskAssumption
<1>1. /\ pc = "identCommand" /\ pc' = "identZero" /\ Given(Identity)
      /\ UNCHANGED <<board, selected, reg, drive, trys, first, count, i, buf, devices,
                     outcome, gaveUp, missed>>
  BY DEF IdentCommand, history
<1>2. /\ phase' \in [Positions -> {"idle", "busy", "data", "error", "fault"}]
      /\ job' \in [Positions -> Jobs]
      /\ sent' \in [Positions -> 0 .. Words]
      /\ DriveSound' /\ Selected' = Selected
      /\ \A q \in Positions \ {Selected} :
             phase'[q] = phase[q] /\ job'[q] = job[q] /\ sent'[q] = sent[q]
      /\ phase[Selected] \in Working => UNCHANGED <<phase, job, sent>>
      /\ phase[Selected] \notin Working /\ phase'[Selected] \in Working =>
             job'[Selected] = Identity /\ sent'[Selected] = 0
  BY <1>1, GivenSound DEF IInv, Jobs
<1>3. TypeOK'
  BY <1>1, <1>2 DEF IInv, TypeOK
<1>4. BusSound'
  <2> SUFFICES ASSUME NEW b \in Buses, b # Bus(drive), ~gaveUp[b]
               PROVE  phase'[selected[b]] \notin Working
    BY <1>1 DEF BusSound, Between
  <2>1. selected[b] # Selected /\ selected[b] \in Positions
    BY SelectedSound DEF IInv, DriveSound, TypeOK
  <2> QED
    BY <1>2, <2>1 DEF IInv, BusSound
<1>5. FillSound' /\ ReadSound' /\ IdentSound'
  BY <1>1, <1>2 DEF IInv, FillSound, ReadSound, IdentSound, Reading, Identifying
<1>6. BootSound'
  <2>1. \A q \in Positions : phase'[q] \in Working => job'[q] = Identity /\ sent'[q] = 0
    BY <1>1, <1>2 DEF IInv, BootSound, Identifying
  <2> QED
    BY <1>1, <2>1 DEF IInv, BootSound, Identifying
<1>7. ListSound'
  BY <1>1, ListKept DEF IInv, Identifying
<1> QED
  BY <1>2, <1>3, <1>4, <1>5, <1>6, <1>7 DEF IInv

\* ata_init_device returns, and the bus is at rest unless it was in vain.
LEMMA NextPositionSound ==
    ASSUME IInv, pc \in {"identZero", "identBusy", "identReady", "identAdd"},
           NEW inVain \in BOOLEAN, NextPosition(inVain),
           UNCHANGED <<drives, first, count, i, buf, outcome>>,
           ~inVain => phase[Selected] \notin Working
    PROVE  /\ pc' \in {"identify", "idle"}
           /\ drive' \in Positions /\ drive <= drive'
           /\ pc' = "identify" => drive < drive'
           /\ gaveUp' \in [Buses -> BOOLEAN]
           /\ missed' = (IF inVain THEN missed \cup {drive} ELSE missed)
           /\ missed' \subseteq Positions
           /\ DriveSound' /\ BusSound' /\ FillSound' /\ BootSound' /\ IdentSound'
           /\ ReadSound'
<1> USE DiskAssumption
<1>1. /\ drive \in Positions /\ Bus(drive) \in Buses
      /\ gaveUp \in [Buses -> BOOLEAN] /\ missed \subseteq Positions
      /\ gaveUp' = [gaveUp EXCEPT ![Bus(drive)] = inVain]
      /\ missed' = IF inVain THEN missed \cup {drive} ELSE missed
  BY SelectedSound DEF IInv, TypeOK, NextPosition
<1>2. /\ pc' \in {"identify", "idle"}
      /\ drive' \in Positions /\ drive <= drive'
      /\ pc' = "identify" => drive < drive'
      /\ \A p \in Positions : p < drive => p < drive'
  BY <1>1 DEF NextPosition, Positions
<1>3. DriveSound' /\ FillSound' /\ IdentSound' /\ ReadSound'
  BY <1>2 DEF IInv, DriveSound, FillSound, IdentSound, ReadSound, Reading, Identifying,
              drives
<1>4. BusSound'
  <2> SUFFICES ASSUME NEW b \in Buses PROVE phase[selected[b]] \notin Working \/ gaveUp'[b]
    BY DEF BusSound, drives
  <2>1. CASE b = Bus(drive)
    BY <1>1, <2>1 DEF Selected
  <2>2. CASE b # Bus(drive)
    BY <1>1, <2>2 DEF IInv, BusSound
  <2> QED
    BY <2>1, <2>2
<1>5. BootSound'
  <2> SUFFICES ASSUME pc' = "identify" PROVE BootSound'
    BY <1>2 DEF BootSound, Identifying
  <2>1. ASSUME NEW b \in Buses, gaveUp'[b]
        PROVE  \E p \in Positions : Bus(p) = b /\ p < drive' /\ p \in missed'
    <3>1. CASE b = Bus(drive)
      BY <1>1, <1>2, <2>1, <3>1
    <3>2. CASE b # Bus(drive)
      <4>1. gaveUp[b]
        BY <1>1, <2>1, <3>2
      <4>2. PICK p \in Positions : Bus(p) = b /\ p < drive /\ p \in missed
        BY <4>1 DEF IInv, BootSound, Identifying
      <4> QED
        BY <1>1, <1>2, <4>2
    <3> QED
      BY <3>1, <3>2
  <2>2. \A p \in Positions : phase[p] \in Working => job[p] = Identity /\ sent[p] = 0
    BY DEF IInv, BootSound, Identifying
  <2>3. \A p \in missed' : p < drive'
    <3>1. \A p \in missed : p < drive /\ p \in Positions
      BY <1>1 DEF IInv, BootSound, Identifying
    <3> QED
      BY <1>1, <1>2, <3>1
  <2> QED
    BY <2>1, <2>2, <2>3 DEF BootSound, drives
<1> QED
  BY <1>1, <1>2, <1>3, <1>4, <1>5

\* ata_init_device returns without a device.
LEMMA Left ==
    ASSUME IInv, pc \in {"identZero", "identBusy", "identReady"},
           NEW inVain \in BOOLEAN, NextPosition(inVain),
           UNCHANGED <<drives, first, count, i, buf, devices, outcome>>,
           ~inVain => phase[Selected] \notin Working,
           trys' \in 0 .. MaxTrys + 1
    PROVE  IInv'
<1>1. /\ pc' \in {"identify", "idle"}
      /\ drive' \in Positions /\ drive <= drive'
      /\ pc' = "identify" => drive < drive'
      /\ gaveUp' \in [Buses -> BOOLEAN]
      /\ missed' = (IF inVain THEN missed \cup {drive} ELSE missed)
      /\ missed' \subseteq Positions
      /\ DriveSound' /\ BusSound' /\ FillSound' /\ BootSound' /\ IdentSound'
      /\ ReadSound'
  BY NextPositionSound
<1>2. TypeOK'
  BY <1>1 DEF IInv, TypeOK, drives
<1>3. ListSound'
  <2>1. \A p \in Positions : p < drive => p < drive'
    BY <1>1 DEF IInv, TypeOK, Positions
  <2> QED
    BY <1>1, <2>1, ListKept DEF IInv, Identifying, drives
<1> QED
  BY <1>1, <1>2, <1>3 DEF IInv

\* A step of the driver alone between two of its loops.
LEMMA Went ==
    ASSUME IInv, pc \in {"identZero", "identBusy", "identReady"},
           pc' \in {"identBusy", "identReady"}, buf' \in {buf, <<>>},
           UNCHANGED <<drives, drive, first, count, i, devices, history>>,
           trys' \in 0 .. MaxTrys,
           pc' = "identReady" => /\ phase[Selected] # "busy"
                                 /\ trys' > 0 => phase[Selected] # "data"
    PROVE  IInv'
<1> USE DiskAssumption
<1>1. TypeOK'
  <2>1. buf' \in Seq(Word) /\ Len(buf') <= Words
    <3>1. buf \in Seq(Word) /\ Len(buf) <= Words
      BY DEF IInv, TypeOK
    <3>2. CASE buf' = <<>>
      <4>1. buf' \in Seq(Word) /\ Len(buf') = 0
        BY <3>2
      <4> QED
        BY <4>1
    <3> QED
      BY <3>1, <3>2
  <2>2. pc' \in {"identBusy", "identReady"} /\ trys' \in 0 .. MaxTrys + 1
    OBVIOUS
  <2> QED
    BY <2>1, <2>2 DEF IInv, TypeOK, drives, history
<1>2. Selected' = Selected
  BY DEF Selected, drives
<1>3. DriveSound' /\ BusSound'
  BY DEF IInv, DriveSound, BusSound, Between, drives, history
<1>4. FillSound' /\ ReadSound'
  BY DEF IInv, FillSound, ReadSound, Reading
<1>5. BootSound' /\ IdentSound'
  BY <1>2 DEF IInv, BootSound, IdentSound, Identifying, drives, history
<1>6. ListSound'
  BY ListKept DEF IInv, Identifying, drives, history
<1> QED
  BY <1>1, <1>3, <1>4, <1>5, <1>6 DEF IInv

LEMMA IdentZeroInvariant ==
    ASSUME IInv, IdentZero PROVE IInv'
<1>1. 0 \in 0 .. MaxTrys + 1 /\ 0 \in 0 .. MaxTrys
  BY DiskAssumption
<1>2. CASE Status = {}
  BY <1>1, <1>2, Left, StatusSound DEF IdentZero, IInv
<1>3. CASE Status # {}
  BY <1>1, <1>3, Went DEF IdentZero, history
<1> QED
  BY <1>2, <1>3

LEMMA IdentBusyInvariant ==
    ASSUME IInv, IdentBusy PROVE IInv'
<1>1. trys \in 0 .. MaxTrys /\ trys + 1 \in 0 .. MaxTrys + 1 /\ 0 \in 0 .. MaxTrys
  BY DiskAssumption DEF IInv, TypeOK, FillSound, IdentBusy
<1>2. CASE "BSY" \in Status /\ trys + 1 > MaxTrys
  <2>1. TRUE \in BOOLEAN
    OBVIOUS
  <2> QED
    BY <1>1, <1>2, <2>1, Left DEF IdentBusy
<1>3. CASE "BSY" \in Status /\ ~(trys + 1 > MaxTrys)
  <2>1. trys' \in 0 .. MaxTrys /\ pc' = "identBusy"
    BY <1>1, <1>3, DiskAssumption DEF IdentBusy
  <2> QED
    BY <1>3, <2>1, Went DEF IdentBusy, history
<1>4. CASE "BSY" \notin Status
  <2>1. phase[Selected] # "busy" /\ ~(0 > 0)
    BY <1>4, StatusSound DEF IInv
  <2> QED
    BY <1>1, <1>4, <2>1, Went DEF IdentBusy, history
<1> QED
  BY <1>2, <1>3, <1>4

\* The drive that is selected is about to hand over its answer.
LEMMA IdentReadyInvariant ==
    ASSUME IInv, IdentReady PROVE IInv'
<1> USE DiskAssumption
<1>1. /\ trys \in 0 .. MaxTrys /\ trys + 1 \in 0 .. MaxTrys + 1 /\ trys' = trys + 1
      /\ pc = "identReady" /\ phase[Selected] # "busy"
      /\ trys > 0 => phase[Selected] # "data"
  BY DEF IInv, TypeOK, FillSound, IdentSound, IdentReady
<1>2. CASE "ERR" \in Status \/ trys + 1 > MaxTrys
  <2>1. phase[Selected] \notin Working
    <3>1. CASE "ERR" \in Status
      BY <3>1, StatusSound DEF IInv
    <3>2. CASE trys + 1 > MaxTrys
      BY <1>1, <3>2 DEF Working
    <3> QED
      BY <1>2, <3>1, <3>2
  <2> QED
    BY <1>1, <1>2, <2>1, Left DEF IdentReady
<1>3. CASE "ERR" \notin Status /\ trys + 1 <= MaxTrys /\ "DRQ" \notin Status
  <2>1. ~("ERR" \in Status \/ trys + 1 > MaxTrys) /\ trys' \in 0 .. MaxTrys
    BY <1>1, <1>3
  <2>2. /\ buf' = <<>> /\ pc' = pc
        /\ UNCHANGED <<drives, drive, first, count, i, devices, history>>
    BY <1>3, <2>1 DEF IdentReady, history
  <2>3. phase[Selected] # "data"
    BY <1>3, StatusSound DEF IInv
  <2> QED
    BY <1>1, <2>1, <2>2, <2>3, Went
<1>4. CASE "ERR" \notin Status /\ trys + 1 <= MaxTrys /\ "DRQ" \in Status
  <2>0. ~("ERR" \in Status \/ trys + 1 > MaxTrys)
    BY <1>1, <1>4
  <2>1. /\ pc' = "identWord" /\ buf' = <<>>
        /\ UNCHANGED <<board, phase, job, sent, selected, reg, drive, first, count, i,
                       devices, outcome, gaveUp, missed>>
    BY <1>4, <2>0 DEF IdentReady, drives
  <2>2. /\ TypeOK /\ DriveSound /\ phase[Selected] = "data"
        /\ Selected \in Positions /\ Selected' = Selected
    BY <1>4, <2>1, StatusSound, SelectedSound DEF IInv, Selected
  <2>3. sent[Selected] = 0
    BY <1>1, <2>2 DEF IInv, BootSound, Identifying, Working
  <2>4. buf' \in Seq(Word) /\ Len(buf') = 0
    BY <2>1
  <2>5. TypeOK'
    BY <1>1, <2>1, <2>2, <2>4 DEF TypeOK
  <2>6. DriveSound' /\ BusSound'
    BY <1>1, <2>1 DEF IInv, DriveSound, BusSound, Between
  <2>7. FillSound' /\ ReadSound'
    BY <1>1, <2>1, <2>4 DEF IInv, FillSound, ReadSound, Reading
  <2>8. BootSound' /\ IdentSound'
    <3>1. Begins(Selected, Identity)'
      BY <2>4 DEF Begins
    <3>2. BootSound'
      BY <1>1, <2>1, <2>2 DEF IInv, BootSound, Identifying
    <3>3. IdentSound'
      <4> HIDE DEF Selected
      <4> QED
        BY <1>1, <2>1, <2>2, <2>3, <2>4, <3>1 DEF IInv, IdentSound, Identifying
    <3> QED
      BY <3>2, <3>3
  <2>9. ListSound'
    BY <1>1, <2>1, ListKept DEF IInv, Identifying
  <2> QED
    BY <2>5, <2>6, <2>7, <2>8, <2>9 DEF IInv
<1> QED
  BY <1>1, <1>2, <1>3, <1>4

\* A word taken from the selected drive leaves the other bus as it was.
LEMMA OtherBus ==
    ASSUME IInv, pc \notin Between, pc' \notin Between,
           UNCHANGED <<selected, drive, gaveUp>>,
           \A q \in Positions \ {Selected} : phase'[q] = phase[q]
    PROVE  BusSound'
<1> SUFFICES ASSUME NEW b \in Buses, b # Bus(drive), ~gaveUp[b]
             PROVE  phase'[selected[b]] \notin Working
  BY DEF BusSound
<1>1. selected[b] # Selected /\ selected[b] \in Positions
  BY SelectedSound DEF IInv, DriveSound, TypeOK
<1> QED
  BY <1>1 DEF IInv, BusSound

LEMMA IdentWordInvariant ==
    ASSUME IInv, IdentWord PROVE IInv'
<1> USE DiskAssumption
<1>1. /\ pc = "identWord"
      /\ pc' = IF Len(buf) + 1 = Words THEN "identAdd" ELSE "identWord"
      /\ UNCHANGED <<board, job, selected, reg, drive, trys, first, count, i, devices,
                     outcome, gaveUp, missed>>
      /\ InWord("identWord", "identAdd")
  BY DEF IdentWord, InWord, history
<1>2. /\ phase[Selected] = "data" /\ job[Selected] = Identity
      /\ sent[Selected] = Len(buf) /\ Begins(Selected, Identity) /\ Len(buf) < Words
      /\ Selected \in Positions /\ Len(buf) \in Nat /\ board[Selected] = "disk"
      /\ Words \in Nat
  BY <1>1, SelectedSound
  DEF IInv, TypeOK, DriveSound, BootSound, IdentSound, FillSound, Identifying, Working
<1>3. /\ phase' \in [Positions -> {"idle", "busy", "data", "error", "fault"}]
      /\ sent' \in [Positions -> 0 .. Words]
      /\ buf' \in Seq(Word)
      /\ Len(buf') = Len(buf) + 1
      /\ \A k \in 1 .. Len(buf) : buf'[k] = buf[k]
      /\ DriveSound' /\ Selected' = Selected
      /\ \A q \in Positions \ {Selected} : phase'[q] = phase[q] /\ sent'[q] = sent[q]
      /\ buf'[Len(buf) + 1] = [from |-> Selected, of |-> Identity, at |-> Len(buf)]
      /\ sent'[Selected] = Len(buf) + 1
      /\ phase'[Selected] = IF Len(buf) + 1 = Words THEN "idle" ELSE "data"
  <2> HIDE DEF Selected
  <2> QED
    BY <1>1, <1>2, InWordSound
<1> HIDE DEF Selected
<1>4. TypeOK'
  BY <1>1, <1>2, <1>3 DEF IInv, TypeOK
<1>5. FillSound' /\ ReadSound'
  BY <1>1, <1>2, <1>3 DEF IInv, FillSound, ReadSound, Reading
<1>6. BusSound'
  BY <1>1, <1>3, OtherBus DEF Between
<1>7. BootSound'
  <2>1. \A q \in Positions : phase'[q] \in Working =>
           /\ job[q] = Identity
           /\ pc' # "identWord" \/ q # Selected => sent'[q] = 0
    <3> SUFFICES ASSUME NEW q \in Positions, phase'[q] \in Working
                 PROVE  /\ job[q] = Identity
                        /\ pc' # "identWord" \/ q # Selected => sent'[q] = 0
      OBVIOUS
    <3>1. CASE q = Selected
      BY <1>1, <1>2, <1>3, <3>1 DEF Working
    <3>2. CASE q # Selected
      BY <1>1, <1>3, <3>2 DEF IInv, BootSound, Identifying
    <3> QED
      BY <3>1, <3>2
  <2> QED
    BY <1>1, <1>3, <2>1 DEF IInv, BootSound, Identifying
<1>8. IdentSound'
  <2>1. Begins(Selected, Identity)'
    BY <1>2, <1>3, BeginsLonger DEF Begins
  <2> QED
    BY <1>1, <1>2, <1>3, <2>1 DEF IInv, IdentSound, Identifying, Working
<1>9. ListSound'
  BY <1>1, ListKept DEF IInv, Identifying
<1> QED
  BY <1>3, <1>4, <1>5, <1>6, <1>7, <1>8, <1>9 DEF IInv

\* Whose name the new device bears: its own, or that of the master given up.
LEMMA Named ==
    ASSUME IInv, pc = "identAdd"
    PROVE  \E p \in Positions :
               /\ board[p] = "disk" /\ buf = Whole(p, Identity)
               /\ \/ drive = p
                  \/ drive = p + 1 /\ Bus(p + 1) = Bus(p) /\ p \in missed
<1>1. /\ Selected \in Positions /\ drive \in Positions /\ Bus(Selected) = Bus(drive)
      /\ board[Selected] = "disk" /\ buf = Whole(Selected, Identity)
  BY FullIsWhole, SelectedSound DEF IInv, TypeOK, IdentSound, FillSound
<1> HIDE DEF Selected
<1>2. CASE Selected = drive
  BY <1>1, <1>2
<1>3. CASE Selected # drive
  <2>1. gaveUp[Bus(drive)] /\ Bus(drive) \in Buses
    BY <1>3, SelectedSound DEF IInv, IdentSound, Identifying
  <2>2. PICK p \in Positions : Bus(p) = Bus(drive) /\ p < drive /\ p \in missed
    BY <2>1 DEF IInv, BootSound, Identifying
  <2>3. drive = p + 1 /\ Selected = p
    BY <1>1, <1>3, <2>2, Place
  <2> QED
    BY <1>1, <2>2, <2>3
<1> QED
  BY <1>2, <1>3

LEMMA IdentAddInvariant ==
    ASSUME IInv, IdentAdd PROVE IInv'
<1> USE DiskAssumption
<1> DEFINE dev == [drive |-> drive, name |-> buf]
<1>1. /\ pc = "identAdd" /\ NextPosition(FALSE)
      /\ devices' = Append(devices, dev)
      /\ UNCHANGED <<drives, trys, first, count, i, buf, outcome>>
      /\ drive \in Positions /\ FALSE \in BOOLEAN
      /\ phase[Selected] \notin Working
  BY DEF IdentAdd, IInv, TypeOK, IdentSound
<1>2. /\ pc' \in {"identify", "idle"}
      /\ drive' \in Positions /\ drive <= drive'
      /\ pc' = "identify" => drive < drive'
      /\ gaveUp' \in [Buses -> BOOLEAN]
      /\ missed' = missed
      /\ DriveSound' /\ BusSound' /\ FillSound' /\ BootSound' /\ IdentSound'
      /\ ReadSound'
  BY <1>1, NextPositionSound
<1>3. /\ devices' \in Seq([drive : Positions, name : Seq(Word)])
      /\ Len(devices') = Len(devices) + 1
      /\ Len(devices) \in Nat
      /\ DOMAIN devices = 1 .. Len(devices) /\ DOMAIN devices' = 1 .. Len(devices')
      /\ \A e \in 1 .. Len(devices) : devices'[e] = devices[e]
      /\ devices'[Len(devices) + 1] = dev
  <2> DEFINE Names == Seq(Word)
             Device == [drive : Positions, name : Names]
  <2>1. devices \in Seq(Device) /\ dev \in Device
    BY <1>1 DEF IInv, TypeOK
  <2> HIDE DEF Names, Device, dev
  <2>2. /\ devices' \in Seq(Device)
        /\ Len(devices') = Len(devices) + 1
        /\ Len(devices) \in Nat
        /\ \A e \in 1 .. Len(devices) : devices'[e] = devices[e]
        /\ devices'[Len(devices) + 1] = dev
    BY <1>1, <2>1, Appended
  <2>3. DOMAIN devices = 1 .. Len(devices) /\ DOMAIN devices' = 1 .. Len(devices')
    BY <2>1, <2>2
  <2> QED
    BY <2>2, <2>3 DEF Device, Names
<1>4. TypeOK'
  BY <1>1, <1>2, <1>3 DEF IInv, TypeOK, drives
<1>5. ASSUME NEW e \in DOMAIN devices
      PROVE  devices[e].drive < drive /\ devices[e].drive \in Positions
  BY <1>1, <1>5, Listed DEF IInv, ListSound, Identifying
<1>6. DevicesReal'
  <2> SUFFICES ASSUME NEW e \in DOMAIN devices'
               PROVE  /\ \E p \in Positions :
                          /\ board[p] = "disk"
                          /\ devices'[e].name = Whole(p, Identity)
                          /\ \/ devices'[e].drive = p
                             \/ /\ devices'[e].drive = p + 1
                                /\ Bus(p + 1) = Bus(p) /\ p \in missed'
                      /\ devices'[e].drive \notin missed'
                      /\ \A f \in 1 .. e - 1 : devices'[f].drive < devices'[e].drive
    BY <1>1 DEF DevicesReal, drives, Whole
  <2>1. CASE e \in DOMAIN devices
    <3>1. /\ \E p \in Positions :
              /\ board[p] = "disk"
              /\ devices[e].name = Whole(p, Identity)
              /\ \/ devices[e].drive = p
                 \/ devices[e].drive = p + 1 /\ Bus(p + 1) = Bus(p) /\ p \in missed
          /\ devices[e].drive \notin missed
          /\ \A f \in 1 .. e - 1 : devices[f].drive < devices[e].drive
      BY <2>1 DEF IInv, ListSound, DevicesReal
    <3>2. devices'[e] = devices[e] /\ \A f \in 1 .. e - 1 : devices'[f] = devices[f]
      BY <1>3, <2>1
    <3> QED
      BY <1>2, <3>1, <3>2
  <2>2. CASE e = Len(devices) + 1
    <3>1. devices'[e] = dev /\ dev.drive = drive /\ dev.name = buf
      BY <1>3, <2>2
    <3>2. \A f \in 1 .. e - 1 : f \in DOMAIN devices /\ devices'[f] = devices[f]
      BY <1>3, <2>2
    <3>3. \A f \in 1 .. e - 1 : devices'[f].drive < devices'[e].drive
      BY <1>5, <3>1, <3>2
    <3>4. drive \notin missed
      <4>1. \A p \in missed : p < drive
        BY <1>1 DEF IInv, BootSound, Identifying
      <4> QED
        BY <1>1, <4>1 DEF Positions
    <3> QED
      BY <1>1, <1>2, <3>1, <3>3, <3>4, Named
  <2> QED
    BY <1>3, <2>1, <2>2
<1>7. ListSound'
  <2> SUFFICES ASSUME pc' = "identify", NEW e \in DOMAIN devices'
               PROVE  devices'[e].drive < drive'
    BY <1>2, <1>6 DEF ListSound, Identifying
  <2>1. CASE e \in DOMAIN devices
    <3>1. devices'[e] = devices[e] /\ devices[e].drive < drive
          /\ devices[e].drive \in Positions
      BY <1>3, <1>5, <2>1
    <3> QED
      BY <1>1, <1>2, <3>1 DEF Positions
  <2>2. CASE e = Len(devices) + 1
    BY <1>2, <1>3, <2>2
  <2> QED
    BY <1>3, <2>1, <2>2
<1> QED
  BY <1>2, <1>4, <1>7 DEF IInv

-----------------------------------------------------------------------------
(* The steps of ata_read. *)

LEMMA ReadInvariant ==
    ASSUME IInv, NEW d \in DOMAIN devices, NEW from \in Requests, NEW n \in Counts,
           Read(d, from, n)
    PROVE  IInv'
<1> USE DiskAssumption
<1>1. /\ pc = "idle" /\ pc' = "address"
      /\ drive' = devices[d].drive /\ drive' \in Positions
      /\ UNCHANGED <<board, phase, job, sent, selected, reg, buf, trys, devices,
                     outcome, gaveUp, missed>>
      /\ first' \in Nat /\ count' \in Nat /\ i' \in 0 .. count' /\ i' < count'
  BY Listed DEF Read, IInv, drives, history
<1>2. TypeOK'
  BY <1>1 DEF IInv, TypeOK
<1>3. DriveSound' /\ BusSound'
  BY <1>1 DEF IInv, DriveSound, BusSound, Between
<1>4. FillSound' /\ BootSound' /\ IdentSound' /\ ReadSound'
  BY <1>1 DEF IInv, FillSound, BootSound, IdentSound, ReadSound, Identifying, Reading
<1>5. ListSound'
  BY <1>1, ListKept DEF IInv, Identifying
<1> QED
  BY <1>2, <1>3, <1>4, <1>5 DEF IInv

LEMMA LbaSound ==
    ASSUME TypeOK
    PROVE  lba \in Nat /\ lba % LbaMod \in 0 .. LbaMod - 1
<1>1. lba \in Nat
  BY DEF TypeOK, lba
<1> HIDE DEF lba
<1> QED
  BY <1>1, DiskAssumption

\* The registers of a bus that was not given up name the sector of this call.
LEMMA AddressInvariant ==
    ASSUME IInv, Address PROVE IInv'
<1> USE DiskAssumption
<1>1. /\ pc = "address" /\ pc' = "command" /\ Addressed(lba)
      /\ UNCHANGED <<board, phase, job, sent, drive, trys, first, count, i, buf, devices,
                     outcome, gaveUp, missed>>
  BY DEF Address, history
<1>2. lba \in Nat /\ lba' = lba
  BY <1>1, LbaSound DEF lba, IInv
<1> HIDE DEF lba
<1>3. /\ selected' \in [Buses -> Positions]
      /\ reg' \in [Buses -> 0 .. LbaMod - 1]
      /\ DriveSound'
      /\ ~gaveUp[Bus(drive)] =>
             /\ Selected' = drive /\ phase[drive] \notin Working
             /\ reg'[Bus(drive)] = lba % LbaMod
      /\ \A b \in Buses \ {Bus(drive)} : selected'[b] = selected[b]
  BY <1>1, <1>2, AddressedSound DEF IInv, Between
<1>4. TypeOK'
  BY <1>1, <1>3 DEF IInv, TypeOK
<1>5. BusSound'
  BY <1>1, <1>3 DEF IInv, BusSound, Between
<1>6. FillSound' /\ BootSound' /\ IdentSound'
  BY <1>1 DEF IInv, FillSound, BootSound, IdentSound, Identifying, Reading
<1>7. ListSound'
  BY <1>1, ListKept DEF IInv, Identifying
<1>8. ReadSound'
  BY <1>1, <1>2, <1>3 DEF ReadSound
<1> QED
  BY <1>3, <1>4, <1>5, <1>6, <1>7, <1>8 DEF IInv

LEMMA CommandInvariant ==
    ASSUME IInv, Command PROVE IInv'
<1> USE DiskAssumption
<1>1. /\ pc = "command" /\ pc' = "pollBusy" /\ trys' = 0 /\ Given(reg[Bus(drive)])
      /\ UNCHANGED <<board, selected, reg, drive, first, count, i, buf, devices,
                     outcome, gaveUp, missed>>
  BY DEF Command, history
<1>2. /\ TypeOK /\ DriveSound /\ reg[Bus(drive)] \in Jobs
      /\ lba' = lba
  BY <1>1, SelectedSound DEF IInv, TypeOK, Jobs, lba
<1>3. /\ phase' \in [Positions -> {"idle", "busy", "data", "error", "fault"}]
      /\ job' \in [Positions -> Jobs]
      /\ sent' \in [Positions -> 0 .. Words]
      /\ DriveSound' /\ Selected' = Selected
      /\ \A q \in Positions \ {Selected} : phase'[q] = phase[q]
      /\ phase[Selected] \notin Working /\ phase'[Selected] \in Working =>
             job'[Selected] = reg[Bus(drive)] /\ sent'[Selected] = 0
  BY <1>1, <1>2, GivenSound
<1>4. TypeOK'
  BY <1>1, <1>3 DEF IInv, TypeOK
<1>5. BusSound'
  BY <1>1, <1>3, OtherBus DEF Between
<1>6. FillSound' /\ BootSound' /\ IdentSound'
  BY <1>1 DEF IInv, FillSound, BootSound, IdentSound, Identifying, Reading
<1>7. ListSound'
  BY <1>1, ListKept DEF IInv, Identifying
<1>8. ReadSound'
  <2> HIDE DEF lba, Selected
  <2> QED
    BY <1>1, <1>2, <1>3 DEF IInv, ReadSound
<1> QED
  BY <1>3, <1>4, <1>5, <1>6, <1>7, <1>8 DEF IInv

\* A round of ata_poll that is not the last.
LEMMA PollGoesOn ==
    ASSUME IInv, pc \in {"pollBusy", "pollReady"}, pc' \in {"pollBusy", "pollReady"},
           UNCHANGED <<drives, drive, first, count, i, buf, devices, history>>,
           trys' \in 0 .. MaxTrys,
           pc' = "pollReady" => phase[Selected] # "busy"
    PROVE  IInv'
<1> USE DiskAssumption
<1>1. TypeOK'
  <2>1. trys' \in 0 .. MaxTrys + 1
    OBVIOUS
  <2> QED
    BY <2>1 DEF IInv, TypeOK, drives, history
<1>2. DriveSound' /\ BusSound'
  BY DEF IInv, DriveSound, BusSound, Between, drives, history
<1>3. FillSound' /\ BootSound' /\ IdentSound'
  BY DEF IInv, FillSound, BootSound, IdentSound, Identifying, Reading
<1>4. ListSound'
  BY ListKept DEF IInv, Identifying, drives, history
<1>5. ReadSound'
  BY DEF IInv, ReadSound, lba, Selected, drives, history
<1> QED
  BY <1>1, <1>2, <1>3, <1>4, <1>5 DEF IInv

\* ata_poll returns.
LEMMA PollEnds ==
    ASSUME IInv, pc \in {"pollBusy", "pollReady"},
           NEW how \in {"ready", "error", "busy", "silent"}, EndPoll(how),
           UNCHANGED <<drives, drive, first, count, i, devices, gaveUp, missed>>,
           trys' \in 0 .. MaxTrys + 1,
           how # "busy" => phase[Selected] # "busy",
           how = "ready" => phase[Selected] = "data"
    PROVE  IInv'
<1> USE DiskAssumption
<1>1. /\ buf' = <<>> /\ buf' \in Seq(Word) /\ Len(buf') = 0
      /\ outcome' = how /\ pc' = "word"
  BY DEF EndPoll
<1>2. TypeOK'
  BY <1>1 DEF IInv, TypeOK, drives
<1>3. DriveSound' /\ BusSound'
  BY <1>1 DEF IInv, DriveSound, BusSound, Between, drives
<1>4. FillSound' /\ BootSound' /\ IdentSound'
  BY <1>1 DEF IInv, FillSound, BootSound, IdentSound, Identifying, Reading
<1>5. ListSound'
  BY <1>1, ListKept DEF IInv, Identifying, drives
<1>6. ReadSound'
  <2>1. sent[Selected] \in Nat
    BY SelectedSound DEF IInv, TypeOK
  <2>2. Begins(drive, lba % LbaMod)'
    BY <1>1 DEF Begins
  <2>3. lba' = lba /\ Selected' = Selected
    BY DEF lba, Selected, drives
  <2>4. UNCHANGED <<phase, job, sent, drive, gaveUp>> /\ ("data" \in Working)
    BY DEF drives, Working
  <2> HIDE DEF lba, Selected
  <2> QED
    BY <1>1, <2>1, <2>2, <2>3, <2>4 DEF IInv, ReadSound
<1> QED
  BY <1>2, <1>3, <1>4, <1>5, <1>6 DEF IInv

LEMMA PollBusyInvariant ==
    ASSUME IInv, PollBusy PROVE IInv'
<1>1. trys \in 0 .. MaxTrys /\ trys + 1 \in 0 .. MaxTrys + 1 /\ 0 \in 0 .. MaxTrys
  BY DiskAssumption DEF IInv, TypeOK, FillSound, PollBusy
<1>2. /\ pc = "pollBusy"
      /\ UNCHANGED <<drives, drive, first, count, i, devices, gaveUp, missed>>
  BY DEF PollBusy
<1>3. CASE trys' = trys + 1 /\ EndPoll("busy")
  BY <1>1, <1>2, <1>3, PollEnds
<1>4. CASE trys + 1 <= MaxTrys /\ trys' = trys + 1 /\ UNCHANGED <<pc, outcome, buf>>
  <2>1. trys' \in 0 .. MaxTrys
    BY <1>1, <1>4, DiskAssumption
  <2> QED
    BY <1>2, <1>4, <2>1, PollGoesOn DEF history
<1>5. CASE "BSY" \notin Status /\ trys' = 0 /\ pc' = "pollReady"
           /\ UNCHANGED <<outcome, buf>>
  BY <1>1, <1>2, <1>5, StatusSound, PollGoesOn DEF IInv, history
<1> QED
  BY <1>3, <1>4, <1>5 DEF PollBusy

LEMMA PollReadyInvariant ==
    ASSUME IInv, PollReady PROVE IInv'
<1>1. trys \in 0 .. MaxTrys /\ trys + 1 \in 0 .. MaxTrys + 1 /\ trys \in 0 .. MaxTrys + 1
  BY DiskAssumption DEF IInv, TypeOK, FillSound, PollReady
<1>2. /\ pc = "pollReady" /\ phase[Selected] # "busy"
      /\ UNCHANGED <<drives, drive, first, count, i, devices, gaveUp, missed>>
  BY DEF IInv, ReadSound, PollReady
<1>3. CASE EndPoll("error") /\ UNCHANGED trys
  BY <1>1, <1>2, <1>3, PollEnds
<1>4. CASE EndPoll("silent") /\ trys' = trys + 1
  BY <1>1, <1>2, <1>4, PollEnds
<1>5. CASE EndPoll("ready") /\ "DRQ" \in Status /\ "ERR" \notin Status /\ trys' = trys + 1
  <2>1. phase[Selected] = "data"
    BY <1>5, StatusSound DEF IInv
  <2> QED
    BY <1>1, <1>2, <1>5, <2>1, PollEnds
<1>6. CASE UNCHANGED <<pc, outcome, buf>> /\ trys + 1 <= MaxTrys /\ trys' = trys + 1
  <2>1. trys' \in 0 .. MaxTrys
    BY <1>1, <1>6, DiskAssumption
  <2> QED
    BY <1>2, <1>6, <2>1, PollGoesOn DEF history
<1> QED
  BY <1>3, <1>4, <1>5, <1>6 DEF PollReady

LEMMA DataWordInvariant ==
    ASSUME IInv, DataWord PROVE IInv'
<1> USE DiskAssumption
<1>1. /\ pc = "word"
      /\ pc' = IF Len(buf) + 1 = Words THEN "blockDone" ELSE "word"
      /\ UNCHANGED <<board, job, selected, reg, drive, trys, first, count, i, devices,
                     outcome, gaveUp, missed>>
      /\ InWord("word", "blockDone")
  BY DEF DataWord, InWord, history
<1>2. /\ Len(buf) < Words /\ Len(buf) \in Nat /\ Selected \in Positions
      /\ sent[Selected] \in 0 .. Words
      /\ phase[Selected] = "data" => sent[Selected] < Words
      /\ lba' = lba
  BY <1>1, SelectedSound DEF IInv, TypeOK, FillSound, DriveSound, lba
<1> HIDE DEF lba
<1>3. /\ phase' \in [Positions -> {"idle", "busy", "data", "error", "fault"}]
      /\ sent' \in [Positions -> 0 .. Words]
      /\ buf' \in Seq(Word)
      /\ Len(buf') = Len(buf) + 1
      /\ \A k \in 1 .. Len(buf) : buf'[k] = buf[k]
      /\ DriveSound' /\ Selected' = Selected
      /\ \A q \in Positions \ {Selected} : phase'[q] = phase[q]
      /\ phase'[Selected] \in Working => phase'[Selected] = phase[Selected]
      /\ phase[Selected] = "data" =>
            /\ buf'[Len(buf) + 1] = [from |-> Selected, of |-> job[Selected],
                                     at |-> sent[Selected]]
            /\ sent'[Selected] = sent[Selected] + 1
            /\ phase'[Selected] = IF sent[Selected] + 1 = Words THEN "idle" ELSE "data"
  BY <1>1, <1>2, InWordSound
<1> HIDE DEF Selected
<1>4. TypeOK'
  BY <1>1, <1>2, <1>3 DEF IInv, TypeOK
<1>5. FillSound' /\ BootSound' /\ IdentSound'
  BY <1>1, <1>2, <1>3
  DEF IInv, FillSound, BootSound, IdentSound, Identifying, Reading
<1>6. BusSound'
  BY <1>1, <1>3, OtherBus DEF Between
<1>7. ListSound'
  BY <1>1, ListKept DEF IInv, Identifying
<1>8. ReadSound'
  <2>1. ASSUME outcome # "busy"
        PROVE  /\ phase'[Selected] # "busy"
               /\ phase'[Selected] = "data" => sent'[Selected] >= Len(buf')
               /\ pc' = "blockDone" => phase'[Selected] \notin Working
    <3>1. phase[Selected] # "busy" /\ (phase[Selected] = "data" => sent[Selected] >= Len(buf))
      BY <1>1, <2>1 DEF IInv, ReadSound
    <3>2. CASE phase[Selected] = "data"
      BY <1>1, <1>2, <1>3, <3>1, <3>2 DEF Working
    <3>3. CASE phase[Selected] # "data"
      BY <1>3, <3>1, <3>3 DEF Working
    <3> QED
      BY <3>2, <3>3
  <2>2. ASSUME outcome = "ready", ~gaveUp[Bus(drive)]
        PROVE  /\ Selected = drive /\ job[drive] = lba % LbaMod
               /\ Begins(drive, lba % LbaMod)'
               /\ pc' = "word" => phase'[drive] = "data" /\ sent'[drive] = Len(buf')
    <3>1. /\ Selected = drive /\ phase[drive] = "data" /\ job[drive] = lba % LbaMod
          /\ sent[drive] = Len(buf) /\ Begins(drive, lba % LbaMod)
      BY <1>1, <2>2 DEF IInv, ReadSound
    <3>2. \A k \in 1 .. Len(buf') :
             buf'[k] = [from |-> drive, of |-> lba % LbaMod, at |-> k - 1]
      BY <1>2, <1>3, <3>1, BeginsLonger
    <3>3. Begins(drive, lba % LbaMod)'
      BY <1>1, <1>2, <3>2 DEF Begins
    <3> QED
      BY <1>1, <1>2, <1>3, <3>1, <3>3
  <2> QED
    BY <1>1, <1>2, <1>3, <2>1, <2>2 DEF ReadSound
<1> QED
  BY <1>3, <1>4, <1>5, <1>6, <1>7, <1>8 DEF IInv

LEMMA NextSectorInvariant ==
    ASSUME IInv, NextSector PROVE IInv'
<1> USE DiskAssumption
<1>1. /\ pc = "blockDone"
      /\ gaveUp' = [gaveUp EXCEPT ![Bus(drive)] = outcome = "busy"]
      /\ i' = i + 1
      /\ pc' = IF i + 1 < count THEN "address" ELSE "idle"
      /\ UNCHANGED <<board, phase, job, sent, selected, reg, drive, trys, first, count,
                     buf, devices, outcome, missed>>
  BY DEF NextSector, drives
<1>2. gaveUp \in [Buses -> BOOLEAN] /\ Bus(drive) \in Buses
  BY SelectedSound DEF IInv, TypeOK
<1>3. TypeOK'
  <2>1. i' \in 0 .. count
    BY <1>1 DEF IInv, TypeOK, FillSound, Reading
  <2>2. gaveUp' \in [Buses -> BOOLEAN]
    BY <1>1, <1>2
  <2> QED
    BY <1>1, <2>1, <2>2 DEF IInv, TypeOK
<1>4. DriveSound' /\ FillSound' /\ BootSound' /\ IdentSound' /\ ReadSound'
  BY <1>1 DEF IInv, TypeOK, DriveSound, FillSound, BootSound, IdentSound, ReadSound,
              Identifying, Reading
<1>5. BusSound'
  <2> SUFFICES ASSUME NEW b \in Buses, ~gaveUp'[b]
               PROVE  phase[selected[b]] \notin Working
    BY <1>1 DEF BusSound
  <2>1. CASE b = Bus(drive)
    <3>1. outcome # "busy"
      BY <1>1, <1>2, <2>1
    <3> QED
      BY <1>1, <2>1, <3>1 DEF IInv, ReadSound, Selected
  <2>2. CASE b # Bus(drive)
    BY <1>1, <1>2, <2>2 DEF IInv, BusSound
  <2> QED
    BY <2>1, <2>2
<1>6. ListSound'
  BY <1>1, ListKept DEF IInv, Identifying
<1> QED
  BY <1>3, <1>4, <1>5, <1>6 DEF IInv

-----------------------------------------------------------------------------
(* The theorems. *)

LEMMA NextInvariant ==
    ASSUME IInv, [Next]_vars PROVE IInv'
<1>1. CASE Next
  <2>1. CASE Driver
    BY <2>1, IdentifyInvariant, IdentCommandInvariant, IdentZeroInvariant,
       IdentBusyInvariant, IdentReadyInvariant, IdentWordInvariant, IdentAddInvariant,
       AddressInvariant, CommandInvariant, PollBusyInvariant, PollReadyInvariant,
       DataWordInvariant, NextSectorInvariant DEF Driver
  <2>2. CASE Drive
    BY <2>2, AnswerInvariant DEF Drive
  <2>3. ASSUME NEW d \in DOMAIN devices, NEW from \in Requests, NEW n \in Counts,
               Read(d, from, n)
        PROVE  IInv'
    BY <2>3, ReadInvariant
  <2> QED
    BY <1>1, <2>1, <2>2, <2>3 DEF Next
<1>2. CASE UNCHANGED vars
  <2>1. TypeOK' /\ DriveSound' /\ BusSound'
    BY <1>2 DEF vars, drives, history, IInv, TypeOK, DriveSound, BusSound
  <2>2. FillSound' /\ BootSound' /\ IdentSound'
    BY <1>2 DEF vars, drives, history, IInv, FillSound, BootSound, IdentSound, Begins,
                Selected
  <2>3. ListSound'
    BY <1>2, ListKept DEF vars, drives, history, IInv
  <2>4. ReadSound'
    BY <1>2 DEF vars, drives, history, IInv, ReadSound, Begins, lba, Selected
  <2> QED
    BY <2>1, <2>2, <2>3, <2>4 DEF IInv
<1> QED
  BY <1>1, <1>2

LEMMA Invariant == Spec => []IInv
  BY InitInvariant, NextInvariant, PTL DEF Spec

\* The status of the drives, the registers of the buses, the retry counters
\* and the buffer of the driver stay in their ranges (ata_init, ata_read).
THEOREM TypeCorrect == Spec => []TypeOK
<1>1. IInv => TypeOK
  BY DEF IInv
<1> QED
  BY Invariant, <1>1, PTL

\* A poll that ends with DRQ brings the sector that was asked for from the
\* drive that was asked, unless the poll before on that bus was given up, and
\* leaves the bus ready to be switched (ata_read_block).
THEOREM RightSectorCorrect == Spec => []RightSector
<1>1. ASSUME IInv PROVE RightSector
  <2> SUFFICES ASSUME pc = "blockDone", outcome = "ready"
               PROVE  /\ phase[Selected] \notin Working
                      /\ ~gaveUp[Bus(drive)] /\ lba < LbaMod => buf = Whole(drive, lba)
    BY DEF RightSector
  <2>1. /\ phase[Selected] \notin Working
        /\ ~gaveUp[Bus(drive)] => Begins(drive, lba % LbaMod)
    BY <1>1 DEF IInv, ReadSound
  <2>2. buf \in Seq(Word) /\ Len(buf) = Words /\ lba \in Nat
    BY <1>1 DEF IInv, TypeOK, FillSound, lba
  <2>3. lba < LbaMod => lba % LbaMod = lba
    BY <2>2, DiskAssumption
  <2> HIDE DEF lba
  <2> QED
    BY <2>1, <2>2, <2>3, FullIsWhole
<1> QED
  BY Invariant, <1>1, PTL

\* The device list holds disks, each once and in the order in which ata_init
\* looks, with the names that they gave themselves; only a master that was
\* given up may stand in the place of its slave.
THEOREM DevicesCorrect == Spec => []DevicesReal
<1>1. IInv => DevicesReal
  BY DEF IInv, ListSound
<1> QED
  BY Invariant, <1>1, PTL
=============================================================================
