--------------------------- MODULE ConsoleProofs ---------------------------
(***************************************************************************)
(* Proofs about Console, for any number of keys, table entries and spaces  *)
(* per tab: the flag loses no key and doubles at most one, and no store of *)
(* the handler hits a line that scanf has given back.                      *)
(***************************************************************************)
EXTENDS Console, TLAPS

\* Between try and completed.
Guarded == {"call", "handle", "test", "fetch", "store", "countRead", "countWrite", "completed", "astray"}

\* One catcher while a handler runs, none otherwise; and a loop that goes on
\* has something left to do.
Matched ==
    /\ catcher = (IF kpc \in Guarded THEN 1 ELSE 0)
    /\ kpc \in Guarded \cup {"look"} => left > 0

IType == TypeOK /\ Matched

\* Interrupts the thread has not answered with a read yet.
Tickets == (IF flag THEN 1 ELSE 0) + (IF kpc = "read" THEN 1 ELSE 0)
Unread == IF full THEN 1 ELSE 0

\* Before the first inb one key at most was shown; behind it every byte in
\* the port has its ticket, and one ticket at most has no byte: it is what
\* reads a key twice, and is spent by that.
Booting ==
    /\ last = 0 /\ again = 0
    /\ port.id = Unread
    /\ flag => full
    /\ kpc = "install" <=> ~installed
    /\ ~installed => ~flag

Counted ==
    /\ installed
    /\ Unread <= Tickets
    /\ Tickets + again <= Unread + 1
    /\ Tickets > 0 => port.id > 0
    /\ last = 0 => port.id <= 1 + Unread
    /\ last # 0 => port.id = last + Unread

Keyed == IF kpc \in {"install", "flush"} THEN Booting ELSE Counted

\* inputBuffer and the handler's copy of it point to a line only while scanf
\* waits for that line.
Pointed ==
    /\ inputBuffer # "null" => spc = "wait"
    /\ ptr # "null" => kpc = "store" /\ spc = "wait" /\ inputBuffer = ptr

-----------------------------------------------------------------------------
LEMMA InitAll == Init => IType /\ Keyed /\ Pointed
<1> SUFFICES ASSUME Init PROVE IType /\ Keyed /\ Pointed
  OBVIOUS
<1>1. KeyboardOK /\ ShellOK
  <2>1. port \in Keys
    BY DEF Init, Keys, Kinds
  <2>2. KeyboardOK
    <3>1. slot \in 1 .. Slots /\ at \in 0 .. WordMod - 1
      BY ConsoleAssumption DEF Init
    <3>2. ptr \in Pointers /\ kpc = "install"
      BY DEF Init, Pointers
    <3>3. catcher = 0 /\ last = 0 /\ again = 0 /\ left = 0
      BY DEF Init
    <3>4. code \in Keys
      BY <2>1 DEF Init
    <3>5. full \in BOOLEAN /\ installed \in BOOLEAN /\ flag \in BOOLEAN
      BY DEF Init
    <3> QED  BY <2>1, <3>1, <3>2, <3>3, <3>4, <3>5 DEF KeyboardOK
  <2>3. ShellOK
    <3>1. events \in [1 .. Slots -> BOOLEAN]
      BY DEF Init
    <3>2. inputPosition \in 0 .. WordMod - 1
      BY ConsoleAssumption DEF Init
    <3>3. input \in Pointers /\ inputBuffer \in Pointers /\ spc = "register"
      BY DEF Init, Pointers
    <3>4. used \in BOOLEAN /\ lent = {}
      BY DEF Init
    <3> QED  BY <3>1, <3>2, <3>3, <3>4 DEF ShellOK
  <2> QED  BY <2>2, <2>3
<1>2. Matched
  BY DEF Init, Matched, Guarded
<1>3. Keyed
  BY DEF Init, Keyed, Booting, Unread
<1>4. Pointed
  BY DEF Init, Pointed
<1> QED  BY <1>1, <1>2, <1>3, <1>4 DEF IType, TypeOK

LEMMA NextSlotStep ==
    ASSUME IType, NextSlot, left > 0
    PROVE  /\ kpc' \in {"look", "poll"}
           /\ left' \in Nat
           /\ slot' \in 1 .. Slots
           /\ kpc' = "look" => left' > 0
BY ConsoleAssumption DEF NextSlot, IType, TypeOK, KeyboardOK

\* The state stays well typed: what the keyboard's steps change of their own
\* half,
LEMMA KeyboardStep ==
    ASSUME IType,
           (\E kind \in Kinds : Press(kind)) \/ services_keyboard
    PROVE  KeyboardOK' /\ Matched'
<1> USE DEF IType, TypeOK, KeyboardOK, Matched, Guarded, controller, reading, dispatch, handler
<1>1. ASSUME NEW kind \in Kinds, Press(kind) PROVE KeyboardOK' /\ Matched'
  BY <1>1 DEF Press, Keys
<1>2. CASE Install \/ Flush \/ Poll
  BY <1>2 DEF Install, Flush, Poll
<1>3. CASE Read
  <2>1. left' \in Nat /\ left' > 0 /\ slot' \in 1 .. Slots
    BY <1>3, ConsoleAssumption DEF Read
  <2>2. kpc' \in {"poll", "look"} /\ kpc = "read"
    BY <1>3 DEF Read
  <2>3. /\ full' = FALSE /\ last' = port.id /\ code' = port
        /\ again' \in {again, again + 1}
        /\ UNCHANGED <<port, installed, flag, catcher, ptr, at>>
    BY <1>3 DEF Read
  <2>4. last' \in Nat /\ again' \in Nat
    BY <2>3 DEF Keys
  <2>5. KeyboardOK'
    BY <2>1, <2>2, <2>3, <2>4
  <2>6. Matched'
    BY <2>1, <2>2, <2>3
  <2> QED  BY <2>5, <2>6
<1>4. CASE Look
  <2>1. CASE events[slot]
    BY <1>4, <2>1 DEF Look
  <2>2. CASE ~events[slot]
    BY <1>4, <2>2, NextSlotStep DEF Look
  <2> QED  BY <2>1, <2>2
<1>5. CASE CallHandler
  BY <1>5 DEF CallHandler
<1>6. CASE CallNull
  <2>1. CASE UNCHANGED <<slot, left, catcher>>
    BY <1>6, <2>1 DEF CallNull
  <2>2. CASE catcher' = catcher - 1 /\ NextSlot
    BY <1>6, <2>2, NextSlotStep DEF CallNull
  <2> QED  BY <1>6, <2>1, <2>2 DEF CallNull
<1>7. CASE Completed
  BY <1>7, NextSlotStep DEF Completed
<1>8. CASE Handle
  BY <1>8 DEF Handle
<1>9. CASE Test
  BY <1>9 DEF Test
<1>10. CASE Fetch
  BY <1>10 DEF Fetch, ShellOK
<1>11. CASE Store
  BY <1>11 DEF Store, Pointers
<1>12. CASE CountRead
  BY <1>12 DEF CountRead, ShellOK
<1>13. CASE CountWrite
  BY <1>13, ConsoleAssumption DEF CountWrite
<1> QED
  BY <1>1, <1>2, <1>3, <1>4, <1>5, <1>6, <1>7, <1>8, <1>9, <1>10, <1>11, <1>12, <1>13
  DEF services_keyboard, handleKeyboard

\* what they change of the shell's half,
LEMMA HandlerStep ==
    ASSUME IType,
           (\E kind \in Kinds : Press(kind)) \/ services_keyboard
    PROVE  ShellOK'
<1> USE DEF IType, TypeOK, ShellOK, shared, shell, block
<1>1. CASE UNCHANGED <<events, shell, shared, block>>
  BY <1>1
<1>2. CASE Handle
  BY <1>2 DEF Handle, Pointers
<1>3. CASE CountWrite
  <2>1. at \in 0 .. WordMod - 1
    BY DEF KeyboardOK
  <2>2. (at + 1) % WordMod \in 0 .. WordMod - 1
    BY <2>1, ConsoleAssumption
  <2>3. (at + WordMod - 1) % WordMod \in 0 .. WordMod - 1
    BY <2>1, ConsoleAssumption
  <2>4. inputPosition' \in 0 .. WordMod - 1
    BY <1>3, <2>2, <2>3 DEF CountWrite
  <2> QED  BY <1>3, <2>4 DEF CountWrite
<1>4. ASSUME ~Handle, ~CountWrite PROVE UNCHANGED <<events, shell, shared, block>>
  BY <1>4
  DEF Press, services_keyboard, Install, Flush, Poll, Read, Look, CallHandler, CallNull,
      Completed, handleKeyboard, Test, Fetch, Store, CountRead
<1> QED  BY <1>1, <1>2, <1>3, <1>4

\* and the steps of the shell and the heap.
LEMMA ShellStep ==
    ASSUME IType, shell_main \/ Take \/ GiveBack \/ UNCHANGED vars
    PROVE  IType'
<1> USE DEF IType, TypeOK
<1>1. UNCHANGED <<port, full, installed, flag, kpc, code, left, slot, ptr, at, catcher, last, again>>
  BY DEF shell_main, scanf, Register, Reset, Alloc, Publish, Wait, Unregister, Process, FreeInput,
         Take, GiveBack, vars, controller, dispatch, handler, reading
<1>2. KeyboardOK' /\ Matched'
  BY <1>1 DEF KeyboardOK, Matched
<1> SUFFICES ShellOK'
  BY <1>2
<1> USE DEF ShellOK, shared, shell, block
<1>3. CASE Register
  BY <1>3 DEF Register
<1>4. CASE Unregister
  BY <1>4 DEF Unregister
<1>5. CASE Reset
  BY <1>5, ConsoleAssumption DEF Reset
<1>6. CASE Alloc
  BY <1>6 DEF Alloc, Pointers
<1>7. CASE Publish
  BY <1>7 DEF Publish
<1>8. CASE Wait \/ Process
  BY <1>8 DEF Wait, Process
<1>9. CASE FreeInput
  BY <1>9 DEF FreeInput
<1>10. CASE Take \/ GiveBack
  BY <1>10 DEF Take, GiveBack
<1>11. CASE UNCHANGED vars
  BY <1>11 DEF vars
<1> QED
  BY <1>3, <1>4, <1>5, <1>6, <1>7, <1>8, <1>9, <1>10, <1>11 DEF shell_main, scanf

LEMMA TypeStep == IType /\ [Next]_vars => IType'
BY KeyboardStep, HandlerStep, ShellStep DEF Next, IType, TypeOK

\* The counting of interrupts and reads.
LEMMA KeyedStep == IType /\ Keyed /\ [Next]_vars => Keyed'
<1> SUFFICES ASSUME IType, Keyed, [Next]_vars PROVE Keyed'
  OBVIOUS
<1> USE DEF Keyed, Booting, Counted, Tickets, Unread
<1>0. port.id \in Nat /\ last \in Nat /\ again \in Nat
  BY DEF IType, TypeOK, KeyboardOK, Keys
<1>1. ASSUME NEW kind \in Kinds, Press(kind) PROVE Keyed'
  BY <1>0, <1>1 DEF Press, dispatch, reading, IType, TypeOK, KeyboardOK
<1>2. CASE Install
  BY <1>2 DEF Install, controller, reading
<1>3. CASE Flush
  BY <1>0, <1>3 DEF Flush, reading
<1>4. CASE Poll
  BY <1>0, <1>4 DEF Poll, controller, reading
<1>5. CASE Read
  <2>1. kpc = "read" /\ kpc' \in {"poll", "look"}
    BY <1>5 DEF Read
  <2>2. /\ full' = FALSE /\ last' = port.id /\ port' = port /\ flag' = flag
        /\ installed' = installed
        /\ again' = IF last = port.id THEN again + 1 ELSE again
    BY <1>5 DEF Read
  <2> QED  BY <1>0, <2>1, <2>2
<1>6. ASSUME UNCHANGED <<controller, installed, flag, reading>>,
             kpc \notin {"install", "flush", "read"}, kpc' \notin {"install", "flush", "read"}
      PROVE  Keyed'
  BY <1>6 DEF controller, reading
<1>7. ASSUME Look \/ CallHandler \/ CallNull \/ Completed \/ handleKeyboard
      PROVE  /\ UNCHANGED <<controller, installed, flag, reading>>
             /\ kpc \notin {"install", "flush", "read"}
             /\ kpc' \notin {"install", "flush", "read"}
  BY <1>7
  DEF Look, CallHandler, CallNull, Completed, handleKeyboard, NextSlot,
      Handle, Test, Fetch, Store, CountRead, CountWrite
<1>8. ASSUME shell_main \/ Take \/ GiveBack \/ UNCHANGED vars
      PROVE  UNCHANGED <<controller, installed, flag, reading, kpc>>
  BY <1>8
  DEF shell_main, scanf, Register, Reset, Alloc, Publish, Wait, Unregister, Process, FreeInput,
      Take, GiveBack, vars
<1>9. ASSUME UNCHANGED <<controller, installed, flag, reading, kpc>> PROVE Keyed'
  BY <1>9 DEF controller, reading
<1> QED
  BY <1>1, <1>2, <1>3, <1>4, <1>5, <1>6, <1>7, <1>8, <1>9 DEF Next, services_keyboard

\* The handshake over inputBuffer.
LEMMA PointedStep == IType /\ Pointed /\ [Next]_vars => Pointed'
<1> SUFFICES ASSUME IType, Pointed, [Next]_vars PROVE Pointed'
  OBVIOUS
<1> USE DEF Pointed
<1>1. ASSUME UNCHANGED <<inputBuffer, ptr, spc>>, ptr = "null" PROVE Pointed'
  BY <1>1
<1>2. ASSUME UNCHANGED <<inputBuffer, ptr, spc, kpc>> PROVE Pointed'
  BY <1>2
<1>3. ASSUME \/ \E kind \in Kinds : Press(kind)
             \/ Take \/ GiveBack \/ UNCHANGED vars
      PROVE  UNCHANGED <<inputBuffer, ptr, spc, kpc>>
  BY <1>3 DEF Press, Take, GiveBack, vars, shared, handler, shell
<1>4. ASSUME \/ Install \/ Flush \/ Poll \/ Read
             \/ Look \/ CallHandler \/ CallNull \/ Completed \/ Test \/ CountRead \/ CountWrite
      PROVE  UNCHANGED <<inputBuffer, ptr, spc>> /\ kpc # "store"
  BY <1>4
  DEF Install, Flush, Poll, Read, Look, CallHandler, CallNull, Completed, Test, CountRead,
      CountWrite, shared, handler, shell
<1>5. CASE Handle \/ Fetch \/ Store
  BY <1>5 DEF Handle, Fetch, Store, shared, handler, shell
<1>6. CASE Register \/ Reset \/ Alloc \/ Unregister \/ Process \/ FreeInput
  BY <1>6 DEF Register, Reset, Alloc, Unregister, Process, FreeInput, shared, handler
<1>7. CASE Publish \/ Wait
  BY <1>7 DEF Publish, Wait, shared, handler
<1> QED
  BY <1>1, <1>2, <1>3, <1>4, <1>5, <1>6, <1>7
  DEF Next, services_keyboard, handleKeyboard, shell_main, scanf

-----------------------------------------------------------------------------
LEMMA Invariance == Spec => [](IType /\ Keyed /\ Pointed)
<1>1. IType /\ Keyed /\ Pointed /\ [Next]_vars => (IType /\ Keyed /\ Pointed)'
  BY TypeStep, KeyedStep, PointedStep
<1> QED  BY InitAll, <1>1, PTL DEF Spec

\* Every catcher that try pushed is popped once, by completed or by the
\* exception: the console's state is well typed.
THEOREM TypeCorrect == Spec => []TypeOK
<1>1. IType => TypeOK
  BY DEF IType
<1> QED  BY Invariance, <1>1, PTL

\* services_keyboard skips no key behind its first inb and reads at most one
\* twice, however many keys are pressed and whenever the interrupt comes.
THEOREM KeysCorrect == Spec => []KeysInOrder
<1>1. IType /\ Keyed => KeysInOrder
  BY DEF IType, TypeOK, KeyboardOK, Keys, Keyed, Booting, Counted, Tickets, Unread, KeysInOrder
<1> QED  BY Invariance, <1>1, PTL

\* No store of handleKeyboard goes to a line behind the end of its scanf.
THEOREM StoresCorrect == Spec => []StoreReachesReader
<1>1. Pointed => StoreReachesReader
  BY DEF Pointed, StoreReachesReader
<1> QED  BY Invariance, <1>1, PTL
=============================================================================
