------------------------------ MODULE Console ------------------------------
(***************************************************************************)
(* The way of a key from the keyboard controller to the line that scanf    *)
(* returns: the interrupt handler and the PS2Keyboard thread of            *)
(* src/src/services.c, handleKeyboard and scanf of src/src/common.c, and   *)
(* the loop of the Shell thread, the one caller of scanf.  The two threads *)
(* may be preempted between any two steps; what they share is one flag,    *)
(* the table of handlers, inputBuffer and inputPosition, and no lock.      *)
(*                                                                         *)
(* A key is its number and its kind.  The characters of the line are left  *)
(* out, and so is the text screen; of the heap there is the one block that *)
(* the shell's first malloc returns.                                       *)
(***************************************************************************)
EXTENDS Naturals

CONSTANTS
    Slots,      \* entries of services_keyboard_isr_events (10)
    TabCounts,  \* how often a tab repeats the space: (x + 8) & ~7
    MaxKeys,    \* how many keys are pressed
    WordMod     \* inputPosition is unsigned: 2^32 in the kernel

ASSUME ConsoleAssumption ==
    /\ Slots \in Nat \ {0}
    /\ TabCounts \subseteq Nat \ {0}
    /\ MaxKeys \in Nat
    /\ WordMod \in Nat \ {0}

VARIABLES
    port,       \* the byte behind port 0x60: the number and kind of its key
    full,       \* it was not read yet
    installed,  \* vector 33 has services_keyboard_isr
    flag,       \* services_keyboard_isr_flag
    kpc, code, left, slot, ptr, at, catcher,    \* the PS2Keyboard thread
    last,       \* the number of the last key it read, 0 before the first
    again,      \* how often it read a key a second time
    events,     \* services_keyboard_isr_events: is handleKeyboard there?
    spc,        \* the Shell thread's next statement
    input,      \* its variable input
    inputBuffer, inputPosition,
    used,       \* alloc_t.status of the block
    lent        \* who got the block from malloc and did not free it

controller == <<port, full>>
reading == <<last, again>>
dispatch == <<code, left, slot, catcher>>
handler == <<ptr, at>>
shared == <<inputBuffer, inputPosition>>
block == <<used, lent>>
shell == <<spc, input>>
vars == <<controller, installed, flag, kpc, dispatch, handler, reading,
          events, shell, shared, block>>

\* "plain": a key with a character.  "mute": scancode_table has 0 for it.
Kinds == {"plain", "enter", "backspace", "tab", "mute", "release"}

\* Null, the shell's block, or what the uninitialised variable held.
Pointers == {"null", "block", "wild"}

Keys == [id : Nat, kind : Kinds]

\* The controller, the interrupt and the PS2Keyboard thread.
KeyboardOK ==
    /\ port \in Keys /\ full \in BOOLEAN
    /\ installed \in BOOLEAN /\ flag \in BOOLEAN
    /\ kpc \in {"install", "flush", "poll", "read", "look", "call", "handle", "test", "fetch",
                "store", "countRead", "countWrite", "completed", "astray"}
    /\ code \in Keys /\ left \in Nat /\ slot \in 1 .. Slots
    /\ ptr \in Pointers /\ at \in 0 .. WordMod - 1
    /\ catcher \in {0, 1}
    /\ last \in Nat /\ again \in Nat

\* What scanf shares with it, the Shell thread and the block.
ShellOK ==
    /\ events \in [1 .. Slots -> BOOLEAN]
    /\ spc \in {"register", "reset", "alloc", "publish", "wait", "unregister", "process", "free"}
    /\ input \in Pointers /\ inputBuffer \in Pointers
    /\ inputPosition \in 0 .. WordMod - 1
    /\ used \in BOOLEAN /\ lent \subseteq {"shell", "other"}

TypeOK == KeyboardOK /\ ShellOK

Init ==
    /\ port = [id |-> 0, kind |-> "mute"] /\ full = FALSE
    /\ installed = FALSE /\ flag = FALSE
    /\ kpc = "install" /\ code = port /\ left = 0 /\ slot = 1
    /\ ptr = "null" /\ at = 0 /\ catcher = 0
    /\ last = 0 /\ again = 0
    /\ events = [s \in 1 .. Slots |-> FALSE]
    /\ spc = "register" /\ input \in {"null", "wild"}
    /\ inputBuffer = "null" /\ inputPosition = 0
    /\ used = FALSE /\ lent = {}

-----------------------------------------------------------------------------
(* The controller and its interrupt. *)

\* The controller shows the next byte as soon as the last one was read, and
\* raises IRQ 1; services_keyboard_isr runs at once, if it is installed.
Press(kind) ==
    /\ ~full
    /\ port.id < MaxKeys
    /\ port' = [id |-> port.id + 1, kind |-> kind]
    /\ full' = TRUE
    /\ flag' = (flag \/ installed)
    /\ UNCHANGED <<installed, kpc, dispatch, handler, reading, events, shell, shared, block>>

-----------------------------------------------------------------------------
(* services_keyboard. *)

\* set_int(33, &services_keyboard_isr)
Install ==
    /\ kpc = "install"
    /\ installed' = TRUE
    /\ kpc' = "flush"
    /\ UNCHANGED <<controller, flag, dispatch, handler, reading, events, shell, shared, block>>

\* inb(0x60)
Flush ==
    /\ kpc = "flush"
    /\ full' = FALSE
    /\ kpc' = "poll"
    /\ UNCHANGED <<port, installed, flag, dispatch, handler, reading, events, shell, shared, block>>

\* Mutant of Poll: the flag stays up.
PollForgets ==
    /\ kpc = "poll"
    /\ flag
    /\ kpc' = "read"
    /\ UNCHANGED <<controller, installed, flag, dispatch, handler, reading, events, shell, shared, block>>

\* if(flag == true) { flag = false;
Poll ==
    /\ kpc = "poll"
    /\ flag
    /\ flag' = FALSE
    /\ kpc' = "read"
    /\ UNCHANGED <<controller, installed, dispatch, handler, reading, events, shell, shared, block>>

\* inb(0x60) and scanmap_decode: a key without a character is done with.  For
\* the code of a release scancode_table[code] lies behind the table and may
\* hold anything; a tab becomes a number of spaces.
Read ==
    /\ kpc = "read"
    /\ full' = FALSE
    /\ last' = port.id
    /\ again' = IF last = port.id THEN again + 1 ELSE again
    /\ code' = port
    /\ slot' = 1
    /\ left' \in IF port.kind = "tab" THEN TabCounts ELSE {1}
    /\ kpc' \in IF port.kind = "mute" THEN {"poll"}
                ELSE IF port.kind = "release" THEN {"poll", "look"} ELSE {"look"}
    /\ UNCHANGED <<port, installed, flag, catcher, handler, events, shell, shared, block>>

\* The heads of the two loops, behind an entry of the table.
NextSlot ==
    IF slot < Slots THEN slot' = slot + 1 /\ left' = left /\ kpc' = "look"
    ELSE /\ slot' = 1
         /\ left' = left - 1
         /\ kpc' = IF left > 1 THEN "look" ELSE "poll"

\* if(services_keyboard_isr_events[i] != 0) { try(&&erroredout);
Look ==
    /\ kpc = "look"
    /\ \/ events[slot] /\ kpc' = "call" /\ catcher' = catcher + 1 /\ UNCHANGED <<slot, left>>
       \/ ~events[slot] /\ NextSlot /\ UNCHANGED catcher
    /\ UNCHANGED <<controller, installed, flag, code, handler, reading, events, shell, shared, block>>

\* services_keyboard_isr_events[i](c, released): the entry is loaded again.
CallHandler ==
    /\ kpc = "call"
    /\ events[slot]
    /\ kpc' = "handle"
    /\ UNCHANGED <<controller, installed, flag, dispatch, handler, reading, events, shell, shared, block>>

\* The entry was cleared since: what lies at address 0 is executed.  It may
\* return, or run astray, or raise an exception, and isr_handler takes the
\* last catcher and goes on at erroredout.
CallNull ==
    /\ kpc = "call"
    /\ ~events[slot]
    /\ \/ kpc' = "completed" /\ UNCHANGED <<slot, left, catcher>>
       \/ kpc' = "astray" /\ UNCHANGED <<slot, left, catcher>>
       \/ catcher' = catcher - 1 /\ NextSlot
    /\ UNCHANGED <<controller, installed, flag, code, handler, reading, events, shell, shared, block>>

\* Mutant of Completed: the catcher stays.
CompletedKeeps ==
    /\ kpc = "completed"
    /\ NextSlot
    /\ UNCHANGED <<controller, installed, flag, code, catcher, handler, reading, events, shell, shared, block>>

\* Mutant of Completed: the flag is cleared when the key is done with, and not
\* before it is read.
CompletedLowers ==
    /\ kpc = "completed"
    /\ catcher' = catcher - 1
    /\ flag' = FALSE
    /\ NextSlot
    /\ UNCHANGED <<controller, installed, code, handler, reading, events, shell, shared, block>>

\* completed()
Completed ==
    /\ kpc = "completed"
    /\ catcher' = catcher - 1
    /\ NextSlot
    /\ UNCHANGED <<controller, installed, flag, code, handler, reading, events, shell, shared, block>>

-----------------------------------------------------------------------------
(* handleKeyboard. *)

\* The tests of the released flag and of the character.
Handle ==
    /\ kpc = "handle"
    /\ kpc' = CASE code.kind = "release" -> "completed"
                [] code.kind = "backspace" -> "test"
                [] code.kind = "enter" -> "completed"
                [] OTHER -> "fetch"
    /\ inputBuffer' = IF code.kind = "enter" THEN "null" ELSE inputBuffer
    /\ UNCHANGED <<controller, installed, flag, dispatch, handler, reading, events, shell,
                   inputPosition, block>>

\* if(inputPosition > 0)
Test ==
    /\ kpc = "test"
    /\ kpc' = IF inputPosition > 0 THEN "countRead" ELSE "fetch"
    /\ UNCHANGED <<controller, installed, flag, dispatch, handler, reading, events, shell, shared, block>>

\* inputBuffer[inputPosition] = c, or = 0 for a backspace: the two variables
\* are loaded,
Fetch ==
    /\ kpc = "fetch"
    /\ ptr' = inputBuffer
    /\ kpc' = "store"
    /\ UNCHANGED <<controller, installed, flag, dispatch, at, reading, events, shell, shared, block>>

\* and the byte goes where they point.
Store ==
    /\ kpc = "store"
    /\ ptr' = "null"
    /\ kpc' = IF code.kind = "backspace" THEN "completed" ELSE "countRead"
    /\ UNCHANGED <<controller, installed, flag, dispatch, at, reading, events, shell, shared, block>>

\* inputPosition++, or inputPosition-- for a backspace, is a load
CountRead ==
    /\ kpc = "countRead"
    /\ at' = inputPosition
    /\ kpc' = "countWrite"
    /\ UNCHANGED <<controller, installed, flag, dispatch, ptr, reading, events, shell, shared, block>>

\* and a store.
CountWrite ==
    /\ kpc = "countWrite"
    /\ IF code.kind = "backspace"
       THEN inputPosition' = (at + WordMod - 1) % WordMod /\ kpc' = "fetch"
       ELSE inputPosition' = (at + 1) % WordMod /\ kpc' = "completed"
    /\ at' = 0
    /\ UNCHANGED <<controller, installed, flag, dispatch, ptr, reading, events, shell, inputBuffer, block>>

-----------------------------------------------------------------------------
(* scanf and the loop of shell_main. *)

\* services_keyboard_register(&handleKeyboard): the first free entry.
Register ==
    /\ spc = "register"
    /\ events' = [s \in 1 .. Slots |->
                     events[s] \/ (\A r \in 1 .. s - 1 : events[r])]
    /\ spc' = "reset"
    /\ UNCHANGED <<controller, installed, flag, kpc, dispatch, handler, reading, input, shared, block>>

\* inputPosition = 0
Reset ==
    /\ spc = "reset"
    /\ inputPosition' = 0
    /\ spc' = "alloc"
    /\ UNCHANGED <<controller, installed, flag, kpc, dispatch, handler, reading, events, input,
                   inputBuffer, block>>

\* if(*var == 0) *var = malloc(length); the memset of *var follows.
Alloc ==
    /\ spc = "alloc"
    /\ IF input = "null" THEN input' = "block" /\ used' = TRUE /\ lent' = lent \cup {"shell"}
                         ELSE UNCHANGED <<input, block>>
    /\ spc' = "publish"
    /\ UNCHANGED <<controller, installed, flag, kpc, dispatch, handler, reading, events, shared>>

\* inputBuffer = *var
Publish ==
    /\ spc = "publish"
    /\ inputBuffer' = input
    /\ spc' = "wait"
    /\ UNCHANGED <<controller, installed, flag, kpc, dispatch, handler, reading, events, input,
                   inputPosition, block>>

\* Mutant of Wait: scanf sleeps once and does not look again.
WaitOnce ==
    /\ spc = "wait"
    /\ spc' = "unregister"
    /\ UNCHANGED <<controller, installed, flag, kpc, dispatch, handler, reading, events, input,
                   shared, block>>

\* while(inputBuffer != 0) sleep(100)
Wait ==
    /\ spc = "wait"
    /\ inputBuffer = "null"
    /\ spc' = "unregister"
    /\ UNCHANGED <<controller, installed, flag, kpc, dispatch, handler, reading, events, input,
                   shared, block>>

\* services_keyboard_unregister(&handleKeyboard): the first entry that has it.
Unregister ==
    /\ spc = "unregister"
    /\ events' = [s \in 1 .. Slots |->
                     events[s] /\ (\E r \in 1 .. s - 1 : events[r])]
    /\ spc' = "process"
    /\ UNCHANGED <<controller, installed, flag, kpc, dispatch, handler, reading, input, shared, block>>

\* process_cmd(input) only reads the line.
Process ==
    /\ spc = "process"
    /\ spc' = "free"
    /\ UNCHANGED <<controller, installed, flag, kpc, dispatch, handler, reading, events, input,
                   shared, block>>

\* free(input): input keeps the address for the next scanf.  The command test
\* comes here, too, and calls scanf a second time.
FreeInput ==
    /\ spc = "free"
    /\ used' = (used /\ input # "block")
    /\ lent' = IF input = "block" THEN lent \ {"shell"} ELSE lent
    /\ spc' = "register"
    /\ UNCHANGED <<controller, installed, flag, kpc, dispatch, handler, reading, events, input, shared>>

-----------------------------------------------------------------------------
(* The other callers of malloc and free. *)

Take ==
    /\ input = "block"
    /\ ~used
    /\ used' = TRUE
    /\ lent' = lent \cup {"other"}
    /\ UNCHANGED <<controller, installed, flag, kpc, dispatch, handler, reading, events, shell, shared>>

GiveBack ==
    /\ "other" \in lent
    /\ used' = FALSE
    /\ lent' = lent \ {"other"}
    /\ UNCHANGED <<controller, installed, flag, kpc, dispatch, handler, reading, events, shell, shared>>

-----------------------------------------------------------------------------
handleKeyboard == Handle \/ Test \/ Fetch \/ Store \/ CountRead \/ CountWrite

services_keyboard ==
    \/ Install \/ Flush \/ Poll \/ Read
    \/ Look \/ CallHandler \/ CallNull \/ Completed \/ handleKeyboard

scanf == Register \/ Reset \/ Alloc \/ Publish \/ Wait \/ Unregister

shell_main == scanf \/ Process \/ FreeInput

Next ==
    \/ \E kind \in Kinds : Press(kind)
    \/ services_keyboard \/ shell_main
    \/ Take \/ GiveBack

Spec == Init /\ [][Next]_vars

\* Both threads are scheduled (Tasking!NoStarvation) and none waits for the
\* other in a loop of steps; the user owes nothing.
FairSpec == Spec /\ WF_vars(services_keyboard) /\ WF_vars(shell_main)

-----------------------------------------------------------------------------
(* Properties. *)

\* The flag is one bit for any number of interrupts, is raised while the
\* thread polls and is cleared before the port is read: yet the thread is
\* never more than one key behind, skips none, and reads at most one key a
\* second time, for the interrupt that came between set_int and the inb that
\* follows it.  Only that first inb may lose a key.
KeysInOrder ==
    /\ again <= 1
    /\ last = 0 => port.id <= 2
    /\ last # 0 => port.id = last + (IF full THEN 1 ELSE 0)

\* The handler's store and scanf's return have no lock between them: a store
\* that is under way goes to the line only while scanf still waits for it.
StoreReachesReader ==
    kpc = "store" /\ ptr # "null" => spc = "wait" /\ inputBuffer = ptr

\* A scanf that waits is ended by an Enter, through the interrupt, the flag,
\* the table of handlers and inputBuffer, unless a call of a handler that was
\* taken away at that moment led the keyboard thread astray.
EnterEndsLine ==
    (spc = "wait" /\ full /\ port.kind = "enter" /\ kpc \notin {"install", "flush"})
        ~> (spc # "wait" \/ kpc = "astray")
=============================================================================
