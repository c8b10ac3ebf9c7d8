-------------------------------- MODULE Screen --------------------------------
(***************************************************************************)
(* The cursor of the text screen, src/textscreen.c: two bytes that all     *)
(* threads move without a lock.                                            *)
(*                                                                         *)
(* The Makefile compiles without optimisation, so x++ is a load and a      *)
(* store, and the timer may come between any two accesses of a writer to   *)
(* textscreen_x and textscreen_y.  The calls of a writer are one step per  *)
(* access: textscreen_write_char, textscreen_clear and textscreen_setcursor *)
(* of the shell, and what handleKeyboard of src/common.c does to rub out a *)
(* character, in the keyboard thread.  printf and textscreen_write_str are *)
(* one textscreen_write_char after the other.                              *)
(***************************************************************************)
EXTENDS Naturals

CONSTANTS
    Writers,        \* the threads that print
    Keyboard,       \* the one that runs handleKeyboard
    Width,          \* textscreen_width, 80
    Height,         \* textscreen_height, 25
    ByteMod         \* 256: the cursor is two uint8_t

ASSUME ScreenAssumption ==
    /\ Keyboard \in Writers
    /\ Width \in Nat \ {0}
    /\ Height \in Nat \ {0}
    /\ ByteMod \in Nat
    /\ Width < ByteMod /\ Height < ByteMod

VARIABLES
    textscreen_x,
    textscreen_y,
    pc,         \* of each writer: its next access, or "out" of any call
    byte,       \* of each writer: the byte that it loaded last
    after,      \* of each writer: what follows when write_char returns
    movedX,     \* history: the last store to textscreen_x was movecursor's,
    movedY,     \* and to textscreen_y
    alone       \* history: the writer inside found the cursor on the screen and
                \* nobody else inside, and nobody has come since

cursor == <<textscreen_x, textscreen_y, movedX, movedY>>
vars == <<cursor, pc, byte, after, alone>>

Byte == 0 .. ByteMod - 1

\* The accesses of write_char before its test of x, the test itself and the
\* reset it may lead to; the same for y.
BeforeX == {"back", "leftLoad", "leftStore", "leftLoad2", "leftStore2", "return",
            "newline", "newlineLoad", "newlineStore", "row", "column", "incLoad",
            "incStore", "testX", "wrapX"}
BeforeY == BeforeX \cup {"wrapLoad", "wrapStore", "testY", "clip"}
Moving == {"moveLoadX", "moveStoreX", "moveLoadY", "moveStoreY"}

Quiet == \A w \in Writers : pc[w] = "out"
OnScreen == textscreen_x < Width /\ textscreen_y < Height

Init ==
    /\ textscreen_x = 0
    /\ textscreen_y = 0
    /\ pc = [w \in Writers |-> "out"]
    /\ byte = [w \in Writers |-> 0]
    /\ after = [w \in Writers |-> "caller"]
    /\ movedX = FALSE
    /\ movedY = FALSE
    /\ alone = FALSE

-----------------------------------------------------------------------------
(* Accesses to the two bytes, and what -- and ++ make of a byte. *)

Down(b) == IF b = 0 THEN ByteMod - 1 ELSE b - 1
Up(b) == IF b = ByteMod - 1 THEN 0 ELSE b + 1

Goto(w, from, to) ==
    /\ pc[w] = from
    /\ pc' = [pc EXCEPT ![w] = to]

LoadX(w, from, to) ==
    /\ Goto(w, from, to)
    /\ byte' = [byte EXCEPT ![w] = textscreen_x]
    /\ UNCHANGED <<cursor, after, alone>>

LoadY(w, from, to) ==
    /\ Goto(w, from, to)
    /\ byte' = [byte EXCEPT ![w] = textscreen_y]
    /\ UNCHANGED <<cursor, after, alone>>

StoreX(w, from, to, v, move) ==
    /\ Goto(w, from, to)
    /\ textscreen_x' = v
    /\ movedX' = move
    /\ UNCHANGED <<textscreen_y, movedY, byte, alone>>

StoreY(w, from, to, v, move) ==
    /\ Goto(w, from, to)
    /\ textscreen_y' = v
    /\ movedY' = move
    /\ UNCHANGED <<textscreen_x, movedX, byte, alone>>

\* A call begins.
Enter(w, to) ==
    /\ Goto(w, "out", to)
    /\ alone' = (Quiet /\ OnScreen)
    /\ UNCHANGED <<cursor, byte, after>>

-----------------------------------------------------------------------------
(* textscreen_write_char. *)

\* The character decides where it starts; "testX" is for those below ' '.
WriteChar(w) ==
    \E start \in {"back", "return", "newline", "row", "testX"} : Enter(w, start)

\* Mutant of Back: the column is not tested.
BackAlways(w) ==
    /\ Goto(w, "back", "leftLoad")
    /\ UNCHANGED <<cursor, byte, after, alone>>

\* aChar == 0x08 && textscreen_x > 0
Back(w) ==
    /\ Goto(w, "back", IF textscreen_x > 0 THEN "leftLoad" ELSE "testX")
    /\ UNCHANGED <<cursor, byte, after, alone>>

\* textscreen_x--, and the blank by a call of itself.
LeftLoad(w) == LoadX(w, "leftLoad", "leftStore")
LeftStore(w) ==
    /\ StoreX(w, "leftStore", "row", Down(byte[w]), FALSE)
    /\ after' = [after EXCEPT ![w] = "backspace"]

\* textscreen_x-- behind that call.
LeftLoad2(w) == LoadX(w, "leftLoad2", "leftStore2")
LeftStore2(w) ==
    /\ StoreX(w, "leftStore2", "testX", Down(byte[w]), FALSE)
    /\ UNCHANGED after

Return(w) == StoreX(w, "return", "testX", 0, FALSE) /\ UNCHANGED after

Newline(w) == StoreX(w, "newline", "newlineLoad", 0, FALSE) /\ UNCHANGED after
NewlineLoad(w) == LoadY(w, "newlineLoad", "newlineStore")
NewlineStore(w) ==
    StoreY(w, "newlineStore", "testX", Up(byte[w]), FALSE) /\ UNCHANGED after

\* location: y is loaded, then x; the character is stored and x counted up.
Row(w) == LoadY(w, "row", "column")
Column(w) ==
    /\ Goto(w, "column", "incLoad")
    /\ UNCHANGED <<cursor, byte, after, alone>>
IncLoad(w) == LoadX(w, "incLoad", "incStore")
IncStore(w) == StoreX(w, "incStore", "testX", Up(byte[w]), FALSE) /\ UNCHANGED after

\* The end of the row.
TestX(w) ==
    /\ Goto(w, "testX", IF textscreen_x >= Width THEN "wrapX" ELSE "testY")
    /\ UNCHANGED <<cursor, byte, after, alone>>
WrapX(w) == StoreX(w, "wrapX", "wrapLoad", 0, FALSE) /\ UNCHANGED after
WrapLoad(w) == LoadY(w, "wrapLoad", "wrapStore")

\* Mutant of WrapStore: the row behind the last one is not looked for.
WrapStoreUntested(w) ==
    StoreY(w, "wrapStore", "out", Up(byte[w]), FALSE) /\ UNCHANGED after

WrapStore(w) == StoreY(w, "wrapStore", "testY", Up(byte[w]), FALSE) /\ UNCHANGED after

\* Where write_char returns to.
Behind(w) == CASE after[w] = "caller" -> "out"
               [] after[w] = "backspace" -> "leftLoad2"
               [] OTHER -> "moveLoadX"
BehindThat(w) == IF after[w] = "rubout" THEN "rubbed" ELSE "caller"

\* The end of the screen: memcpy and memset scroll it, y becomes the last row.
TestY(w) ==
    /\ IF textscreen_y >= Height
       THEN /\ Goto(w, "testY", "clip")
            /\ UNCHANGED after
       ELSE /\ Goto(w, "testY", Behind(w))
            /\ after' = [after EXCEPT ![w] = BehindThat(w)]
    /\ UNCHANGED <<cursor, byte, alone>>
Clip(w) ==
    /\ StoreY(w, "clip", Behind(w), Height - 1, FALSE)
    /\ after' = [after EXCEPT ![w] = BehindThat(w)]

-----------------------------------------------------------------------------
(* textscreen_clear, whose scanf_mutex keeps clears apart but no other       *)
(* writer out, and textscreen_setcursor(0, 0).                             *)

Home(w) == w # Keyboard /\ Enter(w, "homeX")
HomeX(w) == StoreX(w, "homeX", "homeY", 0, FALSE) /\ UNCHANGED after
HomeY(w) == StoreY(w, "homeY", "out", 0, FALSE) /\ UNCHANGED after

-----------------------------------------------------------------------------
(* handleKeyboard rubs out a character: movecursor(-1, 0), a blank,        *)
(* movecursor(-1, 0).  textscreen_y += 0 is a load and a store, too.       *)

RubOut(w) ==
    /\ w = Keyboard
    /\ Goto(w, "out", "moveLoadX")
    /\ alone' = (Quiet /\ OnScreen)
    /\ after' = [after EXCEPT ![w] = "rubout"]
    /\ UNCHANGED <<cursor, byte>>
MoveLoadX(w) == LoadX(w, "moveLoadX", "moveStoreX")
MoveStoreX(w) ==
    StoreX(w, "moveStoreX", "moveLoadY", Down(byte[w]), TRUE) /\ UNCHANGED after
MoveLoadY(w) == LoadY(w, "moveLoadY", "moveStoreY")
MoveStoreY(w) ==
    IF after[w] = "rubout"
    THEN StoreY(w, "moveStoreY", "row", byte[w], TRUE) /\ UNCHANGED after
    ELSE /\ StoreY(w, "moveStoreY", "out", byte[w], TRUE)
         /\ after' = [after EXCEPT ![w] = "caller"]

-----------------------------------------------------------------------------

textscreen_write_char(w) ==
    \/ WriteChar(w) \/ Back(w) \/ LeftLoad(w) \/ LeftStore(w) \/ LeftLoad2(w)
    \/ LeftStore2(w) \/ Return(w) \/ Newline(w) \/ NewlineLoad(w) \/ NewlineStore(w)
    \/ Row(w) \/ Column(w) \/ IncLoad(w) \/ IncStore(w) \/ TestX(w) \/ WrapX(w)
    \/ WrapLoad(w) \/ WrapStore(w) \/ TestY(w) \/ Clip(w)

textscreen_clear(w) == Home(w) \/ HomeX(w) \/ HomeY(w)

handleKeyboard(w) ==
    RubOut(w) \/ MoveLoadX(w) \/ MoveStoreX(w) \/ MoveLoadY(w) \/ MoveStoreY(w)

Next == \E w \in Writers :
    textscreen_write_char(w) \/ textscreen_clear(w) \/ handleKeyboard(w)

Spec == Init /\ [][Next]_vars

-----------------------------------------------------------------------------
(* Properties. *)

TypeOK ==
    /\ textscreen_x \in Byte
    /\ textscreen_y \in Byte
    /\ pc \in [Writers -> BeforeY \cup Moving \cup {"out", "homeX", "homeY"}]
    /\ byte \in [Writers -> Byte]
    /\ after \in [Writers -> {"caller", "backspace", "rubout", "rubbed"}]
    /\ movedX \in BOOLEAN /\ movedY \in BOOLEAN /\ alone \in BOOLEAN

\* However the writers interleave and whatever updates they lose, the cursor
\* is on the screen again when all have returned: who stores a byte in
\* write_char tests it afterwards.  Only textscreen_movecursor, which tests
\* nothing, can leave it elsewhere.
QuietOnScreen ==
    Quiet => /\ textscreen_x < Width \/ movedX
             /\ textscreen_y < Height \/ movedY

\* A character is stored behind the screen only when writers are mixed up or
\* a character is rubbed out at the left edge: a writer that has the cursor
\* for itself stores on the screen (location of textscreen_write_char).
StoresInside ==
    \A w \in Writers : alone /\ pc[w] = "column" =>
        \/ byte[w] * Width + textscreen_x < Width * Height
        \/ after[w] = "rubout" /\ textscreen_x = ByteMod - 1
=============================================================================
