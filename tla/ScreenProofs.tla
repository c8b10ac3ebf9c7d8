----------------------------- MODULE ScreenProofs -----------------------------
(***************************************************************************)
(* Proofs about the cursor of Screen.tla, for any number of writers and    *)
(* any size of the screen: a byte behind the edge is either about to be    *)
(* tested by a writer or was left there by textscreen_movecursor.          *)
(*                                                                         *)
(* Then, for every size of a word, about what Numerals.tla computes, and   *)
(* about its dates.  A recursive definition is reasoned about with two     *)
(* lemmas: Recursion, that a function as the definition describes exists,  *)
(* and SameFunction, that there is one only.  Both rest on LeastNat.       *)
(***************************************************************************)
EXTENDS MCScreen, SequenceTheorems, WellFoundedInduction, TLAPS

Labels == BeforeY \cup Moving \cup {"out", "homeX", "homeY"}
Returns == {"caller", "backspace", "rubout", "rubbed"}

\* Who stored a byte behind the edge has its test before it.
XTested == textscreen_x >= Width => movedX \/ \E w \in Writers : pc[w] \in BeforeX
YTested == textscreen_y >= Height => movedY \/ \E w \in Writers : pc[w] \in BeforeY

\* The column where a rubbed out character is blanked.
Column0 == ByteMod - 1

\* A writer that is alone has the cursor on the screen until it has stored
\* its character; only a rub-out at the left edge has it elsewhere.
OnItsWay(w) ==
    /\ pc[w] = "back" => OnScreen
    /\ pc[w] = "leftLoad" => OnScreen /\ textscreen_x > 0
    /\ pc[w] = "leftStore" => OnScreen /\ textscreen_x > 0 /\ byte[w] = textscreen_x
    /\ pc[w] \in {"row", "column"} =>
        /\ textscreen_y < Height
        /\ textscreen_x < Width \/ (after[w] = "rubout" /\ textscreen_x = Column0)
    /\ pc[w] = "column" => byte[w] = textscreen_y
    /\ after[w] = "rubout" =>
        /\ pc[w] = "moveLoadX" => OnScreen
        /\ pc[w] = "moveStoreX" => OnScreen /\ byte[w] = textscreen_x
        /\ pc[w] \in {"moveLoadY", "moveStoreY"} =>
            /\ textscreen_y < Height
            /\ textscreen_x < Width \/ textscreen_x = Column0
        /\ pc[w] = "moveStoreY" => byte[w] = textscreen_y

AloneSound ==
    alone => /\ \A v, w \in Writers : v = w \/ pc[v] = "out" \/ pc[w] = "out"
             /\ \A w \in Writers : OnItsWay(w)

IInv == TypeOK /\ XTested /\ YTested /\ AloneSound

-----------------------------------------------------------------------------
\* What a byte becomes.
LEMMA Bytes ==
    /\ 0 \in Byte /\ Height - 1 \in Byte /\ ByteMod \in Nat
    /\ \A b \in Byte : Up(b) \in Byte /\ Down(b) \in Byte
BY ScreenAssumption DEF Byte, Up, Down

LEMMA InitIInv == Init => IInv
<1> SUFFICES ASSUME Init  PROVE IInv
  OBVIOUS
<1>1. TypeOK
  BY Bytes DEF Init, TypeOK
<1>2. XTested /\ YTested /\ AloneSound
  BY ScreenAssumption DEF Init, XTested, YTested, AloneSound
<1> QED  BY <1>1, <1>2 DEF IInv

\* A step of a writer keeps the test of x before it, unless it stores a
\* column of the screen, or movecursor stores one.
LEMMA XStep ==
    ASSUME IInv, NEW w \in Writers, NEW l,
           pc' = [pc EXCEPT ![w] = l],
           \/ textscreen_x' < Width /\ textscreen_x' \in Byte
           \/ movedX'
           \/ l \in BeforeX
           \/ pc[w] \notin BeforeX /\ UNCHANGED <<textscreen_x, movedX>>
    PROVE  XTested'
<1>1. pc \in [Writers -> Labels] /\ pc'[w] = l
      /\ \A v \in Writers \ {w} : pc'[v] = pc[v]
  BY DEF IInv, TypeOK, Labels
<1>2. CASE textscreen_x' < Width /\ textscreen_x' \in Byte
  BY <1>2, ScreenAssumption DEF XTested, Byte
<1>3. CASE movedX' \/ l \in BeforeX
  BY <1>1, <1>3 DEF XTested
<1>4. CASE pc[w] \notin BeforeX /\ UNCHANGED <<textscreen_x, movedX>>
  BY <1>1, <1>4 DEF XTested, IInv
<1> QED  BY <1>2, <1>3, <1>4

LEMMA YStep ==
    ASSUME IInv, NEW w \in Writers, NEW l,
           pc' = [pc EXCEPT ![w] = l],
           \/ textscreen_y' < Height /\ textscreen_y' \in Byte
           \/ movedY'
           \/ l \in BeforeY
           \/ pc[w] \notin BeforeY /\ UNCHANGED <<textscreen_y, movedY>>
    PROVE  YTested'
<1>1. pc \in [Writers -> Labels] /\ pc'[w] = l
      /\ \A v \in Writers \ {w} : pc'[v] = pc[v]
  BY DEF IInv, TypeOK, Labels
<1>2. CASE textscreen_y' < Height /\ textscreen_y' \in Byte
  BY <1>2, ScreenAssumption DEF YTested, Byte
<1>3. CASE movedY' \/ l \in BeforeY
  BY <1>1, <1>3 DEF YTested
<1>4. CASE pc[w] \notin BeforeY /\ UNCHANGED <<textscreen_y, movedY>>
  BY <1>1, <1>4 DEF YTested, IInv
<1> QED  BY <1>2, <1>3, <1>4

\* A step inside a call does not bring anybody else in.
LEMMA AloneStep ==
    ASSUME IInv, NEW w \in Writers, NEW l,
           pc[w] # "out", pc' = [pc EXCEPT ![w] = l],
           byte' = [byte EXCEPT ![w] = byte'[w]],
           after' = [after EXCEPT ![w] = after'[w]],
           UNCHANGED alone,
           alone /\ OnItsWay(w) => OnItsWay(w)'
    PROVE  AloneSound'
<1> SUFFICES ASSUME alone'  PROVE AloneSound'
  BY DEF AloneSound
<1>1. alone /\ pc \in [Writers -> Labels] /\ byte \in [Writers -> Byte]
      /\ after \in [Writers -> Returns]
  BY DEF IInv, TypeOK, Labels, Returns
<1>2. pc'[w] = l /\ \A v \in Writers \ {w} :
        pc'[v] = pc[v] /\ byte'[v] = byte[v] /\ after'[v] = after[v]
  BY <1>1
<1>3. \A v \in Writers \ {w} : pc[v] = "out"
  BY <1>1 DEF IInv, AloneSound
<1>4. \A u, v \in Writers : u = v \/ pc'[u] = "out" \/ pc'[v] = "out"
  BY <1>2, <1>3
<1>5. OnItsWay(w)'
  BY <1>1 DEF IInv, AloneSound
<1>6. ASSUME NEW v \in Writers \ {w}  PROVE OnItsWay(v)'
  <2>1. pc'[v] = "out"
    BY <1>2, <1>3
  <2> QED  BY <2>1 DEF OnItsWay
<1> QED  BY <1>4, <1>5, <1>6 DEF AloneSound

\* A step of the keyboard or of a writer that begins a call.
LEMMA EnterStep ==
    ASSUME IInv, NEW w \in Writers,
           NEW to \in Labels \ {"leftLoad", "leftStore", "column", "moveStoreX",
                                "moveLoadY", "moveStoreY"},
           Goto(w, "out", to), alone' = (Quiet /\ OnScreen), UNCHANGED <<cursor, byte>>,
           after' = [after EXCEPT ![w] = after'[w]], after'[w] \in Returns
    PROVE  IInv'
<1>1. pc \in [Writers -> Labels] /\ after \in [Writers -> Returns]
  BY DEF IInv, TypeOK, Labels, Returns
<1>2. TypeOK'
  BY <1>1 DEF IInv, TypeOK, Goto, cursor, Labels, Returns, Quiet, OnScreen
<1>3. pc[w] \notin BeforeX /\ pc[w] \notin BeforeY /\ pc' = [pc EXCEPT ![w] = to]
  BY DEF Goto, BeforeX, BeforeY
<1>4. XTested' /\ YTested'
  BY <1>3, XStep, YStep DEF cursor
<1>5. AloneSound'
  <2> SUFFICES ASSUME Quiet, OnScreen  PROVE AloneSound'
    BY DEF AloneSound
  <2>1. pc'[w] = to /\ \A v \in Writers \ {w} : pc'[v] = "out"
    BY <1>1, <1>3 DEF Quiet
  <2>2. \A v \in Writers \ {w} : OnItsWay(v)'
    BY <2>1 DEF OnItsWay
  <2>3. OnItsWay(w)'
    BY <2>1 DEF OnItsWay, OnScreen, cursor
  <2> QED  BY <2>1, <2>2, <2>3 DEF AloneSound
<1> QED  BY <1>2, <1>4, <1>5 DEF IInv

\* A step of a writer inside a call.
LEMMA InsideStep ==
    ASSUME IInv, NEW w \in Writers, NEW l \in Labels, NEW b \in Byte,
           NEW a \in Returns,
           pc[w] # "out", pc' = [pc EXCEPT ![w] = l],
           byte' = [byte EXCEPT ![w] = b], after' = [after EXCEPT ![w] = a],
           textscreen_x' \in Byte, textscreen_y' \in Byte,
           movedX' \in BOOLEAN, movedY' \in BOOLEAN, UNCHANGED alone,
           \/ textscreen_x' < Width \/ movedX' \/ l \in BeforeX
           \/ pc[w] \notin BeforeX /\ UNCHANGED <<textscreen_x, movedX>>,
           \/ textscreen_y' < Height \/ movedY' \/ l \in BeforeY
           \/ pc[w] \notin BeforeY /\ UNCHANGED <<textscreen_y, movedY>>,
           alone /\ OnItsWay(w) => OnItsWay(w)'
    PROVE  IInv'
<1>1. TypeOK'
  BY DEF IInv, TypeOK, Labels, Returns
<1>2. XTested'
  BY XStep
<1>3. YTested'
  BY YStep
<1>4. byte'[w] = b /\ after'[w] = a
  BY DEF IInv, TypeOK
<1>5. AloneSound'
  BY <1>4, AloneStep
<1> QED  BY <1>1, <1>2, <1>3, <1>5 DEF IInv


-----------------------------------------------------------------------------
LEMMA WriteCharStep ==
    ASSUME IInv, NEW w \in Writers, textscreen_write_char(w)
    PROVE  IInv'
<1>1. /\ pc \in [Writers -> Labels] /\ byte \in [Writers -> Byte]
      /\ after \in [Writers -> Returns]
      /\ textscreen_x \in Byte /\ textscreen_y \in Byte
      /\ movedX \in BOOLEAN /\ movedY \in BOOLEAN
  BY DEF IInv, TypeOK, Labels, Returns
<1>2. /\ byte' = byte => byte' = [byte EXCEPT ![w] = byte[w]]
      /\ after' = after => after' = [after EXCEPT ![w] = after[w]]
  BY <1>1
<1> DEFINE Inside(l, b, a) ==
      /\ pc[w] # "out" /\ pc' = [pc EXCEPT ![w] = l]
      /\ byte' = [byte EXCEPT ![w] = b] /\ after' = [after EXCEPT ![w] = a]
      /\ textscreen_x' \in Byte /\ textscreen_y' \in Byte
      /\ movedX' \in BOOLEAN /\ movedY' \in BOOLEAN /\ UNCHANGED alone
<1>3. CASE WriteChar(w)
  <2>1. PICK start \in {"back", "return", "newline", "row", "testX"} : Enter(w, start)
    BY <1>3 DEF WriteChar
  <2> QED  BY <1>1, <2>1, <1>2, EnterStep DEF Enter, Labels, BeforeY, BeforeX
<1>4. CASE Back(w)
  <2>1. PICK l \in {"leftLoad", "testX"} :
          l = (IF textscreen_x > 0 THEN "leftLoad" ELSE "testX")
    OBVIOUS
  <2>2. pc[w] = "back" /\ Inside(l, byte[w], after[w]) /\ UNCHANGED cursor
    BY <1>1, <1>2, <1>4, <2>1 DEF Back, Goto, cursor
  <2>3. pc'[w] = l /\ after'[w] = after[w]
    BY <1>1, <2>2
  <2>4. OnItsWay(w) => OnItsWay(w)'
    BY <2>1, <2>2, <2>3 DEF OnItsWay, OnScreen, cursor
  <2>5. l \in BeforeX /\ l \in BeforeY /\ l \in Labels
    BY <2>1 DEF BeforeX, BeforeY, Labels
  <2> QED  BY <1>1, <2>2, <2>4, <2>5, InsideStep
<1>5. CASE LeftLoad(w)
  <2>1. /\ pc[w] = "leftLoad" /\ Inside("leftStore", textscreen_x, after[w])
        /\ UNCHANGED cursor
    BY <1>1, <1>2, <1>5, Bytes DEF LeftLoad, LoadX, Goto, cursor
  <2>2. pc'[w] = "leftStore" /\ byte'[w] = textscreen_x /\ after'[w] = after[w]
    BY <1>1, <2>1
  <2>3. alone /\ OnItsWay(w) => OnItsWay(w)'
    BY <1>1, <2>1, <2>2 DEF OnItsWay, OnScreen, cursor
  <2>4. "leftStore" \in Labels /\ textscreen_x \in Byte /\ after[w] \in Returns
    BY <1>1 DEF Labels, Returns, BeforeY, BeforeX, Moving
  <2>5. "leftStore" \in BeforeX
    BY <2>1, ScreenAssumption DEF BeforeX, BeforeY, cursor
  <2>6. "leftStore" \in BeforeY
    BY <2>1, ScreenAssumption DEF BeforeX, BeforeY, cursor
  <2> QED  BY <2>1, <2>3, <2>4, <2>5, <2>6, InsideStep
<1>6. CASE LeftStore(w)
  <2>1. /\ pc[w] = "leftStore" /\ Inside("row", byte[w], "backspace")
        /\ textscreen_x' = Down(byte[w]) /\ movedX' = FALSE
        /\ UNCHANGED <<textscreen_y, movedY>>
    BY <1>1, <1>2, <1>6, Bytes DEF LeftStore, StoreX, Goto, cursor
  <2>2. pc'[w] = "row" /\ byte'[w] = byte[w] /\ after'[w] = "backspace"
    BY <1>1, <2>1
  <2>0. ASSUME alone, OnItsWay(w)
        PROVE  textscreen_x' < Width /\ textscreen_y' < Height
    <3>1. /\ textscreen_x > 0 /\ textscreen_x < Width /\ textscreen_y < Height
          /\ byte[w] = textscreen_x
      BY <2>0, <2>1 DEF OnItsWay, OnScreen
    <3>2. byte[w] \in Byte
      BY <1>1
    <3>3. Down(byte[w]) < Width
      BY <3>1, <3>2, ScreenAssumption DEF Byte, Down, Column0
    <3> QED  BY <2>1, <3>1, <3>3
  <2>3. alone /\ OnItsWay(w) => OnItsWay(w)'
    BY <1>1, <2>1, <2>2, <2>0 DEF OnItsWay
  <2>4. "row" \in Labels /\ byte[w] \in Byte /\ "backspace" \in Returns
    BY <1>1 DEF Labels, Returns, BeforeY, BeforeX, Moving
  <2>5. "row" \in BeforeX
    BY <2>1, ScreenAssumption DEF BeforeX, BeforeY, cursor
  <2>6. "row" \in BeforeY
    BY <2>1, ScreenAssumption DEF BeforeX, BeforeY, cursor
  <2> QED  BY <2>1, <2>3, <2>4, <2>5, <2>6, InsideStep
<1>7. CASE LeftLoad2(w)
  <2>1. /\ pc[w] = "leftLoad2" /\ Inside("leftStore2", textscreen_x, after[w])
        /\ UNCHANGED cursor
    BY <1>1, <1>2, <1>7, Bytes DEF LeftLoad2, LoadX, Goto, cursor
  <2>2. pc'[w] = "leftStore2" /\ byte'[w] = textscreen_x /\ after'[w] = after[w]
    BY <1>1, <2>1
  <2>3. alone /\ OnItsWay(w) => OnItsWay(w)'
    BY <1>1, <2>1, <2>2 DEF OnItsWay, OnScreen, cursor
  <2>4. "leftStore2" \in Labels /\ textscreen_x \in Byte /\ after[w] \in Returns
    BY <1>1 DEF Labels, Returns, BeforeY, BeforeX, Moving
  <2>5. "leftStore2" \in BeforeX
    BY <2>1, ScreenAssumption DEF BeforeX, BeforeY, cursor
  <2>6. "leftStore2" \in BeforeY
    BY <2>1, ScreenAssumption DEF BeforeX, BeforeY, cursor
  <2> QED  BY <2>1, <2>3, <2>4, <2>5, <2>6, InsideStep
<1>8. CASE LeftStore2(w)
  <2>1. /\ pc[w] = "leftStore2" /\ Inside("testX", byte[w], after[w])
        /\ textscreen_x' = Down(byte[w]) /\ movedX' = FALSE
        /\ UNCHANGED <<textscreen_y, movedY>>
    BY <1>1, <1>2, <1>8, Bytes DEF LeftStore2, StoreX, Goto, cursor
  <2>2. pc'[w] = "testX" /\ byte'[w] = byte[w] /\ after'[w] = after[w]
    BY <1>1, <2>1
  <2>3. alone /\ OnItsWay(w) => OnItsWay(w)'
    BY <1>1, <2>1, <2>2 DEF OnItsWay, OnScreen, cursor
  <2>4. "testX" \in Labels /\ byte[w] \in Byte /\ after[w] \in Returns
    BY <1>1 DEF Labels, Returns, BeforeY, BeforeX, Moving
  <2>5. "testX" \in BeforeX
    BY <2>1, ScreenAssumption DEF BeforeX, BeforeY, cursor
  <2>6. "testX" \in BeforeY
    BY <2>1, ScreenAssumption DEF BeforeX, BeforeY, cursor
  <2> QED  BY <2>1, <2>3, <2>4, <2>5, <2>6, InsideStep
<1>9. CASE Return(w)
  <2>1. /\ pc[w] = "return" /\ Inside("testX", byte[w], after[w])
        /\ textscreen_x' = 0 /\ movedX' = FALSE
        /\ UNCHANGED <<textscreen_y, movedY>>
    BY <1>1, <1>2, <1>9, Bytes DEF Return, StoreX, Goto, cursor
  <2>2. pc'[w] = "testX" /\ byte'[w] = byte[w] /\ after'[w] = after[w]
    BY <1>1, <2>1
  <2>3. alone /\ OnItsWay(w) => OnItsWay(w)'
    BY <1>1, <2>1, <2>2 DEF OnItsWay, OnScreen, cursor
  <2>4. "testX" \in Labels /\ byte[w] \in Byte /\ after[w] \in Returns
    BY <1>1 DEF Labels, Returns, BeforeY, BeforeX, Moving
  <2>5. textscreen_x' < Width
    BY <2>1, ScreenAssumption DEF BeforeX, BeforeY, cursor
  <2>6. "testX" \in BeforeY
    BY <2>1, ScreenAssumption DEF BeforeX, BeforeY, cursor
  <2> QED  BY <2>1, <2>3, <2>4, <2>5, <2>6, InsideStep
<1>10. CASE Newline(w)
  <2>1. /\ pc[w] = "newline" /\ Inside("newlineLoad", byte[w], after[w])
        /\ textscreen_x' = 0 /\ movedX' = FALSE
        /\ UNCHANGED <<textscreen_y, movedY>>
    BY <1>1, <1>2, <1>10, Bytes DEF Newline, StoreX, Goto, cursor
  <2>2. pc'[w] = "newlineLoad" /\ byte'[w] = byte[w] /\ after'[w] = after[w]
    BY <1>1, <2>1
  <2>3. alone /\ OnItsWay(w) => OnItsWay(w)'
    BY <1>1, <2>1, <2>2 DEF OnItsWay, OnScreen, cursor
  <2>4. "newlineLoad" \in Labels /\ byte[w] \in Byte /\ after[w] \in Returns
    BY <1>1 DEF Labels, Returns, BeforeY, BeforeX, Moving
  <2>5. textscreen_x' < Width
    BY <2>1, ScreenAssumption DEF BeforeX, BeforeY, cursor
  <2>6. "newlineLoad" \in BeforeY
    BY <2>1, ScreenAssumption DEF BeforeX, BeforeY, cursor
  <2> QED  BY <2>1, <2>3, <2>4, <2>5, <2>6, InsideStep
<1>11. CASE NewlineLoad(w)
  <2>1. /\ pc[w] = "newlineLoad" /\ Inside("newlineStore", textscreen_y, after[w])
        /\ UNCHANGED cursor
    BY <1>1, <1>2, <1>11, Bytes DEF NewlineLoad, LoadY, Goto, cursor
  <2>2. pc'[w] = "newlineStore" /\ byte'[w] = textscreen_y /\ after'[w] = after[w]
    BY <1>1, <2>1
  <2>3. alone /\ OnItsWay(w) => OnItsWay(w)'
    BY <1>1, <2>1, <2>2 DEF OnItsWay, OnScreen, cursor
  <2>4. "newlineStore" \in Labels /\ textscreen_y \in Byte /\ after[w] \in Returns
    BY <1>1 DEF Labels, Returns, BeforeY, BeforeX, Moving
  <2>5. "newlineStore" \in BeforeX
    BY <2>1, ScreenAssumption DEF BeforeX, BeforeY, cursor
  <2>6. "newlineStore" \in BeforeY
    BY <2>1, ScreenAssumption DEF BeforeX, BeforeY, cursor
  <2> QED  BY <2>1, <2>3, <2>4, <2>5, <2>6, InsideStep
<1>12. CASE NewlineStore(w)
  <2>1. /\ pc[w] = "newlineStore" /\ Inside("testX", byte[w], after[w])
        /\ textscreen_y' = Up(byte[w]) /\ movedY' = FALSE
        /\ UNCHANGED <<textscreen_x, movedX>>
    BY <1>1, <1>2, <1>12, Bytes DEF NewlineStore, StoreY, Goto, cursor
  <2>2. pc'[w] = "testX" /\ byte'[w] = byte[w] /\ after'[w] = after[w]
    BY <1>1, <2>1
  <2>3. alone /\ OnItsWay(w) => OnItsWay(w)'
    BY <1>1, <2>1, <2>2 DEF OnItsWay, OnScreen, cursor
  <2>4. "testX" \in Labels /\ byte[w] \in Byte /\ after[w] \in Returns
    BY <1>1 DEF Labels, Returns, BeforeY, BeforeX, Moving
  <2>5. "testX" \in BeforeX
    BY <2>1, ScreenAssumption DEF BeforeX, BeforeY, cursor
  <2>6. "testX" \in BeforeY
    BY <2>1, ScreenAssumption DEF BeforeX, BeforeY, cursor
  <2> QED  BY <2>1, <2>3, <2>4, <2>5, <2>6, InsideStep
<1>13. CASE Row(w)
  <2>1. /\ pc[w] = "row" /\ Inside("column", textscreen_y, after[w])
        /\ UNCHANGED cursor
    BY <1>1, <1>2, <1>13, Bytes DEF Row, LoadY, Goto, cursor
  <2>2. pc'[w] = "column" /\ byte'[w] = textscreen_y /\ after'[w] = after[w]
    BY <1>1, <2>1
  <2>3. alone /\ OnItsWay(w) => OnItsWay(w)'
    BY <1>1, <2>1, <2>2 DEF OnItsWay, OnScreen, cursor
  <2>4. "column" \in Labels /\ textscreen_y \in Byte /\ after[w] \in Returns
    BY <1>1 DEF Labels, Returns, BeforeY, BeforeX, Moving
  <2>5. "column" \in BeforeX
    BY <2>1, ScreenAssumption DEF BeforeX, BeforeY, cursor
  <2>6. "column" \in BeforeY
    BY <2>1, ScreenAssumption DEF BeforeX, BeforeY, cursor
  <2> QED  BY <2>1, <2>3, <2>4, <2>5, <2>6, InsideStep
<1>14. CASE Column(w)
  <2>1. /\ pc[w] = "column" /\ Inside("incLoad", byte[w], after[w])
        /\ UNCHANGED cursor
    BY <1>1, <1>2, <1>14, Bytes DEF Column, Goto, cursor
  <2>2. pc'[w] = "incLoad" /\ byte'[w] = byte[w] /\ after'[w] = after[w]
    BY <1>1, <2>1
  <2>3. alone /\ OnItsWay(w) => OnItsWay(w)'
    BY <1>1, <2>1, <2>2 DEF OnItsWay, OnScreen, cursor
  <2>4. "incLoad" \in Labels /\ byte[w] \in Byte /\ after[w] \in Returns
    BY <1>1 DEF Labels, Returns, BeforeY, BeforeX, Moving
  <2>5. "incLoad" \in BeforeX
    BY <2>1, ScreenAssumption DEF BeforeX, BeforeY, cursor
  <2>6. "incLoad" \in BeforeY
    BY <2>1, ScreenAssumption DEF BeforeX, BeforeY, cursor
  <2> QED  BY <2>1, <2>3, <2>4, <2>5, <2>6, InsideStep
<1>15. CASE IncLoad(w)
  <2>1. /\ pc[w] = "incLoad" /\ Inside("incStore", textscreen_x, after[w])
        /\ UNCHANGED cursor
    BY <1>1, <1>2, <1>15, Bytes DEF IncLoad, LoadX, Goto, cursor
  <2>2. pc'[w] = "incStore" /\ byte'[w] = textscreen_x /\ after'[w] = after[w]
    BY <1>1, <2>1
  <2>3. alone /\ OnItsWay(w) => OnItsWay(w)'
    BY <1>1, <2>1, <2>2 DEF OnItsWay, OnScreen, cursor
  <2>4. "incStore" \in Labels /\ textscreen_x \in Byte /\ after[w] \in Returns
    BY <1>1 DEF Labels, Returns, BeforeY, BeforeX, Moving
  <2>5. "incStore" \in BeforeX
    BY <2>1, ScreenAssumption DEF BeforeX, BeforeY, cursor
  <2>6. "incStore" \in BeforeY
    BY <2>1, ScreenAssumption DEF BeforeX, BeforeY, cursor
  <2> QED  BY <2>1, <2>3, <2>4, <2>5, <2>6, InsideStep
<1>16. CASE IncStore(w)
  <2>1. /\ pc[w] = "incStore" /\ Inside("testX", byte[w], after[w])
        /\ textscreen_x' = Up(byte[w]) /\ movedX' = FALSE
        /\ UNCHANGED <<textscreen_y, movedY>>
    BY <1>1, <1>2, <1>16, Bytes DEF IncStore, StoreX, Goto, cursor
  <2>2. pc'[w] = "testX" /\ byte'[w] = byte[w] /\ after'[w] = after[w]
    BY <1>1, <2>1
  <2>3. alone /\ OnItsWay(w) => OnItsWay(w)'
    BY <1>1, <2>1, <2>2 DEF OnItsWay, OnScreen, cursor
  <2>4. "testX" \in Labels /\ byte[w] \in Byte /\ after[w] \in Returns
    BY <1>1 DEF Labels, Returns, BeforeY, BeforeX, Moving
  <2>5. "testX" \in BeforeX
    BY <2>1, ScreenAssumption DEF BeforeX, BeforeY, cursor
  <2>6. "testX" \in BeforeY
    BY <2>1, ScreenAssumption DEF BeforeX, BeforeY, cursor
  <2> QED  BY <2>1, <2>3, <2>4, <2>5, <2>6, InsideStep
<1>17. CASE WrapX(w)
  <2>1. /\ pc[w] = "wrapX" /\ Inside("wrapLoad", byte[w], after[w])
        /\ textscreen_x' = 0 /\ movedX' = FALSE
        /\ UNCHANGED <<textscreen_y, movedY>>
    BY <1>1, <1>2, <1>17, Bytes DEF WrapX, StoreX, Goto, cursor
  <2>2. pc'[w] = "wrapLoad" /\ byte'[w] = byte[w] /\ after'[w] = after[w]
    BY <1>1, <2>1
  <2>3. alone /\ OnItsWay(w) => OnItsWay(w)'
    BY <1>1, <2>1, <2>2 DEF OnItsWay, OnScreen, cursor
  <2>4. "wrapLoad" \in Labels /\ byte[w] \in Byte /\ after[w] \in Returns
    BY <1>1 DEF Labels, Returns, BeforeY, BeforeX, Moving
  <2>5. textscreen_x' < Width
    BY <2>1, ScreenAssumption DEF BeforeX, BeforeY, cursor
  <2>6. "wrapLoad" \in BeforeY
    BY <2>1, ScreenAssumption DEF BeforeX, BeforeY, cursor
  <2> QED  BY <2>1, <2>3, <2>4, <2>5, <2>6, InsideStep
<1>18. CASE WrapLoad(w)
  <2>1. /\ pc[w] = "wrapLoad" /\ Inside("wrapStore", textscreen_y, after[w])
        /\ UNCHANGED cursor
    BY <1>1, <1>2, <1>18, Bytes DEF WrapLoad, LoadY, Goto, cursor
  <2>2. pc'[w] = "wrapStore" /\ byte'[w] = textscreen_y /\ after'[w] = after[w]
    BY <1>1, <2>1
  <2>3. alone /\ OnItsWay(w) => OnItsWay(w)'
    BY <1>1, <2>1, <2>2 DEF OnItsWay, OnScreen, cursor
  <2>4. "wrapStore" \in Labels /\ textscreen_y \in Byte /\ after[w] \in Returns
    BY <1>1 DEF Labels, Returns, BeforeY, BeforeX, Moving
  <2>5. pc[w] \notin BeforeX /\ UNCHANGED <<textscreen_x, movedX>>
    BY <2>1, ScreenAssumption DEF BeforeX, BeforeY, cursor
  <2>6. "wrapStore" \in BeforeY
    BY <2>1, ScreenAssumption DEF BeforeX, BeforeY, cursor
  <2> QED  BY <2>1, <2>3, <2>4, <2>5, <2>6, InsideStep
<1>19. CASE WrapStore(w)
  <2>1. /\ pc[w] = "wrapStore" /\ Inside("testY", byte[w], after[w])
        /\ textscreen_y' = Up(byte[w]) /\ movedY' = FALSE
        /\ UNCHANGED <<textscreen_x, movedX>>
    BY <1>1, <1>2, <1>19, Bytes DEF WrapStore, StoreY, Goto, cursor
  <2>2. pc'[w] = "testY" /\ byte'[w] = byte[w] /\ after'[w] = after[w]
    BY <1>1, <2>1
  <2>3. alone /\ OnItsWay(w) => OnItsWay(w)'
    BY <1>1, <2>1, <2>2 DEF OnItsWay, OnScreen, cursor
  <2>4. "testY" \in Labels /\ byte[w] \in Byte /\ after[w] \in Returns
    BY <1>1 DEF Labels, Returns, BeforeY, BeforeX, Moving
  <2>5. pc[w] \notin BeforeX /\ UNCHANGED <<textscreen_x, movedX>>
    BY <2>1, ScreenAssumption DEF BeforeX, BeforeY, cursor
  <2>6. "testY" \in BeforeY
    BY <2>1, ScreenAssumption DEF BeforeX, BeforeY, cursor
  <2> QED  BY <2>1, <2>3, <2>4, <2>5, <2>6, InsideStep
<1>20. CASE TestX(w) /\ textscreen_x >= Width
  <2> DEFINE l == "wrapX"
             a == after[w]
  <2>1. /\ pc[w] = "testX" /\ Inside(l, byte[w], a)
        /\ UNCHANGED cursor
    BY <1>1, <1>2, <1>20, Bytes, ScreenAssumption DEF TestX, Goto, cursor, Byte
  <2>2. l \in {"wrapX"} /\ a \in Returns
    BY <1>1 DEF Returns, Behind, BehindThat
  <2>7. l = "moveLoadX" => a # "rubout"
    BY <1>1 DEF Returns, Behind, BehindThat
  <2> HIDE DEF l, a
  <2>8. pc'[w] = l /\ after'[w] = a
    BY <1>1, <2>1
  <2>3. alone /\ OnItsWay(w) => OnItsWay(w)'
    BY <2>2, <2>7, <2>8 DEF OnItsWay
  <2>4. l \in Labels
    BY <2>2 DEF Labels, BeforeY, BeforeX, Moving
  <2>5. l \in BeforeX
    BY <1>1, <2>1, <2>2, ScreenAssumption DEF BeforeX, BeforeY, cursor
  <2>6. l \in BeforeY
    BY <1>1, <2>1, <2>2, ScreenAssumption DEF BeforeX, BeforeY, cursor
  <2> QED  BY <1>1, <2>1, <2>2, <2>3, <2>4, <2>5, <2>6, InsideStep
<1>21. CASE TestX(w) /\ ~(textscreen_x >= Width)
  <2> DEFINE l == "testY"
             a == after[w]
  <2>1. /\ pc[w] = "testX" /\ Inside(l, byte[w], a)
        /\ UNCHANGED cursor /\ textscreen_x' < Width
    BY <1>1, <1>2, <1>21, Bytes, ScreenAssumption DEF TestX, Goto, cursor, Byte
  <2>2. l \in {"testY"} /\ a \in Returns
    BY <1>1 DEF Returns, Behind, BehindThat
  <2>7. l = "moveLoadX" => a # "rubout"
    BY <1>1 DEF Returns, Behind, BehindThat
  <2> HIDE DEF l, a
  <2>8. pc'[w] = l /\ after'[w] = a
    BY <1>1, <2>1
  <2>3. alone /\ OnItsWay(w) => OnItsWay(w)'
    BY <2>2, <2>7, <2>8 DEF OnItsWay
  <2>4. l \in Labels
    BY <2>2 DEF Labels, BeforeY, BeforeX, Moving
  <2>5. textscreen_x' < Width
    BY <1>1, <2>1, <2>2, ScreenAssumption DEF BeforeX, BeforeY, cursor
  <2>6. l \in BeforeY
    BY <1>1, <2>1, <2>2, ScreenAssumption DEF BeforeX, BeforeY, cursor
  <2> QED  BY <1>1, <2>1, <2>2, <2>3, <2>4, <2>5, <2>6, InsideStep
<1>22. CASE TestY(w) /\ textscreen_y >= Height
  <2> DEFINE l == "clip"
             a == after[w]
  <2>1. /\ pc[w] = "testY" /\ Inside(l, byte[w], a)
        /\ UNCHANGED cursor
    BY <1>1, <1>2, <1>22, Bytes, ScreenAssumption DEF TestY, Goto, cursor, Byte
  <2>2. l \in {"clip"} /\ a \in Returns
    BY <1>1 DEF Returns, Behind, BehindThat
  <2>7. l = "moveLoadX" => a # "rubout"
    BY <1>1 DEF Returns, Behind, BehindThat
  <2> HIDE DEF l, a
  <2>8. pc'[w] = l /\ after'[w] = a
    BY <1>1, <2>1
  <2>3. alone /\ OnItsWay(w) => OnItsWay(w)'
    BY <2>2, <2>7, <2>8 DEF OnItsWay
  <2>4. l \in Labels
    BY <2>2 DEF Labels, BeforeY, BeforeX, Moving
  <2>5. pc[w] \notin BeforeX /\ UNCHANGED <<textscreen_x, movedX>>
    BY <1>1, <2>1, <2>2, ScreenAssumption DEF BeforeX, BeforeY, cursor
  <2>6. l \in BeforeY
    BY <1>1, <2>1, <2>2, ScreenAssumption DEF BeforeX, BeforeY, cursor
  <2> QED  BY <1>1, <2>1, <2>2, <2>3, <2>4, <2>5, <2>6, InsideStep
<1>23. CASE TestY(w) /\ ~(textscreen_y >= Height)
  <2> DEFINE l == Behind(w)
             a == BehindThat(w)
  <2>1. /\ pc[w] = "testY" /\ Inside(l, byte[w], a)
        /\ UNCHANGED cursor /\ textscreen_y' < Height
    BY <1>1, <1>2, <1>23, Bytes, ScreenAssumption DEF TestY, Goto, cursor, Byte
  <2>2. l \in {"leftLoad2", "moveLoadX", "out"} /\ a \in Returns
    BY <1>1 DEF Returns, Behind, BehindThat
  <2>7. l = "moveLoadX" => a # "rubout"
    BY <1>1 DEF Returns, Behind, BehindThat
  <2> HIDE DEF l, a
  <2>8. pc'[w] = l /\ after'[w] = a
    BY <1>1, <2>1
  <2>3. alone /\ OnItsWay(w) => OnItsWay(w)'
    BY <2>2, <2>7, <2>8 DEF OnItsWay
  <2>4. l \in Labels
    BY <2>2 DEF Labels, BeforeY, BeforeX, Moving
  <2>5. pc[w] \notin BeforeX /\ UNCHANGED <<textscreen_x, movedX>>
    BY <1>1, <2>1, <2>2, ScreenAssumption DEF BeforeX, BeforeY, cursor
  <2>6. textscreen_y' < Height
    BY <1>1, <2>1, <2>2, ScreenAssumption DEF BeforeX, BeforeY, cursor
  <2> QED  BY <1>1, <2>1, <2>2, <2>3, <2>4, <2>5, <2>6, InsideStep
<1>24. CASE Clip(w)
  <2> DEFINE l == Behind(w)
             a == BehindThat(w)
  <2>1. /\ pc[w] = "clip" /\ Inside(l, byte[w], a)
        /\ UNCHANGED <<textscreen_x, movedX>> /\ textscreen_y' < Height
    <3>1. Height - 1 \in Byte /\ Height - 1 < Height
      BY Bytes, ScreenAssumption
    <3>2. /\ pc[w] = "clip" /\ pc' = [pc EXCEPT ![w] = l]
          /\ textscreen_y' = Height - 1 /\ movedY' = FALSE
          /\ UNCHANGED <<textscreen_x, movedX, byte, alone>>
          /\ after' = [after EXCEPT ![w] = a]
      BY <1>24 DEF Clip, StoreY, Goto
    <3> QED  BY <1>1, <1>2, <3>1, <3>2
  <2>2. l \in {"leftLoad2", "moveLoadX", "out"} /\ a \in Returns
    BY <1>1 DEF Returns, Behind, BehindThat
  <2>7. l = "moveLoadX" => a # "rubout"
    BY <1>1 DEF Returns, Behind, BehindThat
  <2> HIDE DEF l, a
  <2>8. pc'[w] = l /\ after'[w] = a
    BY <1>1, <2>1
  <2>3. alone /\ OnItsWay(w) => OnItsWay(w)'
    BY <2>2, <2>7, <2>8 DEF OnItsWay
  <2>4. l \in Labels
    BY <2>2 DEF Labels, BeforeY, BeforeX, Moving
  <2>5. pc[w] \notin BeforeX /\ UNCHANGED <<textscreen_x, movedX>>
    BY <1>1, <2>1, <2>2, ScreenAssumption DEF BeforeX, BeforeY, cursor
  <2>6. textscreen_y' < Height
    BY <1>1, <2>1, <2>2, ScreenAssumption DEF BeforeX, BeforeY, cursor
  <2> QED  BY <1>1, <2>1, <2>2, <2>3, <2>4, <2>5, <2>6, InsideStep
<1> QED  BY <1>3, <1>4, <1>5, <1>6, <1>7, <1>8, <1>9, <1>10, <1>11, <1>12,
         <1>13, <1>14, <1>15, <1>16, <1>17, <1>18, <1>19, <1>20, <1>21, <1>22, <1>23, <1>24
     DEF textscreen_write_char

LEMMA OtherStep ==
    ASSUME IInv, NEW w \in Writers, textscreen_clear(w) \/ handleKeyboard(w)
    PROVE  IInv'
<1>1. /\ pc \in [Writers -> Labels] /\ byte \in [Writers -> Byte]
      /\ after \in [Writers -> Returns]
      /\ textscreen_x \in Byte /\ textscreen_y \in Byte
      /\ movedX \in BOOLEAN /\ movedY \in BOOLEAN
  BY DEF IInv, TypeOK, Labels, Returns
<1>2. /\ byte' = byte => byte' = [byte EXCEPT ![w] = byte[w]]
      /\ after' = after => after' = [after EXCEPT ![w] = after[w]]
  BY <1>1
<1> DEFINE Inside(l, b, a) ==
      /\ pc[w] # "out" /\ pc' = [pc EXCEPT ![w] = l]
      /\ byte' = [byte EXCEPT ![w] = b] /\ after' = [after EXCEPT ![w] = a]
      /\ textscreen_x' \in Byte /\ textscreen_y' \in Byte
      /\ movedX' \in BOOLEAN /\ movedY' \in BOOLEAN /\ UNCHANGED alone
<1>3. CASE Home(w)
  <2>1. /\ Goto(w, "out", "homeX") /\ alone' = (Quiet /\ OnScreen)
        /\ UNCHANGED <<cursor, byte>>
        /\ after' = [after EXCEPT ![w] = after'[w]] /\ after'[w] \in Returns
    BY <1>1, <1>2, <1>3 DEF Home, Enter, Goto, Returns
  <2>2. "homeX" \in Labels
    BY DEF Labels, Moving
  <2> QED  BY <2>1, <2>2, EnterStep
<1>4. CASE RubOut(w)
  <2>1. /\ Goto(w, "out", "moveLoadX") /\ alone' = (Quiet /\ OnScreen)
        /\ UNCHANGED <<cursor, byte>>
        /\ after' = [after EXCEPT ![w] = after'[w]] /\ after'[w] \in Returns
    BY <1>1, <1>2, <1>4 DEF RubOut, Enter, Goto, Returns
  <2>2. "moveLoadX" \in Labels
    BY DEF Labels, Moving
  <2> QED  BY <2>1, <2>2, EnterStep
<1>5. CASE HomeX(w)
  <2>1. /\ pc[w] = "homeX" /\ Inside("homeY", byte[w], after[w])
        /\ textscreen_x' = 0 /\ movedX' = FALSE
        /\ UNCHANGED <<textscreen_y, movedY>>
    BY <1>1, <1>2, <1>5, Bytes DEF HomeX, StoreX, Goto, cursor
  <2>2. pc'[w] = "homeY" /\ byte'[w] = byte[w] /\ after'[w] = after[w]
    BY <1>1, <2>1
  <2>3. alone /\ OnItsWay(w) => OnItsWay(w)'
    BY <1>1, <2>1, <2>2 DEF OnItsWay, OnScreen, cursor
  <2>4. "homeY" \in Labels /\ byte[w] \in Byte /\ after[w] \in Returns
    BY <1>1 DEF Labels, Returns, BeforeY, BeforeX, Moving
  <2>5. textscreen_x' < Width
    BY <2>1, ScreenAssumption DEF BeforeX, BeforeY, cursor
  <2>6. pc[w] \notin BeforeY /\ UNCHANGED <<textscreen_y, movedY>>
    BY <2>1, ScreenAssumption DEF BeforeX, BeforeY, cursor
  <2> QED  BY <2>1, <2>3, <2>4, <2>5, <2>6, InsideStep
<1>6. CASE HomeY(w)
  <2>1. /\ pc[w] = "homeY" /\ Inside("out", byte[w], after[w])
        /\ textscreen_y' = 0 /\ movedY' = FALSE
        /\ UNCHANGED <<textscreen_x, movedX>>
    BY <1>1, <1>2, <1>6, Bytes DEF HomeY, StoreY, Goto, cursor
  <2>2. pc'[w] = "out" /\ byte'[w] = byte[w] /\ after'[w] = after[w]
    BY <1>1, <2>1
  <2>3. alone /\ OnItsWay(w) => OnItsWay(w)'
    BY <1>1, <2>1, <2>2 DEF OnItsWay, OnScreen, cursor
  <2>4. "out" \in Labels /\ byte[w] \in Byte /\ after[w] \in Returns
    BY <1>1 DEF Labels, Returns, BeforeY, BeforeX, Moving
  <2>5. pc[w] \notin BeforeX /\ UNCHANGED <<textscreen_x, movedX>>
    BY <2>1, ScreenAssumption DEF BeforeX, BeforeY, cursor
  <2>6. textscreen_y' < Height
    BY <2>1, ScreenAssumption DEF BeforeX, BeforeY, cursor
  <2> QED  BY <2>1, <2>3, <2>4, <2>5, <2>6, InsideStep
<1>7. CASE MoveLoadX(w)
  <2>1. /\ pc[w] = "moveLoadX" /\ Inside("moveStoreX", textscreen_x, after[w])
        /\ UNCHANGED cursor
    BY <1>1, <1>2, <1>7, Bytes DEF MoveLoadX, LoadX, Goto, cursor
  <2>2. pc'[w] = "moveStoreX" /\ byte'[w] = textscreen_x /\ after'[w] = after[w]
    BY <1>1, <2>1
  <2>3. alone /\ OnItsWay(w) => OnItsWay(w)'
    BY <1>1, <2>1, <2>2 DEF OnItsWay, OnScreen, cursor
  <2>4. "moveStoreX" \in Labels /\ textscreen_x \in Byte /\ after[w] \in Returns
    BY <1>1 DEF Labels, Returns, BeforeY, BeforeX, Moving
  <2>5. pc[w] \notin BeforeX /\ UNCHANGED <<textscreen_x, movedX>>
    BY <2>1, ScreenAssumption DEF BeforeX, BeforeY, cursor
  <2>6. pc[w] \notin BeforeY /\ UNCHANGED <<textscreen_y, movedY>>
    BY <2>1, ScreenAssumption DEF BeforeX, BeforeY, cursor
  <2> QED  BY <2>1, <2>3, <2>4, <2>5, <2>6, InsideStep
<1>8. CASE MoveStoreX(w)
  <2>1. /\ pc[w] = "moveStoreX" /\ Inside("moveLoadY", byte[w], after[w])
        /\ textscreen_x' = Down(byte[w]) /\ movedX' = TRUE
        /\ UNCHANGED <<textscreen_y, movedY>>
    BY <1>1, <1>2, <1>8, Bytes DEF MoveStoreX, StoreX, Goto, cursor
  <2>2. pc'[w] = "moveLoadY" /\ byte'[w] = byte[w] /\ after'[w] = after[w]
    BY <1>1, <2>1
  <2>0. ASSUME alone, OnItsWay(w), after[w] = "rubout"
        PROVE  textscreen_y' < Height /\ (textscreen_x' < Width \/ textscreen_x' = Column0)
    <3>1. textscreen_x < Width /\ textscreen_y < Height /\ byte[w] = textscreen_x
      BY <2>0, <2>1 DEF OnItsWay, OnScreen
    <3>2. byte[w] \in Byte
      BY <1>1
    <3>3. Down(byte[w]) < Width \/ Down(byte[w]) = Column0
      BY <3>1, <3>2, ScreenAssumption DEF Byte, Down, Column0
    <3> QED  BY <2>1, <3>1, <3>3
  <2>3. alone /\ OnItsWay(w) => OnItsWay(w)'
    BY <1>1, <2>1, <2>2, <2>0 DEF OnItsWay
  <2>4. "moveLoadY" \in Labels /\ byte[w] \in Byte /\ after[w] \in Returns
    BY <1>1 DEF Labels, Returns, BeforeY, BeforeX, Moving
  <2>5. movedX'
    BY <2>1, ScreenAssumption DEF BeforeX, BeforeY, cursor
  <2>6. pc[w] \notin BeforeY /\ UNCHANGED <<textscreen_y, movedY>>
    BY <2>1, ScreenAssumption DEF BeforeX, BeforeY, cursor
  <2> QED  BY <2>1, <2>3, <2>4, <2>5, <2>6, InsideStep
<1>9. CASE MoveLoadY(w)
  <2>1. /\ pc[w] = "moveLoadY" /\ Inside("moveStoreY", textscreen_y, after[w])
        /\ UNCHANGED cursor
    BY <1>1, <1>2, <1>9, Bytes DEF MoveLoadY, LoadY, Goto, cursor
  <2>2. pc'[w] = "moveStoreY" /\ byte'[w] = textscreen_y /\ after'[w] = after[w]
    BY <1>1, <2>1
  <2>3. alone /\ OnItsWay(w) => OnItsWay(w)'
    BY <1>1, <2>1, <2>2 DEF OnItsWay, OnScreen, cursor
  <2>4. "moveStoreY" \in Labels /\ textscreen_y \in Byte /\ after[w] \in Returns
    BY <1>1 DEF Labels, Returns, BeforeY, BeforeX, Moving
  <2>5. pc[w] \notin BeforeX /\ UNCHANGED <<textscreen_x, movedX>>
    BY <2>1, ScreenAssumption DEF BeforeX, BeforeY, cursor
  <2>6. pc[w] \notin BeforeY /\ UNCHANGED <<textscreen_y, movedY>>
    BY <2>1, ScreenAssumption DEF BeforeX, BeforeY, cursor
  <2> QED  BY <2>1, <2>3, <2>4, <2>5, <2>6, InsideStep
<1>10. CASE MoveStoreY(w) /\ after[w] = "rubout"
  <2>1. /\ pc[w] = "moveStoreY" /\ Inside("row", byte[w], after[w])
        /\ textscreen_y' = byte[w] /\ movedY' = TRUE
        /\ UNCHANGED <<textscreen_x, movedX>>
    BY <1>1, <1>2, <1>10, Bytes DEF MoveStoreY, StoreY, Goto, cursor
  <2>2. pc'[w] = "row" /\ byte'[w] = byte[w] /\ after'[w] = after[w]
    BY <1>1, <2>1
  <2>0. alone /\ OnItsWay(w) /\ after[w] = "rubout" =>
          textscreen_y' < Height /\ (textscreen_x' < Width \/ textscreen_x' = Column0)
    BY <1>1, <2>1 DEF OnItsWay
  <2>3. alone /\ OnItsWay(w) => OnItsWay(w)'
    BY <1>1, <1>10, <2>1, <2>2, <2>0 DEF OnItsWay
  <2>4. "row" \in Labels /\ byte[w] \in Byte /\ after[w] \in Returns
    BY <1>1 DEF Labels, Returns, BeforeY, BeforeX, Moving
  <2>5. "row" \in BeforeX
    BY <2>1, ScreenAssumption DEF BeforeX, BeforeY, cursor
  <2>6. movedY'
    BY <2>1, ScreenAssumption DEF BeforeX, BeforeY, cursor
  <2> QED  BY <2>1, <2>3, <2>4, <2>5, <2>6, InsideStep
<1>11. CASE MoveStoreY(w) /\ after[w] # "rubout"
  <2>1. /\ pc[w] = "moveStoreY" /\ Inside("out", byte[w], "caller")
        /\ textscreen_y' = byte[w] /\ movedY' = TRUE
        /\ UNCHANGED <<textscreen_x, movedX>>
    BY <1>1, <1>2, <1>11, Bytes DEF MoveStoreY, StoreY, Goto, cursor
  <2>2. pc'[w] = "out" /\ byte'[w] = byte[w] /\ after'[w] = "caller"
    BY <1>1, <2>1
  <2>0. alone /\ OnItsWay(w) /\ after[w] = "rubout" =>
          textscreen_y' < Height /\ (textscreen_x' < Width \/ textscreen_x' = Column0)
    BY <1>1, <2>1 DEF OnItsWay
  <2>3. alone /\ OnItsWay(w) => OnItsWay(w)'
    BY <1>1, <1>11, <2>1, <2>2, <2>0 DEF OnItsWay
  <2>4. "out" \in Labels /\ byte[w] \in Byte /\ "caller" \in Returns
    BY <1>1 DEF Labels, Returns, BeforeY, BeforeX, Moving
  <2>5. pc[w] \notin BeforeX /\ UNCHANGED <<textscreen_x, movedX>>
    BY <2>1, ScreenAssumption DEF BeforeX, BeforeY, cursor
  <2>6. movedY'
    BY <2>1, ScreenAssumption DEF BeforeX, BeforeY, cursor
  <2> QED  BY <2>1, <2>3, <2>4, <2>5, <2>6, InsideStep
<1> QED  BY <1>3, <1>4, <1>5, <1>6, <1>7, <1>8, <1>9, <1>10, <1>11
  DEF textscreen_clear, handleKeyboard

LEMMA NextIInv == IInv /\ [Next]_vars => IInv'
<1> SUFFICES ASSUME IInv, [Next]_vars  PROVE IInv'
  OBVIOUS
<1>1. CASE Next
  BY <1>1, WriteCharStep, OtherStep DEF Next
<1>2. CASE UNCHANGED vars
  BY <1>2 DEF vars, cursor, IInv, TypeOK, XTested, YTested, AloneSound, OnItsWay,
              OnScreen
<1> QED  BY <1>1, <1>2

LEMMA Inductive == Spec => []IInv
BY InitIInv, NextIInv, PTL DEF Spec

-----------------------------------------------------------------------------
\* The cursor stays two bytes, and every writer at one of its accesses.
THEOREM TypeCorrect == Spec => []TypeOK
BY Inductive, PTL DEF IInv

\* However many writers interleave and whatever updates they lose, the cursor
\* is on the screen when all calls have returned, unless movecursor put it
\* elsewhere.
THEOREM QuietOnScreenCorrect == Spec => []QuietOnScreen
<1>1. IInv => QuietOnScreen
  <2> SUFFICES ASSUME IInv, Quiet  PROVE QuietOnScreen
    BY DEF QuietOnScreen
  <2>1. \A w \in Writers : pc[w] \notin BeforeX /\ pc[w] \notin BeforeY
    BY DEF Quiet, BeforeX, BeforeY
  <2> QED  BY <2>1, ScreenAssumption
           DEF IInv, XTested, YTested, TypeOK, Byte, QuietOnScreen
<1> QED  BY <1>1, Inductive, PTL

\* A writer that has the cursor for itself stores its character on the
\* screen, whatever the size of the screen, except for a rub-out at the left
\* edge.
THEOREM StoresInsideCorrect == Spec => []StoresInside
<1>1. ASSUME NEW x \in Nat, NEW y \in Nat, x < Width, y < Height
      PROVE  y * Width + x < Width * Height
  <2>1. Width \in Nat /\ Height \in Nat
    BY ScreenAssumption
  <2>2. PICK d \in Nat : Height = y + 1 + d
    <3>1. Height - (y + 1) \in Nat /\ Height = y + 1 + (Height - (y + 1))
      BY <1>1, <2>1
    <3> QED  BY <3>1
  <2>3. Width * Height = y * Width + Width + d * Width /\ d * Width >= 0
    BY <2>1, <2>2
  <2>4. y * Width \in Nat /\ d * Width \in Nat
    BY <2>1
  <2> QED  BY <1>1, <2>1, <2>3, <2>4
<1>2. IInv => StoresInside
  <2> SUFFICES ASSUME IInv, NEW w \in Writers, alone, pc[w] = "column"
               PROVE  \/ byte[w] * Width + textscreen_x < Width * Height
                      \/ after[w] = "rubout" /\ textscreen_x = ByteMod - 1
    BY DEF StoresInside
  <2>1. OnItsWay(w) /\ textscreen_x \in Byte /\ textscreen_y \in Byte
    BY DEF IInv, AloneSound, TypeOK
  <2> QED  BY <1>1, <2>1 DEF OnItsWay, Column0, Byte
<1> QED  BY <1>2, Inductive, PTL

-----------------------------------------------------------------------------
(* Words, and recursion. *)

\* Quotient and remainder are determined.
LEMMA DivisionUnique ==
    ASSUME NEW w \in Nat \ {0}, NEW q \in Int, NEW r \in 0 .. w - 1,
           NEW p \in Int, NEW s \in 0 .. w - 1, q * w + r = p * w + s
    PROVE  r = s
<1>1. CASE q = p
  BY <1>1
<1>2. CASE q > p
  <2>1. (q - p) * w = s - r
    OBVIOUS
  <2>2. q - p \in Nat /\ q - p >= 1
    BY <1>2
  <2>3. (q - p) * w >= w
    BY <2>2
  <2> QED  BY <2>1, <2>3
<1>3. CASE p > q
  <2>1. (p - q) * w = r - s
    OBVIOUS
  <2>2. p - q \in Nat /\ p - q >= 1
    BY <1>3
  <2>3. (p - q) * w >= w
    BY <2>2
  <2> QED  BY <2>1, <2>3
<1> QED  BY <1>1, <1>2, <1>3

\* A number is a word away from a multiple of the size.
LEMMA WordIs ==
    ASSUME NEW n \in Int
    PROVE  Word(n) \in Words /\ \E k \in Int : n = k * WordSize + Word(n)
<1>1. WordSize \in Nat /\ WordSize > 16
  BY NumeralsAssumption
<1>2. n % WordSize \in 0 .. WordSize - 1 /\ n = (n \div WordSize) * WordSize + (n % WordSize)
  BY <1>1
<1>3. n \div WordSize \in Int
  BY <1>1
<1> QED  BY <1>2, <1>3 DEF Word, Words

\* Multiples of the size do not change the word.
LEMMA WordShift ==
    ASSUME NEW n \in Int, NEW k \in Int
    PROVE  Word(n + k * WordSize) = Word(n)
<1>1. WordSize \in Nat \ {0} /\ Words = 0 .. WordSize - 1
  BY NumeralsAssumption DEF Words
<1>2. PICK q \in Int : n = q * WordSize + Word(n)
  BY WordIs
<1>3. n + k * WordSize \in Int
  BY <1>1
<1>4. PICK p \in Int : n + k * WordSize = p * WordSize + Word(n + k * WordSize)
  BY <1>3, WordIs
<1> DEFINE m == n + k * WordSize
<1>5. Word(n) \in 0 .. WordSize - 1 /\ Word(m) \in 0 .. WordSize - 1
  BY <1>1, <1>3, WordIs
<1>6. (q + k) * WordSize + Word(n) = p * WordSize + Word(m)
  <2>1. (q + k) * WordSize = q * WordSize + k * WordSize
    BY <1>1
  <2>2. q * WordSize \in Int /\ k * WordSize \in Int /\ p * WordSize \in Int
    BY <1>1
  <2> QED  BY <1>1, <1>2, <1>4, <1>5, <2>1, <2>2
<1>7. q + k \in Int
  OBVIOUS
<1> HIDE DEF m
<1>8. Word(n) = Word(m)
  BY <1>1, <1>5, <1>6, <1>7, DivisionUnique
<1> QED  BY <1>8 DEF m

\* What is cut to a word on the way does not matter at the end.
LEMMA WordSum ==
    ASSUME NEW m \in Int, NEW n \in Int
    PROVE  Word(Word(m) + n) = Word(m + n)
<1>1. WordSize \in Nat \ {0} /\ Words \in SUBSET Int
  BY NumeralsAssumption DEF Words
<1>2. PICK k \in Int : m = k * WordSize + Word(m)
  BY WordIs
<1>3. Word(m) \in Int /\ k * WordSize \in Int
  <2>1. Word(m) \in Int
    BY <1>1, WordIs
  <2> QED  BY <1>1, <2>1
<1>4. m + n = (Word(m) + n) + k * WordSize
  <2> DEFINE c == k * WordSize
             r == Word(m)
  <2>1. m = c + r /\ c \in Int /\ r \in Int
    BY <1>2, <1>3
  <2> HIDE DEF c, r
  <2>2. m + n = (r + n) + c
    BY <2>1
  <2> QED  BY <2>2 DEF c, r
<1> QED  BY <1>3, <1>4, WordShift

\* A word can be taken before or after adding and multiplying.
LEMMA WordProduct ==
    ASSUME NEW m \in Int, NEW n \in Int
    PROVE  Word(Word(m) * n) = Word(m * n)
<1>1. WordSize \in Nat \ {0} /\ Words \in SUBSET Int
  BY NumeralsAssumption DEF Words
<1>2. PICK k \in Int : m = k * WordSize + Word(m)
  BY WordIs
<1>3. Word(m) \in Int /\ k * WordSize \in Int /\ k * n \in Int /\ Word(m) * n \in Int
  <2>1. Word(m) \in Int
    BY <1>1, WordIs
  <2> QED  BY <1>1, <2>1
<1>4. m * n = (k * WordSize) * n + Word(m) * n
  BY <1>2, <1>3
<1>5. (k * WordSize) * n = (k * n) * WordSize
  BY <1>1
<1>6. m * n = Word(m) * n + (k * n) * WordSize
  BY <1>3, <1>4, <1>5
<1> QED  BY <1>3, <1>6, WordShift

\* Reading a word as a signed number depends on the word only, and gives back
\* the numbers an int32_t has.
LEMMA SignedFacts ==
    /\ \A n \in Int : Signed(n) = Signed(Word(n))
    /\ \A n \in Ints : Signed(n) = n /\ n \in Int
    /\ \A n \in Words : Word(n) = n /\ n \in Int
<1> DEFINE half == WordSize \div 2
<1>1. WordSize \in Nat /\ WordSize > 16 /\ half \in Nat /\ WordSize = 2 * half
  BY NumeralsAssumption
<1>2. \A n \in Words : Word(n) = n /\ n \in Int
  BY <1>1 DEF Word, Words
<1>3. \A n \in Int : Signed(n) = Signed(Word(n))
  BY <1>2, WordIs DEF Signed
<1>4. ASSUME NEW n \in Ints  PROVE Signed(n) = n /\ n \in Int
  <2>1. n \in Int /\ n >= -half /\ n < half
    BY <1>1, <1>4 DEF Ints
  <2>2. CASE n >= 0
    <3>1. Word(n) = n
      BY <1>1, <1>2, <2>1, <2>2 DEF Words
    <3> QED  BY <2>1, <3>1 DEF Signed
  <2>3. CASE n < 0
    <3>1. n + WordSize \in Words
      BY <1>1, <2>1, <2>3 DEF Words
    <3>2. Word(n + 1 * WordSize) = Word(n)
      BY <2>1, WordShift
    <3>3. Word(n) = n + WordSize
      BY <1>1, <1>2, <2>1, <3>1, <3>2
    <3> QED  BY <1>1, <2>1, <3>3 DEF Signed
  <2> QED  BY <2>1, <2>2, <2>3
<1> QED  BY <1>2, <1>3, <1>4

\* What induction over the numbers is replaced by: a least counterexample.
LEMMA LeastNat ==
    ASSUME NEW T \in SUBSET Nat, T # {}
    PROVE  \E n \in T : \A k \in T : n <= k
<1> DEFINE R == {ss \in Nat \X Nat : ss[1] < ss[2]}
<1>1. PICK n \in T : \A k \in T : ~(<<k, n>> \in R)
  <2>1. IsWellFoundedOn(R, Nat)
    BY NatLessThanWellFounded DEF OpToRel
  <2> HIDE DEF R
  <2> QED BY <2>1, WFMin
<1>2. \A k \in T : k < n => <<k, n>> \in R
  OBVIOUS
<1> HIDE DEF R
<1>3. \A k \in T : ~(k < n)
  BY <1>1, <1>2
<1> QED BY <1>3

\* Calls that go from one argument to another of lower rank end: there is a
\* function that does what the recursion says.
Recurses(f, D, ends, first, prev, step) ==
    f = [x \in D |-> IF x \in ends THEN first[x] ELSE step[x][f[prev[x]]]]

LEMMA Recursion ==
    ASSUME NEW D, NEW V, NEW N \in Nat, NEW rank \in [D -> 0 .. N],
           NEW ends \in SUBSET D, NEW first \in [D -> V],
           NEW prev, \A x \in D \ ends : prev[x] \in D /\ rank[prev[x]] < rank[x],
           NEW step \in [D -> [V -> V]]
    PROVE  \E f \in [D -> V] : Recurses(f, D, ends, first, prev, step)
<1> DEFINE Below(n) == {x \in D : rank[x] < n}
           Ok(n) == \E f \in [Below(n) -> V] : Recurses(f, Below(n), ends, first, prev, step)
<1>1. Ok(0)
  <2>1. Below(0) = {}
    OBVIOUS
  <2> DEFINE f == [x \in {} |-> x]
  <2>2. f \in [{} -> V] /\ Recurses(f, {}, ends, first, prev, step)
    BY DEF Recurses
  <2> QED  BY <2>1, <2>2
<1>2. ASSUME NEW n \in Nat, Ok(n)  PROVE Ok(n + 1)
  <2>1. PICK f \in [Below(n) -> V] : Recurses(f, Below(n), ends, first, prev, step)
    BY <1>2
  <2>2. \A x \in Below(n + 1) \ ends : prev[x] \in Below(n)
    OBVIOUS
  <2>3. Below(n) \subseteq Below(n + 1) /\ Below(n + 1) \subseteq D
    OBVIOUS
  <2> HIDE DEF Below
  <2> DEFINE g == [x \in Below(n + 1) |-> IF x \in ends THEN first[x] ELSE step[x][f[prev[x]]]]
  <2>4. g \in [Below(n + 1) -> V]
    BY <2>2, <2>3
  <2>5. \A x \in Below(n) : g[x] = f[x]
    BY <2>1, <2>3 DEF Recurses
  <2>6. g = [x \in Below(n + 1) |-> IF x \in ends THEN first[x] ELSE step[x][g[prev[x]]]]
    BY <2>2, <2>5
  <2> HIDE DEF g
  <2> QED  BY <2>4, <2>6 DEF Recurses
<1>3. Below(N + 1) = D
  OBVIOUS
<1>4. Ok(N + 1)
  <2> DEFINE bad == {n \in Nat : ~Ok(n)}
  <2> HIDE DEF Ok
  <2>0. N + 1 \in Nat
    OBVIOUS
  <2> SUFFICES ASSUME bad # {}  PROVE FALSE
    BY <2>0
  <2>1. bad \in SUBSET Nat
    OBVIOUS
  <2>2. PICK n \in bad : \A k \in bad : n <= k
    <3> HIDE DEF bad
    <3> QED BY <2>1, LeastNat
  <2>3. n # 0
    BY <1>1, <2>2
  <2>4. n - 1 \in Nat /\ Ok(n - 1)
    BY <2>2, <2>3
  <2> QED  BY <1>2, <2>2, <2>4
<1> QED  BY <1>3, <1>4

\* What such a recursion says leaves no choice: two functions that are equal
\* wherever they are equal at the lower ranks are equal.
Determined(f, g, D, rank) ==
    \A x \in D : (\A y \in D : rank[y] < rank[x] => f[y] = g[y]) => f[x] = g[x]

LEMMA SameFunction ==
    ASSUME NEW D, NEW rank \in [D -> Nat], NEW f, NEW g, Determined(f, g, D, rank)
    PROVE  \A x \in D : f[x] = g[x]
<1> DEFINE bad == {n \in Nat : \E x \in D : rank[x] = n /\ f[x] # g[x]}
<1>1. bad = {}
  <2> SUFFICES ASSUME bad # {}  PROVE FALSE
    OBVIOUS
  <2>1. PICK n \in bad : \A k \in bad : n <= k
    <3>1. bad \in SUBSET Nat
      OBVIOUS
    <3> HIDE DEF bad
    <3> QED  BY <3>1, LeastNat
  <2>2. PICK x \in D : rank[x] = n /\ f[x] # g[x]
    BY <2>1
  <2>3. \A y \in D : rank[y] < rank[x] => f[y] = g[y]
    BY <2>1, <2>2
  <2> QED  BY <2>2, <2>3 DEF Determined
<1> QED  BY <1>1

-----------------------------------------------------------------------------
(* The number a text denotes. *)

Chars == 48 .. 57 \cup 65 .. 70 \cup 97 .. 102

\* The digits that the characters of a numeral stand for.
LEMMA CharDigits == \A c \in Chars : DigitOf(c) \in 0 .. 15
BY DEF Chars, DigitOf

LEMMA DecChars == \A c \in 48 .. 57 : DigitOf(c) = c - 48
BY DEF DigitOf

ValueIs(v, text, base) ==
    v = [i \in 0 .. Len(text) |-> IF i = 0 THEN 0 ELSE v[i - 1] * base + DigitOf(text[i])]

\* v[i] is the number that the first i characters denote.
LEMMA ValueKept ==
    ASSUME NEW text \in Seq(Chars), NEW base \in Nat
    PROVE  /\ \E v \in [0 .. Len(text) -> Nat] : ValueIs(v, text, base)
           /\ \A v : ValueIs(v, text, base) => Value(text, base) = v[Len(text)]
<1> DEFINE D == 0 .. Len(text)
           rank == [i \in D |-> i]
           digit == [i \in 1 .. Len(text) |-> DigitOf(text[i])]
<1>0. /\ Len(text) \in Nat
      /\ \A i \in D \ {0} : digit[i] \in Nat /\ digit[i] = DigitOf(text[i]) /\ i - 1 \in D
  BY CharDigits
<1>1. \E v \in [D -> Nat] : ValueIs(v, text, base)
  <2> DEFINE first == [i \in D |-> 0]
             prev == [i \in D |-> i - 1]
             step == [i \in D |-> [x \in Nat |-> IF i = 0 THEN 0 ELSE x * base + digit[i]]]
  <2>1. step \in [D -> [Nat -> Nat]]
    <3>1. ASSUME NEW i \in D, NEW x \in Nat
          PROVE  (IF i = 0 THEN 0 ELSE x * base + digit[i]) \in Nat
      <4>1. x * base \in Nat
        OBVIOUS
      <4>2. i # 0 => digit[i] \in Nat
        BY <1>0
      <4> HIDE DEF digit
      <4> QED  BY <4>1, <4>2
    <3> QED  BY <3>1
  <2>2. \A i \in D \ {0} : prev[i] \in D /\ rank[prev[i]] < rank[i]
    BY <1>0
  <2>3. rank \in [D -> 0 .. Len(text)] /\ {0} \in SUBSET D /\ first \in [D -> Nat]
    BY <1>0
  <2>4. \E v \in [D -> Nat] : Recurses(v, D, {0}, first, prev, step)
    <3> HIDE DEF D, rank, first, prev, step
    <3> QED  BY <1>0, <2>1, <2>2, <2>3, Recursion
  <2>5. PICK v \in [D -> Nat] : Recurses(v, D, {0}, first, prev, step)
    BY <2>4
  <2>6. \A i \in D : v[i] = IF i = 0 THEN 0 ELSE v[i - 1] * base + DigitOf(text[i])
    BY <1>0, <2>5 DEF Recurses
  <2> QED  BY <2>6 DEF ValueIs
<1>2. ASSUME NEW v, NEW w, ValueIs(v, text, base), ValueIs(w, text, base)
      PROVE  \A i \in D : v[i] = w[i]
  <2>2. Determined(v, w, D, rank)
    BY <1>0, <1>2 DEF ValueIs, Determined
  <2>3. rank \in [D -> Nat]
    BY <1>0
  <2> HIDE DEF D, rank
  <2> QED  BY <2>2, <2>3, SameFunction
<1>3. ASSUME NEW v, ValueIs(v, text, base)  PROVE Value(text, base) = v[Len(text)]
  <2> DEFINE w == CHOOSE w : ValueIs(w, text, base)
  <2>1. ValueIs(w, text, base)
    BY <1>3
  <2>2. Value(text, base) = w[Len(text)]
    BY DEF Value, ValueIs
  <2> HIDE DEF w
  <2> QED  BY <1>0, <1>2, <1>3, <2>1, <2>2
<1> QED  BY <1>1, <1>3

\* A text and one character more.
LEMMA ValueAppend ==
    ASSUME NEW text \in Seq(Chars), NEW c \in Chars, NEW base \in Nat
    PROVE  Value(Append(text, c), base) = Value(text, base) * base + DigitOf(c)
<1> DEFINE n == Len(text)
           longer == Append(text, c)
<1>1. longer \in Seq(Chars) /\ Len(longer) = n + 1 /\ n \in Nat
  OBVIOUS
<1>2. (\A i \in 1 .. n : longer[i] = text[i]) /\ longer[n + 1] = c
  OBVIOUS
<1>3. PICK v \in [0 .. n -> Nat] : ValueIs(v, text, base)
  BY ValueKept
<1>4. PICK w \in [0 .. n + 1 -> Nat] : ValueIs(w, longer, base)
  <2> HIDE DEF longer, n
  <2> QED  BY <1>1, ValueKept
<1> HIDE DEF longer
<1> DEFINE D == 0 .. n
           rank == [i \in D |-> i]
<1>5. /\ \A i \in D : v[i] = IF i = 0 THEN 0 ELSE v[i - 1] * base + DigitOf(text[i])
      /\ \A i \in 0 .. n + 1 : w[i] = IF i = 0 THEN 0 ELSE w[i - 1] * base + DigitOf(longer[i])
  BY <1>1, <1>3, <1>4 DEF ValueIs
<1>6. \A i \in D : v[i] = w[i]
  <2>1. rank \in [D -> Nat]
    BY <1>1
  <2>2. ASSUME NEW i \in D, \A j \in D : rank[j] < rank[i] => v[j] = w[j]  PROVE v[i] = w[i]
    <3>1. CASE i = 0
      BY <1>1, <1>5, <3>1
    <3>2. CASE i # 0
      <4>1. i - 1 \in D /\ rank[i - 1] < rank[i] /\ i \in 1 .. n
        BY <1>1, <3>2
      <4>2. v[i - 1] = w[i - 1] /\ longer[i] = text[i]
        BY <1>2, <2>2, <4>1
      <4> QED  BY <1>1, <1>5, <3>2, <4>2
    <3> QED  BY <3>1, <3>2
  <2>3. Determined(v, w, D, rank)
    BY <2>2 DEF Determined
  <2> HIDE DEF D, rank
  <2> QED  BY <2>1, <2>3, SameFunction
<1>7. w[n + 1] = w[n] * base + DigitOf(c) /\ w[n] = v[n]
  BY <1>1, <1>2, <1>5, <1>6
<1>8. Value(text, base) = v[n] /\ Value(longer, base) = w[n + 1]
  BY <1>1, <1>3, <1>4, ValueKept
<1> QED  BY <1>7, <1>8 DEF longer

LEMMA ValueEmpty == ASSUME NEW base \in Nat  PROVE Value(<<>>, base) = 0
<1>1. <<>> \in Seq(Chars) /\ Len(<<>>) = 0
  OBVIOUS
<1>2. PICK v \in [0 .. 0 -> Nat] : ValueIs(v, <<>>, base)
  BY <1>1, ValueKept
<1>3. v[0] = 0
  BY <1>2 DEF ValueIs
<1> QED  BY <1>1, <1>2, <1>3, ValueKept

\* Whoever writes a number by writing its quotient first and its remainder
\* behind it writes a numeral, without leading zeros.
LEMMA Written ==
    ASSUME NEW base \in {10, 16}, NEW hi \in Nat, NEW char \in [0 .. base - 1 -> Chars],
           \A d \in 0 .. base - 1 : DigitOf(char[d]) = d,
           NEW f,
           \A v \in 0 .. hi : f[v] = (IF v >= base THEN f[v \div base] ELSE <<>>) \o <<char[v % base]>>
    PROVE  \A v \in 0 .. hi : f[v] \in Seq(Chars) /\ IsNumeral(f[v], base, v)
<1> DEFINE Right(v) == f[v] \in Seq(Chars) /\ IsNumeral(f[v], base, v)
           bad == {v \in 0 .. hi : ~Right(v)}
<1>0. base \in Nat /\ base >= 10
  OBVIOUS
<1> SUFFICES ASSUME bad # {}  PROVE FALSE
  OBVIOUS
<1>1. PICK v \in bad : \A k \in bad : v <= k
  <2>1. bad \in SUBSET Nat
    OBVIOUS
  <2> HIDE DEF bad
  <2> QED  BY <2>1, LeastNat
<1>2. v \in 0 .. hi /\ ~Right(v) /\ \A k \in 0 .. hi : k < v => Right(k)
  BY <1>1
<1> DEFINE q == v \div base
           r == v % base
           head == IF v >= base THEN f[q] ELSE <<>>
<1>3. v = q * base + r /\ r \in 0 .. base - 1 /\ q \in Nat
  BY <1>0, <1>2
<1>4. IF v >= base THEN q >= 1 /\ q < v ELSE q = 0 /\ r = v
  BY <1>0, <1>2, <1>3
<1>5. q \in 0 .. hi
  BY <1>2, <1>3, <1>4
<1>6. f[v] = head \o <<char[r]>>
  BY <1>2
<1> HIDE DEF q, r, Right, bad
<1>7. head \in Seq(Chars) /\ (v >= base => IsNumeral(head, base, q))
  BY <1>2, <1>4, <1>5 DEF Right
<1>8. char[r] \in Chars /\ DigitOf(char[r]) = r
  BY <1>3
<1>9. Value(head, base) = q /\ q \in Nat /\ (v < base => head = <<>>) /\ (v >= base => head # <<>>)
  <2>1. CASE v >= base
    BY <1>3, <1>7, <2>1 DEF IsNumeral
  <2>2. CASE ~(v >= base)
    BY <1>0, <1>2, <1>4, <2>2, ValueEmpty
  <2> QED  BY <1>0, <1>2, <2>1, <2>2
<1> HIDE DEF head
<1>10. f[v] = Append(head, char[r]) /\ f[v] \in Seq(Chars) /\ Len(f[v]) = Len(head) + 1
  BY <1>6, <1>7, <1>8
<1>11. Value(f[v], base) = v
  BY <1>0, <1>3, <1>7, <1>8, <1>9, <1>10, ValueAppend
<1>12. \A i \in DOMAIN f[v] : f[v][i] \in Chars /\ DigitOf(f[v][i]) < base
  <2>1. \A i \in 1 .. Len(head) : f[v][i] = head[i] /\ head[i] \in Chars
    BY <1>7, <1>8, <1>10
  <2>2. \A i \in 1 .. Len(head) : DigitOf(head[i]) < base
    BY <1>2, <1>7, <1>9 DEF IsNumeral
  <2>3. f[v][Len(head) + 1] = char[r] /\ r < base
    <3>1. f[v][Len(head) + 1] = char[r]
      BY <1>7, <1>8, <1>10
    <3>2. r < base
      BY <1>0, <1>3
    <3> QED  BY <3>1, <3>2
  <2>4. DOMAIN f[v] = 1 .. Len(head) + 1
    BY <1>10
  <2> QED  BY <1>7, <1>8, <2>1, <2>2, <2>3, <2>4
<1>13. f[v][1] = 48 => Len(f[v]) = 1
  <2>1. CASE head = <<>>
    BY <1>10, <2>1
  <2>2. CASE head # <<>>
    <3>1. f[v][1] = head[1] /\ IsNumeral(head, base, q) /\ q >= 1
      BY <1>0, <1>2, <1>4, <1>7, <1>9, <1>10, <2>2
    <3>2. head[1] = 48 => Len(head) = 1
      BY <3>1 DEF IsNumeral
    <3>3. Len(head) = 1 => head = Append(<<>>, head[1]) /\ head[1] \in Chars
      BY <1>7
    <3>4. DigitOf(48) = 0 /\ 48 \in Chars /\ <<>> \in Seq(Chars)
      BY DEF DigitOf, Chars
    <3>5. Value(Append(<<>>, 48), base) = 0
      BY <1>0, <3>4, ValueAppend, ValueEmpty
    <3> QED  BY <1>9, <3>1, <3>2, <3>3, <3>5
  <2> QED  BY <2>1, <2>2
<1>14. Right(v)
  <2>1. f[v] # <<>>
    BY <1>7, <1>10
  <2>2. IsNumeral(f[v], base, v)
    BY <2>1, <1>11, <1>12, <1>13 DEF IsNumeral, Chars
  <2> QED  BY <1>10, <2>2 DEF Right
<1> QED  BY <1>2, <1>14

\* The recursions of the writing functions end, whichever end of the text they
\* write first.
QuotientFirst(f, D, base, char) ==
    \A v \in D : f[v] = (IF v >= base THEN f[v \div base] ELSE <<>>) \o <<char[v]>>

QuotientLast(f, D, base, char) ==
    \A v \in D : f[v] = <<char[v]>> \o (IF v >= base THEN f[v \div base] ELSE <<>>)

\* The recursion of the functions that write numbers, the quotient's digits
\* before or behind the remainder's, has a function that follows it.
LEMMA Quotients ==
    ASSUME NEW base \in {10, 16}, NEW hi \in Nat, NEW D \in SUBSET Int,
           \A v \in D : v <= hi /\ (v >= base => v \div base \in D),
           NEW char \in [D -> Nat]
    PROVE  /\ \E f \in [D -> Seq(Nat)] : QuotientFirst(f, D, base, char)
           /\ \E f \in [D -> Seq(Nat)] : QuotientLast(f, D, base, char)
<1> DEFINE rank == [v \in D |-> IF v < 0 THEN 0 ELSE v]
           ends == {v \in D : v < base}
           first == [v \in D |-> <<char[v]>>]
           prev == [v \in D |-> v \div base]
           behind == [v \in D |-> [s \in Seq(Nat) |-> s \o <<char[v]>>]]
           before == [v \in D |-> [s \in Seq(Nat) |-> <<char[v]>> \o s]]
<1>1. rank \in [D -> 0 .. hi] /\ ends \in SUBSET D
  OBVIOUS
<1>2. ASSUME NEW v \in D \ ends  PROVE prev[v] \in D /\ rank[prev[v]] < rank[v]
  <2>1. v >= base /\ prev[v] = v \div base
    OBVIOUS
  <2>2. v \div base \in Nat /\ v \div base < v /\ v \div base \in D
    BY <2>1
  <2> QED  BY <2>1, <2>2
<1>3. first \in [D -> Seq(Nat)] /\ behind \in [D -> [Seq(Nat) -> Seq(Nat)]]
  OBVIOUS
<1>4. before \in [D -> [Seq(Nat) -> Seq(Nat)]]
  OBVIOUS
<1>5. /\ \E f \in [D -> Seq(Nat)] : Recurses(f, D, ends, first, prev, behind)
      /\ \E f \in [D -> Seq(Nat)] : Recurses(f, D, ends, first, prev, before)
  <2> HIDE DEF rank, ends, first, prev, behind, before
  <2> QED  BY <1>1, <1>2, <1>3, <1>4, Recursion
<1>6. PICK f \in [D -> Seq(Nat)] : Recurses(f, D, ends, first, prev, behind)
  BY <1>5
<1>7. PICK g \in [D -> Seq(Nat)] : Recurses(g, D, ends, first, prev, before)
  BY <1>5
<1>8. ASSUME NEW v \in D
      PROVE  f[v] = (IF v >= base THEN f[v \div base] ELSE <<>>) \o <<char[v]>>
  <2>1. CASE v >= base
    <3>1. v \div base \in D /\ v \notin ends /\ prev[v] = v \div base
      BY <2>1
    <3>2. f[v] = behind[v][f[v \div base]]
      BY <1>6, <3>1 DEF Recurses
    <3>3. f[v \div base] \in Seq(Nat)
      BY <1>6, <3>1
    <3>4. f[v] = f[v \div base] \o <<char[v]>>
      BY <3>2, <3>3
    <3> QED  BY <2>1, <3>4
  <2>2. CASE ~(v >= base)
    <3>1. f[v] = <<char[v]>>
      BY <1>6, <2>2 DEF Recurses
    <3> QED  BY <2>2, <3>1
  <2> QED  BY <2>1, <2>2
<1>9. ASSUME NEW v \in D
      PROVE  g[v] = <<char[v]>> \o (IF v >= base THEN g[v \div base] ELSE <<>>)
  <2>1. CASE v >= base
    <3>1. v \div base \in D /\ v \notin ends /\ prev[v] = v \div base
      BY <2>1
    <3>2. g[v] = before[v][g[v \div base]]
      BY <1>7, <3>1 DEF Recurses
    <3>3. g[v \div base] \in Seq(Nat)
      BY <1>7, <3>1
    <3>4. g[v] = <<char[v]>> \o g[v \div base]
      BY <3>2, <3>3
    <3> QED  BY <2>1, <3>4
  <2>2. CASE ~(v >= base)
    <3>1. g[v] = <<char[v]>>
      BY <1>7, <2>2 DEF Recurses
    <3> QED  BY <2>2, <3>1
  <2> QED  BY <2>1, <2>2
<1> QED  BY <1>8, <1>9 DEF QuotientFirst, QuotientLast

\* The bounds of words and integers, and quotients that stay within them.
LEMMA Ranges ==
    /\ Words = 0 .. WordSize - 1 /\ WordSize - 1 \in Nat /\ WordSize > 16
    /\ Ints \in SUBSET Int /\ WordSize \div 2 - 1 \in Nat
    /\ \A v \in Int : v \in Ints <=> -(WordSize \div 2) <= v /\ v <= WordSize \div 2 - 1
    /\ \A v \in Ints : v <= WordSize - 1 /\ (v >= 10 => v \div 10 \in Ints)
    /\ \A v \in Ints : v # -(WordSize \div 2) => -v \in Ints
BY NumeralsAssumption DEF Words, Ints

\* textscreen_write_dec behind its sign.
LEMMA DecWritten ==
    \A v \in Ints : v >= 0 => WriteDec[v] \in Seq(Chars) /\ IsNumeral(WriteDec[v], 10, v)
<1> DEFINE char == [v \in Ints |-> DigitChar(v % 10)]
           digit == [d \in 0 .. 10 - 1 |-> DigitChar(d)]
<1>1. \E f : f = [v \in Ints |->
                    (IF v >= 10 THEN f[v \div 10] ELSE <<>>) \o <<DigitChar(v % 10)>>]
  <2>1. char \in [Ints -> Nat]
    BY Ranges DEF DigitChar
  <2>2. PICK f \in [Ints -> Seq(Nat)] : QuotientFirst(f, Ints, 10, char)
    <3> HIDE DEF char
    <3> QED  BY <2>1, Ranges, Quotients
  <2>3. \A v \in Ints :
            f[v] = (IF v >= 10 THEN f[v \div 10] ELSE <<>>) \o <<DigitChar(v % 10)>>
    BY <2>2 DEF QuotientFirst
  <2> HIDE DEF char
  <2> QED  BY <2>3
<1>2. WriteDec = [v \in Ints |->
                    (IF v >= 10 THEN WriteDec[v \div 10] ELSE <<>>) \o <<DigitChar(v % 10)>>]
  BY <1>1 DEF WriteDec
<1>3. digit \in [0 .. 10 - 1 -> Chars] /\ \A d \in 0 .. 10 - 1 : DigitOf(digit[d]) = d
  BY DEF DigitChar, Chars, DigitOf
<1>4. \A v \in 0 .. WordSize \div 2 - 1 :
        WriteDec[v] = (IF v >= 10 THEN WriteDec[v \div 10] ELSE <<>>) \o <<digit[v % 10]>>
  <2>1. ASSUME NEW v \in 0 .. WordSize \div 2 - 1
        PROVE  WriteDec[v] = (IF v >= 10 THEN WriteDec[v \div 10] ELSE <<>>) \o <<DigitChar(v % 10)>>
    <3>1. v \in Ints
      BY Ranges, NumeralsAssumption
    <3> QED  BY <1>2, <3>1
  <2>2. \A v \in 0 .. WordSize \div 2 - 1 : digit[v % 10] = DigitChar(v % 10)
    BY Ranges
  <2> QED  BY <2>1, <2>2
<1>5. \A v \in 0 .. WordSize \div 2 - 1 :
            WriteDec[v] \in Seq(Chars) /\ IsNumeral(WriteDec[v], 10, v)
  <2> HIDE DEF digit
  <2> QED  BY <1>3, <1>4, Ranges, Written
<1> QED  BY <1>5, Ranges, NumeralsAssumption

\* textscreen_write_hex.
LEMMA HexWritten ==
    \A v \in Words : /\ textscreen_write_hex[v] \in Seq(Chars)
                     /\ IsNumeral(textscreen_write_hex[v], 16, v)
<1> DEFINE HexChar(d) == IF d < 10 THEN DigitChar(d) ELSE d - 10 + 65
           char == [v \in Words |-> HexChar(v % 16)]
           digit == [d \in 0 .. 16 - 1 |-> HexChar(d)]
<1>0. \A v \in Words : v % 16 \in 0 .. 16 - 1
  BY Ranges
<1>1. \E f : f = [v \in Words |->
                    (IF v >= 16 THEN f[v \div 16] ELSE <<>>) \o <<HexChar(v % 16)>>]
  <2>1. char \in [Words -> Nat]
    BY <1>0 DEF DigitChar
  <2>2. Words \in SUBSET Int /\ \A v \in Words : v <= WordSize - 1 /\ (v >= 16 => v \div 16 \in Words)
    BY Ranges
  <2>3. PICK f \in [Words -> Seq(Nat)] : QuotientFirst(f, Words, 16, char)
    <3> HIDE DEF char
    <3> QED  BY <2>1, <2>2, Ranges, Quotients
  <2> HIDE DEF HexChar
  <2>4. \A v \in Words :
            f[v] = (IF v >= 16 THEN f[v \div 16] ELSE <<>>) \o <<HexChar(v % 16)>>
    BY <2>3 DEF QuotientFirst
  <2> HIDE DEF char
  <2> QED  BY <2>4
<1>2. textscreen_write_hex = [v \in Words |->
            (IF v >= 16 THEN textscreen_write_hex[v \div 16] ELSE <<>>) \o <<HexChar(v % 16)>>]
  BY <1>1 DEF textscreen_write_hex
<1>3. digit \in [0 .. 16 - 1 -> Chars] /\ \A d \in 0 .. 16 - 1 : DigitOf(digit[d]) = d
  BY DEF DigitChar, Chars, DigitOf
<1>4. ASSUME NEW v \in 0 .. WordSize - 1
      PROVE  textscreen_write_hex[v] =
                (IF v >= 16 THEN textscreen_write_hex[v \div 16] ELSE <<>>) \o <<digit[v % 16]>>
  <2> HIDE DEF HexChar
  <2>1. v \in Words /\ digit[v % 16] = HexChar(v % 16)
    BY <1>0, Ranges
  <2> HIDE DEF digit
  <2> QED  BY <1>2, <2>1
<1> HIDE DEF digit
<1> QED  BY <1>3, <1>4, Ranges, Written

\* The text with the lowest digit in front, turned round, is what the other
\* writing functions write.
LEMMA Turned ==
    ASSUME NEW c \in Nat, NEW s \in Seq(Nat)
    PROVE  Reverse(<<c>> \o s) = Reverse(s) \o <<c>> /\ Reverse(<<>>) = <<>>
<1> DEFINE t == <<c>> \o s
           n == Len(s)
<1>1. /\ t \in Seq(Nat) /\ Len(t) = n + 1 /\ n \in Nat /\ t[1] = c
      /\ \A i \in 1 .. n : t[i + 1] = s[i]
  OBVIOUS
<1> HIDE DEF t
<1>2. Reverse(t) = [i \in 1 .. n + 1 |-> t[(n + 1 - i) + 1]]
  BY <1>1 DEF Reverse
<1>3. Reverse(s) = [i \in 1 .. n |-> s[(n - i) + 1]] /\ Reverse(s) \in Seq(Nat) /\ Len(Reverse(s)) = n
  BY <1>1 DEF Reverse
<1>4. Reverse(s) \o <<c>> = [i \in 1 .. n + 1 |-> IF i <= n THEN s[(n - i) + 1] ELSE c]
  BY <1>1, <1>3
<1>5. ASSUME NEW i \in 1 .. n + 1
      PROVE  t[(n + 1 - i) + 1] = IF i <= n THEN s[(n - i) + 1] ELSE c
  <2>1. CASE i <= n
    <3>1. (n - i) + 1 \in 1 .. n /\ (n + 1 - i) + 1 = ((n - i) + 1) + 1
      BY <1>1, <2>1
    <3> DEFINE k == (n - i) + 1
    <3> HIDE DEF k
    <3>2. k \in 1 .. n /\ t[k + 1] = s[k]
      BY <1>1, <3>1 DEF k
    <3> QED  BY <2>1, <3>1, <3>2 DEF k
  <2>2. CASE i = n + 1
    <3>1. (n + 1 - i) + 1 = 1 /\ ~(i <= n)
      BY <1>1, <2>2
    <3> QED  BY <1>1, <3>1
  <2>3. i <= n \/ i = n + 1
    BY <1>1
  <2> QED  BY <2>1, <2>2, <2>3
<1>6. Reverse(<<>>) = <<>>
  BY DEF Reverse
<1> QED  BY <1>2, <1>4, <1>5, <1>6 DEF t

\* itoa.
LEMMA ItoaWritten ==
    ASSUME NEW base \in {10, 16}
    PROVE  \A v \in Words : itoa(v, base) \in Seq(Chars) /\ IsNumeral(itoa(v, base), base, v)
<1> DEFINE LowChar(d) == IF d < 10 THEN DigitChar(d) ELSE d - 10 + 97
           char == [v \in Words |-> LowChar(v % base)]
           digit == [d \in 0 .. base - 1 |-> LowChar(d)]
           IsLow(f) == f = [m \in Words |->
                <<LowChar(m % base)>> \o (IF m \div base # 0 THEN f[m \div base] ELSE <<>>)]
           Low == CHOOSE f : IsLow(f)
<1>0. /\ \A v \in Words : v % base \in 0 .. base - 1
      /\ \A v \in Words : v \div base # 0 <=> v >= base
      /\ \A v \in Words : v >= base => v \div base \in Words
      /\ base \in Nat
  BY Ranges
<1>1. \A d \in 0 .. base - 1 : LowChar(d) \in Nat
  BY DEF DigitChar
<1>2. digit \in [0 .. base - 1 -> Chars] /\ \A d \in 0 .. base - 1 : DigitOf(digit[d]) = d
  BY DEF DigitChar, Chars, DigitOf
<1>3. \A v \in Words : itoa(v, base) = Reverse(Low[v])
  BY DEF itoa
<1> HIDE DEF LowChar
<1>4. \E f \in [Words -> Seq(Nat)] : IsLow(f)
  <2>1. char \in [Words -> Nat]
    BY <1>0, <1>1
  <2>2. /\ Words \in SUBSET Int /\ WordSize - 1 \in Nat
        /\ \A v \in Words : v <= WordSize - 1 /\ (v >= base => v \div base \in Words)
    BY <1>0, Ranges
  <2>3. PICK f \in [Words -> Seq(Nat)] : QuotientLast(f, Words, base, char)
    <3> HIDE DEF char
    <3> QED  BY <2>1, <2>2, Quotients
  <2>4. \A v \in Words :
            f[v] = <<LowChar(v % base)>> \o (IF v \div base # 0 THEN f[v \div base] ELSE <<>>)
    BY <1>0, <2>3 DEF QuotientLast
  <2> HIDE DEF char
  <2> QED  BY <2>4
<1>5. IsLow(Low)
  BY <1>4
<1> HIDE DEF Low
<1>6. \A v \in Words :
        Low[v] = <<LowChar(v % base)>> \o (IF v >= base THEN Low[v \div base] ELSE <<>>)
  BY <1>0, <1>5
<1> HIDE DEF IsLow
<1>7. \A v \in Words : Low[v] \in Seq(Nat)
  <2> DEFINE bad == {v \in Words : Low[v] \notin Seq(Nat)}
  <2> SUFFICES ASSUME bad # {}  PROVE FALSE
    OBVIOUS
  <2>1. PICK v \in bad : \A k \in bad : v <= k
    <3>1. bad \in SUBSET Nat
      BY Ranges
    <3> HIDE DEF bad
    <3> QED  BY <3>1, LeastNat
  <2>2. v \div base < v \/ ~(v >= base)
    BY Ranges, <2>1
  <2>3. v >= base => Low[v \div base] \in Seq(Nat)
    BY <1>0, <2>1, <2>2, Ranges
  <2>4. LowChar(v % base) \in Nat
    BY <1>0, <1>1, <2>1
  <2>5. Low[v] = <<LowChar(v % base)>> \o (IF v >= base THEN Low[v \div base] ELSE <<>>)
    BY <1>6, <2>1
  <2>6. Low[v] \in Seq(Nat)
    BY <2>3, <2>4, <2>5
  <2> QED  BY <2>1, <2>6
<1> DEFINE f == [v \in Words |-> Reverse(Low[v])]
<1>8. ASSUME NEW v \in 0 .. WordSize - 1
      PROVE  f[v] = (IF v >= base THEN f[v \div base] ELSE <<>>) \o <<digit[v % base]>>
  <2>1. v \in Words /\ v % base \in 0 .. base - 1 /\ (v >= base => v \div base \in Words)
    BY <1>0, Ranges
  <2>2. digit[v % base] = LowChar(v % base) /\ LowChar(v % base) \in Nat
    BY <1>1, <2>1
  <2> HIDE DEF digit
  <2>3. CASE v >= base
    <3>1. Low[v] = <<LowChar(v % base)>> \o Low[v \div base] /\ Low[v \div base] \in Seq(Nat)
      BY <1>6, <1>7, <2>1, <2>3
    <3>2. Reverse(Low[v]) = Reverse(Low[v \div base]) \o <<LowChar(v % base)>>
      BY <2>2, <3>1, Turned
    <3> QED  BY <2>1, <2>2, <2>3, <3>2
  <2>4. CASE ~(v >= base)
    <3>1. <<>> \in Seq(Nat)
      OBVIOUS
    <3>3. Low[v] = <<LowChar(v % base)>> \o <<>>
      BY <1>6, <2>1, <2>4
    <3>2. Reverse(Low[v]) = <<>> \o <<LowChar(v % base)>>
      BY <2>2, <3>1, <3>3, Turned
    <3> QED  BY <2>1, <2>2, <2>4, <3>2
  <2> QED  BY <2>3, <2>4
<1>9. \A v \in 0 .. WordSize - 1 : f[v] \in Seq(Chars) /\ IsNumeral(f[v], base, v)
  <2> HIDE DEF f, digit
  <2> QED  BY <1>2, <1>8, Ranges, Written
<1> QED  BY <1>3, <1>9, Ranges

-----------------------------------------------------------------------------
(* atoi with %d. *)

Digit(i, s) == IF i \in 1 .. Len(s) THEN s[i] - 48 ELSE 0

\* a[i] is out and pow when the characters behind i have been read.
AfterIs(a, s) ==
    a = [i \in 0 .. Len(s) |->
            IF i = Len(s) THEN [out |-> 0, pow |-> 1]
            ELSE IF ~(\A j \in i + 1 .. Len(s) : isdigit(s[j])) THEN a[i + 1]
            ELSE [out |-> Word(a[i + 1].out + (s[i + 1] - 48) * a[i + 1].pow),
                  pow |-> Word(a[i + 1].pow * 10)]]

\* 0 and 1 are words, and words are integers.
LEMMA SmallWords == Words \in SUBSET Int /\ 0 \in Words /\ 1 \in Words
BY NumeralsAssumption DEF Words

\* The states of atoi's loop exist, whatever the text.
LEMMA AfterExists == ASSUME NEW s \in Seq(Nat)  PROVE \E a : AfterIs(a, s)
<1> DEFINE n == Len(s)
           D == 0 .. n
           V == [out : Words, pow : Words]
           rank == [i \in D |-> n - i]
           first == [i \in D |-> [out |-> 0, pow |-> 1]]
           prev == [i \in D |-> i + 1]
           All(i) == \A j \in i + 1 .. n : isdigit(s[j])
           More(i, r) == [out |-> Word(r.out + Digit(i + 1, s) * r.pow), pow |-> Word(r.pow * 10)]
           step == [i \in D |-> [r \in V |-> IF ~All(i) THEN r ELSE More(i, r)]]
<1>1. n \in Nat /\ \A i \in 1 .. n : s[i] \in Nat
  OBVIOUS
<1>2. Words \in SUBSET Int /\ 0 \in Words /\ 1 \in Words
  BY SmallWords
<1>3. \A i \in D : Digit(i + 1, s) \in Int
  BY <1>1 DEF Digit
<1>4. ASSUME NEW i \in D, NEW r \in V  PROVE More(i, r) \in V
  <2>1. r.out \in Int /\ r.pow \in Int /\ Digit(i + 1, s) \in Int
    BY <1>2, <1>3
  <2>2. r.out + Digit(i + 1, s) * r.pow \in Int /\ r.pow * 10 \in Int
    BY <2>1
  <2>3. Word(r.out + Digit(i + 1, s) * r.pow) \in Words /\ Word(r.pow * 10) \in Words
    BY <2>2, WordIs
  <2> QED  BY <2>3
<1>5. step \in [D -> [V -> V]]
  <2> HIDE DEF V, All, More
  <2> QED  BY <1>4
<1>6. rank \in [D -> 0 .. n] /\ {n} \in SUBSET D /\ first \in [D -> V]
  BY <1>1, <1>2
<1>7. \A i \in D \ {n} : prev[i] \in D /\ rank[prev[i]] < rank[i]
  BY <1>1
<1>8. PICK a \in [D -> V] : Recurses(a, D, {n}, first, prev, step)
  <2> HIDE DEF n, D, V, rank, first, prev, step
  <2> QED  BY <1>1, <1>5, <1>6, <1>7, Recursion
<1>9. ASSUME NEW i \in D
      PROVE  a[i] = IF i = n THEN [out |-> 0, pow |-> 1]
                    ELSE IF ~All(i) THEN a[i + 1]
                    ELSE [out |-> Word(a[i + 1].out + (s[i + 1] - 48) * a[i + 1].pow),
                          pow |-> Word(a[i + 1].pow * 10)]
  <2>1. CASE i = n
    BY <1>8, <2>1 DEF Recurses
  <2>2. CASE i # n
    <3>1. i + 1 \in D /\ i + 1 \in 1 .. n /\ prev[i] = i + 1 /\ i \notin {n}
      BY <1>1, <2>2
    <3>2. a[i] = step[i][a[i + 1]] /\ a[i + 1] \in V
      BY <1>8, <3>1 DEF Recurses
    <3>3. a[i] = IF ~All(i) THEN a[i + 1] ELSE More(i, a[i + 1])
      <4> HIDE DEF All, More, V, D
      <4> QED  BY <3>2
    <3>4. Digit(i + 1, s) = s[i + 1] - 48
      BY <3>1 DEF Digit
    <3> HIDE DEF All
    <3> QED  BY <2>2, <3>3, <3>4
  <2> QED  BY <2>1, <2>2
<1> QED  BY <1>9 DEF AfterIs

\* atoi reads what is behind the sign.
LEMMA AtoiDecIs ==
    ASSUME NEW str \in Seq(Nat)
    PROVE  LET neg == str # <<>> /\ str[1] = Minus
               s == IF neg THEN Tail(str) ELSE str
           IN  /\ s \in Seq(Nat)
               /\ \E a : /\ AfterIs(a, s)
                         /\ atoiDec(str) = Signed(IF neg THEN -a[0].out ELSE a[0].out)
<1> DEFINE neg == str # <<>> /\ str[1] = Minus
           s == IF neg THEN Tail(str) ELSE str
           a == CHOOSE b : AfterIs(b, s)
<1>1. s \in Seq(Nat)
  OBVIOUS
<1>2. AfterIs(a, s)
  <2> HIDE DEF s
  <2> QED  BY <1>1, AfterExists
<1>3. atoiDec(str) = Signed(IF neg THEN -a[0].out ELSE a[0].out)
  BY DEF atoiDec, AfterIs
<1> HIDE DEF a
<1> QED  BY <1>1, <1>2, <1>3

\* What has been read, and what the rest stands for, together denote the text.
LEMMA DecDigits ==
    ASSUME NEW s \in Seq(48 .. 57), NEW a, AfterIs(a, s)
    PROVE  a[0].out = Word(Value(s, 10)) /\ Value(s, 10) \in Nat
<1> DEFINE n == Len(s)
<1>0. n \in Nat /\ s \in Seq(Chars)
  BY DEF Chars
<1>1. PICK v \in [0 .. n -> Nat] : ValueIs(v, s, 10)
  <2> HIDE DEF n
  <2> QED  BY <1>0, ValueKept DEF n
<1>2. Value(s, 10) = v[n] /\ v[n] \in Nat
  <2>1. n \in 0 .. n /\ 10 \in Nat
    BY <1>0
  <2>2. Value(s, 10) = v[n]
    BY <1>0, <1>1, <2>1, ValueKept
  <2> QED  BY <2>1, <2>2
<1>3. v[0] = 0 /\ \A i \in 0 .. n - 1 : v[i + 1] = v[i] * 10 + (s[i + 1] - 48) /\ s[i + 1] - 48 \in Int
  <2>1. \A i \in 0 .. n : v[i] = IF i = 0 THEN 0 ELSE v[i - 1] * 10 + DigitOf(s[i])
    BY <1>1 DEF ValueIs
  <2>2. v[0] = 0
    BY <1>0, <2>1
  <2>3. ASSUME NEW i \in 0 .. n - 1
        PROVE  v[i + 1] = v[i] * 10 + (s[i + 1] - 48) /\ s[i + 1] - 48 \in Int
    <3>1. i + 1 \in 0 .. n /\ i + 1 # 0 /\ (i + 1) - 1 = i /\ s[i + 1] \in 48 .. 57
      BY <1>0
    <3>2. DigitOf(s[i + 1]) = s[i + 1] - 48
      BY <3>1, DecChars
    <3> QED  BY <2>1, <3>1, <3>2
  <2> QED  BY <2>2, <2>3
<1>4. /\ a[n] = [out |-> 0, pow |-> 1]
      /\ \A i \in 0 .. n - 1 :
            a[i] = [out |-> Word(a[i + 1].out + (s[i + 1] - 48) * a[i + 1].pow),
                    pow |-> Word(a[i + 1].pow * 10)]
  <2>1. \A i \in 0 .. n - 1 : \A j \in i + 1 .. n : isdigit(s[j])
    BY <1>0 DEF isdigit
  <2> QED  BY <1>0, <2>1 DEF AfterIs
<1> DEFINE Right(k) == /\ a[n - k].out \in Words /\ a[n - k].pow \in Words
                       /\ Word(v[n - k] * a[n - k].pow + a[n - k].out) = Word(v[n])
           bad == {k \in 0 .. n : ~Right(k)}
<1>5. Words \in SUBSET Int /\ 0 \in Words /\ 1 \in Words
  BY SmallWords
<1>6. Right(0)
  BY <1>0, <1>2, <1>4, <1>5
<1>7. ASSUME NEW k \in 0 .. n - 1, Right(k)  PROVE Right(k + 1)
  <2> DEFINE i == n - (k + 1)
             o == a[n - k].out
             p == a[n - k].pow
             d == s[i + 1] - 48
             x == v[i]
  <2>1. i \in 0 .. n - 1 /\ i + 1 = n - k
    BY <1>0
  <2>2. o \in Int /\ p \in Int /\ Word(v[n - k] * p + o) = Word(v[n])
    BY <1>5, <1>7
  <2>3. a[i].out = Word(o + d * p) /\ a[i].pow = Word(p * 10) /\ d \in Int
    <3>1. a[i] = [out |-> Word(a[i + 1].out + (s[i + 1] - 48) * a[i + 1].pow),
                  pow |-> Word(a[i + 1].pow * 10)]
      BY <1>4, <2>1
    <3>2. a[i] = [out |-> Word(o + d * p), pow |-> Word(p * 10)]
      BY <2>1, <3>1
    <3>3. d \in Int
      BY <1>3, <2>1
    <3> HIDE DEF i, o, p, d
    <3> QED  BY <3>2, <3>3
  <2>4. v[n - k] = x * 10 + d /\ x \in Int
    <3>1. v[i + 1] = x * 10 + d
      BY <1>3, <2>1
    <3>2. i \in 0 .. n
      BY <1>0, <2>1
    <3>3. x \in Nat
      BY <1>1, <3>2
    <3> HIDE DEF i, d, x
    <3> QED  BY <2>1, <3>1, <3>3
  <2> HIDE DEF o, p, d, x
  <2>5. o + d * p \in Int /\ p * 10 \in Int /\ x * (p * 10) \in Int /\ (p * 10) * x = x * (p * 10)
    BY <2>2, <2>3, <2>4
  <2>6. Word(o + d * p) \in Words /\ Word(p * 10) \in Words
    BY <2>5, WordIs
  <2>7. Word(Word(p * 10) * x + Word(o + d * p)) = Word((p * 10) * x + (o + d * p))
    <3> DEFINE P == p * 10
               O == o + d * p
    <3>1. P \in Int /\ O \in Int /\ Word(P) \in Int /\ Word(O) \in Int
      BY <1>5, <2>5, <2>6
    <3> HIDE DEF P, O
    <3>2. Word(P) * x \in Int /\ P * x \in Int /\ Word(P * x) \in Int
      <4>1. Word(P) * x \in Int /\ P * x \in Int
        BY <2>4, <3>1
      <4> QED  BY <1>5, <4>1, WordIs
    <3>3. Word(Word(P) * x + Word(O)) = Word(Word(Word(P) * x) + Word(O))
      BY <3>1, <3>2, WordSum
    <3>4. Word(Word(P) * x) = Word(P * x)
      BY <2>4, <3>1, WordProduct
    <3>5. Word(Word(P * x) + Word(O)) = Word(P * x + Word(O))
      BY <3>1, <3>2, WordSum
    <3>6. Word(Word(O) + P * x) = Word(O + P * x)
      BY <3>1, <3>2, WordSum
    <3>7. P * x + Word(O) = Word(O) + P * x /\ O + P * x = P * x + O
      BY <3>1, <3>2
    <3> QED  BY <3>3, <3>4, <3>5, <3>6, <3>7 DEF P, O
  <2>8. (p * 10) * x + (o + d * p) = v[n - k] * p + o
    BY <2>2, <2>3, <2>4
  <2>9. x * Word(p * 10) = Word(p * 10) * x
    <3> DEFINE P == Word(p * 10)
    <3>1. P \in Int
      BY <1>5, <2>6
    <3> HIDE DEF P
    <3>2. x * P = P * x
      BY <2>4, <3>1
    <3> QED  BY <3>2 DEF P
  <2> QED  BY <2>2, <2>3, <2>6, <2>7, <2>8, <2>9 DEF x
<1>8. bad = {}
  <2> SUFFICES ASSUME bad # {}  PROVE FALSE
    OBVIOUS
  <2>1. PICK k \in bad : \A j \in bad : k <= j
    <3>1. bad \in SUBSET Nat
      OBVIOUS
    <3> HIDE DEF bad
    <3> QED  BY <3>1, LeastNat
  <2> HIDE DEF Right
  <2>2. k # 0
    BY <1>6, <2>1
  <2>3. k - 1 \in 0 .. n - 1 /\ Right(k - 1)
    BY <1>0, <2>1, <2>2
  <2> QED  BY <1>7, <2>1, <2>3
<1>9. Right(n)
  <2> HIDE DEF Right
  <2> QED  BY <1>0, <1>8
<1>10. a[0].out \in Words /\ a[0].pow \in Words /\ Word(v[0] * a[0].pow + a[0].out) = Word(v[n])
  BY <1>0, <1>9
<1>11. v[0] * a[0].pow + a[0].out = a[0].out
  <2> DEFINE o == a[0].out
             p == a[0].pow
  <2>1. o \in Int /\ p \in Int
    BY <1>5, <1>10
  <2> HIDE DEF o, p
  <2>2. 0 * p + o = o
    BY <2>1
  <2> QED  BY <1>3, <2>2 DEF o, p
<1> QED  BY <1>2, <1>10, <1>11, SignedFacts

\* In front of a character that is no digit nothing is read.
LEMMA DecEnding ==
    ASSUME NEW s \in Seq(Nat), NEW a, AfterIs(a, s), NEW k \in 1 .. Len(s), ~isdigit(s[k])
    PROVE  a[0] = a[k]
<1> DEFINE bad == {m \in 0 .. k : a[k - m] # a[k]}
<1>1. ASSUME bad # {}  PROVE FALSE
  <2>1. PICK m \in bad : \A j \in bad : m <= j
    <3>1. bad \in SUBSET Nat
      OBVIOUS
    <3> HIDE DEF bad
    <3> QED  BY <1>1, <3>1, LeastNat
  <2>2. k \in Nat /\ m \in 0 .. k /\ a[k - m] # a[k]
    BY <2>1
  <2>3. m # 0
    BY <2>2
  <2>4. m - 1 \in 0 .. k /\ m - 1 \notin bad
    BY <2>1, <2>2, <2>3
  <2> DEFINE i == k - m
  <2>5. i \in 0 .. Len(s) /\ i # Len(s) /\ i + 1 = k - (m - 1) /\ k \in i + 1 .. Len(s)
    BY <2>2, <2>3
  <2>6. a[i] = a[i + 1]
    BY <2>5 DEF AfterIs
  <2>7. a[k - (m - 1)] = a[k]
    BY <2>4
  <2> HIDE DEF i, bad
  <2>8. a[i] = a[k]
    BY <2>5, <2>6, <2>7
  <2> QED  BY <2>2, <2>8 DEF i
<1>2. k \in 0 .. k /\ k - k = 0
  OBVIOUS
<1>3. k \notin bad
  BY <1>1
<1> QED  BY <1>2, <1>3

\* Behind a number that is read with %d only what is behind the last character
\* that is no digit counts.
Rest(e) == IF isdigit(Last(e)) THEN Value(<<Last(e)>>, 10) ELSE 0

LEMMA RestIs ==
    /\ Endings \ {<<>>} = {<<32>>, <<32, 49>>, <<103>>}
    /\ Rest(<<32>>) = 0 /\ Rest(<<103>>) = 0 /\ Rest(<<32, 49>>) = 1
<1>1. Endings \ {<<>>} = {<<32>>, <<32, 49>>, <<103>>}
  <2>1. \A c : <<c>> # <<>>
    OBVIOUS
  <2>2. <<32, 49>> # <<>>
    OBVIOUS
  <2> QED  BY <2>1, <2>2 DEF Endings
<1>2. Last(<<32>>) = 32 /\ Last(<<103>>) = 103 /\ Last(<<32, 49>>) = 49
  BY DEF Last
<1>3. ~isdigit(32) /\ ~isdigit(103) /\ isdigit(49)
  BY DEF isdigit
<1>4. Value(<<49>>, 10) = 1
  <2>1. Append(<<>>, 49) = <<49>> /\ <<>> \in Seq(Chars) /\ 49 \in Chars
    BY DEF Chars
  <2>2. DigitOf(49) = 1
    BY DecChars
  <2>3. Value(<<>>, 10) = 0
    BY ValueEmpty
  <2>4. Value(Append(<<>>, 49), 10) = Value(<<>>, 10) * 10 + DigitOf(49)
    BY <2>1, ValueAppend
  <2> QED  BY <2>1, <2>2, <2>3, <2>4
<1> QED  BY <1>1, <1>2, <1>3, <1>4 DEF Rest

\* A number in front of an ending adds nothing to what is read.
LEMMA RestRead ==
    ASSUME NEW n \in Seq(Nat), NEW e \in Endings \ {<<>>}, NEW a, AfterIs(a, n \o e)
    PROVE  a[0].out = Rest(e)
<1> DEFINE s == n \o e
           L == Len(n)
<1>1. L \in Nat /\ Word(1) = 1
  BY SmallWords, SignedFacts
<1>2. CASE e \in {<<32>>, <<103>>}
  <2>1. PICK c \in {32, 103} : e = <<c>>
    BY <1>2
  <2>2. s \in Seq(Nat) /\ Len(s) = L + 1 /\ s[L + 1] = c
    BY <1>1, <2>1
  <2>3. ~isdigit(c)
    BY <2>1 DEF isdigit
  <2> HIDE DEF s
  <2>4. AfterIs(a, s)
    BY DEF s
  <2>5. a[0] = a[L + 1]
    BY <1>1, <2>2, <2>3, <2>4, DecEnding
  <2>6. a[L + 1] = [out |-> 0, pow |-> 1]
    BY <1>1, <2>2, <2>4 DEF AfterIs
  <2>7. Rest(e) = 0
    BY <1>2, RestIs
  <2> QED  BY <2>5, <2>6, <2>7
<1>3. CASE e = <<32, 49>>
  <2>1. s \in Seq(Nat) /\ Len(s) = L + 2 /\ s[L + 1] = 32 /\ s[L + 2] = 49
    BY <1>1, <1>3
  <2>2. ~isdigit(32) /\ isdigit(49)
    BY DEF isdigit
  <2> HIDE DEF s
  <2>3. AfterIs(a, s)
    BY DEF s
  <2>4. a[0] = a[L + 1]
    BY <1>1, <2>1, <2>2, <2>3, DecEnding
  <2>5. a[L + 2] = [out |-> 0, pow |-> 1]
    BY <1>1, <2>1, <2>3 DEF AfterIs
  <2>6. \A j \in (L + 1) + 1 .. L + 2 : isdigit(s[j])
    BY <1>1, <2>1, <2>2
  <2>7. a[L + 1] = [out |-> Word(a[(L + 1) + 1].out + (s[(L + 1) + 1] - 48) * a[(L + 1) + 1].pow),
                    pow |-> Word(a[(L + 1) + 1].pow * 10)]
    <3>1. L + 1 \in 0 .. Len(s) /\ L + 1 # Len(s) /\ Len(s) = L + 2
      BY <1>1, <2>1
    <3>2. \A j \in (L + 1) + 1 .. Len(s) : isdigit(s[j])
      BY <2>6, <3>1
    <3> DEFINE i == L + 1
    <3>3. i \in 0 .. Len(s) /\ i # Len(s) /\ \A j \in i + 1 .. Len(s) : isdigit(s[j])
      BY <3>1, <3>2
    <3> HIDE DEF i, L
    <3>4. a[i] = [out |-> Word(a[i + 1].out + (s[i + 1] - 48) * a[i + 1].pow),
                  pow |-> Word(a[i + 1].pow * 10)]
      BY <2>3, <3>3 DEF AfterIs
    <3> QED  BY <3>4 DEF i
  <2>8. (L + 1) + 1 = L + 2
    BY <1>1
  <2>9. a[L + 1].out = Word(0 + (49 - 48) * 1)
    BY <2>1, <2>5, <2>7, <2>8
  <2>10. Rest(e) = 1
    BY <1>3, RestIs
  <2> QED  BY <1>1, <2>4, <2>9, <2>10
<1> QED  BY <1>2, <1>3, RestIs

\* A number of decimal digits, with a sign or without, and with or without
\* something behind it.
LEMMA DecRead ==
    ASSUME NEW n \in Seq(48 .. 57), n # <<>>
    PROVE  /\ Value(n, 10) \in Nat
           /\ atoiDec(n) = Signed(Value(n, 10))
           /\ atoiDec(<<Minus>> \o n) = Signed(-Value(n, 10))
           /\ \A e \in Endings \ {<<>>} :
                /\ atoiDec(n \o e) = Rest(e)
                /\ atoiDec((<<Minus>> \o n) \o e) = -Rest(e)
<1>1. \A e \in Endings : e \in Seq(Nat)
  <2>1. <<>> \in Seq(Nat) /\ <<32>> \in Seq(Nat) /\ <<103>> \in Seq(Nat) /\ <<32, 49>> \in Seq(Nat)
    OBVIOUS
  <2> QED  BY <2>1 DEF Endings
<1>2. n \in Seq(Nat) /\ n[1] \in 48 .. 57
  BY EmptySeq
<1>3. \A e \in Endings : (n \o e) \in Seq(Nat) /\ (n \o e) # <<>> /\ (n \o e)[1] = n[1]
  BY <1>1, <1>2
<1>4. ASSUME NEW s \in Seq(Nat), s # <<>>, s[1] \in 48 .. 57
      PROVE  /\ \E a : AfterIs(a, s) /\ atoiDec(s) = Signed(a[0].out)
             /\ \E a : AfterIs(a, s) /\ atoiDec(<<Minus>> \o s) = Signed(-a[0].out)
  <2>1. s[1] # Minus
    BY <1>4 DEF Minus
  <2>2. /\ <<Minus>> \o s \in Seq(Nat) /\ <<Minus>> \o s # <<>>
        /\ (<<Minus>> \o s)[1] = Minus /\ Tail(<<Minus>> \o s) = s
    BY DEF Minus
  <2>3. \E a : AfterIs(a, s) /\ atoiDec(s) = Signed(a[0].out)
    BY <2>1, AtoiDecIs
  <2> DEFINE str == <<Minus>> \o s
  <2>4. \E a : AfterIs(a, Tail(str)) /\ atoiDec(str) = Signed(-a[0].out)
    <3> HIDE DEF str
    <3> QED  BY <2>2, AtoiDecIs DEF str
  <2> QED  BY <2>2, <2>3, <2>4
<1>5. Value(n, 10) \in Nat /\ \A a : AfterIs(a, n) => a[0].out = Word(Value(n, 10))
  <2>1. \E a : AfterIs(a, n)
    BY <1>2, AfterExists
  <2> QED  BY <2>1, DecDigits
<1>6. atoiDec(n) = Signed(Value(n, 10))
  BY <1>2, <1>4, <1>5, SignedFacts
<1>7. atoiDec(<<Minus>> \o n) = Signed(-Value(n, 10))
  <2> DEFINE V == Value(n, 10)
  <2>1. atoiDec(<<Minus>> \o n) = Signed(-Word(V))
    BY <1>2, <1>4, <1>5
  <2>2. V \in Int /\ Word(V) \in Int
    <3>1. V \in Int
      BY <1>5
    <3> HIDE DEF V
    <3> QED  BY <3>1, WordIs, SmallWords
  <2> HIDE DEF V
  <2>3. Word(Word(V) * (-1)) = Word(V * (-1))
    BY <2>2, WordProduct
  <2>4. Word(V) * (-1) = -Word(V) /\ V * (-1) = -V /\ -Word(V) \in Int /\ -V \in Int
    BY <2>2
  <2>5. Signed(-Word(V)) = Signed(-V)
    BY <2>3, <2>4, SignedFacts
  <2> QED  BY <2>1, <2>5 DEF V
<1>8. ASSUME NEW e \in Endings \ {<<>>}
      PROVE  atoiDec(n \o e) = Rest(e) /\ atoiDec((<<Minus>> \o n) \o e) = -Rest(e)
  <2>1. \A a : AfterIs(a, n \o e) => a[0].out = Rest(e)
    BY <1>2, RestRead
  <2>2. atoiDec(n \o e) = Signed(Rest(e)) /\ atoiDec(<<Minus>> \o (n \o e)) = Signed(-Rest(e))
    BY <1>2, <1>3, <1>4, <2>1
  <2>3. Rest(e) \in {0, 1}
    BY RestIs
  <2>4. \A r \in {-1, 0, 1} : r \in Ints
    BY Ranges, NumeralsAssumption
  <2>5. Signed(Rest(e)) = Rest(e) /\ Signed(-Rest(e)) = -Rest(e)
    BY <2>3, <2>4, SignedFacts
  <2>6. (<<Minus>> \o n) \o e = <<Minus>> \o (n \o e)
    BY <1>1, <1>2 DEF Minus
  <2> QED  BY <2>2, <2>5, <2>6
<1> QED  BY <1>5, <1>6, <1>7, <1>8

-----------------------------------------------------------------------------
(* atoi with %x. *)

\* The digits %x reads are those that numerals are written with.
LEMMA HexChars ==
    /\ \A c \in Chars : ishex(c) /\ HexDigit(c) = DigitOf(c)
    /\ ~ishex(32) /\ ~ishex(103)
<1>1. ASSUME NEW c \in 48 .. 57  PROVE ishex(c) /\ HexDigit(c) = DigitOf(c)
  <2>1. toupper(c) = c /\ isdigit(c)
    BY DEF toupper, islower, isdigit
  <2> QED  BY <2>1, DecChars DEF ishex, HexDigit
<1>2. ASSUME NEW c \in 65 .. 70  PROVE ishex(c) /\ HexDigit(c) = DigitOf(c)
  <2>1. toupper(c) = c /\ ~isdigit(c)
    BY DEF toupper, islower, isdigit
  <2>2. DigitOf(c) = c - 55
    BY DEF DigitOf
  <2> QED  BY <2>1, <2>2 DEF ishex, HexDigit
<1>3. ASSUME NEW c \in 97 .. 102  PROVE ishex(c) /\ HexDigit(c) = DigitOf(c)
  <2>1. toupper(c) = c - 32 /\ ~isdigit(c - 32) /\ c - 32 \in 65 .. 70
    BY DEF toupper, islower, isdigit
  <2>2. DigitOf(c) = c - 87
    BY DEF DigitOf
  <2> QED  BY <2>1, <2>2 DEF ishex, HexDigit
<1>4. ~ishex(32) /\ ~ishex(103)
  BY DEF ishex, toupper, islower, isdigit
<1> QED  BY <1>1, <1>2, <1>3, <1>4 DEF Chars

PowerIs(f, n) == f = [e \in 0 .. n |-> IF e = 0 THEN 1 ELSE Word(f[e - 1] * 16)]

\* The weights are what the loop of power computes.
LEMMA PowerKept ==
    ASSUME NEW n \in Nat
    PROVE  \E f : PowerIs(f, n) /\ Weight(n) = f[n]
<1> DEFINE D == 0 .. n
           rank == [e \in D |-> e]
           first == [e \in D |-> 1]
           prev == [e \in D |-> e - 1]
           step == [e \in D |-> [x \in Words |-> Word(x * 16)]]
<1>1. rank \in [D -> 0 .. n] /\ {0} \in SUBSET D /\ first \in [D -> Words]
  BY SmallWords
<1>2. \A e \in D \ {0} : prev[e] \in D /\ rank[prev[e]] < rank[e]
  OBVIOUS
<1>3. step \in [D -> [Words -> Words]]
  <2>1. ASSUME NEW x \in Words  PROVE Word(x * 16) \in Words
    <3>1. x * 16 \in Int
      BY SmallWords
    <3> QED  BY <3>1, WordIs
  <2> QED  BY <2>1
<1>4. PICK f \in [D -> Words] : Recurses(f, D, {0}, first, prev, step)
  <2> HIDE DEF D, rank, first, prev, step
  <2> QED  BY <1>1, <1>2, <1>3, Recursion
<1>5. PowerIs(f, n)
  <2>1. ASSUME NEW e \in D, e # 0  PROVE f[e] = Word(f[e - 1] * 16)
    <3>1. e - 1 \in D /\ prev[e] = e - 1 /\ e \notin {0}
      BY <2>1
    <3>2. f[e] = step[e][f[e - 1]]
      BY <1>4, <3>1 DEF Recurses
    <3>3. f[e - 1] \in Words
      BY <1>4, <3>1
    <3> QED  BY <3>2, <3>3
  <2>2. f[0] = 1
    BY <1>4 DEF Recurses
  <2>3. f = [e \in D |-> f[e]]
    BY <1>4
  <2>4. \A e \in D : f[e] = IF e = 0 THEN 1 ELSE Word(f[e - 1] * 16)
    BY <2>1, <2>2
  <2> QED  BY <2>3, <2>4 DEF PowerIs
<1> DEFINE g == CHOOSE h : PowerIs(h, n)
<1>6. PowerIs(g, n)
  BY <1>5
<1>7. n # 0 => Weight(n) = g[n]
  BY DEF Weight, power, PowerIs
<1> HIDE DEF g
<1>8. Weight(0) = 1 /\ g[0] = 1
  BY <1>6 DEF Weight, PowerIs
<1> QED  BY <1>6, <1>7, <1>8

\* Every digit weighs sixteen times the one behind it.
LEMMA Weights ==
    ASSUME NEW n \in Nat
    PROVE  Weight(0) = 1 /\ Weight(n) \in Words /\ Weight(n + 1) = Word(Weight(n) * 16)
<1>0. Weight(0) = 1
  BY DEF Weight
<1>1. PICK f : PowerIs(f, n) /\ Weight(n) = f[n]
  BY PowerKept
<1>2. PICK g : PowerIs(g, n + 1) /\ Weight(n + 1) = g[n + 1]
  BY PowerKept
<1> DEFINE D == 0 .. n
           rank == [e \in D |-> e]
<1>3. /\ \A e \in D : f[e] = IF e = 0 THEN 1 ELSE Word(f[e - 1] * 16)
      /\ \A e \in 0 .. n + 1 : g[e] = IF e = 0 THEN 1 ELSE Word(g[e - 1] * 16)
  BY <1>1, <1>2 DEF PowerIs
<1>4. \A e \in D : f[e] = g[e]
  <2>1. rank \in [D -> Nat]
    OBVIOUS
  <2>2. ASSUME NEW e \in D, \A d \in D : rank[d] < rank[e] => f[d] = g[d]  PROVE f[e] = g[e]
    <3>1. e # 0 => e - 1 \in D /\ rank[e - 1] < rank[e]
      OBVIOUS
    <3>2. e # 0 => f[e - 1] = g[e - 1]
      BY <2>2, <3>1
    <3>3. e \in 0 .. n + 1
      OBVIOUS
    <3> QED  BY <1>3, <3>2, <3>3
  <2>3. Determined(f, g, D, rank)
    BY <2>2 DEF Determined
  <2> HIDE DEF D, rank
  <2> QED  BY <2>1, <2>3, SameFunction
<1>5. g[n + 1] = Word(g[n] * 16) /\ g[n] = f[n]
  <2>1. n + 1 \in 0 .. n + 1 /\ n + 1 # 0 /\ (n + 1) - 1 = n /\ n \in D
    OBVIOUS
  <2> QED  BY <1>3, <1>4, <2>1
<1> DEFINE bad == {e \in D : f[e] \notin Words}
<1>6. bad = {}
  <2> SUFFICES ASSUME bad # {}  PROVE FALSE
    OBVIOUS
  <2>1. PICK e \in bad : \A k \in bad : e <= k
    <3>1. bad \in SUBSET Nat
      OBVIOUS
    <3> HIDE DEF bad
    <3> QED  BY <3>1, LeastNat
  <2>2. e # 0
    BY <1>3, <2>1, SmallWords
  <2>3. e - 1 \in D /\ f[e - 1] \in Words
    BY <2>1, <2>2
  <2>4. f[e - 1] * 16 \in Int
    <3>1. f[e - 1] \in Int
      BY <2>3, SmallWords
    <3> QED  BY <3>1
  <2>5. Word(f[e - 1] * 16) \in Words
    BY <2>4, WordIs
  <2> QED  BY <1>3, <2>1, <2>2, <2>5
<1> QED  BY <1>0, <1>1, <1>2, <1>5, <1>6

\* The first character that is no digit is the first one of the ending.
LEMMA HexDepth ==
    ASSUME NEW t \in Seq(Chars), NEW e \in Endings
    PROVE  LET end == SelectInSeq(t \o e, LAMBDA c : ~ishex(c))
           IN  (IF end = 0 THEN Len(t \o e) ELSE end - 1) = Len(t)
<1> DEFINE s == t \o e
           n == Len(t)
           I == {i \in 1 .. Len(s) : ~ishex(s[i])}
<1>0. n \in Nat /\ \A i \in 1 .. n : t[i] \in Chars
  OBVIOUS
<1>1. SelectInSeq(s, LAMBDA c : ~ishex(c)) = IF I # {} THEN Min(I) ELSE 0
  BY DEF SelectInSeq
<1>2. CASE e = <<>>
  <2>1. s = t
    BY <1>2
  <2>2. I = {}
    BY <1>0, <2>1, HexChars
  <2> HIDE DEF I
  <2> QED  BY <1>1, <2>1, <2>2
<1>3. CASE e # <<>>
  <2>1. e \in {<<32>>, <<32, 49>>, <<103>>}
    BY <1>3 DEF Endings
  <2>2. e \in Seq(Nat) /\ Len(e) >= 1 /\ e[1] \in {32, 103}
    <3>1. CASE e = <<32>>
      BY <3>1
    <3>2. CASE e = <<103>>
      BY <3>2
    <3>3. CASE e = <<32, 49>>
      <4>1. Len(<<32, 49>>) = 2 /\ <<32, 49>>[1] = 32 /\ <<32, 49>> \in Seq(Nat)
        OBVIOUS
      <4> QED  BY <3>3, <4>1
    <3> QED  BY <2>1, <3>1, <3>2, <3>3
  <2>3. Len(s) >= n + 1 /\ Len(s) \in Nat /\ s[n + 1] = e[1] /\ \A i \in 1 .. n : s[i] = t[i]
    BY <1>0, <2>2
  <2> HIDE DEF s
  <2>4. n + 1 \in I /\ \A i \in I : n + 1 <= i
    <3>1. ~ishex(s[n + 1])
      <4>1. \A c \in {32, 103} : ~ishex(c)
        BY HexChars
      <4> QED  BY <2>2, <2>3, <4>1
    <3>2. \A i \in 1 .. n : ishex(s[i])
      BY <1>0, <2>3, HexChars
    <3>3. n + 1 \in 1 .. Len(s)
      BY <1>0, <2>3
    <3>4. \A i \in 1 .. Len(s) : i \in 1 .. n \/ n + 1 <= i
      BY <1>0, <2>3
    <3> QED  BY <3>1, <3>2, <3>3, <3>4
  <2>5. I \in SUBSET Nat
    OBVIOUS
  <2> HIDE DEF I
  <2>6. Min(I) = n + 1
    <3> DEFINE m == CHOOSE m \in I : \A y \in I : m <= y
    <3>1. m \in I /\ \A y \in I : m <= y
      BY <2>4
    <3>2. Min(I) = m
      BY DEF Min
    <3> HIDE DEF m
    <3>3. m <= n + 1 /\ n + 1 <= m /\ m \in Nat
      BY <2>4, <2>5, <3>1
    <3> QED  BY <1>0, <3>2, <3>3
  <2>7. SelectInSeq(s, LAMBDA c : ~ishex(c)) = n + 1
    BY <1>1, <2>4, <2>6
  <2> QED  BY <1>0, <2>7 DEF s
<1> QED  BY <1>2, <1>3

ResultIs(f, str, n) ==
    f = [i \in 0 .. n |-> IF i = 0 THEN 0
                          ELSE Word(f[i - 1] + HexDigit(str[i]) * Weight(n - i))]

\* The values of out in atoi's loop for %x exist.
LEMMA ResultExists ==
    ASSUME NEW n \in Nat, NEW str, \A i \in 1 .. n : HexDigit(str[i]) \in Int
    PROVE  \E f : ResultIs(f, str, n)
<1> DEFINE D == 0 .. n
           rank == [i \in D |-> i]
           first == [i \in D |-> 0]
           prev == [i \in D |-> i - 1]
           term == [i \in D |-> IF i = 0 THEN 0 ELSE HexDigit(str[i]) * Weight(n - i)]
           step == [i \in D |-> [x \in Words |-> Word(x + term[i])]]
<1>1. rank \in [D -> 0 .. n] /\ {0} \in SUBSET D /\ first \in [D -> Words]
  BY SmallWords
<1>2. \A i \in D \ {0} : prev[i] \in D /\ rank[prev[i]] < rank[i]
  OBVIOUS
<1>3. term \in [D -> Int]
  <2>1. ASSUME NEW i \in D, i # 0  PROVE HexDigit(str[i]) * Weight(n - i) \in Int
    <3>1. n - i \in Nat /\ i \in 1 .. n
      BY <2>1
    <3>2. Weight(n - i) \in Int
      BY <3>1, Weights, SmallWords
    <3>3. HexDigit(str[i]) \in Int
      BY <3>1
    <3> QED  BY <3>2, <3>3
  <2> QED  BY <2>1
<1>4. step \in [D -> [Words -> Words]]
  <2>1. ASSUME NEW i \in D, NEW x \in Words  PROVE Word(x + term[i]) \in Words
    <3>1. x + term[i] \in Int
      <4>1. x \in Int /\ term[i] \in Int
        BY <1>3, SmallWords
      <4> HIDE DEF term
      <4> QED  BY <4>1
    <3> HIDE DEF term
    <3> QED  BY <3>1, WordIs
  <2> QED  BY <2>1
<1>5. PICK f \in [D -> Words] : Recurses(f, D, {0}, first, prev, step)
  <2> HIDE DEF D, rank, first, prev, step
  <2> QED  BY <1>1, <1>2, <1>4, Recursion
<1>6. ASSUME NEW i \in D, i # 0
      PROVE  f[i] = Word(f[i - 1] + HexDigit(str[i]) * Weight(n - i))
  <2>1. i - 1 \in D /\ prev[i] = i - 1 /\ i \notin {0}
    BY <1>6
  <2>2. f[i] = step[i][f[i - 1]]
    BY <1>5, <2>1 DEF Recurses
  <2>3. f[i - 1] \in Words /\ term[i] = HexDigit(str[i]) * Weight(n - i)
    BY <1>5, <1>6, <2>1
  <2> HIDE DEF term
  <2>4. f[i] = Word(f[i - 1] + term[i])
    BY <2>2, <2>3
  <2> QED  BY <2>3, <2>4
<1>7. f[0] = 0 /\ f = [i \in D |-> f[i]]
  BY <1>5 DEF Recurses
<1>8. \A i \in D : f[i] = IF i = 0 THEN 0
                          ELSE Word(f[i - 1] + HexDigit(str[i]) * Weight(n - i))
  BY <1>6, <1>7
<1> QED  BY <1>7, <1>8 DEF ResultIs

\* A number of hexadecimal digits with or without something behind it.
LEMMA HexRead ==
    ASSUME NEW t \in Seq(Chars), NEW e \in Endings
    PROVE  Value(t, 16) \in Nat /\ atoiHex(t \o e) = Signed(Value(t, 16))
<1> DEFINE str == t \o e
           n == Len(t)
           D == 0 .. n
           rank == [i \in D |-> i]
           f == CHOOSE f : ResultIs(f, str, n)
<1>1. n \in Nat /\ \A i \in 1 .. n : str[i] = t[i] /\ t[i] \in Chars
  <2>1. e \in Seq(Nat)
    <3>1. <<>> \in Seq(Nat) /\ <<32>> \in Seq(Nat) /\ <<103>> \in Seq(Nat) /\ <<32, 49>> \in Seq(Nat)
      OBVIOUS
    <3> QED  BY <3>1 DEF Endings
  <2> QED  BY <2>1
<1>2. atoiHex(str) = Signed(f[n])
  BY HexDepth DEF atoiHex, ResultIs
<1> HIDE DEF str
<1>3. \A i \in 1 .. n : HexDigit(str[i]) = DigitOf(t[i]) /\ DigitOf(t[i]) \in Int
  BY <1>1, HexChars, CharDigits
<1>4. ResultIs(f, str, n)
  <2>1. \E r : ResultIs(r, str, n)
    <3> HIDE DEF n
    <3> QED  BY <1>1, <1>3, ResultExists
  <2> QED  BY <2>1
<1> HIDE DEF f
<1>5. PICK v \in [D -> Nat] : ValueIs(v, t, 16)
  BY ValueKept
<1>6. Value(t, 16) = v[n] /\ v[n] \in Nat
  BY <1>1, <1>5, ValueKept
<1> DEFINE g == [i \in D |-> Word(v[i] * Weight(n - i))]
<1>7. ASSUME NEW i \in D, \A j \in D : rank[j] < rank[i] => f[j] = g[j]
      PROVE  f[i] = g[i]
  <2>1. CASE i = 0
    <3>1. f[0] = 0
      BY <1>1, <1>4 DEF ResultIs
    <3>2. v[0] = 0
      BY <1>1, <1>5 DEF ValueIs
    <3>3. n - 0 \in Nat /\ Weight(n - 0) \in Int
      <4>1. n - 0 = n
        BY <1>1
      <4>2. Weight(n) \in Int
        BY <1>1, Weights, SmallWords
      <4> HIDE DEF n
      <4> QED  BY <1>1, <4>1, <4>2
    <3>4. v[0] * Weight(n - 0) = 0
      BY <3>2, <3>3
    <3>5. Word(0) = 0
      BY SmallWords, SignedFacts
    <3>6. g[0] = Word(v[0] * Weight(n - 0))
      BY <1>1
    <3> QED  BY <2>1, <3>1, <3>4, <3>5, <3>6
  <2>2. CASE i # 0
    <3> DEFINE w == Weight(n - i)
               d == DigitOf(t[i])
               a == v[i - 1]
    <3>1. i \in 1 .. n /\ i - 1 \in D /\ rank[i - 1] < rank[i] /\ n - i \in Nat
          /\ n - (i - 1) = (n - i) + 1
      BY <1>1, <2>2
    <3>2. w \in Int /\ Weight(n - (i - 1)) = Word(w * 16)
      BY <3>1, Weights, SmallWords
    <3>3. f[i] = Word(f[i - 1] + d * w)
      BY <1>3, <1>4, <2>2, <3>1 DEF ResultIs
    <3>4. v[i] = a * 16 + d
      BY <1>1, <1>5, <2>2 DEF ValueIs
    <3>5. a \in Int /\ d \in Int
      BY <1>3, <1>5, <3>1
    <3>6. f[i - 1] = Word(a * Word(w * 16))
      BY <1>7, <3>1, <3>2
    <3>7. g[i] = Word(v[i] * w)
      OBVIOUS
    <3> HIDE DEF w, d, a, g
    <3>8. w * 16 \in Int /\ d * w \in Int /\ (w * 16) * a \in Int
      BY <3>2, <3>5
    <3>9. Word(w * 16) \in Int
      BY <3>8, WordIs, SmallWords
    <3>10. a * Word(w * 16) = Word(w * 16) * a
      BY <3>5, <3>9
    <3>11. f[i - 1] = Word((w * 16) * a)
      BY <3>5, <3>6, <3>8, <3>10, WordProduct
    <3>12. f[i] = Word((w * 16) * a + d * w)
      BY <3>3, <3>8, <3>11, WordSum
    <3>13. (w * 16) * a + d * w = (a * 16 + d) * w
      BY <3>2, <3>5
    <3> QED  BY <3>4, <3>7, <3>12, <3>13
  <2> QED  BY <2>1, <2>2
<1>8. \A i \in D : f[i] = g[i]
  <2>1. rank \in [D -> Nat]
    BY <1>1
  <2>2. Determined(f, g, D, rank)
    BY <1>7 DEF Determined
  <2> HIDE DEF D, rank, g
  <2> QED  BY <2>1, <2>2, SameFunction
<1>9. f[n] = Word(v[n])
  <2>1. n \in D /\ n - n = 0 /\ v[n] * 1 = v[n]
    BY <1>1, <1>6
  <2>2. Weight(0) = 1
    BY Weights
  <2> QED  BY <1>8, <2>1, <2>2
<1>10. Signed(f[n]) = Signed(v[n])
  BY <1>6, <1>9, SignedFacts
<1> QED  BY <1>2, <1>6, <1>10 DEF str

-----------------------------------------------------------------------------
(* What is written and what is read, together. *)

\* The characters of a decimal numeral are those that isdigit accepts.
LEMMA DecOnly ==
    ASSUME NEW n \in Seq(Chars), NEW v, IsNumeral(n, 10, v)
    PROVE  n \in Seq(48 .. 57) /\ n # <<>> /\ Value(n, 10) = v
<1>1. \A c \in 65 .. 70 : ~(DigitOf(c) < 10)
  BY DEF DigitOf
<1>2. \A c \in 97 .. 102 : ~(DigitOf(c) < 10)
  BY DEF DigitOf
<1>3. \A i \in 1 .. Len(n) : n[i] \in Chars /\ DigitOf(n[i]) < 10
  BY DEF IsNumeral
<1>4. \A i \in 1 .. Len(n) : n[i] \in 48 .. 57
  BY <1>1, <1>2, <1>3 DEF Chars
<1> QED  BY <1>4 DEF IsNumeral

\* What printf writes with %d is the numeral, and atoi reads it back.
LEMMA WritesAndReadsDec ==
    ASSUME NEW v \in Ints, v # -(WordSize \div 2)
    PROVE  LET t == textscreen_write_dec(v)
           IN  /\ IF v < 0 THEN t[1] = Minus /\ IsNumeral(Tail(t), 10, -v)
                  ELSE IsNumeral(t, 10, v)
               /\ atoiDec(t) = v
               /\ \A e \in Endings \ {<<>>} :
                    atoiDec(t \o e) = Rest(e) * (IF v < 0 THEN -1 ELSE 1)
<1> DEFINE a == IF v < 0 THEN -v ELSE v
           n == WriteDec[a]
<1>1. a \in Ints /\ a >= 0 /\ v \in Int /\ -v \in Int /\ Signed(v) = v
  BY Ranges, SignedFacts
<1>2. n \in Seq(Chars) /\ IsNumeral(n, 10, a)
  BY <1>1, DecWritten
<1> HIDE DEF n
<1>3. n \in Seq(48 .. 57) /\ n # <<>> /\ Value(n, 10) = a
  BY <1>2, DecOnly
<1>4. /\ atoiDec(n) = Signed(a)
      /\ atoiDec(<<Minus>> \o n) = Signed(-a)
      /\ \A e \in Endings \ {<<>>} :
            atoiDec(n \o e) = Rest(e) /\ atoiDec((<<Minus>> \o n) \o e) = -Rest(e)
  BY <1>3, DecRead
<1>5. \A e \in Endings \ {<<>>} : Rest(e) * 1 = Rest(e) /\ Rest(e) * (-1) = -Rest(e)
  <2>1. \A e \in Endings \ {<<>>} : Rest(e) \in {0, 1}
    BY RestIs
  <2> QED  BY <2>1
<1>6. CASE v < 0
  <2>1. textscreen_write_dec(v) = <<Minus>> \o n
    <3>1. -v \in Ints
      BY <1>1, <1>6
    <3>2. Signed(-v) = a
      BY <1>6, <3>1, SignedFacts
    <3> QED  BY <1>6, <3>2 DEF textscreen_write_dec, n
  <2>2. (<<Minus>> \o n)[1] = Minus /\ Tail(<<Minus>> \o n) = n
    BY <1>3 DEF Minus
  <2>3. a = -v /\ -a = v
    BY <1>1, <1>6
  <2> QED  BY <1>1, <1>2, <1>4, <1>5, <1>6, <2>1, <2>2, <2>3
<1>7. CASE ~(v < 0)
  <2>1. textscreen_write_dec(v) = n /\ a = v
    BY <1>7 DEF textscreen_write_dec, n
  <2> QED  BY <1>1, <1>2, <1>4, <1>5, <1>7, <2>1
<1> QED  BY <1>6, <1>7

\* What the model calls the numbers that a user types.
LEMMA TypedTexts ==
    /\ \A t \in TypedHex : t \in Seq(Chars)
    /\ \A t \in TypedDec : t \in Seq(48 .. 57) /\ t # <<>>
<1>1. ASSUME NEW t \in TypedHex  PROVE t \in Seq(Chars)
  <2>1. PICK n \in 1 .. 4 : t \in [1 .. n -> {48, 49, 57, 65, 70, 97, 102}]
    BY DEF TypedHex
  <2>2. \A i \in 1 .. n : t[i] \in Chars
    BY <2>1 DEF Chars
  <2>3. t = [i \in 1 .. n |-> t[i]] /\ n \in Nat
    BY <2>1
  <2>4. t \in [1 .. n -> Chars]
    BY <2>2, <2>3
  <2> QED  BY <2>3, <2>4
<1>2. ASSUME NEW t \in TypedDec  PROVE t \in Seq(48 .. 57) /\ t # <<>>
  <2>1. PICK n \in 1 .. 4 : t \in [1 .. n -> {48, 49, 50, 57}]
    BY DEF TypedDec
  <2>2. \A i \in 1 .. n : t[i] \in 48 .. 57
    BY <2>1
  <2>3. t = [i \in 1 .. n |-> t[i]] /\ n \in Nat
    BY <2>1
  <2>4. t \in [1 .. n -> 48 .. 57]
    BY <2>2, <2>3
  <2>5. t \in Seq(48 .. 57) /\ Len(t) = n
    BY <2>3, <2>4
  <2> QED  BY <2>1, <2>5
<1> QED  BY <1>1, <1>2

\* All that NumeralsAgree says.
LEMMA Agreement == NumeralsAgree
<1>1. \A v \in Words : /\ IsNumeral(textscreen_write_hex[v], 16, v)
                       /\ \A base \in {10, 16} : IsNumeral(itoa(v, base), base, v)
  BY HexWritten, ItoaWritten
<1>2. \A v \in Ints \ {-(WordSize \div 2)} :
        LET t == textscreen_write_dec(v)
        IN  /\ IF v < 0 THEN t[1] = Minus /\ IsNumeral(Tail(t), 10, -v)
               ELSE IsNumeral(t, 10, v)
            /\ atoiDec(t) = v
            /\ \A e \in Endings \ {<<>>} :
                atoiDec(t \o e) = (IF isdigit(Last(e)) THEN Value(<<Last(e)>>, 10) ELSE 0)
                                    * (IF v < 0 THEN -1 ELSE 1)
  BY WritesAndReadsDec DEF Rest
<1>3. ASSUME NEW v \in Words, NEW e \in Endings
      PROVE  /\ atoiHex(textscreen_write_hex[v] \o e) = Signed(v)
             /\ atoiHex(itoa(v, 16) \o e) = Signed(v)
  <2>1. /\ textscreen_write_hex[v] \in Seq(Chars) /\ Value(textscreen_write_hex[v], 16) = v
        /\ itoa(v, 16) \in Seq(Chars) /\ Value(itoa(v, 16), 16) = v
    BY HexWritten, ItoaWritten DEF IsNumeral
  <2> QED  BY <2>1, HexRead
<1>4. ASSUME NEW t \in TypedHex  PROVE atoiHex(t) = Signed(Value(t, 16))
  <2>1. t \in Seq(Chars) /\ <<>> \in Endings /\ t \o <<>> = t
    BY TypedTexts DEF Endings
  <2> QED  BY <2>1, HexRead
<1>5. \A t \in TypedDec : atoiDec(t) = Signed(Value(t, 10))
  BY TypedTexts, DecRead
<1> QED  BY <1>1, <1>2, <1>3, <1>4, <1>5 DEF NumeralsAgree

\* For every size of a word, the numbers that printf and itoa write are the
\* numerals of their values, and atoi gives what was written or typed the value
\* that it denotes, with the limits that NumeralsAgree names
\* (textscreen_write_dec, textscreen_write_hex, itoa, atoi).
THEOREM NumeralsCorrect == Spec => []NumeralsRight
<1>1. NumeralsRight
  BY Agreement DEF NumeralsRight
<1> QED  BY <1>1, PTL

\* Texts of any length, not only those that NumeralsAgree lists: atoi gives a
\* text of digits the value it denotes, modulo the word, however long it is and
\* however many zeros it begins with; with %x also when something follows, and
\* with %d also behind a sign (atoi).
THEOREM AnyTextRead ==
    /\ \A t \in Seq(Chars), e \in Endings : atoiHex(t \o e) = Signed(Value(t, 16))
    /\ \A t \in Seq(48 .. 57) \ {<<>>} :
        /\ atoiDec(t) = Signed(Value(t, 10))
        /\ atoiDec(<<Minus>> \o t) = Signed(-Value(t, 10))
BY HexRead, DecRead

-----------------------------------------------------------------------------
(* The clock. *)

\* Two digits in four bits each, and the pm bit.
LEMMA BcdDigits ==
    ASSUME NEW d \in 0 .. 9, NEW r \in 0 .. 9, NEW pm \in {0, 128}
    PROVE  /\ FromBcd(d * 16 + r) = d * 10 + r
           /\ d <= 2 => HourFromBcd((d * 16 + r) + pm) = (d * 10 + r) + pm
<1>1. (d * 16 + r) % 16 = r /\ (d * 16 + r) \div 16 = d
  OBVIOUS
<1>2. ASSUME d <= 2, pm = 0  PROVE HourFromBcd((d * 16 + r) + pm) = (d * 10 + r) + pm
  <2> DEFINE x == d * 16 + r
  <2>1. x % 128 = x /\ x \div 128 = 0
    BY <1>2
  <2>2. x % 16 = r /\ x \div 16 = d /\ x + pm = x
    BY <1>1, <1>2
  <2> HIDE DEF x
  <2> QED  BY <1>2, <2>1, <2>2 DEF HourFromBcd
<1>3. ASSUME d <= 2, pm = 128  PROVE HourFromBcd((d * 16 + r) + pm) = (d * 10 + r) + pm
  <2> DEFINE x == (d * 16 + r) + 128
  <2>1. x % 16 = r /\ x % 128 = d * 16 + r /\ x \div 128 = 1
    BY <1>3
  <2>2. (x % 128) \div 16 = d
    BY <1>1, <2>1
  <2> HIDE DEF x
  <2>3. HourFromBcd(x) = r + d * 10 + 1 * 128
    BY <2>1, <2>2 DEF HourFromBcd
  <2> QED  BY <1>3, <2>3 DEF x
<1> QED  BY <1>1, <1>2, <1>3 DEF FromBcd

\* All numbers that the registers of the clock hold.
LEMMA BcdRead ==
    /\ \A n \in 0 .. 99 : FromBcd(Bcd(n)) = n
    /\ \A n \in 0 .. 23, pm \in {0, 128} : HourFromBcd(Bcd(n) + pm) = n + pm
<1>1. ASSUME NEW n \in 0 .. 99
      PROVE  /\ n \div 10 \in 0 .. 9 /\ n % 10 \in 0 .. 9 /\ n = (n \div 10) * 10 + (n % 10)
             /\ n <= 23 => n \div 10 <= 2
  OBVIOUS
<1>2. ASSUME NEW n \in 0 .. 99  PROVE FromBcd(Bcd(n)) = n
  BY <1>1, BcdDigits DEF Bcd
<1>3. ASSUME NEW n \in 0 .. 23, NEW pm \in {0, 128}
      PROVE  HourFromBcd(Bcd(n) + pm) = n + pm
  <2>1. n \in 0 .. 99
    OBVIOUS
  <2> QED  BY <1>1, <2>1, BcdDigits DEF Bcd
<1> QED  BY <1>2, <1>3

\* The days before a month in a year of 365 days, and in the calendar.
InYear == <<0, 31, 59, 90, 120, 151, 181, 212, 243, 273, 304, 334>>
Before(year, month) ==
    365 * year + (year + 3) \div 4 + InYear[month]
        + (IF month > 2 /\ year % 4 = 0 THEN 1 ELSE 0)

\* A month later the calendar has as many days more as the month has.
LEMMA NextMonth ==
    ASSUME NEW year \in Nat, NEW month \in 1 .. 12
    PROVE  /\ Before(year, month) \in Nat /\ DaysOf(year, month) \in Nat
           /\ Before(year, month) + DaysOf(year, month)
                = IF month < 12 THEN Before(year, month + 1) ELSE Before(year + 1, 1)
<1> DEFINE leap == IF year % 4 = 0 THEN 1 ELSE 0
           fours == (year + 3) \div 4
<1>1. ((year + 1) + 3) \div 4 = fours + leap /\ fours \in Nat
  OBVIOUS
<1>2. /\ InYear[1] = 0 /\ InYear[2] = 31 /\ InYear[3] = 59 /\ InYear[4] = 90
      /\ InYear[5] = 120 /\ InYear[6] = 151 /\ InYear[7] = 181 /\ InYear[8] = 212
      /\ InYear[9] = 243 /\ InYear[10] = 273 /\ InYear[11] = 304 /\ InYear[12] = 334
  BY DEF InYear
<1>3. /\ DaysOf(year, 2) = 28 + leap
      /\ \A m \in {4, 6, 9, 11} : DaysOf(year, m) = 30
      /\ \A m \in {1, 3, 5, 7, 8, 10, 12} : DaysOf(year, m) = 31
  <2>1. DaysOf(year, 2) = 28 + leap
    BY DEF DaysOf
  <2>2. \A m \in {4, 6, 9, 11} : DaysOf(year, m) = 30
    BY DEF DaysOf
  <2>3. \A m \in {1, 3, 5, 7, 8, 10, 12} : DaysOf(year, m) = 31
    BY DEF DaysOf
  <2> QED  BY <2>1, <2>2, <2>3
<1>4. \A m \in 1 .. 2 : Before(year, m) = 365 * year + fours + InYear[m]
  BY <1>2 DEF Before
<1>5. \A m \in 3 .. 12 : Before(year, m) = 365 * year + fours + InYear[m] + leap
  BY <1>2 DEF Before
<1>6. Before(year + 1, 1) = 365 * (year + 1) + (fours + leap) + 0
  BY <1>1, <1>2 DEF Before
<1>7. leap \in Nat
  OBVIOUS
<1> HIDE DEF leap, fours
<1>8. CASE month = 1
  BY <1>1, <1>2, <1>3, <1>4, <1>8
<1>9. CASE month = 2
  BY <1>1, <1>2, <1>3, <1>4, <1>5, <1>7, <1>9
<1>10. CASE month \in 3 .. 11
  BY <1>1, <1>2, <1>3, <1>5, <1>7, <1>10
<1>11. CASE month = 12
  BY <1>1, <1>2, <1>3, <1>5, <1>6, <1>7, <1>11
<1> QED  BY <1>8, <1>9, <1>10, <1>11

DaysAre(f) ==
    f = [month \in 0 .. 1200 |->
            IF month = 0 THEN 0
            ELSE f[month - 1] + DaysOf((month - 1) \div 12, ((month - 1) % 12) + 1)]

\* Counting the days month by month comes to what the calendar says.
LEMMA DaysCounted ==
    \A year \in 0 .. 99, month \in 1 .. 12 :
        DaysBefore[12 * year + month - 1] = Before(year, month)
<1> DEFINE last == 1200
           D == 0 .. last
           days == [k \in D |-> IF k = 0 THEN 0 ELSE DaysOf((k - 1) \div 12, ((k - 1) % 12) + 1)]
           rank == [k \in D |-> k]
           first == [k \in D |-> 0]
           prev == [k \in D |-> k - 1]
           step == [k \in D |-> [x \in Nat |-> x + days[k]]]
           g == [k \in D |-> Before(k \div 12, (k % 12) + 1)]
<1>0. last \in Nat /\ last >= 12 * 99 + 11
  OBVIOUS
<1>10. ASSUME NEW f, DaysAre(f)  PROVE DaysAre(DaysBefore)
  <2> DEFINE h == CHOOSE h : DaysAre(h)
  <2>1. DaysAre(h)
    BY <1>10
  <2>2. DaysBefore = h
    BY Zenon DEF DaysBefore, DaysAre
  <2> QED  BY <2>1, <2>2
<1>11. \A f : DaysAre(f) <=> f = [k \in D |->
            IF k = 0 THEN 0 ELSE f[k - 1] + DaysOf((k - 1) \div 12, ((k - 1) % 12) + 1)]
  BY Zenon DEF DaysAre
<1> HIDE DEF last
<1>1. \A k \in D : k \div 12 \in Nat /\ (k % 12) + 1 \in 1 .. 12
  BY <1>0
<1>2. \A k \in D : days[k] \in Nat
  <2>1. ASSUME NEW k \in D, k # 0
        PROVE  DaysOf((k - 1) \div 12, ((k - 1) % 12) + 1) \in Nat
    <3>1. k - 1 \in D
      BY <1>0, <2>1
    <3>2. (k - 1) \div 12 \in Nat /\ ((k - 1) % 12) + 1 \in 1 .. 12
      BY <1>1, <3>1
    <3> QED  BY <3>2, NextMonth
  <2> QED  BY <2>1
<1>3. PICK f \in [D -> Nat] : Recurses(f, D, {0}, first, prev, step)
  <2>1. step \in [D -> [Nat -> Nat]]
    <3> HIDE DEF days
    <3> QED  BY <1>2
  <2>2. rank \in [D -> 0 .. last] /\ {0} \in SUBSET D /\ first \in [D -> Nat]
    BY <1>0
  <2>3. \A k \in D \ {0} : prev[k] \in D /\ rank[prev[k]] < rank[k]
    BY <1>0
  <2> HIDE DEF D, days, rank, first, prev, step
  <2> QED  BY <1>0, <2>1, <2>2, <2>3, Recursion
<1>4. ASSUME NEW k \in D, k # 0
      PROVE  f[k] = f[k - 1] + DaysOf((k - 1) \div 12, ((k - 1) % 12) + 1)
  <2>1. k - 1 \in D /\ prev[k] = k - 1 /\ k \notin {0}
    BY <1>0, <1>4
  <2>2. f[k] = step[k][f[k - 1]]
    BY <1>3, <2>1 DEF Recurses
  <2>3. f[k - 1] \in Nat
    BY <1>3, <2>1
  <2>4. f[k] = f[k - 1] + days[k]
    BY <2>2, <2>3
  <2> QED  BY <1>4, <2>4
<1>5. DaysBefore = [k \in D |->
            IF k = 0 THEN 0
            ELSE DaysBefore[k - 1] + DaysOf((k - 1) \div 12, ((k - 1) % 12) + 1)]
  <2>1. f[0] = 0 /\ f = [k \in D |-> f[k]]
    BY <1>0, <1>3 DEF Recurses
  <2>2. \A k \in D : f[k] =
            IF k = 0 THEN 0 ELSE f[k - 1] + DaysOf((k - 1) \div 12, ((k - 1) % 12) + 1)
    BY <1>4, <2>1
  <2>3. f = [k \in D |->
            IF k = 0 THEN 0 ELSE f[k - 1] + DaysOf((k - 1) \div 12, ((k - 1) % 12) + 1)]
    BY <2>1, <2>2
  <2> QED  BY <1>10, <1>11, <2>3
<1>6. ASSUME NEW k \in D, \A j \in D : rank[j] < rank[k] => DaysBefore[j] = g[j]
      PROVE  DaysBefore[k] = g[k]
  <2>1. CASE k = 0
    <3>1. 0 \div 12 = 0 /\ (0 % 12) + 1 = 1 /\ 0 \in D
      BY <1>0
    <3>2. Before(0, 1) = 0
      BY DEF Before, InYear
    <3>3. g[0] = 0
      BY <3>1, <3>2
    <3> QED  BY <1>5, <2>1, <3>1, <3>3
  <2>2. CASE k # 0
    <3> DEFINE y == (k - 1) \div 12
               m == ((k - 1) % 12) + 1
    <3>1. k - 1 \in D /\ rank[k - 1] < rank[k]
      BY <1>0, <2>2
    <3>2. DaysBefore[k - 1] = Before(y, m)
      BY <1>6, <3>1
    <3>3. DaysBefore[k] = Before(y, m) + DaysOf(y, m)
      BY <1>5, <2>2, <3>2
    <3>4. y \in Nat /\ m \in 1 .. 12
      BY <1>1, <3>1
    <3>5. IF m < 12 THEN k \div 12 = y /\ (k % 12) + 1 = m + 1
          ELSE k \div 12 = y + 1 /\ (k % 12) + 1 = 1
      BY <1>0, <2>2
    <3>6. g[k] = Before(k \div 12, (k % 12) + 1)
      OBVIOUS
    <3> HIDE DEF y, m, g
    <3> QED  BY <3>3, <3>4, <3>5, <3>6, NextMonth
  <2> QED  BY <2>1, <2>2
<1>7. \A k \in D : DaysBefore[k] = g[k]
  <2>1. rank \in [D -> Nat]
    BY <1>0
  <2>2. Determined(DaysBefore, g, D, rank)
    BY <1>6 DEF Determined
  <2> HIDE DEF D, rank, g
  <2> QED  BY <2>1, <2>2, SameFunction
<1>8. ASSUME NEW year \in 0 .. 99, NEW month \in 1 .. 12
      PROVE  DaysBefore[12 * year + month - 1] = Before(year, month)
  <2> DEFINE k == 12 * year + month - 1
  <2>1. k \in D /\ k \div 12 = year /\ (k % 12) + 1 = month
    <3>1. /\ year \in Nat /\ year <= 99 /\ month \in Nat /\ 1 <= month /\ month <= 12
      OBVIOUS
    <3>2. k \in D
      BY <1>0, <3>1
    <3>3. \A y, m \in Nat : 1 <= m /\ m <= 12
            => (12 * y + m - 1) \div 12 = y /\ ((12 * y + m - 1) % 12) + 1 = m
      OBVIOUS
    <3> QED  BY <3>1, <3>2, <3>3
  <2>2. g[k] = Before(k \div 12, (k % 12) + 1)
    BY <2>1
  <2> HIDE DEF g
  <2> QED  BY <1>7, <2>1, <2>2
<1> QED  BY <1>8

\* The table of months agrees with the days before them, modulo a week.
LEMMA WeekdayRight ==
    ASSUME NEW year \in 0 .. 99, NEW month \in 1 .. 12, NEW day \in 1 .. 31
    PROVE  get_weekday_from_date(year, month, day) = (6 + Before(year, month) + day - 1) % 7
<1> DEFINE leap == IF year % 4 = 0 THEN 1 ELSE 0
           early == IF month <= 2 THEN leap ELSE 0
           late == IF month > 2 THEN leap ELSE 0
           fours == year \div 4
           r == (year + fours) % 7
           q == (year + fours) \div 7
<1>1. \E c \in 0 .. 50 : InYear[month] = MonthCode[month] + 7 * c
  <2>1. /\ InYear[1] = 0 /\ InYear[2] = 31 /\ InYear[3] = 59 /\ InYear[4] = 90
        /\ InYear[5] = 120 /\ InYear[6] = 151 /\ InYear[7] = 181 /\ InYear[8] = 212
        /\ InYear[9] = 243 /\ InYear[10] = 273 /\ InYear[11] = 304 /\ InYear[12] = 334
    BY DEF InYear
  <2>2. /\ MonthCode[1] = 0 /\ MonthCode[2] = 3 /\ MonthCode[3] = 3 /\ MonthCode[4] = 6
        /\ MonthCode[5] = 1 /\ MonthCode[6] = 4 /\ MonthCode[7] = 6 /\ MonthCode[8] = 2
        /\ MonthCode[9] = 5 /\ MonthCode[10] = 0 /\ MonthCode[11] = 3 /\ MonthCode[12] = 5
    BY DEF MonthCode
  <2> DEFINE c == (InYear[month] - MonthCode[month]) \div 7
  <2>3. c \in 0 .. 50 /\ InYear[month] = MonthCode[month] + 7 * c
    BY <2>1, <2>2
  <2> QED  BY <2>3
<1>2. PICK c \in 0 .. 50 : InYear[month] = MonthCode[month] + 7 * c
  BY <1>1
<1>3. MonthCode[month] \in 0 .. 6
  BY DEF MonthCode
<1>4. is_leap_year(year, month) = early
  BY DEF is_leap_year
<1>5. (year + 3) \div 4 = fours + (1 - leap) /\ fours \in Nat
  OBVIOUS
<1>6. Before(year, month) = 365 * year + (fours + (1 - leap)) + InYear[month] + late
  BY <1>5 DEF Before
<1>7. year + fours = 7 * q + r /\ q \in Nat /\ r \in 0 .. 6
  BY <1>5
<1>8. leap = early + late /\ leap \in {0, 1} /\ early \in {0, 1} /\ late \in {0, 1}
  OBVIOUS
<1> DEFINE code == MonthCode[month]
           left == r + code + 6 + day - early
           right == 6 + Before(year, month) + day - 1
           k == 52 * year + q + c
<1>9. get_weekday_from_date(year, month, day) = left % 7
  BY <1>4 DEF get_weekday_from_date
<1> HIDE DEF leap, early, late, fours, r, q, code
<1>10. right = left + 7 * k /\ left \in Int /\ k \in Int
  <2>1. /\ year \in Int /\ day \in Int /\ c \in Int /\ code \in Int /\ r \in Int /\ q \in Int
        /\ early \in Int /\ late \in Int /\ leap \in Int /\ fours \in Int
    BY <1>2, <1>3, <1>5, <1>7, <1>8 DEF code
  <2>2. Before(year, month) = 365 * year + (fours + (1 - leap)) + (code + 7 * c) + late
    BY <1>2, <1>6 DEF code
  <2> DEFINE b == Before(year, month)
  <2>3. b \in Int
    BY <2>1, <2>2
  <2> HIDE DEF b
  <2>4. b = 365 * year + (fours + (1 - leap)) + (code + 7 * c) + late
    BY <2>2 DEF b
  <2>5. year + fours = 7 * q + r /\ leap = early + late
    BY <1>7, <1>8
  <2>6. 6 + b + day - 1 = (r + code + 6 + day - early) + 7 * (52 * year + q + c)
    BY <2>1, <2>3, <2>4, <2>5
  <2> QED  BY <2>1, <2>6 DEF b
<1> HIDE DEF left, right, k
<1>11. right % 7 = left % 7
  BY <1>10
<1> QED  BY <1>9, <1>11 DEF right

\* All that CalendarAgrees says.
LEMMA Calendar == CalendarAgrees
<1>1. \A year \in 0 .. 99, month \in 1 .. 12 : DaysOf(year, month) \in 28 .. 31
  BY DEF DaysOf
<1>2. ASSUME NEW year \in 0 .. 99, NEW month \in 1 .. 12, NEW day \in 1 .. DaysOf(year, month)
      PROVE  get_weekday_from_date(year, month, day)
                = (6 + DaysBefore[12 * year + month - 1] + day - 1) % 7
  <2>1. day \in 1 .. 31
    BY <1>1
  <2>2. DaysBefore[12 * year + month - 1] = Before(year, month)
    BY DaysCounted
  <2> QED  BY <2>1, <2>2, WeekdayRight
<1> QED  BY <1>2, BcdRead DEF CalendarAgrees

\* What the registers of the clock hold is converted to the date it stands for,
\* with its day of the week, whichever date of the century it is
\* (rtc_read_datetime, get_weekday_from_date).
THEOREM ClockCorrect == Spec => []ClockRight
<1>1. ClockRight
  BY Calendar DEF ClockRight
<1> QED  BY <1>1, PTL
=============================================================================
