--------------------------- MODULE TerminalProof ---------------------------
(***************************************************************************)
(* fbcon implements the tape of module Terminal, for every size of the       *)
(* screen and of buf, every tab width, every text and every set of keys.      *)
(***************************************************************************)
EXTENDS ConsoleProof

(* The cell before cell <<x, y>> of a screen w cells wide.                       *)
BackOf(x, y, w) ==
  IF x > 0 THEN <<x - 1, y>> ELSE IF y > 0 THEN <<w - 1, y - 1>> ELSE <<x, y>>

(* The buffer b one row up.                                                  *)
Raised(b) ==
  [p \in Cell |-> IF p \notin Grid THEN b[p]
                  ELSE IF p[2] = ROWS - 1 THEN " " ELSE b[<<p[1], p[2] + 1>>]]

(* What the putchar under way is to make of the console as it found it: the       *)
(* buffer before it scrolls, the cell of the cursor before it wraps, and the      *)
(* cell after the wrap, which may be one row too far.                          *)
Char == Head(cpu.out)

Erased == BackOf(before.cx, before.cy, COLS)

PutBuf ==
  IF Char \in Glyphs THEN [before.buf EXCEPT ![<<before.cx, before.cy>>] = Char]
  ELSE IF Char = "bs" THEN [before.buf EXCEPT ![Erased] = " "] ELSE before.buf

PutX ==
  IF Char \in Glyphs THEN before.cx + 1
  ELSE IF Char = "bs" THEN Erased[1]
  ELSE IF Char = "tab" THEN ((before.cx + TAB) \div TAB) * TAB ELSE 0

PutY == IF Char = "bs" THEN Erased[2] ELSE before.cy

GoesDown == Char = "nl" \/ PutX >= COLS

EndX == IF GoesDown THEN 0 ELSE PutX

EndY == IF GoesDown THEN PutY + 1 ELSE PutY

(* How far the putchar has come, at each of its points.                         *)
PutOK ==
  InPut =>
    /\ before.buf \in [Cell -> Glyphs]
    /\ before.cx \in 0..(COLS - 1)
    /\ before.cy \in 0..(ROWS - 1)
    /\ cpu.at = "store" => buf = before.buf /\ cx = before.cx /\ cy = before.cy
    /\ cpu.at = "advance" =>
         Char \in Glyphs /\ buf = PutBuf /\ cx = before.cx /\ cy = before.cy
    /\ cpu.at = "wrap" => Char # "nl" /\ buf = PutBuf /\ cx = PutX /\ cy = PutY
    /\ cpu.at = "down" => GoesDown /\ buf = PutBuf /\ cx = 0 /\ cy = PutY
    /\ cpu.at = "bottom" => buf = PutBuf /\ cx = EndX /\ cy = EndY
    /\ cpu.at = "lift" => EndY >= ROWS /\ buf = Raised(PutBuf) /\ cx = EndX /\ cy = EndY
    /\ cpu.at = "redraw" =>
         EndY >= ROWS /\ buf = Raised(PutBuf) /\ cx = EndX /\ cy = EndY - 1
    /\ cpu.at = "show" =>
         /\ cx = EndX
         /\ IF EndY >= ROWS THEN buf = Raised(PutBuf) /\ cy = EndY - 1
                            ELSE buf = PutBuf /\ cy = EndY

(* fbcon_resize comes before anything is written outside the first grid.         *)
BlankOK == cpu.who = "boot" => \A p \in Cell \ Grid : buf[p] = " "

TerminalInv == ConsoleInv /\ PutOK /\ BlankOK

-----------------------------------------------------------------------------
(***************************************************************************)
(* Cells and places on the tape.                                            *)
(***************************************************************************)
(* The column and the line of a place, and the place of a cell.                *)
LEMMA Places ==
  ASSUME NEW w \in Nat \ {0}, NEW x \in 0..(w - 1), NEW y \in Nat
  PROVE  /\ y * w + x \in Nat
         /\ (y * w + x) % w = x
         /\ (y * w + x) \div w = y
<1>. DEFINE i == y * w + x
            q == i \div w
            r == i % w
<1>1. y * w \in Nat /\ i \in Nat /\ y * w = w * y
  OBVIOUS
<1>2. i = w * y + x
  BY <1>1
<1>. HIDE DEF i
<1>3. q \in Nat /\ r \in 0..(w - 1) /\ i = w * q + r /\ w * q \in Nat
  BY <1>1
<1>. HIDE DEF q, r
<1>4. ~(q < y)
  <2>. SUFFICES ASSUME q < y PROVE FALSE
    OBVIOUS
  <2>1. w * (q + 1) <= w * y /\ w * (q + 1) = w * q + w
    BY <1>3, Multiples
  <2> QED BY <1>1, <1>2, <1>3, <2>1
<1>5. ~(y < q)
  <2>. SUFFICES ASSUME y < q PROVE FALSE
    OBVIOUS
  <2>1. w * (y + 1) <= w * q /\ w * (y + 1) = w * y + w
    BY <1>3, Multiples
  <2> QED BY <1>1, <1>2, <1>3, <2>1
<1>6. q = y
  BY <1>3, <1>4, <1>5
<1>7. r = x
  BY <1>1, <1>2, <1>3, <1>6
<1> QED BY <1>1, <1>6, <1>7 DEF i, q, r

(* Every place on the tape is the place of a cell.                            *)
LEMMA CellOf ==
  ASSUME NEW w \in Nat \ {0}, NEW h \in Nat \ {0}, NEW i \in 0..(w * h - 1)
  PROVE  /\ i % w \in 0..(w - 1) /\ i \div w \in 0..(h - 1)
         /\ i = (i \div w) * w + (i % w)
<1>. DEFINE q == i \div w
            r == i % w
<1>1. w * h \in Nat /\ i \in Nat /\ i < w * h
  OBVIOUS
<1>2. q \in Nat /\ r \in 0..(w - 1) /\ i = w * q + r /\ w * q \in Nat /\ w * q = q * w
  BY <1>1
<1>. HIDE DEF q, r
<1>3. w * q < w * h
  BY <1>1, <1>2
<1>4. q < h
  BY <1>2, <1>3, Multiples
<1> QED BY <1>2, <1>4 DEF q, r

(* The cells of the grid, and only those, have a place on the tape.              *)
LEMMA PlaceOf ==
  ASSUME NEW w \in Nat \ {0}, NEW h \in Nat \ {0}, NEW x \in 0..(w - 1), NEW y \in Nat
  PROVE  /\ y * w + x \in Nat /\ w * h \in Nat
         /\ y < h => y * w + x < w * h
         /\ y >= h => y * w + x >= w * h
<1>1. y * w \in Nat /\ y * w = w * y /\ w * h \in Nat /\ w * (y + 1) = w * y + w
  BY Multiples
<1>2. y < h => w * (y + 1) <= w * h
  BY Multiples
<1>3. y >= h => w * h <= w * y
  BY Multiples
<1> QED BY <1>1, <1>2, <1>3

(* What the tape holds at the place of a cell.                               *)
LEMMA TapeAt ==
  ASSUME NEW w \in Nat \ {0}, NEW h \in Nat \ {0}, NEW x \in 0..(w - 1), NEW y \in 0..(h - 1),
         NEW b
  PROVE  y * w + x \in 0..(w * h - 1) /\ OnTape(b, w, h)[y * w + x] = b[<<x, y>>]
<1>. DEFINE i == y * w + x
<1>1. y \in Nat /\ y < h
  OBVIOUS
<1>2. i \in Nat /\ w * h \in Nat /\ i < w * h
  BY <1>1, PlaceOf
<1>3. i % w = x /\ i \div w = y
  BY <1>1, Places
<1>. HIDE DEF i
<1>4. i \in 0..(w * h - 1)
  BY <1>2
<1>5. OnTape(b, w, h)[i] = b[<<x, y>>]
  BY <1>3, <1>4 DEF OnTape
<1> QED BY <1>4, <1>5 DEF i

(* The function f with value c at a.                                           *)
With(f, a, c) == [f EXCEPT ![a] = c]

(* A character stored in a cell is one stored at its place.                     *)
LEMMA TapeStored ==
  ASSUME NEW w \in 1..MAX_COLS, NEW h \in 1..MAX_ROWS, NEW x \in 0..(w - 1),
         NEW y \in 0..(h - 1), NEW b \in [Cell -> Glyphs], NEW c
  PROVE  OnTape(With(b, <<x, y>>, c), w, h) = With(OnTape(b, w, h), y * w + x, c)
<1>. DEFINE i == y * w + x
            d == [b EXCEPT ![<<x, y>>] = c]
<1>0. w \in Nat \ {0} /\ h \in Nat \ {0} /\ y \in Nat
  BY ConsoleSizes
<1>1. i \in 0..(w * h - 1)
  BY <1>0, TapeAt
<1>2. i % w = x /\ i \div w = y
  BY <1>0, Places
<1>. HIDE DEF i
<1>3. ASSUME NEW j \in 0..(w * h - 1)
      PROVE  d[<<j % w, j \div w>>] = IF j = i THEN c ELSE b[<<j % w, j \div w>>]
  <2>1. /\ j % w \in 0..(w - 1) /\ j \div w \in 0..(h - 1) /\ j = (j \div w) * w + (j % w)
    BY <1>0, <1>3, CellOf
  <2>2. <<j % w, j \div w>> \in Cell
    BY <2>1, ConsoleSizes DEF Cell
  <2>3. <<j % w, j \div w>> = <<x, y>> <=> j = i
    BY <1>2, <2>1 DEF i
  <2> QED BY <2>2, <2>3
<1>. HIDE DEF d
<1>4. OnTape(d, w, h) = [j \in 0..(w * h - 1) |-> IF j = i THEN c ELSE b[<<j % w, j \div w>>]]
  BY <1>3 DEF OnTape
<1>5. [OnTape(b, w, h) EXCEPT ![i] = c]
        = [j \in 0..(w * h - 1) |-> IF j = i THEN c ELSE b[<<j % w, j \div w>>]]
  BY <1>1 DEF OnTape
<1> QED BY <1>4, <1>5 DEF i, d, With

(* Scrolling the rows pushes one line out of the tape.                          *)
LEMMA TapeRaised ==
  ASSUME NEW b \in [Cell -> Glyphs], COLS \in 1..MAX_COLS, ROWS \in 1..MAX_ROWS
  PROVE  LET t == OnTape(b, COLS, ROWS)
         IN  OnTape(Raised(b), COLS, ROWS)
               = [i \in DOMAIN t |-> IF i + COLS \in DOMAIN t THEN t[i + COLS] ELSE " "]
<1>. DEFINE t == OnTape(b, COLS, ROWS)
            D == 0..(COLS * ROWS - 1)
<1>0. COLS \in Nat \ {0} /\ ROWS \in Nat \ {0} /\ COLS * ROWS \in Nat
  BY ConsoleSizes
<1>1. DOMAIN t = D
  BY DEF OnTape
<1>2. ASSUME NEW i \in D
      PROVE  Raised(b)[<<i % COLS, i \div COLS>>] = IF i + COLS \in D THEN t[i + COLS] ELSE " "
  <2>. DEFINE x == i % COLS
              y == i \div COLS
  <2>1. x \in 0..(COLS - 1) /\ y \in 0..(ROWS - 1) /\ i = y * COLS + x
    BY <1>0, CellOf
  <2>. HIDE DEF x, y
  <2>2. <<x, y>> \in Cell /\ <<x, y>> \in Grid
    BY <2>1, ConsoleSizes DEF Cell, Grid
  <2>3. Raised(b)[<<x, y>>] = IF y = ROWS - 1 THEN " " ELSE b[<<x, y + 1>>]
    BY <2>2 DEF Raised
  <2>4. (y + 1) * COLS = y * COLS + COLS /\ y * COLS \in Nat /\ y + 1 \in Nat
    BY <1>0, <2>1
  <2>5. i + COLS = (y + 1) * COLS + x
    BY <1>0, <2>1, <2>4
  <2>6. CASE y = ROWS - 1
    <3>1. i + COLS >= COLS * ROWS
      <4>1. y + 1 >= ROWS
        BY <1>0, <2>6
      <4> QED BY <1>0, <2>1, <2>4, <2>5, <4>1, PlaceOf
    <3>2. i + COLS \notin D
      BY <1>0, <3>1
    <3> QED BY <2>3, <2>6, <3>2 DEF x, y
  <2>7. CASE y # ROWS - 1
    <3>1. y + 1 \in 0..(ROWS - 1)
      BY <1>0, <2>1, <2>7
    <3>2. (y + 1) * COLS + x \in D /\ t[(y + 1) * COLS + x] = b[<<x, y + 1>>]
      <4>. DEFINE z == y + 1
      <4>1. z \in 0..(ROWS - 1)
        BY <3>1
      <4>. HIDE DEF z
      <4>2. z * COLS + x \in D /\ t[z * COLS + x] = b[<<x, z>>]
        BY <1>0, <2>1, <4>1, TapeAt
      <4> QED BY <4>2 DEF z
    <3>3. i + COLS \in D /\ t[i + COLS] = b[<<x, y + 1>>]
      BY <2>5, <3>2
    <3> QED BY <2>3, <2>7, <3>3 DEF x, y
  <2> QED BY <2>6, <2>7
<1>3. OnTape(Raised(b), COLS, ROWS) = [i \in D |-> Raised(b)[<<i % COLS, i \div COLS>>]]
  BY DEF OnTape
<1>. HIDE DEF t, D
<1>4. OnTape(Raised(b), COLS, ROWS) = [i \in D |-> IF i + COLS \in D THEN t[i + COLS] ELSE " "]
  BY <1>2, <1>3
<1> QED BY <1>1, <1>4 DEF t

(* The next tab stop.                                                        *)
LEMMA NextStop ==
  ASSUME NEW x \in Nat, NEW d \in Nat \ {0}
  PROVE  (x + d) \div d = x \div d + 1
<1>. DEFINE q == x \div d
            r == x % d
<1>1. q \in Nat /\ r \in 0..(d - 1) /\ x = d * q + r /\ d * q \in Nat
  OBVIOUS
<1>. HIDE DEF q, r
<1>2. (q + 1) * d = d * q + d
  BY <1>1
<1>3. x + d = (q + 1) * d + r
  BY <1>1, <1>2
<1>4. ((q + 1) * d + r) \div d = q + 1
  BY <1>1, Places
<1> QED BY <1>3, <1>4 DEF q

-----------------------------------------------------------------------------
(***************************************************************************)
(* The invariant.                                                          *)
(***************************************************************************)
(* A step between two calls of fbcon_putchar that leaves the text alone.          *)
Calm ==
  /\ UNCHANGED <<COLS, ROWS, cx, cy, buf>>
  /\ ~InPut
  /\ ~InPut'
  /\ cpu'.who = "boot" => cpu.who = "boot"

(* The steps inside fbcon_putchar.                                            *)
PutInside ==
  PutStore \/ PutAdvance \/ PutWrap \/ PutDown \/ PutBottom \/ PutLift \/ PutRedraw

(* All other steps than those of fbcon_putchar, of the cursor keys and of the      *)
(* resize are calm, if no interrupt splits a drawing.                          *)
LEMMA StepCases ==
  ASSUME DrawWhole, ConsoleInv, [Next]_vars
  PROVE  \/ UNCHANGED vars
         \/ Calm
         \/ PutBegin
         \/ PutInside
         \/ PutShow
         \/ ArrowMove
         \/ FramebufferFound
<1>0. WhereOK /\ cpu \in Contexts
  BY DEF ConsoleInv, WhereOK
<1>a. ASSUME UNCHANGED <<COLS, ROWS, cx, cy, buf>>, ~InPut,
             cpu'.at \in {"run", "halt", "put", "pick", "poll", "act", "blink", "hlt"},
             cpu'.who = "boot" => cpu.who = "boot"
      PROVE  Calm
  BY <1>a DEF Calm, InPut, PutPoints
<1>1. CASE BootPrint
  <2>1. UNCHANGED console /\ cpu.at = "run" /\ cpu'.at = "put" /\ cpu'.who = cpu.who
    BY <1>0, <1>1 DEF BootPrint, Contexts
  <2> QED BY <1>a, <2>1 DEF console, text, InPut, PutPoints
<1>b. CASE NoFramebuffer \/ BootEnds
  <2>1. UNCHANGED console /\ cpu.at = "run"
    BY <1>b DEF NoFramebuffer, BootEnds, At
  <2>2. cpu'.at \in {"run", "put"} /\ cpu'.who \in {"booted", "prompt"}
    BY <1>b DEF NoFramebuffer, BootEnds, At
  <2> QED BY <1>a, <2>1, <2>2 DEF console, text, InPut, PutPoints
<1>2. CASE PutReturns
  <2>1. UNCHANGED console /\ cpu.at = "put" /\ cpu.who \in Who /\ cpu.who # "user"
    BY <1>0, <1>2 DEF PutReturns, Contexts, WhereOK
  <2>2. /\ cpu'.at \in {"run", "pick", "halt", "poll", "blink"}
        /\ cpu'.who = "boot" => cpu.who = "boot"
    BY <1>2, <2>1 DEF PutReturns, Who, User, At
  <2> QED BY <1>a, <2>1, <2>2 DEF console, text, InPut, PutPoints
<1>c. ASSUME UNCHANGED <<COLS, ROWS, cx, cy, buf>>, cpu.at \in IdlePoints \ PutPoints,
             cpu'.at = "put" \/ cpu'.at \in IdlePoints \ PutPoints,
             cpu'.who \in {cpu.who, "yield", "panic"}
      PROVE  Calm
  BY <1>c DEF Calm, InPut, PutPoints
<1>3. CASE Pick
  <2>1. UNCHANGED console /\ cpu.at = "pick" /\ cpu'.at = "poll" /\ cpu'.who = "yield"
    BY <1>3 DEF Pick, At
  <2> QED BY <1>c, <2>1, LoopPoints DEF console, text
<1>d. CASE Poll
  <2>1. UNCHANGED text /\ cpu.at = "poll"
    BY <1>d DEF Poll
  <2>2. cpu'.at \in {"blink", "act"} /\ cpu'.who = cpu.who
    BY <1>0, <1>d DEF Poll, Goto, Contexts
  <2> QED BY <1>c, <2>1, <2>2, LoopPoints DEF text
<1>e. CASE ActEcho
  <2>1. UNCHANGED <<COLS, ROWS, cx, cy, buf>> /\ cpu.at = "act"
    BY <1>e DEF ActEcho, actFrame
  <2>2. cpu'.at = "put" /\ cpu'.who = cpu.who
    BY <1>0, <1>e DEF ActEcho, Contexts
  <2> QED BY <1>c, <2>1, <2>2, LoopPoints
<1>f. CASE ActPanic
  <2>1. UNCHANGED <<COLS, ROWS, cx, cy, buf>> /\ cpu.at = "act"
    BY <1>f DEF ActPanic, actFrame
  <2>2. cpu'.at = "put" /\ cpu'.who = "panic"
    BY <1>f DEF ActPanic, panic, At
  <2> QED BY <1>c, <2>1, <2>2, LoopPoints
<1>i. ASSUME NEW a \in IdlePoints \ PutPoints, Goto(a) PROVE cpu'.at = a /\ cpu'.who = cpu.who
  BY <1>0, <1>i, GotoType
<1>j. ASSUME CursorDone PROVE cpu'.at \in IdlePoints \ PutPoints /\ cpu'.who = cpu.who
  BY <1>0, <1>j, DoneType, LoopPoints
<1>k. ASSUME cpu' = At(cpu.who, "blink") PROVE cpu'.at = "blink" /\ cpu'.who = cpu.who
  BY <1>k DEF At
<1>g. CASE ActToggle \/ ToggleClear \/ ToggleRepaint
  <2>1. UNCHANGED <<COLS, ROWS, cx, cy, buf>> /\ cpu.at \in {"act", "clear", "repaint"}
    BY <1>g DEF ActToggle, ToggleClear, ToggleRepaint, actFrame
  <2>2. Goto("clear") \/ Goto("repaint") \/ Goto("draw") \/ cpu' = At(cpu.who, "blink")
    BY <1>g DEF ActToggle, ToggleClear, ToggleRepaint
  <2>3. cpu'.at \in {"clear", "repaint", "draw", "blink"} /\ cpu'.who = cpu.who
    BY <1>i, <1>k, <2>2, LoopPoints
  <2> QED BY <1>c, <2>1, <2>3, LoopPoints
<1>h. CASE ActArrow \/ CursorHidden \/ CursorDraw \/ CursorShown \/ Blink
  <2>1. /\ UNCHANGED <<COLS, ROWS, cx, cy, buf>>
        /\ cpu.at \in {"act", "erased", "draw", "drawn", "blink"}
    BY <1>h DEF ActArrow, CursorHidden, CursorDraw, CursorShown, Blink, cursorFrame
  <2>2. \/ Goto("erased") \/ Goto("move") \/ Goto("draw") \/ Goto("drawn") \/ Goto("hlt")
        \/ CursorDone
    BY <1>h DEF ActArrow, CursorHidden, CursorDraw, CursorShown, Blink, EraseCursor
  <2>3. cpu'.at \in IdlePoints \ PutPoints /\ cpu'.who = cpu.who
    BY <1>i, <1>j, <2>2, LoopPoints
  <2> QED BY <1>c, <2>1, <2>3, LoopPoints
<1>4. CASE Tick \/ keyboard_handler
  <2>1. UNCHANGED <<COLS, ROWS, cx, cy, buf>> /\ InterruptsOn /\ cpu' \in {Awake(cpu), User}
    BY <1>4 DEF Tick, keyboard_handler, console, text
  <2>2. ~InPut
    BY <1>0, <2>1 DEF InterruptsOn, Idle, DrawWhole, WhereOK, InPut, PutPoints
  <2>3. cpu'.at \in {cpu.at, "poll", "pick", "run"} /\ cpu'.who \in {cpu.who, "user"}
    BY <1>0, <2>1 DEF Awake, User, At, Contexts
  <2> QED BY <2>1, <2>2, <2>3 DEF Calm, InPut, PutPoints
<1>5. CASE handle_writestr \/ handle_exit \/ handle_sleep \/ Fault
  <2>1. UNCHANGED <<COLS, ROWS, cx, cy, buf>> /\ cpu.at = "run" /\ cpu.who = "user"
    BY <1>5 DEF handle_writestr, handle_exit, handle_sleep, Fault, User, At, console, text
  <2>2. cpu'.at \in {"put", "pick"} /\ cpu'.who \in {"sys", "exit", "yield", "panic"}
    BY <1>5 DEF handle_writestr, handle_exit, handle_sleep, Fault, panic, At
  <2> QED BY <1>a, <2>1, <2>2 DEF InPut, PutPoints
<1>6. CASE Halted
  BY <1>6 DEF Halted
<1> QED
  BY <1>1, <1>2, <1>3, <1>4, <1>5, <1>6, <1>b, <1>d, <1>e, <1>f, <1>g, <1>h
     DEF Next, PutStep, IdleStep, PutInside

(* The cursor between two calls of fbcon_putchar and at their first step is in      *)
(* the grid.                                                               *)
LEMMA CursorInside ==
  ASSUME ConsoleInv, cpu.at \notin {"wrap", "down", "bottom", "lift"}
  PROVE  /\ COLS \in 1..MAX_COLS /\ ROWS \in 1..MAX_ROWS
         /\ cx \in 0..(COLS - 1) /\ cy \in 0..(ROWS - 1)
         /\ buf \in [Cell -> Glyphs]
<1>1. TypeOK /\ cx < COLS /\ cy < ROWS
  BY DEF ConsoleInv, CursorOK
<1> QED BY <1>1, Numbers DEF TypeOK

(* What a step inside fbcon_putchar leaves alone.                               *)
LEMMA InsideSame ==
  ASSUME ConsoleInv, PutInside
  PROVE  /\ InPut /\ InPut' /\ UNCHANGED <<COLS, ROWS, before>>
         /\ cpu'.who = cpu.who /\ cpu'.out = cpu.out
         /\ UNCHANGED <<Grid, Char, Erased, PutBuf, PutX, PutY, GoesDown, EndX, EndY>>
<1>0. cpu \in Contexts
  BY DEF ConsoleInv, WhereOK
<1>1. /\ InPut /\ UNCHANGED <<COLS, ROWS, before>>
      /\ \E a \in PutPoints \ {"put"} : Goto(a)
  BY DEF PutInside, PutStore, PutAdvance, PutWrap, PutDown, PutBottom, PutLift, PutRedraw,
         putFrame, InPut, PutPoints
<1>2. cpu'.who = cpu.who /\ cpu'.out = cpu.out /\ InPut'
  BY <1>0, <1>1, GotoType DEF InPut, IdlePoints
<1>3. UNCHANGED <<Grid, Char, Erased>>
  BY <1>1, <1>2 DEF Grid, Char, Erased
<1>4. UNCHANGED <<PutBuf, PutX, PutY>>
  BY <1>1, <1>3 DEF PutBuf, PutX, PutY
<1>5. UNCHANGED GoesDown
  BY <1>1, <1>3, <1>4 DEF GoesDown
<1> QED BY <1>1, <1>2, <1>3, <1>4, <1>5 DEF EndX, EndY

(* The cell before a cell of the grid is one.                                  *)
LEMMA BackOfFacts ==
  ASSUME NEW w \in Nat \ {0}, NEW x \in 0..(w - 1), NEW y \in Nat
  PROVE  /\ BackOf(x, y, w) = <<BackOf(x, y, w)[1], BackOf(x, y, w)[2]>>
         /\ BackOf(x, y, w)[1] \in 0..(w - 1)
         /\ BackOf(x, y, w)[2] \in 0..y
<1>1. CASE x > 0
  BY <1>1 DEF BackOf
<1>2. CASE x = 0 /\ y > 0
  BY <1>2 DEF BackOf
<1>3. CASE x = 0 /\ y = 0
  BY <1>3 DEF BackOf
<1> QED BY <1>1, <1>2, <1>3

(* What fbcon_putchar found, as it stays until it is done.                       *)
BeforeOK ==
  /\ before.buf \in [Cell -> Glyphs]
  /\ before.cx \in 0..(COLS - 1)
  /\ before.cy \in 0..(ROWS - 1)
  /\ COLS \in 1..MAX_COLS /\ ROWS \in 1..MAX_ROWS
  /\ Char \in Chars

(* That it does.                                                          *)
LEMMA BeforeStays ==
  ASSUME TerminalInv, InPut
  PROVE  BeforeOK
<1>1. cpu.out \in Seq(Chars) /\ cpu.out # <<>>
  BY DEF TerminalInv, ConsoleInv, WhereOK, Contexts
<1>2. Char \in Chars
  BY <1>1 DEF Char
<1> QED BY <1>2 DEF TerminalInv, ConsoleInv, TypeOK, PutOK, BeforeOK

(* The cells that fbcon_putchar may write.                                    *)
LEMMA PutCells ==
  ASSUME BeforeOK
  PROVE  /\ <<before.cx, before.cy>> \in Grid
         /\ Erased = <<Erased[1], Erased[2]>>
         /\ Erased[1] \in 0..(COLS - 1) /\ Erased[2] \in 0..(ROWS - 1)
         /\ Erased \in Grid /\ Grid \subseteq Cell
         /\ PutBuf \in [Cell -> Glyphs]
         /\ \A p \in Cell \ Grid : PutBuf[p] = before.buf[p]
<1>0. /\ COLS \in Nat \ {0} /\ ROWS \in Nat \ {0}
      /\ before.cx \in 0..(COLS - 1) /\ before.cy \in 0..(ROWS - 1) /\ before.cy \in Nat
  BY ConsoleSizes DEF BeforeOK
<1>1. <<before.cx, before.cy>> \in Grid
  BY <1>0 DEF Grid
<1>2. /\ Erased = <<Erased[1], Erased[2]>>
      /\ Erased[1] \in 0..(COLS - 1) /\ Erased[2] \in 0..(before.cy)
  BY <1>0, BackOfFacts DEF Erased
<1>3. Erased[2] \in 0..(ROWS - 1)
  BY <1>0, <1>2
<1>4. Erased \in Grid
  BY <1>2, <1>3 DEF Grid
<1>5. Grid \subseteq Cell
  BY ConsoleSizes DEF BeforeOK, Grid, Cell
<1>6. PutBuf \in [Cell -> Glyphs] /\ \A p \in Cell \ Grid : PutBuf[p] = before.buf[p]
  <2>0. before.buf \in [Cell -> Glyphs] /\ " " \in Glyphs
    BY DEF BeforeOK, Glyphs
  <2> QED BY <1>1, <1>4, <1>5, <2>0 DEF PutBuf
<1> QED BY <1>1, <1>2, <1>3, <1>4, <1>5, <1>6

(* The parts of TerminalInv that a step inside fbcon_putchar has to show.           *)
LEMMA InsideInv ==
  ASSUME TerminalInv, PutInside, ConsoleInv', PutOK',
         \A p \in Cell \ Grid : buf'[p] = buf[p]
  PROVE  TerminalInv'
<1>1. cpu'.who = cpu.who /\ UNCHANGED Grid
  BY InsideSame DEF TerminalInv
<1>2. BlankOK'
  BY <1>1 DEF TerminalInv, BlankOK, Cell
<1> QED BY <1>2 DEF TerminalInv

(* How PutOK goes on: what fbcon_putchar found is still the same.                 *)
LEMMA PutGoesOn ==
  ASSUME TerminalInv, PutInside
  PROVE  /\ BeforeOK
         /\ before'.buf \in [Cell -> Glyphs]
         /\ before'.cx \in 0..(COLS' - 1)
         /\ before'.cy \in 0..(ROWS' - 1)
<1>1. InPut /\ UNCHANGED <<COLS, ROWS, before>>
  BY InsideSame DEF TerminalInv
<1>2. BeforeOK
  BY <1>1, BeforeStays
<1> QED BY <1>1, <1>2 DEF BeforeOK

(* A glyph, a blank or nothing is stored.                                      *)
LEMMA StoreTerminal == TerminalInv /\ ConsoleInv' /\ PutStore => TerminalInv'
<1>. SUFFICES ASSUME TerminalInv, ConsoleInv', PutStore PROVE TerminalInv'
  OBVIOUS
<1>0. PutInside /\ ConsoleInv /\ cpu \in Contexts
  BY DEF PutInside, TerminalInv, ConsoleInv, WhereOK
<1>1. /\ InPut /\ InPut' /\ UNCHANGED <<COLS, ROWS, before>>
      /\ cpu'.who = cpu.who /\ cpu'.out = cpu.out
      /\ UNCHANGED <<Grid, Char, Erased, PutBuf, PutX, PutY, GoesDown, EndX, EndY>>
  BY <1>0, InsideSame
<1>2. /\ BeforeOK
      /\ before'.buf \in [Cell -> Glyphs]
      /\ before'.cx \in 0..(COLS' - 1)
      /\ before'.cy \in 0..(ROWS' - 1)
  BY <1>0, PutGoesOn
<1>3. cpu.at = "store" /\ buf = before.buf /\ cx = before.cx /\ cy = before.cy
  BY <1>1 DEF PutStore, TerminalInv, PutOK
<1>4. Back = Erased
  BY <1>3 DEF Back, Erased, BackOf
<1>5. /\ <<before.cx, before.cy>> \in Grid /\ Erased = <<Erased[1], Erased[2]>>
      /\ \A p \in Cell \ Grid : PutBuf[p] = before.buf[p]
  BY <1>2, PutCells
<1>6. ASSUME NEW a \in PutPoints \ {"put"}, Goto(a) PROVE cpu'.at = a
  BY <1>0, <1>6, GotoType DEF IdlePoints
<1>7. PutOK' /\ buf' = PutBuf
  <2>1. CASE Char \in {"nl", "cr"}
    <3>1. /\ buf' = before.buf /\ cx' = 0 /\ cy' = before.cy
          /\ Goto(IF Char = "nl" THEN "down" ELSE "wrap")
      BY <1>3, <2>1 DEF PutStore, Char, Glyphs
    <3>2. PutBuf = before.buf /\ PutX = 0 /\ PutY = before.cy /\ (Char = "nl" => GoesDown)
      BY <2>1 DEF PutBuf, PutX, PutY, Glyphs, GoesDown
    <3>3. cpu'.at = IF Char = "nl" THEN "down" ELSE "wrap"
      BY <1>6, <3>1 DEF PutPoints
    <3> QED BY <1>1, <1>2, <3>1, <3>2, <3>3 DEF PutOK
  <2>2. CASE Char = "bs"
    <3>1. /\ cx' = Erased[1] /\ cy' = Erased[2] /\ Goto("wrap")
          /\ buf' = [before.buf EXCEPT ![<<cx', cy'>>] = " "]
      BY <1>3, <1>4, <2>2 DEF PutStore, Store, Char, Glyphs
    <3>2. PutBuf = [before.buf EXCEPT ![Erased] = " "] /\ PutX = Erased[1] /\ PutY = Erased[2]
      BY <2>2 DEF PutBuf, PutX, PutY, Glyphs
    <3>3. cpu'.at = "wrap"
      BY <1>6, <3>1 DEF PutPoints
    <3>4. buf' = PutBuf
      BY <1>5, <3>1, <3>2
    <3> QED BY <1>1, <1>2, <2>2, <3>1, <3>2, <3>3, <3>4 DEF PutOK
  <2>3. CASE Char = "tab"
    <3>1. /\ buf' = before.buf /\ cx' = ((before.cx + TAB) \div TAB) * TAB /\ cy' = before.cy
          /\ Goto("wrap")
      BY <1>3, <2>3 DEF PutStore, Char, Glyphs
    <3>2. /\ PutBuf = before.buf /\ PutX = ((before.cx + TAB) \div TAB) * TAB
          /\ PutY = before.cy
      BY <2>3 DEF PutBuf, PutX, PutY, Glyphs
    <3>3. cpu'.at = "wrap"
      BY <1>6, <3>1 DEF PutPoints
    <3> QED BY <1>1, <1>2, <2>3, <3>1, <3>2, <3>3 DEF PutOK
  <2>4. CASE Char \in Glyphs
    <3>1. /\ buf' = [before.buf EXCEPT ![<<before.cx, before.cy>>] = Char]
          /\ cx' = before.cx /\ cy' = before.cy /\ Goto("advance")
      BY <1>3, <2>4 DEF PutStore, Store, Char, Glyphs
    <3>2. PutBuf = [before.buf EXCEPT ![<<before.cx, before.cy>>] = Char]
      BY <2>4 DEF PutBuf
    <3>3. cpu'.at = "advance"
      BY <1>6, <3>1 DEF PutPoints
    <3> QED BY <1>1, <1>2, <2>4, <3>1, <3>2, <3>3 DEF PutOK
  <2> QED BY <1>2, <2>1, <2>2, <2>3, <2>4 DEF BeforeOK, Chars
<1> QED BY <1>0, <1>3, <1>5, <1>7, InsideInv

(* The rest of fbcon_putchar.                                                *)
LEMMA InsideTerminal == TerminalInv /\ ConsoleInv' /\ PutInside => TerminalInv'
<1>. SUFFICES ASSUME TerminalInv, ConsoleInv', PutInside PROVE TerminalInv'
  OBVIOUS
<1>0. ConsoleInv /\ cpu \in Contexts
  BY DEF TerminalInv, ConsoleInv, WhereOK
<1>1. /\ InPut /\ InPut' /\ UNCHANGED <<COLS, ROWS, before>>
      /\ cpu'.who = cpu.who /\ cpu'.out = cpu.out
      /\ UNCHANGED <<Grid, Char, Erased, PutBuf, PutX, PutY, GoesDown, EndX, EndY>>
  BY <1>0, InsideSame
<1>2. /\ BeforeOK
      /\ before'.buf \in [Cell -> Glyphs]
      /\ before'.cx \in 0..(COLS' - 1)
      /\ before'.cy \in 0..(ROWS' - 1)
  BY PutGoesOn
<1>3. /\ COLS \in Int /\ ROWS \in Int /\ cx \in Int /\ cy \in Int
      /\ Char = "nl" => Char \notin Glyphs
  BY <1>0, Numbers DEF ConsoleInv, Glyphs
<1>4. ASSUME NEW a \in PutPoints \ {"put"}, Goto(a) PROVE cpu'.at = a
  BY <1>0, <1>4, GotoType DEF IdlePoints
<1>5. ASSUME PutOK', buf' = buf PROVE TerminalInv'
  BY <1>5, InsideInv
<1>6. CASE PutStore
  BY <1>6, StoreTerminal
<1>7. CASE PutAdvance
  <2>1. cpu.at = "advance" /\ cx' = cx + 1 /\ Goto("wrap") /\ UNCHANGED <<cy, buf>>
    BY <1>7 DEF PutAdvance
  <2>2. Char \in Glyphs /\ buf = PutBuf /\ cx = before.cx /\ cy = before.cy
    BY <1>1, <2>1 DEF TerminalInv, PutOK
  <2>3. Char \notin {"nl", "bs"}
    BY <2>2 DEF Glyphs
  <2>4. PutX = before.cx + 1 /\ PutY = before.cy
    BY <2>2, <2>3 DEF PutX, PutY
  <2>5. cpu'.at = "wrap"
    BY <1>4, <2>1 DEF PutPoints
  <2> QED BY <1>1, <1>2, <1>5, <2>1, <2>2, <2>3, <2>4, <2>5 DEF PutOK
<1>8. CASE PutWrap
  <2>1. /\ cpu.at = "wrap" /\ UNCHANGED <<cy, buf>>
        /\ cx >= COLS => cx' = 0 /\ Goto("down")
        /\ ~(cx >= COLS) => cx' = cx /\ Goto("bottom")
    BY <1>8 DEF PutWrap
  <2>2. Char # "nl" /\ buf = PutBuf /\ cx = PutX /\ cy = PutY
    BY <1>1, <2>1 DEF TerminalInv, PutOK
  <2>3. CASE cx >= COLS
    <3>1. GoesDown /\ cx' = 0 /\ cpu'.at = "down"
      BY <1>4, <2>1, <2>2, <2>3 DEF GoesDown, PutPoints
    <3> QED BY <1>1, <1>2, <1>5, <2>1, <2>2, <3>1 DEF PutOK
  <2>4. CASE ~(cx >= COLS)
    <3>1. ~GoesDown /\ cx' = cx /\ cpu'.at = "bottom"
      BY <1>4, <2>1, <2>2, <2>4 DEF GoesDown, PutPoints
    <3>2. EndX = PutX /\ EndY = PutY
      BY <3>1 DEF EndX, EndY
    <3> QED BY <1>1, <1>2, <1>5, <2>1, <2>2, <3>1, <3>2 DEF PutOK
  <2> QED BY <2>3, <2>4
<1>9. CASE PutDown
  <2>1. cpu.at = "down" /\ UNCHANGED <<cx, buf>> /\ cy' = cy + 1 /\ Goto("bottom")
    BY <1>9 DEF PutDown
  <2>2. GoesDown /\ buf = PutBuf /\ cx = 0 /\ cy = PutY
    BY <1>1, <2>1 DEF TerminalInv, PutOK
  <2>3. EndX = 0 /\ EndY = PutY + 1
    BY <2>2 DEF EndX, EndY
  <2>4. cpu'.at = "bottom"
    BY <1>4, <2>1 DEF PutPoints
  <2> QED BY <1>1, <1>2, <1>5, <2>1, <2>2, <2>3, <2>4 DEF PutOK
<1>10. CASE PutBottom
  <2>1. /\ cpu.at = "bottom" /\ UNCHANGED <<cx, cy>>
        /\ cy >= ROWS => buf' = Scrolled /\ Goto("lift")
        /\ ~(cy >= ROWS) => buf' = buf /\ Goto("show")
    BY <1>10 DEF PutBottom
  <2>2. buf = PutBuf /\ cx = EndX /\ cy = EndY
    BY <1>1, <2>1 DEF TerminalInv, PutOK
  <2>3. CASE cy >= ROWS
    <3>1. Scrolled = Raised(PutBuf)
      BY <2>2 DEF Scrolled, Raised
    <3>2. Raised(PutBuf)' = Raised(PutBuf)
      BY <1>1 DEF Raised, Cell
    <3>3. cpu'.at = "lift" /\ buf' = Raised(PutBuf)
      BY <1>4, <2>1, <2>3, <3>1 DEF PutPoints
    <3>4. \A p \in Cell \ Grid : Raised(PutBuf)[p] = PutBuf[p]
      BY DEF Raised
    <3>5. PutOK'
      BY <1>1, <1>2, <2>1, <2>2, <2>3, <3>2, <3>3 DEF PutOK
    <3> QED BY <2>2, <3>3, <3>4, <3>5, InsideInv
  <2>4. CASE ~(cy >= ROWS)
    <3>1. cpu'.at = "show" /\ buf' = buf
      BY <1>4, <2>1, <2>4 DEF PutPoints
    <3> QED BY <1>1, <1>2, <1>5, <2>1, <2>2, <2>4, <3>1 DEF PutOK
  <2> QED BY <2>3, <2>4
<1>11. CASE PutLift \/ PutRedraw
  <2>1. \/ cpu.at = "lift" /\ cy' = cy - 1 /\ Goto("redraw")
        \/ cpu.at = "redraw" /\ cy' = cy /\ Goto("show")
    BY <1>11 DEF PutLift, PutRedraw
  <2>2. UNCHANGED <<cx, buf>>
    BY <1>11 DEF PutLift, PutRedraw
  <2>3. EndY >= ROWS /\ buf = Raised(PutBuf) /\ cx = EndX /\ cy' = EndY - 1
    BY <1>1, <2>1 DEF TerminalInv, PutOK
  <2>4. cpu'.at \in {"redraw", "show"}
    BY <1>4, <2>1 DEF PutPoints
  <2>5. Raised(PutBuf)' = Raised(PutBuf)
    BY <1>1 DEF Raised, Cell
  <2> QED BY <1>1, <1>2, <1>5, <2>2, <2>3, <2>4, <2>5 DEF PutOK
<1> QED BY <1>6, <1>7, <1>8, <1>9, <1>10, <1>11 DEF PutInside

(* Boot starts with a blank buffer.                                          *)
LEMMA TerminalStarts == Init => TerminalInv
<1>. SUFFICES ASSUME Init PROVE TerminalInv
  OBVIOUS
<1>1. ConsoleInv
  BY ConsoleStarts
<1>2. ~InPut
  BY DEF Init, At, InPut, PutPoints
<1>3. BlankOK
  BY DEF Init, BlankOK
<1> QED BY <1>1, <1>2, <1>3 DEF TerminalInv, PutOK

(* The inductive step, interrupts kept out of what DrawWhole names.                  *)
LEMMA TerminalStep ==
  ASSUME DrawWhole
  PROVE  TerminalInv /\ [Next]_vars => TerminalInv'
<1>. SUFFICES ASSUME TerminalInv, [Next]_vars PROVE TerminalInv'
  OBVIOUS
<1>0. ConsoleInv /\ ConsoleInv' /\ PutOK /\ BlankOK /\ cpu \in Contexts
  BY ConsoleStep DEF TerminalInv, ConsoleInv, WhereOK
<1>a. ASSUME ~InPut', BlankOK' PROVE TerminalInv'
  BY <1>0, <1>a DEF TerminalInv, PutOK
<1>b. ASSUME UNCHANGED <<COLS, ROWS, buf>>, cpu'.who = "boot" => cpu.who = "boot" PROVE BlankOK'
  BY <1>0, <1>b DEF BlankOK, Cell, Grid
<1>1. CASE UNCHANGED vars
  <2>1. UNCHANGED <<COLS, ROWS, cx, cy, buf, before, cpu>>
    BY <1>1 DEF vars, console, text
  <2>2. BlankOK'
    BY <1>b, <2>1
  <2>3. PutOK'
    <3>1. UNCHANGED <<InPut, Char, Grid, Cell, Erased>>
      BY <2>1 DEF InPut, Char, Grid, Cell, Erased
    <3>2. UNCHANGED <<PutBuf, PutX, PutY>>
      BY <2>1, <3>1 DEF PutBuf, PutX, PutY
    <3>3. UNCHANGED GoesDown
      BY <2>1, <3>1, <3>2 DEF GoesDown
    <3>4. UNCHANGED <<EndX, EndY, Raised(PutBuf)>>
      BY <2>1, <3>1, <3>2, <3>3 DEF EndX, EndY, Raised
    <3> QED BY <1>0, <2>1, <3>1, <3>2, <3>3, <3>4 DEF PutOK
  <2> QED BY <1>0, <2>2, <2>3 DEF TerminalInv
<1>2. CASE Calm
  BY <1>2, <1>a, <1>b DEF Calm
<1>3. CASE PutBegin
  <2>1. /\ cpu.at = "put" /\ UNCHANGED <<COLS, ROWS, buf, cx, cy>> /\ Goto("store")
        /\ before' = [buf |-> buf, cx |-> cx, cy |-> cy]
    BY <1>3 DEF PutBegin, putFrame
  <2>2. cpu'.at = "store" /\ cpu'.who = cpu.who
    BY <1>0, <2>1, GotoType DEF IdlePoints, PutPoints
  <2>3. /\ cx \in 0..(COLS - 1) /\ cy \in 0..(ROWS - 1) /\ buf \in [Cell -> Glyphs]
    BY <1>0, <2>1, CursorInside
  <2>4. before'.buf = buf /\ before'.cx = cx /\ before'.cy = cy
    BY <2>1
  <2>5. PutOK'
    BY <2>1, <2>2, <2>3, <2>4 DEF PutOK, Cell
  <2> QED BY <1>0, <1>b, <2>1, <2>2, <2>5 DEF TerminalInv
<1>4. CASE PutInside
  BY <1>0, <1>4, InsideTerminal
<1>5. CASE PutShow
  <2>1. UNCHANGED <<COLS, ROWS, buf>> /\ cpu' = [cpu EXCEPT !.at = "put", !.out = Tail(@)]
    BY <1>5 DEF PutShow, putFrame
  <2>2. cpu'.at = "put" /\ cpu'.who = cpu.who
    BY <1>0, <2>1 DEF Contexts
  <2> QED BY <1>a, <1>b, <2>1, <2>2 DEF InPut, PutPoints
<1>6. CASE ArrowMove
  <2>1. UNCHANGED <<COLS, ROWS, buf>> /\ Goto("draw")
    BY <1>6 DEF ArrowMove, cursorFrame
  <2>2. cpu'.at = "draw" /\ cpu'.who = cpu.who
    BY <1>0, <2>1, GotoType, LoopPoints
  <2> QED BY <1>a, <1>b, <2>1, <2>2 DEF InPut, PutPoints
<1>7. CASE FramebufferFound
  <2>1. cpu'.at = "run" /\ cpu'.who = "booted"
    BY <1>7 DEF FramebufferFound, At
  <2> QED BY <1>a, <2>1 DEF BlankOK, InPut, PutPoints
<1> QED BY <1>0, <1>1, <1>2, <1>3, <1>4, <1>5, <1>6, <1>7, StepCases

(* TerminalInv holds while no interrupt splits a drawing.                         *)
LEMMA TerminalInvariant == ASSUME DrawWhole PROVE Spec => []TerminalInv
<1>1. TerminalInv /\ [Next]_vars => TerminalInv'
  BY TerminalStep
<1> QED BY <1>1, TerminalStarts, PTL DEF Spec

-----------------------------------------------------------------------------
(***************************************************************************)
(* The steps of the tape.                                                   *)
(***************************************************************************)
(* Outside a putchar, and inside one, a step that keeps what the tape is made of     *)
(* keeps the tape.                                                          *)
LEMMA TapeKept ==
  ASSUME UNCHANGED <<COLS, ROWS>>,
         \/ ~InPut /\ ~InPut' /\ UNCHANGED <<buf, cx, cy>>
         \/ InPut /\ InPut' /\ UNCHANGED before
         \/ ~InPut /\ InPut' /\ before' = [buf |-> buf, cx |-> cx, cy |-> cy]
  PROVE  UNCHANGED <<COLS, ROWS, TapeNow, PosNow>>
BY DEF TapeNow, PosNow, OnTape

(* The end of a putchar settles the tape.                                       *)
LEMMA ShowSettles ==
  ASSUME TerminalInv, PutShow
  PROVE  /\ UNCHANGED <<COLS, ROWS>> /\ BeforeOK
         /\ EndX \in 0..(COLS - 1) /\ EndY \in 0..ROWS
         /\ TapeNow = OnTape(before.buf, COLS, ROWS)
         /\ PosNow = before.cy * COLS + before.cx
         /\ Tape!Settle(OnTape(PutBuf, COLS, ROWS), EndY * COLS + EndX)
<1>0. ConsoleInv /\ cpu \in Contexts
  BY DEF TerminalInv, ConsoleInv, WhereOK
<1>1. /\ cpu.at = "show" /\ InPut /\ UNCHANGED <<COLS, ROWS, cx, cy, buf>>
      /\ cpu' = [cpu EXCEPT !.at = "put", !.out = Tail(@)]
  BY DEF PutShow, putFrame, InPut, PutPoints
<1>2. cpu'.at = "put" /\ ~InPut'
  BY <1>0, <1>1 DEF Contexts, InPut, PutPoints
<1>3. BeforeOK
  BY <1>1, BeforeStays
<1>4. /\ COLS \in 1..MAX_COLS /\ ROWS \in 1..MAX_ROWS
      /\ cx \in 0..(COLS - 1) /\ cy \in 0..(ROWS - 1)
  BY <1>0, <1>1, CursorInside
<1>5. /\ cx = EndX
      /\ EndY >= ROWS => buf = Raised(PutBuf) /\ cy = EndY - 1
      /\ ~(EndY >= ROWS) => buf = PutBuf /\ cy = EndY
  BY <1>1 DEF TerminalInv, PutOK
<1>6. COLS \in Nat \ {0} /\ ROWS \in Nat \ {0} /\ cy \in Nat
  BY <1>4
<1>a. EndY \in Int
  <2>1. before.cy \in Int /\ Erased[2] \in Int
    BY <1>3, PutCells DEF BeforeOK
  <2> QED BY <2>1 DEF EndY, PutY
<1>7. EndX \in 0..(COLS - 1) /\ EndY \in 0..ROWS
  BY <1>4, <1>5, <1>6, <1>a
<1>8. TapeNow = OnTape(before.buf, COLS, ROWS) /\ PosNow = before.cy * COLS + before.cx
  BY <1>1 DEF TapeNow, PosNow
<1>9. TapeNow' = OnTape(buf, COLS, ROWS) /\ PosNow' = cy * COLS + cx
  BY <1>1, <1>2 DEF TapeNow, PosNow, OnTape
<1>b. /\ EndY < ROWS => EndY * COLS + EndX < COLS * ROWS
      /\ EndY >= ROWS => ~(EndY * COLS + EndX < COLS * ROWS)
  <2>1. EndY \in Nat
    BY <1>6, <1>7
  <2>2. /\ EndY * COLS + EndX \in Nat /\ COLS * ROWS \in Nat
        /\ EndY < ROWS => EndY * COLS + EndX < COLS * ROWS
        /\ EndY >= ROWS => EndY * COLS + EndX >= COLS * ROWS
    BY <1>6, <1>7, <2>1, PlaceOf
  <2> QED BY <2>2
<1>10. CASE EndY < ROWS
  <2>1. buf = PutBuf /\ cy = EndY
    BY <1>5, <1>6, <1>7, <1>10
  <2>2. Tape!Settle(OnTape(PutBuf, COLS, ROWS), EndY * COLS + EndX)
    BY <1>5, <1>9, <1>10, <1>b, <2>1 DEF Tape!Settle
  <2> QED BY <1>1, <1>3, <1>7, <1>8, <2>2
<1>11. CASE EndY >= ROWS
  <2>1. buf = Raised(PutBuf) /\ cy = EndY - 1
    BY <1>5, <1>11
  <2>2. PutBuf \in [Cell -> Glyphs]
    BY <1>3, PutCells
  <2>. DEFINE t == OnTape(PutBuf, COLS, ROWS)
              u == [i \in DOMAIN t |-> IF i + COLS \in DOMAIN t THEN t[i + COLS] ELSE " "]
  <2>3. OnTape(Raised(PutBuf), COLS, ROWS) = u
    BY <1>4, <2>2, TapeRaised
  <2>4. (EndY - 1) * COLS = EndY * COLS - COLS /\ EndY * COLS \in Int
    BY <1>6, <1>a
  <2>5. PosNow' = (EndY * COLS + EndX) - COLS
    BY <1>5, <1>6, <1>7, <1>9, <2>1, <2>4
  <2>6. TapeNow' = u
    BY <1>9, <2>1, <2>3
  <2>7. Tape!Settle(t, EndY * COLS + EndX)
    <3>. DEFINE q == EndY * COLS + EndX
    <3>1. ~(q < COLS * ROWS)
      BY <1>11, <1>b
    <3>4. PosNow' = q - COLS
      BY <2>5
    <3>2. TapeNow' = [i \in DOMAIN t |-> IF i + COLS \in DOMAIN t THEN t[i + COLS] ELSE " "]
      BY <2>6
    <3>. HIDE DEF q, t
    <3>3. Tape!Settle(t, q)
      BY <3>1, <3>2, <3>4 DEF Tape!Settle
    <3> QED BY <3>3 DEF q
  <2> QED BY <1>1, <1>3, <1>7, <1>8, <2>7
<1> QED BY <1>6, <1>7, <1>10, <1>11

(* fbcon_putchar is one of the five operations on the tape.                        *)
LEMMA PutIsStep ==
  ASSUME TerminalInv, PutShow
  PROVE  Tape!Next
<1>. DEFINE x == before.cx
            y == before.cy
            t == OnTape(before.buf, COLS, ROWS)
            q == EndY * COLS + EndX
<1>1. /\ UNCHANGED <<COLS, ROWS>> /\ BeforeOK
      /\ EndX \in 0..(COLS - 1) /\ EndY \in 0..ROWS
      /\ TapeNow = t /\ PosNow = y * COLS + x
      /\ Tape!Settle(OnTape(PutBuf, COLS, ROWS), q)
  BY ShowSettles
<1>2. /\ COLS \in Nat \ {0} /\ ROWS \in Nat \ {0} /\ TAB \in Nat \ {0}
      /\ COLS \in 1..MAX_COLS /\ ROWS \in 1..MAX_ROWS
      /\ x \in 0..(COLS - 1) /\ y \in 0..(ROWS - 1) /\ y \in Nat /\ x \in Nat
      /\ before.buf \in [Cell -> Glyphs]
  BY <1>1, ConsoleSizes DEF BeforeOK
<1>3. PosNow \in Nat /\ PosNow % COLS = x /\ PosNow \div COLS = y
  BY <1>1, <1>2, Places
<1>4. Tape!Line(PosNow, COLS) = y * COLS
  BY <1>3 DEF Tape!Line
<1>5. y * COLS \in Nat /\ (y + 1) * COLS = y * COLS + COLS
  BY <1>2
<1>. HIDE DEF x, y, t, q
<1>6. CASE Char \in Glyphs
  <2>1. OnTape(PutBuf, COLS, ROWS) = [TapeNow EXCEPT ![PosNow] = Char]
    <3>1. PutBuf = [before.buf EXCEPT ![<<x, y>>] = Char]
      BY <1>6 DEF PutBuf, x, y
    <3>. DEFINE b == before.buf
    <3>2. b \in [Cell -> Glyphs]
      BY <1>2
    <3>. HIDE DEF b
    <3>3. OnTape(With(b, <<x, y>>, Char), COLS, ROWS)
            = With(OnTape(b, COLS, ROWS), y * COLS + x, Char)
      BY <1>2, <3>2, TapeStored
    <3>4. TapeNow = OnTape(b, COLS, ROWS) /\ PosNow = y * COLS + x
      BY <1>1 DEF t, b
    <3>5. PutBuf = [b EXCEPT ![<<x, y>>] = Char]
      BY <3>1 DEF b
    <3> QED BY <3>3, <3>4, <3>5, Zenon DEF With
  <2>2. q = PosNow + 1
    <3>1. Char \notin {"nl", "bs"}
      BY <1>6 DEF Glyphs
    <3>2. PutX = x + 1 /\ PutY = y
      BY <1>6, <3>1 DEF PutX, PutY, x, y
    <3>3. CASE x + 1 >= COLS
      <4>1. EndX = 0 /\ EndY = y + 1
        BY <3>2, <3>3 DEF EndX, EndY, GoesDown
      <4>2. x + 1 = COLS
        BY <1>2, <3>3
      <4> QED BY <1>1, <1>2, <1>5, <4>1, <4>2 DEF q
    <3>4. CASE ~(x + 1 >= COLS)
      <4>1. EndX = x + 1 /\ EndY = y
        BY <3>1, <3>2, <3>4 DEF EndX, EndY, GoesDown
      <4> QED BY <1>1, <1>2, <1>5, <4>1 DEF q
    <3> QED BY <3>3, <3>4
  <2>3. Tape!Write(Char)
    BY <1>1, <2>1, <2>2 DEF Tape!Write
  <2> QED BY <1>1, <1>6, <2>3 DEF Tape!Next
<1>7. CASE Char = "nl"
  <2>1. PutBuf = before.buf /\ EndX = 0 /\ EndY = y + 1
    BY <1>7 DEF PutBuf, EndX, EndY, GoesDown, PutY, Glyphs, y
  <2>2. q = Tape!Line(PosNow, COLS) + COLS
    BY <1>2, <1>4, <1>5, <2>1 DEF q
  <2>3. Tape!Newline
    BY <1>1, <2>1, <2>2 DEF Tape!Newline, t
  <2> QED BY <1>1, <2>3 DEF Tape!Next
<1>8. CASE Char = "cr"
  <2>1. PutBuf = before.buf /\ PutX = 0 /\ PutY = y
    BY <1>8 DEF PutBuf, PutX, PutY, Glyphs, y
  <2>2. EndX = 0 /\ EndY = y
    BY <1>2, <1>8, <2>1 DEF EndX, EndY, GoesDown
  <2>3. q = Tape!Line(PosNow, COLS)
    BY <1>2, <1>4, <1>5, <2>2 DEF q
  <2>4. Tape!Return
    BY <1>1, <2>1, <2>3 DEF Tape!Return, t
  <2> QED BY <1>1, <2>4 DEF Tape!Next
<1>9. CASE Char = "tab"
  <2>. DEFINE stop == (x \div TAB + 1) * TAB
  <2>1. (x + TAB) \div TAB = x \div TAB + 1
    BY <1>2, NextStop
  <2>2. PutBuf = before.buf /\ PutX = stop /\ PutY = y
    BY <1>9, <2>1 DEF PutBuf, PutX, PutY, Glyphs, x, y
  <2>3. stop \in Nat
    BY <1>2
  <2>. HIDE DEF stop
  <2>4. q = y * COLS + Tape!Smaller(COLS, stop)
    <3>1. CASE stop >= COLS
      <4>1. EndX = 0 /\ EndY = y + 1
        BY <2>2, <3>1 DEF EndX, EndY, GoesDown
      <4>2. Tape!Smaller(COLS, stop) = COLS
        BY <1>2, <2>3, <3>1 DEF Tape!Smaller
      <4> QED BY <1>2, <1>5, <4>1, <4>2 DEF q
    <3>2. CASE ~(stop >= COLS)
      <4>1. EndX = stop /\ EndY = y
        BY <1>9, <2>2, <3>2 DEF EndX, EndY, GoesDown
      <4>2. Tape!Smaller(COLS, stop) = stop
        BY <1>2, <2>3, <3>2 DEF Tape!Smaller
      <4> QED BY <4>1, <4>2 DEF q
    <3> QED BY <3>1, <3>2
  <2>5. stop = ((PosNow % COLS) \div TAB + 1) * TAB
    BY <1>3 DEF stop
  <2>6. Tape!Tabulate
    BY <1>1, <1>4, <2>2, <2>4, <2>5 DEF Tape!Tabulate, t
  <2> QED BY <1>1, <2>6 DEF Tape!Next
<1>10. CASE Char = "bs"
  <2>. DEFINE u == Erased[1]
              v == Erased[2]
  <2>1. Erased = <<u, v>> /\ u \in 0..(COLS - 1) /\ v \in 0..(ROWS - 1)
    BY <1>1, PutCells
  <2>2. Erased = BackOf(x, y, COLS)
    BY DEF Erased, x, y
  <2>. HIDE DEF u, v
  <2>3. PutBuf = [before.buf EXCEPT ![<<u, v>>] = " "] /\ PutX = u /\ PutY = v
    BY <1>10, <2>1 DEF PutBuf, PutX, PutY, Glyphs, u, v
  <2>4. EndX = u /\ EndY = v
    <3>1. ~(u >= COLS)
      BY <1>2, <2>1
    <3>2. ~GoesDown
      BY <1>10, <2>3, <3>1 DEF GoesDown
    <3> QED BY <2>3, <3>2 DEF EndX, EndY
  <2>5. v * COLS + u = IF PosNow = 0 THEN 0 ELSE PosNow - 1
    <3>1. CASE x > 0
      <4>1. <<u, v>> = <<x - 1, y>>
        BY <2>1, <2>2, <3>1 DEF BackOf
      <4>2. u = x - 1 /\ v = y
        BY <4>1
      <4> QED BY <1>1, <1>2, <1>5, <3>1, <4>2
    <3>2. CASE x = 0 /\ y > 0
      <4>1. <<u, v>> = <<COLS - 1, y - 1>>
        BY <2>1, <2>2, <3>2 DEF BackOf
      <4>2. u = COLS - 1 /\ v = y - 1
        BY <4>1
      <4>3. (y - 1) * COLS = y * COLS - COLS /\ y * COLS >= COLS
        BY <1>2, <3>2
      <4> QED BY <1>1, <1>2, <1>5, <3>2, <4>2, <4>3
    <3>3. CASE x = 0 /\ y = 0
      <4>1. <<u, v>> = <<0, 0>>
        BY <2>1, <2>2, <3>3 DEF BackOf
      <4>2. u = 0 /\ v = 0
        BY <4>1
      <4> QED BY <1>1, <1>2, <3>3, <4>2
    <3> QED BY <1>2, <3>1, <3>2, <3>3
  <2>6. OnTape(PutBuf, COLS, ROWS) = [TapeNow EXCEPT ![v * COLS + u] = " "]
    <3>. DEFINE b == before.buf
                blank == " "
    <3>1. b \in [Cell -> Glyphs]
      BY <1>2
    <3>3. TapeNow = OnTape(b, COLS, ROWS)
      BY <1>1 DEF t
    <3>4. PutBuf = [b EXCEPT ![<<u, v>>] = blank]
      BY <2>3
    <3>. HIDE DEF b, blank
    <3>2. OnTape(With(b, <<u, v>>, blank), COLS, ROWS)
            = With(OnTape(b, COLS, ROWS), v * COLS + u, blank)
      BY <1>2, <2>1, <3>1, TapeStored
    <3>5. OnTape(PutBuf, COLS, ROWS) = [TapeNow EXCEPT ![v * COLS + u] = blank]
      BY <3>2, <3>3, <3>4, Zenon DEF With
    <3> QED BY <3>5 DEF blank
  <2>7. Tape!Erase
    BY <1>1, <2>4, <2>5, <2>6 DEF Tape!Erase, q
  <2> QED BY <1>1, <2>7 DEF Tape!Next
<1> QED BY <1>1, <1>6, <1>7, <1>8, <1>9, <1>10 DEF BeforeOK, Chars

(* Between two putchars the tape is the buffer, and the position the cursor.       *)
LEMMA TapeIsText ==
  ASSUME ConsoleInv, cpu.at \in {"move", "run"}
  PROVE  /\ ~InPut
         /\ COLS \in Nat \ {0} /\ COLS \in 1..MAX_COLS
         /\ ROWS \in Nat \ {0} /\ ROWS \in 1..MAX_ROWS
         /\ cx \in 0..(COLS - 1) /\ cx \in Nat /\ cy \in 0..(ROWS - 1) /\ cy \in Nat
         /\ TapeNow = OnTape(buf, COLS, ROWS) /\ PosNow = cy * COLS + cx
         /\ DOMAIN TapeNow = 0..(COLS * ROWS - 1)
<1>1. ~InPut
  BY DEF InPut, PutPoints
<1>2. /\ COLS \in 1..MAX_COLS /\ ROWS \in 1..MAX_ROWS
      /\ cx \in 0..(COLS - 1) /\ cy \in 0..(ROWS - 1)
  BY CursorInside
<1>3. TapeNow = OnTape(buf, COLS, ROWS) /\ PosNow = cy * COLS + cx
  BY <1>1 DEF TapeNow, PosNow
<1> QED BY <1>1, <1>2, <1>3 DEF OnTape

(* A cursor key moves by one place or by one line, if there is room.                *)
LEMMA ArrowIsStep ==
  ASSUME TerminalInv, ArrowMove
  PROVE  [Tape!Next]_(Tape!vars)
<1>. DEFINE k == cpu.key
            x == Target(k)[1]
            y == Target(k)[2]
<1>0. ConsoleInv /\ WhereOK /\ cpu \in Contexts /\ cpu.at = "move"
  BY DEF TerminalInv, ArrowMove, ConsoleInv, WhereOK
<1>1. /\ ~InPut
      /\ COLS \in Nat \ {0} /\ ROWS \in Nat \ {0}
      /\ cx \in 0..(COLS - 1) /\ cy \in 0..(ROWS - 1)
      /\ PosNow = cy * COLS + cx
      /\ DOMAIN TapeNow = 0..(COLS * ROWS - 1)
  BY <1>0, TapeIsText
<1>2. k \in Arrows /\ cx' = x /\ cy' = y /\ UNCHANGED <<COLS, ROWS, buf>>
  BY <1>0 DEF ArrowMove, cursorFrame, WhereOK
<1>3. ~InPut'
  BY <1>0, GotoType, LoopPoints DEF ArrowMove, InPut, PutPoints
<1>4. TapeNow' = TapeNow /\ PosNow' = y * COLS + x
  BY <1>1, <1>2, <1>3 DEF TapeNow, PosNow, OnTape
<1>5. x \in 0..(COLS - 1) /\ y \in 0..(ROWS - 1)
  BY <1>1, <1>2, TargetFacts
<1>6. PosNow' \in DOMAIN TapeNow
  BY <1>1, <1>4, <1>5, TapeAt
<1>7. ASSUME NEW d \in {-1, 1, -COLS, COLS}, PosNow' = PosNow + d
      PROVE  Tape!Next
  <2>1. Tape!Move(d)
    BY <1>4, <1>6, <1>7 DEF Tape!Move
  <2> QED BY <1>2, <2>1 DEF Tape!Next
<1>8. cy * COLS \in Nat /\ (cy + 1) * COLS = cy * COLS + COLS /\ (cy - 1) * COLS = cy * COLS - COLS
  BY <1>1
<1>9. ASSUME <<x, y>> = <<cx, cy>> PROVE UNCHANGED Tape!vars
  <2>1. x = cx /\ y = cy
    BY <1>9
  <2> QED BY <1>1, <1>2, <1>4, <2>1 DEF Tape!vars
<1>10. Target(k) = <<x, y>>
  BY <1>2 DEF Arrows, Target, Back
<1>. HIDE DEF x, y
<1>11. CASE k = "up"
  <2>1. <<x, y>> = <<cx, IF cy > 0 THEN cy - 1 ELSE cy>>
    BY <1>10, <1>11 DEF Target
  <2>2. CASE cy > 0
    <3>1. x = cx /\ y = cy - 1
      BY <2>1, <2>2
    <3>2. PosNow' = PosNow + (-COLS)
      BY <1>1, <1>4, <1>8, <3>1
    <3> QED BY <1>7, <3>2
  <2>3. CASE ~(cy > 0)
    BY <1>9, <2>1, <2>3
  <2> QED BY <2>2, <2>3
<1>12. CASE k = "down"
  <2>1. <<x, y>> = <<cx, IF cy < ROWS - 1 THEN cy + 1 ELSE cy>>
    BY <1>10, <1>12 DEF Target
  <2>2. CASE cy < ROWS - 1
    <3>1. x = cx /\ y = cy + 1
      BY <2>1, <2>2
    <3>2. PosNow' = PosNow + COLS
      BY <1>1, <1>4, <1>8, <3>1
    <3> QED BY <1>7, <3>2
  <2>3. CASE ~(cy < ROWS - 1)
    BY <1>9, <2>1, <2>3
  <2> QED BY <2>2, <2>3
<1>13. CASE k = "left"
  <2>1. <<x, y>> = Back
    BY <1>10, <1>13 DEF Target
  <2>2. CASE cx > 0
    <3>1. x = cx - 1 /\ y = cy
      BY <2>1, <2>2 DEF Back
    <3>2. PosNow' = PosNow + (-1)
      BY <1>1, <1>4, <1>8, <3>1
    <3> QED BY <1>7, <3>2
  <2>3. CASE cx = 0 /\ cy > 0
    <3>1. x = COLS - 1 /\ y = cy - 1
      BY <2>1, <2>3 DEF Back
    <3>2. PosNow' = PosNow + (-1)
      BY <1>1, <1>4, <1>8, <2>3, <3>1
    <3> QED BY <1>7, <3>2
  <2>4. CASE cx = 0 /\ cy = 0
    BY <1>9, <2>1, <2>4 DEF Back
  <2> QED BY <1>1, <2>2, <2>3, <2>4
<1>14. CASE k = "right"
  <2>1. <<x, y>> = IF cx < COLS - 1 THEN <<cx + 1, cy>>
                   ELSE IF cy < ROWS - 1 THEN <<0, cy + 1>> ELSE <<cx, cy>>
    BY <1>10, <1>14 DEF Target
  <2>2. CASE cx < COLS - 1
    <3>1. x = cx + 1 /\ y = cy
      BY <2>1, <2>2
    <3>2. PosNow' = PosNow + 1
      BY <1>1, <1>4, <1>8, <3>1
    <3> QED BY <1>7, <3>2
  <2>3. CASE ~(cx < COLS - 1) /\ cy < ROWS - 1
    <3>1. x = 0 /\ y = cy + 1 /\ cx = COLS - 1
      BY <1>1, <2>1, <2>3
    <3>2. PosNow' = PosNow + 1
      BY <1>1, <1>4, <1>8, <3>1
    <3> QED BY <1>7, <3>2
  <2>4. CASE ~(cx < COLS - 1) /\ ~(cy < ROWS - 1)
    BY <1>9, <2>1, <2>4
  <2> QED BY <2>2, <2>3, <2>4
<1> QED BY <1>2, <1>11, <1>12, <1>13, <1>14 DEF Arrows

(* fbcon_resize keeps every cell that has room, and shows blanks in the new ones.   *)
LEMMA ResizeIsStep ==
  ASSUME TerminalInv, ConsoleInv', FramebufferFound
  PROVE  [Tape!Next]_(Tape!vars)
<1>. DEFINE w == COLS'
            h == ROWS'
<1>0. /\ ConsoleInv /\ BlankOK /\ cpu = At("boot", "run") /\ cpu' = At("booted", "run")
      /\ UNCHANGED buf
  BY DEF TerminalInv, FramebufferFound
<1>1. /\ ~InPut
      /\ COLS \in Nat \ {0} /\ COLS \in 1..MAX_COLS
      /\ ROWS \in Nat \ {0} /\ ROWS \in 1..MAX_ROWS
      /\ cx \in 0..(COLS - 1) /\ cx \in Nat /\ cy \in 0..(ROWS - 1) /\ cy \in Nat
      /\ TapeNow = OnTape(buf, COLS, ROWS) /\ PosNow = cy * COLS + cx
  BY <1>0, TapeIsText DEF At
<1>2. ~InPut'
  BY <1>0 DEF At, InPut, PutPoints
<1>3. w \in 1..MAX_COLS /\ h \in 1..MAX_ROWS
  BY DEF ConsoleInv, TypeOK
<1>4. w \in Nat \ {0} /\ h \in Nat \ {0}
  BY <1>3, ConsoleSizes
<1>5. TapeNow' = OnTape(buf, w, h) /\ PosNow' = cy' * w + cx'
  BY <1>0, <1>2 DEF TapeNow, PosNow, OnTape
<1>6. PICK m \in Modes : fbcon_resize(m[1], m[2])
  BY DEF FramebufferFound
<1>7. CASE m[1] < 1 \/ m[2] < 1
  <2>1. UNCHANGED <<COLS, ROWS, cx, cy>>
    BY <1>6, <1>7 DEF fbcon_resize
  <2>2. UNCHANGED <<COLS, ROWS, TapeNow, PosNow>>
    BY <1>0, <1>1, <1>2, <2>1, TapeKept
  <2> QED BY <2>2 DEF Tape!vars
<1>8. CASE ~(m[1] < 1 \/ m[2] < 1)
  <2>1. /\ cx' = IF cx >= w THEN w - 1 ELSE cx
        /\ cy' = IF cy >= h THEN h - 1 ELSE cy
    BY <1>6, <1>8 DEF fbcon_resize
  <2>. HIDE DEF w, h
  <2>2. cx' = Tape!Smaller(cx, w - 1) /\ cy' = Tape!Smaller(cy, h - 1)
    BY <1>1, <1>4, <2>1 DEF Tape!Smaller
  <2>3. PosNow % COLS = cx /\ PosNow \div COLS = cy
    BY <1>1, Places
  <2>4. PosNow' = Tape!Smaller(PosNow \div COLS, h - 1) * w + Tape!Smaller(PosNow % COLS, w - 1)
    BY <1>5, <2>2, <2>3
  <2>5. ASSUME NEW i \in 0..(w * h - 1)
        PROVE  buf[<<i % w, i \div w>>]
                 = IF i % w < COLS /\ i \div w < ROWS
                     THEN TapeNow[(i \div w) * COLS + (i % w)] ELSE " "
    <3>. DEFINE x == i % w
                y == i \div w
    <3>1. x \in 0..(w - 1) /\ y \in 0..(h - 1)
      BY <1>4, CellOf
    <3>. HIDE DEF x, y
    <3>2. CASE x < COLS /\ y < ROWS
      <4>1. x \in 0..(COLS - 1) /\ y \in 0..(ROWS - 1)
        BY <1>1, <1>4, <3>1, <3>2
      <4>2. TapeNow[y * COLS + x] = buf[<<x, y>>]
        BY <1>1, <4>1, TapeAt
      <4> QED BY <3>2, <4>2 DEF x, y
    <3>3. CASE ~(x < COLS /\ y < ROWS)
      <4>1. <<x, y>> \in Cell
        BY <1>3, <3>1, ConsoleSizes DEF Cell
      <4>2. <<x, y>> \notin Grid
        BY <1>1, <3>3 DEF Grid
      <4>3. buf[<<x, y>>] = " "
        BY <1>0, <4>1, <4>2 DEF BlankOK, At
      <4> QED BY <3>3, <4>3 DEF x, y
    <3> QED BY <3>2, <3>3
  <2>6. TapeNow' = [i \in 0..(w * h - 1) |->
                     IF i % w < COLS /\ i \div w < ROWS
                       THEN TapeNow[(i \div w) * COLS + (i % w)] ELSE " "]
    BY <1>5, <2>5 DEF OnTape
  <2>7. COLS' = w /\ ROWS' = h
    BY DEF w, h
  <2>8. Tape!Resize(w, h)
    BY <2>4, <2>6, <2>7 DEF Tape!Resize
  <2> QED BY <1>3, <2>8 DEF Tape!Next
<1> QED BY <1>7, <1>8

(* The first state of the tape.                                              *)
LEMMA TapeStarts == Init => Tape!Init
<1>. SUFFICES ASSUME Init PROVE Tape!Init
  OBVIOUS
<1>1. ConsoleInv /\ cpu.at = "run"
  BY ConsoleStarts DEF Init, At
<1>2. /\ COLS \in Nat \ {0} /\ COLS \in 1..MAX_COLS
      /\ ROWS \in Nat \ {0} /\ ROWS \in 1..MAX_ROWS
      /\ TapeNow = OnTape(buf, COLS, ROWS) /\ PosNow = cy * COLS + cx
  BY <1>1, TapeIsText
<1>3. buf = [p \in Cell |-> " "] /\ cx = 0 /\ cy = 0
  BY DEF Init
<1>4. PosNow = 0
  <2>1. PosNow = 0 * COLS + 0
    BY <1>2, <1>3, Zenon
  <2> QED BY <1>2, <2>1
<1>5. ASSUME NEW i \in 0..(COLS * ROWS - 1) PROVE buf[<<i % COLS, i \div COLS>>] = " "
  <2>1. i % COLS \in 0..(COLS - 1) /\ i \div COLS \in 0..(ROWS - 1)
    BY <1>2, CellOf
  <2>2. <<i % COLS, i \div COLS>> \in Cell
    BY <1>2, <2>1, ConsoleSizes DEF Cell
  <2> QED BY <1>3, <2>2
<1>6. TapeNow = [i \in 0..(COLS * ROWS - 1) |-> " "]
  BY <1>2, <1>5 DEF OnTape
<1> QED BY <1>2, <1>4, <1>6 DEF Tape!Init

(* Every step of the console is one of the tape, or none.                         *)
LEMMA TapeStep ==
  ASSUME DrawWhole
  PROVE  TerminalInv /\ TerminalInv' /\ [Next]_vars => [Tape!Next]_(Tape!vars)
<1>. SUFFICES ASSUME TerminalInv, TerminalInv', [Next]_vars PROVE [Tape!Next]_(Tape!vars)
  OBVIOUS
<1>0. ConsoleInv /\ ConsoleInv' /\ cpu \in Contexts
  BY DEF TerminalInv, ConsoleInv, WhereOK
<1>a. ASSUME UNCHANGED <<COLS, ROWS, TapeNow, PosNow>> PROVE [Tape!Next]_(Tape!vars)
  BY <1>a DEF Tape!vars
<1>1. CASE UNCHANGED vars
  <2>1. UNCHANGED <<COLS, ROWS, cx, cy, buf, before, cpu>>
    BY <1>1 DEF vars, console, text
  <2>2. UNCHANGED InPut
    BY <2>1 DEF InPut
  <2> QED BY <1>a, <2>1, <2>2, TapeKept
<1>2. CASE Calm
  BY <1>2, <1>a, TapeKept DEF Calm
<1>3. CASE PutBegin
  <2>1. /\ cpu.at = "put" /\ UNCHANGED <<COLS, ROWS>> /\ Goto("store")
        /\ before' = [buf |-> buf, cx |-> cx, cy |-> cy]
    BY <1>3 DEF PutBegin, putFrame
  <2>2. ~InPut /\ InPut'
    BY <1>0, <2>1, GotoType DEF InPut, PutPoints, IdlePoints
  <2> QED BY <1>a, <2>1, <2>2, TapeKept
<1>4. CASE PutInside
  BY <1>0, <1>4, <1>a, InsideSame, TapeKept
<1>5. CASE PutShow
  BY <1>5, PutIsStep
<1>6. CASE ArrowMove
  BY <1>6, ArrowIsStep
<1>7. CASE FramebufferFound
  BY <1>0, <1>7, ResizeIsStep
<1> QED BY <1>0, <1>1, <1>2, <1>3, <1>4, <1>5, <1>6, <1>7, StepCases

(* fbcon is a tape terminal: whatever is printed, moved or resized, no character    *)
(* is lost or displaced by a wrap, a scroll, a tab, a backspace over a line end or   *)
(* the change of size at boot.                                                *)
THEOREM ConsoleIsTape == ASSUME DrawWhole PROVE Spec => ImplementsTerminal
<1>1. ImplementsTerminal <=> Tape!Init /\ [][Tape!Next]_(Tape!vars)
  BY DEF ImplementsTerminal, Tape!Spec
<1>2. TerminalInv /\ TerminalInv' /\ [Next]_vars => [Tape!Next]_(Tape!vars)
  BY TapeStep
<1> QED BY <1>1, <1>2, TerminalInvariant, TapeStarts, PTL DEF Spec

=============================================================================
