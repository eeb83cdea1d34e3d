---------------------------- MODULE ConsoleProof ----------------------------
(***************************************************************************)
(* Theorems about module Console, for every size of the screen and of buf,    *)
(* every tab width, every text and every set of keys.                        *)
(***************************************************************************)
EXTENDS Console, NumberLemmas, TLAPS

(* Which code can be where; before kernel_main has looked for a framebuffer      *)
(* there is none, and without one the console is hidden.  A putchar in progress   *)
(* has a character to put.                                                   *)
WhereOK ==
  /\ visible \in BOOLEAN /\ fb \in BOOLEAN
  /\ visible => fb
  /\ cpu.who = "boot" => ~fb
  /\ cpu \in Contexts
  /\ cpu.at \in {"pick", "poll", "act", "clear", "repaint", "blink", "hlt",
                 "erased", "move", "draw", "drawn"} => cpu.who \in {"main", "yield"}
  /\ cpu.at = "act" => cpu.key \in Keys
  /\ cpu.at = "move" => cpu.key \in Arrows
  /\ cpu.at \in {"repaint", "erased", "drawn"} => visible
  /\ cpu.who = "user" => cpu.at = "run"
  /\ InPut => cpu.out # <<>>
  /\ keys \in Seq(Keys)

(* Takes the cursor out of the grid only between the steps that bring it back.      *)
CursorOK ==
  /\ cpu.at \notin {"wrap", "down", "bottom", "lift"} => cx < COLS /\ cy < ROWS
  /\ cpu.at = "wrap" => cy < ROWS
  /\ cpu.at = "down" => cx < COLS /\ cy < ROWS
  /\ cpu.at = "bottom" => cx < COLS
  /\ cpu.at = "lift" => cx < COLS /\ cy = ROWS

(* Cell p of the screen d shows what the buffer b holds there; under the cursor   *)
(* there may be its block.                                                    *)
Shows(d, b, p) ==
  IF p = d.cursor THEN d.cell[p] \in {"block", b[p]} ELSE b[p] # "ctl" => d.cell[p] = b[p]

(* A visible console shows its buffer, but for the time from a scroll or a toggle   *)
(* to its redraw; in the middle of a putchar, and when it is moved, there is no     *)
(* cursor; where a block is to be wiped, the character is there.                  *)
ShownOK ==
  visible /\ Painted =>
    /\ cpu.at \notin {"clear", "repaint"} => disp.cursor \in {Hidden, <<cx, cy>>}
    /\ (InPut /\ cpu.at # "show") \/ cpu.at = "move" => disp.cursor = Hidden
    /\ cpu.at = "drawn" => disp.cell[<<cx, cy>>] = "block"
    /\ cpu.at = "erased" => \A p \in Grid : buf[p] # "ctl" => disp.cell[p] = buf[p]
    /\ cpu.at \notin {"lift", "redraw", "clear", "repaint"} =>
         \A p \in Grid : (cpu.at = "drawn" /\ p = <<cx, cy>>) \/ Shows(disp, buf, p)

ConsoleInv == TypeOK /\ WhereOK /\ CursorOK /\ ShownOK

-----------------------------------------------------------------------------
(***************************************************************************)
(* Who runs where, wherever interrupts arrive.                               *)
(***************************************************************************)
(* The contexts that the actions make.                                       *)
LEMMA ContextType ==
  ASSUME NEW w \in Who, NEW a \in IdlePoints \cup {"run", "halt"}
  PROVE  At(w, a) \in Contexts /\ At(w, a).who = w /\ At(w, a).at = a
<1> QED BY DEF At, Contexts

(* A context that is about to print.                                         *)
Prints(w, s) == [At(w, "put") EXCEPT !.out = s]

(* What that context is.                                                    *)
LEMMA PrintType ==
  ASSUME NEW w \in Who, NEW s \in Seq(Chars)
  PROVE  /\ Prints(w, s) \in Contexts
         /\ Prints(w, s).who = w /\ Prints(w, s).at = "put" /\ Prints(w, s).out = s
<1>1. "put" \in IdlePoints
  BY DEF IdlePoints, PutPoints
<1> QED BY <1>1 DEF At, Contexts, Prints

(* The same for a context that goes on elsewhere.                             *)
LEMMA GotoType ==
  ASSUME cpu \in Contexts, NEW a \in IdlePoints \cup {"run", "halt"}, Goto(a)
  PROVE  /\ cpu' \in Contexts /\ cpu'.at = a
         /\ cpu'.who = cpu.who /\ cpu'.key = cpu.key /\ cpu'.out = cpu.out
BY DEF Goto, Contexts

(* And for a context that has shown or hidden the cursor.                         *)
LEMMA DoneType ==
  ASSUME cpu \in Contexts, CursorDone
  PROVE  /\ cpu' \in Contexts /\ cpu'.who = cpu.who /\ cpu'.at \in {"hlt", "blink"}
BY DEF CursorDone, Contexts, At, IdlePoints

(* Boot starts at a known point.                                         *)
LEMMA WhereInit == Init => WhereOK
<1>. SUFFICES ASSUME Init PROVE WhereOK
  OBVIOUS
<1>1. cpu \in Contexts /\ cpu.who = "boot" /\ cpu.at = "run"
  <2>1. "boot" \in Who
    BY DEF Who
  <2> QED BY <2>1, ContextType DEF Init
<1>2. visible = FALSE /\ fb = FALSE /\ keys = <<>>
  BY DEF Init
<1>3. <<>> \in Seq(Keys)
  OBVIOUS
<1>4. ~InPut
  BY <1>1 DEF InPut, PutPoints
<1> QED BY <1>1, <1>2, <1>3, <1>4 DEF WhereOK

(* The steps of fbcon_putchar.                                              *)
LEMMA WherePut == WhereOK /\ PutStep => WhereOK'
<1>. SUFFICES ASSUME WhereOK, PutStep PROVE WhereOK'
  OBVIOUS
<1>w. cpu.at \in PutPoints /\ cpu.who # "user"
  BY DEF PutStep, PutBegin, PutStore, PutAdvance, PutWrap, PutDown, PutBottom, PutLift,
         PutRedraw, PutShow, PutReturns, PutPoints, WhereOK
<1>a. ASSUME NEW a \in PutPoints, Goto(a), cpu.out # <<>>, UNCHANGED <<visible, fb, keys>>
      PROVE  WhereOK'
  <2>1. cpu \in Contexts /\ a \in IdlePoints
    BY <1>a DEF WhereOK, IdlePoints
  <2>2. /\ cpu' \in Contexts /\ cpu'.at = a
        /\ cpu'.who = cpu.who /\ cpu'.key = cpu.key /\ cpu'.out = cpu.out
    BY <1>a, <2>1, GotoType
  <2> QED BY <1>w, <1>a, <2>2 DEF WhereOK, PutPoints
<1>b. cpu.at \in PutPoints \ {"put"} => cpu.out # <<>>
  BY DEF WhereOK, InPut
<1>1. CASE PutBegin
  BY <1>1, <1>a DEF PutBegin, putFrame, PutPoints
<1>2. CASE PutStore
  <2>1. Goto("down") \/ Goto("wrap") \/ Goto("advance")
    BY <1>2 DEF PutStore
  <2> QED BY <1>2, <1>a, <1>b, <2>1 DEF PutStore, putFrame, PutPoints
<1>3. CASE PutAdvance \/ PutDown \/ PutLift \/ PutRedraw
  BY <1>3, <1>a, <1>b DEF PutAdvance, PutDown, PutLift, PutRedraw, putFrame, PutPoints
<1>4. CASE PutWrap \/ PutBottom
  BY <1>4, <1>a, <1>b DEF PutWrap, PutBottom, putFrame, PutPoints
<1>5. CASE PutShow
  <2>1. cpu.out # <<>> /\ cpu.out \in Seq(Chars) /\ cpu \in Contexts
    BY <1>5, <1>b DEF PutShow, PutPoints, WhereOK, Contexts
  <2>2. Tail(cpu.out) \in Seq(Chars)
    BY <2>1
  <2>3. /\ cpu' \in Contexts /\ cpu'.at = "put" /\ cpu'.who = cpu.who
    BY <1>5, <2>1, <2>2 DEF PutShow, Contexts, IdlePoints, PutPoints
  <2> QED BY <1>5, <2>3 DEF PutShow, putFrame, WhereOK, InPut
<1>6. CASE PutReturns
  <2>1. cpu.at = "put" /\ cpu \in Contexts /\ UNCHANGED <<visible, fb, keys>>
    BY <1>6 DEF PutReturns, WhereOK, console
  <2>2. cpu.who \in Who
    BY <2>1 DEF Contexts
  <2>3. \/ cpu.who \in {"boot", "booted"} /\ cpu' = At(cpu.who, "run")
        \/ cpu' = At("user", "run")
        \/ cpu' = At("yield", "pick")
        \/ cpu' = At("panic", "halt")
        \/ cpu' = At("main", "poll")
        \/ cpu.who \in {"main", "yield"} /\ cpu' = At(cpu.who, "blink")
    BY <1>6, <2>1, <2>2 DEF PutReturns, Who, User, WhereOK
  <2>4. /\ cpu' \in Contexts /\ cpu'.at \in {"run", "pick", "halt", "poll", "blink"}
        /\ cpu'.at \in {"pick", "poll", "blink"} => cpu'.who \in {"main", "yield"}
        /\ cpu'.who = "user" => cpu'.at = "run"
        /\ cpu'.who = "boot" => cpu.who = "boot"
    BY <2>2, <2>3, ContextType DEF Who, PutPoints, IdlePoints
  <2> QED BY <2>1, <2>4 DEF WhereOK, InPut, PutPoints
<1> QED BY <1>1, <1>2, <1>3, <1>4, <1>5, <1>6 DEF PutStep

(* What echoes a backspace is a text.                                         *)
LEMMA ThreeOf ==
  ASSUME NEW S, NEW a \in S, NEW b \in S
  PROVE  <<a, b, a>> \in Seq(S)
OBVIOUS

(* A step of an idle loop that does not print.                                    *)
LEMMA WhereLoop ==
  ASSUME WhereOK, cpu' \in Contexts, cpu'.who = cpu.who, cpu.who \in {"main", "yield"},
         cpu'.at \in IdlePoints \ PutPoints,
         cpu'.at = "act" => cpu'.key \in Keys, cpu'.at = "move" => cpu'.key \in Arrows,
         cpu'.at \in {"repaint", "erased", "drawn"} => visible',
         keys' \in Seq(Keys), UNCHANGED fb, visible' \in BOOLEAN, visible' => fb
  PROVE  WhereOK'
BY DEF WhereOK, InPut, PutPoints, IdlePoints, CursorPoints

(* The points that only an idle loop passes.                                      *)
LEMMA LoopPoints ==
  IdlePoints \ PutPoints =
    {"pick", "poll", "act", "clear", "repaint", "blink", "hlt", "erased", "move", "draw", "drawn"}
BY DEF IdlePoints, PutPoints, CursorPoints

(* The idle loops.                                                           *)
LEMMA WhereIdle == WhereOK /\ IdleStep => WhereOK'
<1>. SUFFICES ASSUME WhereOK, IdleStep PROVE WhereOK'
  OBVIOUS
<1>0. cpu \in Contexts /\ cpu.who \in {"main", "yield"}
  <2>1. Pick => cpu.at = "pick"
    BY DEF Pick, At
  <2>2. cpu.at \in IdlePoints \ PutPoints
    BY <2>1, LoopPoints
       DEF IdleStep, Poll, ActEcho, ActPanic, ActToggle, ToggleClear, ToggleRepaint, ActArrow,
           CursorHidden, ArrowMove, CursorDraw, CursorShown, Blink
  <2> QED BY <2>2, LoopPoints DEF WhereOK
<1>a. cpu.who \in Who /\ {"panic", "yield"} \subseteq Who
  BY <1>0 DEF Who
<1>b. ASSUME NEW a \in {"blink", "hlt", "clear", "repaint", "draw", "drawn", "erased", "move"},
             Goto(a), a = "move" => cpu.key \in Arrows,
             a \in {"repaint", "erased", "drawn"} => visible', UNCHANGED <<fb, keys>>,
             visible' \in BOOLEAN, visible' => fb
      PROVE  WhereOK'
  <2>1. cpu' \in Contexts /\ cpu'.at = a /\ cpu'.who = cpu.who /\ cpu'.key = cpu.key
    BY <1>0, <1>b, GotoType, LoopPoints
  <2>2. keys' \in Seq(Keys)
    BY <1>b DEF WhereOK
  <2> QED BY <1>0, <1>b, <2>1, <2>2, WhereLoop, LoopPoints
<1>c. ASSUME CursorDone, UNCHANGED <<visible, fb, keys>> PROVE WhereOK'
  <2>1. cpu' \in Contexts /\ cpu'.who = cpu.who /\ cpu'.at \in {"hlt", "blink"}
    BY <1>0, <1>c, DoneType
  <2>2. keys' \in Seq(Keys) /\ visible' \in BOOLEAN /\ (visible' => fb)
    BY <1>c DEF WhereOK
  <2> QED BY <1>0, <1>c, <2>1, <2>2, WhereLoop, LoopPoints
<1>d. ASSUME cpu' = At(cpu.who, "blink"), UNCHANGED <<fb, keys>>,
             visible' \in BOOLEAN, visible' => fb
      PROVE  WhereOK'
  <2>1. cpu' \in Contexts /\ cpu'.who = cpu.who /\ cpu'.at = "blink"
    BY <1>a, <1>d, ContextType, LoopPoints
  <2>2. keys' \in Seq(Keys)
    BY <1>d DEF WhereOK
  <2> QED BY <1>0, <1>d, <2>1, <2>2, WhereLoop, LoopPoints
<1>e. visible \in BOOLEAN /\ (visible => fb)
  BY DEF WhereOK
<1>1. CASE Pick
  <2>1. cpu' \in Contexts /\ cpu'.who = "yield" /\ cpu'.at = "poll"
    BY <1>1, <1>a, ContextType DEF Pick, IdlePoints
  <2> QED BY <1>1, <2>1 DEF Pick, console, WhereOK, InPut, PutPoints
<1>2. CASE Poll
  <2>1. CASE keys = <<>>
    BY <1>2, <1>b, <1>e, <2>1 DEF Poll
  <2>2. CASE keys # <<>>
    <3>1. keys \in Seq(Keys) /\ Head(keys) \in Keys /\ Tail(keys) \in Seq(Keys)
      BY <2>2 DEF WhereOK
    <3>2. cpu' = [cpu EXCEPT !.at = "act", !.key = Head(keys)] /\ keys' = Tail(keys)
      BY <1>2, <2>2 DEF Poll
    <3>3. /\ cpu' \in Contexts /\ cpu'.at = "act" /\ cpu'.who = cpu.who
          /\ cpu'.key \in Keys
      BY <1>0, <3>1, <3>2 DEF Contexts, IdlePoints
    <3>4. UNCHANGED <<fb, visible>>
      BY <1>2 DEF Poll
    <3> QED BY <1>0, <1>e, <3>1, <3>2, <3>3, <3>4, WhereLoop, LoopPoints
  <2> QED BY <2>1, <2>2
<1>3. CASE ActEcho
  <2>1. cpu.key \in Keys /\ cpu.key \notin Arrows
    BY <1>3 DEF ActEcho, WhereOK
  <2>2. Echo(cpu.key) \in Seq(Chars)
    <3>1. cpu.key # "F12" => cpu.key \in Chars
      BY <2>1, ConsoleAssumption
    <3>2. " " \in Chars /\ "bs" \in Chars /\ FnText \in Seq(Chars)
      BY ConsoleAssumption DEF Chars, Glyphs
    <3>3. CASE cpu.key = "bs"
      <4>1. Echo(cpu.key) = <<"bs", " ", "bs">>
        BY <3>3 DEF Echo
      <4>2. <<"bs", " ", "bs">> \in Seq(Chars)
        BY <3>2, ThreeOf
      <4> QED BY <4>1, <4>2
    <3>4. CASE cpu.key = "F12"
      BY <3>2, <3>4 DEF Echo
    <3>5. CASE cpu.key \notin {"bs", "F12"}
      <4>1. Echo(cpu.key) = <<cpu.key>>
        BY <3>5 DEF Echo
      <4>2. cpu.key \in Chars
        BY <3>1, <3>5
      <4> QED BY <4>1, <4>2
    <3> QED BY <3>3, <3>4, <3>5
  <2>3. /\ cpu' \in Contexts /\ cpu'.at = "put" /\ cpu'.who = cpu.who
    BY <1>0, <1>3, <2>2 DEF ActEcho, Contexts, IdlePoints, PutPoints
  <2> QED BY <1>0, <1>3, <2>3 DEF ActEcho, actFrame, WhereOK, InPut, PutPoints
<1>4. CASE ActPanic
  <2>1. cpu' \in Contexts /\ cpu'.who = "panic" /\ cpu'.at = "put"
    BY <1>4, <1>a, PrintType, ConsoleAssumption DEF ActPanic, panic, Prints
  <2> QED BY <1>4, <2>1 DEF ActPanic, actFrame, WhereOK, InPut, PutPoints
<1>5. CASE ActToggle
  <2>1. visible' \in BOOLEAN /\ fb /\ UNCHANGED <<fb, keys>>
    BY <1>5 DEF ActToggle, actFrame
  <2>2. Goto("clear") \/ cpu' = At(cpu.who, "blink")
    BY <1>5 DEF ActToggle
  <2> QED BY <1>b, <1>d, <2>1, <2>2
<1>6. CASE ToggleClear
  <2>1. /\ UNCHANGED <<visible, fb, keys>>
        /\ (visible /\ Goto("repaint")) \/ cpu' = At(cpu.who, "blink")
    BY <1>6 DEF ToggleClear, actFrame
  <2> QED BY <1>b, <1>d, <1>e, <2>1
<1>7. CASE ToggleRepaint
  BY <1>7, <1>b, <1>e DEF ToggleRepaint, actFrame
<1>8. CASE ActArrow
  BY <1>8, <1>b, <1>e DEF ActArrow, EraseCursor, NoCursorToHide, cursorFrame
<1>9. CASE CursorHidden
  BY <1>9, <1>b, <1>c, <1>e DEF CursorHidden, cursorFrame
<1>10. CASE ArrowMove
  BY <1>10, <1>b, <1>e DEF ArrowMove, cursorFrame
<1>11. CASE CursorDraw
  BY <1>11, <1>b, <1>c, <1>e DEF CursorDraw, cursorFrame
<1>12. CASE CursorShown
  BY <1>12, <1>c DEF CursorShown, cursorFrame
<1>13. CASE Blink
  <2>1. /\ UNCHANGED <<visible, fb, keys>>
        /\ Goto("hlt") \/ Goto("draw") \/ (visible /\ Goto("erased"))
    BY <1>13 DEF Blink, EraseCursor, cursorFrame
  <2> QED BY <1>b, <1>e, <2>1
<1> QED BY <1>1, <1>2, <1>3, <1>4, <1>5, <1>6, <1>7, <1>8, <1>9, <1>10, <1>11, <1>12, <1>13
        DEF IdleStep

(* Boot, interrupts, system calls and panic.                                  *)
LEMMA WhereStep == WhereOK /\ [Next]_vars => WhereOK'
<1>. SUFFICES ASSUME WhereOK, [Next]_vars PROVE WhereOK'
  OBVIOUS
<1>0. cpu \in Contexts /\ cpu.who \in Who
  BY DEF WhereOK, Contexts
<1>a. {"booted", "prompt", "user", "sys", "exit", "yield", "panic"} \subseteq Who
  BY DEF Who
<1>b. /\ \A s \in Strings : s \in Seq(Chars)
      /\ PanicText \in Seq(Chars)
  BY ConsoleAssumption
<1>c. ASSUME NEW w \in Who \ {"boot"}, NEW s \in Seq(Chars), cpu' = Prints(w, s), w # "user",
             UNCHANGED <<visible, fb, keys>>
      PROVE  WhereOK'
  <2>1. cpu' \in Contexts /\ cpu'.who = w /\ cpu'.at = "put"
    BY <1>c, PrintType
  <2> QED BY <1>c, <2>1 DEF WhereOK, InPut
<1>d. ASSUME NEW w \in Who \ {"boot"}, cpu' = At(w, "run"), UNCHANGED <<visible, keys>>,
             fb' \in {fb, TRUE}
      PROVE  WhereOK'
  <2>1. cpu' \in Contexts /\ cpu'.who = w /\ cpu'.at = "run"
    BY <1>d, ContextType
  <2> QED BY <1>d, <2>1 DEF WhereOK, InPut, PutPoints
<1>1. CASE UNCHANGED vars \/ Halted
  <2>1. UNCHANGED <<visible, fb, keys, cpu>>
    BY <1>1 DEF Halted, vars, console
  <2> QED BY <2>1 DEF WhereOK, InPut
<1>2. CASE BootPrint
  <2>1. PICK s \in Strings : cpu' = [cpu EXCEPT !.at = "put", !.out = s]
    BY <1>2 DEF BootPrint
  <2>2. cpu' \in Contexts /\ cpu'.who = cpu.who /\ cpu'.at = "put"
    BY <1>0, <1>b, <2>1 DEF Contexts, IdlePoints, PutPoints
  <2> QED BY <1>2, <2>2 DEF BootPrint, console, WhereOK, InPut
<1>3. CASE FramebufferFound \/ NoFramebuffer
  BY <1>3, <1>a, <1>d DEF FramebufferFound, NoFramebuffer, console
<1>4. CASE BootEnds
  BY <1>4, <1>a, <1>b, <1>c DEF BootEnds, Prints, console
<1>5. CASE PutStep
  BY <1>5, WherePut
<1>6. CASE IdleStep
  BY <1>6, WhereIdle
<1>e. ASSUME cpu' = Awake(cpu), keys' \in Seq(Keys), UNCHANGED <<visible, fb>>
      PROVE  WhereOK'
  <2>1. CASE cpu.at # "hlt"
    BY <1>e, <2>1 DEF Awake, WhereOK, InPut
  <2>2. CASE cpu.at = "hlt"
    <3>1. /\ cpu' \in Contexts /\ cpu'.at \in {"poll", "pick"} /\ cpu'.who = cpu.who
      BY <1>0, <1>e, <2>2 DEF Awake, Contexts, IdlePoints
    <3> QED BY <1>e, <2>2, <3>1 DEF WhereOK, InPut, PutPoints
  <2> QED BY <2>1, <2>2
<1>7. CASE Tick
  <2>1. UNCHANGED <<visible, fb, keys>> /\ cpu' \in {Awake(cpu), User}
    BY <1>7 DEF Tick, console
  <2> QED BY <1>a, <1>d, <1>e, <2>1 DEF User, WhereOK
<1>8. CASE keyboard_handler
  <2>1. keys' \in Seq(Keys)
    BY <1>8 DEF keyboard_handler, WhereOK
  <2> QED BY <1>8, <1>e, <2>1 DEF keyboard_handler
<1>9. CASE handle_writestr \/ handle_exit
  BY <1>9, <1>a, <1>b, <1>c DEF handle_writestr, handle_exit, Prints, console
<1>10. CASE handle_sleep
  <2>1. cpu' \in Contexts /\ cpu'.who = "yield" /\ cpu'.at = "pick"
    BY <1>10, <1>a, ContextType DEF handle_sleep, IdlePoints
  <2> QED BY <1>10, <2>1 DEF handle_sleep, console, WhereOK, InPut, PutPoints
<1>11. CASE Fault
  BY <1>11, <1>a, <1>b, <1>c DEF Fault, panic, Prints
<1> QED BY <1>1, <1>2, <1>3, <1>4, <1>5, <1>6, <1>7, <1>8, <1>9, <1>10, <1>11 DEF Next

(* The CPU is always at one of the known points.                         *)
LEMMA WhereInvariant == Spec => []WhereOK
BY WhereInit, WhereStep, PTL DEF Spec

(* With the console hidden every step but panic, and the one that clears the      *)
(* screen after it was hidden, leaves the screen alone.                          *)
LEMMA HiddenStep ==
  ASSUME WhereOK, [Next]_vars, fb, ~visible, ~visible'
  PROVE  \/ disp'.cell = disp.cell
         \/ cpu.at = "clear"
         \/ cpu'.who = "panic" /\ cpu.who # "panic"
<1>a. "panic" \in Who /\ PanicText \in Seq(Chars)
  BY ConsoleAssumption DEF Who
<1>1. CASE UNCHANGED vars \/ Halted
  BY <1>1 DEF Halted, vars, console
<1>2. CASE BootPrint \/ NoFramebuffer \/ BootEnds
  BY <1>2 DEF BootPrint, NoFramebuffer, BootEnds, console
<1>3. CASE FramebufferFound
  BY <1>3 DEF FramebufferFound, At, WhereOK
<1>4. CASE PutBegin \/ PutShow
  BY <1>4 DEF PutBegin, PutShow, cursor_hide, cursor_show
<1>5. CASE PutStore
  BY <1>5 DEF PutStore, Store
<1>6. CASE PutAdvance \/ PutWrap \/ PutDown \/ PutBottom \/ PutLift \/ PutRedraw \/ PutReturns
  BY <1>6 DEF PutAdvance, PutWrap, PutDown, PutBottom, PutLift, PutRedraw, PutReturns, console
<1>7. CASE Pick \/ Poll \/ ActEcho
  BY <1>7 DEF Pick, Poll, ActEcho, console
<1>8. CASE ActPanic
  <2>1. cpu.who # "panic"
    BY <1>8 DEF ActPanic, WhereOK
  <2>2. cpu'.who = "panic"
    BY <1>8, <1>a, PrintType DEF ActPanic, panic, Prints
  <2> QED BY <2>1, <2>2
<1>9. CASE ActToggle \/ ToggleClear
  BY <1>9 DEF ActToggle, ToggleClear
<1>13. CASE ToggleRepaint
  <2>1. visible' = visible
    BY <1>13 DEF ToggleRepaint
  <2> QED BY <1>13, <2>1 DEF ToggleRepaint, WhereOK
<1>10. CASE ActArrow \/ ArrowMove \/ CursorDraw \/ Blink
  BY <1>10 DEF ActArrow, ArrowMove, CursorDraw, Blink, EraseCursor, NoCursorToHide
<1>14. CASE CursorHidden \/ CursorShown
  <2>1. cpu.at \in {"erased", "drawn"}
    BY <1>14 DEF CursorHidden, CursorShown
  <2> QED BY <2>1 DEF WhereOK
<1>11. CASE Tick \/ keyboard_handler \/ handle_writestr \/ handle_exit \/ handle_sleep
  BY <1>11 DEF Tick, keyboard_handler, handle_writestr, handle_exit, handle_sleep, console
<1>12. CASE Fault
  <2>1. cpu.who # "panic"
    BY <1>12 DEF Fault, User, At
  <2>2. cpu'.who = "panic"
    BY <1>12, <1>a, PrintType DEF Fault, panic, Prints
  <2> QED BY <2>1, <2>2
<1> QED
  BY <1>1, <1>2, <1>3, <1>4, <1>5, <1>6, <1>7, <1>8, <1>9, <1>10, <1>11, <1>12,
     <1>13, <1>14
     DEF Next, PutStep, IdleStep

(* Wherever interrupts arrive, a hidden console leaves the screen to others, but    *)
(* for the clear that hides it.                                               *)
THEOREM HiddenConsole == Spec => HiddenStays
<1>1. WhereOK /\ [Next]_vars =>
        [fb /\ ~visible /\ ~visible' =>
           \/ disp'.cell = disp.cell
           \/ cpu.at = "clear"
           \/ cpu'.who = "panic" /\ cpu.who # "panic"]_vars
  BY HiddenStep
<1> QED BY <1>1, WhereInvariant, PTL DEF Spec, HiddenStays

-----------------------------------------------------------------------------
(***************************************************************************)
(* What the screen shows.                                                   *)
(***************************************************************************)
(* The grid is part of buf, and no cell of it is the place of a hidden cursor.     *)
LEMMA GridCells ==
  ASSUME TypeOK
  PROVE  /\ \A p \in Grid : p \in Cell
         /\ Hidden \notin Cell
         /\ \A x, y : <<x, y>> \in Grid <=> x \in 0..(COLS - 1) /\ y \in 0..(ROWS - 1)
         /\ \A x, y : <<x, y>> \in Grid => <<x, y>> \in Cell
<1>1. COLS \in Int /\ ROWS \in Int /\ COLS <= MAX_COLS /\ ROWS <= MAX_ROWS
      /\ MAX_COLS \in Int /\ MAX_ROWS \in Int
  BY ConsoleAssumption DEF TypeOK
<1>2. 0..(COLS - 1) \subseteq 0..(MAX_COLS - 1) /\ 0..(ROWS - 1) \subseteq 0..(MAX_ROWS - 1)
  BY <1>1
<1>3. \A p \in Grid : p \in Cell
  BY <1>2 DEF Grid, Cell
<1>4. Hidden \notin Cell
  BY <1>1 DEF Hidden, Cell
<1> QED BY <1>3, <1>4 DEF Grid

(* fb_drawchar changes one cell at most.                                      *)
LEMMA DrawFacts ==
  ASSUME NEW d \in Screens, NEW p \in Cell, NEW c \in Glyphs
  PROVE  /\ fb_drawchar(d, p, c) \in Screens
         /\ fb_drawchar(d, p, c).cursor = d.cursor
         /\ \A q \in Cell : fb_drawchar(d, p, c).cell[q] =
                              IF q = p /\ c # "ctl" THEN c ELSE d.cell[q]
BY DEF Screens, fb_drawchar

(* The block is gone, and the character under it is back.                       *)
LEMMA HideFacts ==
  ASSUME TypeOK
  PROVE  /\ cursor_hide(disp) \in Screens
         /\ ~(visible /\ fb) => cursor_hide(disp) = disp
         /\ visible /\ fb => cursor_hide(disp).cursor = Hidden
         /\ visible /\ fb /\ (\A p \in Grid : Shows(disp, buf, p)) =>
              \A p \in Grid : Shows(cursor_hide(disp), buf, p)
<1>0. disp \in Screens /\ buf \in [Cell -> Glyphs] /\ disp.cursor \in Cell \cup {Hidden}
  BY DEF TypeOK, Screens
<1>a. (\A p \in Grid : p \in Cell) /\ Hidden \notin Cell
  BY GridCells
<1>1. CASE ~(visible /\ fb /\ disp.cursor # Hidden)
  BY <1>0, <1>1 DEF cursor_hide
<1>2. CASE visible /\ fb /\ disp.cursor # Hidden
  <2>. DEFINE d == fb_drawchar(disp, disp.cursor, buf[disp.cursor])
  <2>0. disp.cursor \in Cell /\ buf[disp.cursor] \in Glyphs
    BY <1>0, <1>2
  <2>1. /\ d \in Screens
        /\ \A q \in Cell : d.cell[q] =
             IF q = disp.cursor /\ buf[disp.cursor] # "ctl" THEN buf[disp.cursor] ELSE disp.cell[q]
    BY <1>0, <2>0, DrawFacts
  <2>2. cursor_hide(disp) = [d EXCEPT !.cursor = Hidden]
    BY <1>2 DEF cursor_hide
  <2>. HIDE DEF d
  <2>3. /\ cursor_hide(disp) \in Screens /\ cursor_hide(disp).cursor = Hidden
        /\ cursor_hide(disp).cell = d.cell
    BY <2>1, <2>2 DEF Screens
  <2>4. ASSUME NEW p \in Grid, Shows(disp, buf, p)
        PROVE  Shows(cursor_hide(disp), buf, p)
    <3>1. p \in Cell /\ p # Hidden
      BY <1>a
    <3> QED BY <2>1, <2>3, <2>4, <3>1 DEF Shows
  <2> QED BY <1>2, <2>3, <2>4
<1> QED BY <1>1, <1>2

(* The block is where the cursor is.                                          *)
LEMMA ShowFacts ==
  ASSUME NEW d \in Screens, NEW v \in BOOLEAN, NEW x, NEW y, <<x, y>> \in Cell
  PROVE  /\ cursor_show(d, v, x, y) \in Screens
         /\ ~(v /\ fb) => cursor_show(d, v, x, y) = d
         /\ v /\ fb => /\ cursor_show(d, v, x, y).cursor = <<x, y>>
                       /\ \A p \in Cell : cursor_show(d, v, x, y).cell[p] =
                                            IF p = <<x, y>> THEN "block" ELSE d.cell[p]
BY DEF Screens, cursor_show

(* A block shown on a screen that shows its buffer.                            *)
LEMMA BlockFacts ==
  ASSUME TypeOK, NEW d \in Screens, NEW v \in BOOLEAN, NEW x, NEW y, <<x, y>> \in Grid,
         d.cursor \in {Hidden, <<x, y>>}, \A p \in Grid : Shows(d, buf, p)
  PROVE  /\ cursor_show(d, v, x, y) \in Screens
         /\ cursor_show(d, v, x, y).cursor \in {Hidden, <<x, y>>}
         /\ \A p \in Grid : Shows(cursor_show(d, v, x, y), buf, p)
<1>1. (\A p \in Grid : p \in Cell) /\ <<x, y>> \in Cell /\ Hidden \notin Cell
  BY GridCells
<1>2. cursor_show(d, v, x, y) \in Screens
  BY <1>1, ShowFacts
<1>3. CASE ~(v /\ fb)
  BY <1>1, <1>2, <1>3, ShowFacts
<1>4. CASE v /\ fb
  <2>1. /\ cursor_show(d, v, x, y).cursor = <<x, y>>
        /\ \A p \in Cell : cursor_show(d, v, x, y).cell[p] =
                             IF p = <<x, y>> THEN "block" ELSE d.cell[p]
    BY <1>4 DEF cursor_show, Screens
  <2>2. ASSUME NEW p \in Grid PROVE Shows(cursor_show(d, v, x, y), buf, p)
    <3>1. p \in Cell /\ Shows(d, buf, p) /\ p # Hidden
      BY <1>1
    <3> QED BY <2>1, <3>1 DEF Shows
  <2> QED BY <1>2, <2>1, <2>2
<1> QED BY <1>3, <1>4

(* Repainted shows the whole buffer, whatever was there.                            *)
LEMMA RepaintFacts ==
  ASSUME TypeOK, NEW d \in Screens
  PROVE  /\ Repainted(d) \in Screens
         /\ Repainted(d).cursor = Hidden
         /\ \A p \in Grid : Shows(Repainted(d), buf, p)
<1>1. (\A p \in Grid : p \in Cell) /\ Hidden \notin Cell /\ buf \in [Cell -> Glyphs]
  BY GridCells DEF TypeOK
<1>2. /\ Repainted(d).cursor = Hidden
      /\ Repainted(d).cell = [p \in Cell |-> IF p \in Grid /\ buf[p] # "ctl"
                                               THEN buf[p] ELSE d.cell[p]]
  BY DEF Screens, Repainted
<1>3. Repainted(d) \in Screens
  BY <1>1 DEF Screens, Repainted
<1>4. \A p \in Grid : Shows(Repainted(d), buf, p)
  BY <1>1, <1>2 DEF Shows
<1> QED BY <1>2, <1>3, <1>4

(* fbcon_redraw: the buffer and, as the case may be, the cursor.                   *)
LEMMA RedrawFacts ==
  ASSUME TypeOK, NEW d \in Screens, NEW v \in BOOLEAN, NEW b \in BOOLEAN, fb,
         <<cx, cy>> \in Grid
  PROVE  /\ fbcon_redraw(d, v, b) \in Screens
         /\ fbcon_redraw(d, v, b).cursor \in {Hidden, <<cx, cy>>}
         /\ \A p \in Grid : Shows(fbcon_redraw(d, v, b), buf, p)
<1>. DEFINE e == Repainted(d)
<1>1. e \in Screens /\ e.cursor = Hidden /\ \A p \in Grid : Shows(e, buf, p)
  BY RepaintFacts
<1>5. fbcon_redraw(d, v, b) = IF b THEN cursor_show(e, v, cx, cy) ELSE e
  BY DEF fbcon_redraw
<1>. HIDE DEF e
<1>6. /\ cursor_show(e, v, cx, cy) \in Screens
      /\ cursor_show(e, v, cx, cy).cursor \in {Hidden, <<cx, cy>>}
      /\ \A p \in Grid : Shows(cursor_show(e, v, cx, cy), buf, p)
  BY <1>1, BlockFacts
<1> QED BY <1>1, <1>5, <1>6

-----------------------------------------------------------------------------
(***************************************************************************)
(* The console between two calls of fbcon_putchar.                           *)
(***************************************************************************)
LEMMA ConsoleSizes ==
  /\ MAX_COLS \in Nat \ {0} /\ MAX_ROWS \in Nat \ {0} /\ TAB \in Nat \ {0}
  /\ CHAR_W \in Nat \ {0} /\ CHAR_H \in Nat \ {0} /\ KeyBuf \in Nat \ {0}
  /\ BootCols \in 1..MAX_COLS /\ BootRows \in 1..MAX_ROWS
BY ConsoleAssumption

(* A step that leaves the console alone.                                      *)
LEMMA InvKept ==
  ASSUME ConsoleInv, WhereOK', UNCHANGED <<text, visible, cursor_blink, disp, fb>>,
         Len(keys') < KeyBuf, ~InPut, ~InPut', cpu.who = "panic" => cpu'.who = "panic",
         \/ cpu'.at = cpu.at
         \/ /\ cpu.at \notin {"clear", "repaint", "drawn"}
            /\ cpu'.at \notin {"clear", "repaint", "drawn", "erased", "move"}
  PROVE  ConsoleInv'
<1>1. TypeOK'
  BY DEF ConsoleInv, WhereOK, TypeOK, text, Cell
<1>2. CursorOK'
  BY DEF ConsoleInv, CursorOK, InPut, PutPoints, text
<1>3. ShownOK'
  <2>1. UNCHANGED <<Grid, disp, buf, visible, cx, cy>>
    BY DEF text, Grid
  <2>2. cpu.at \notin {"lift", "redraw"} /\ (Painted' => Painted)
    BY DEF InPut, PutPoints, Painted
  <2>3. cpu'.at \notin {"lift", "redraw"}
    BY DEF InPut, PutPoints
  <2>4. SUFFICES ASSUME visible, Painted PROVE ShownOK'
    BY <2>1, <2>2 DEF ShownOK
  <2>5. CASE cpu'.at = cpu.at
    BY <2>1, <2>2, <2>4, <2>5 DEF ConsoleInv, ShownOK, Shows
  <2>6. CASE /\ cpu.at \notin {"clear", "repaint", "drawn"}
             /\ cpu'.at \notin {"clear", "repaint", "drawn", "erased", "move"}
    BY <2>1, <2>2, <2>3, <2>4, <2>6 DEF ConsoleInv, ShownOK, Shows
  <2> QED BY <2>5, <2>6
<1> QED BY <1>1, <1>2, <1>3 DEF ConsoleInv

(* fbcon_init.                                                              *)
LEMMA ConsoleStarts == Init => ConsoleInv
<1>. SUFFICES ASSUME Init PROVE ConsoleInv
  OBVIOUS
<1>a. COLS = BootCols /\ ROWS = BootRows /\ cx = 0 /\ cy = 0
  BY DEF Init
<1>1. WhereOK
  BY WhereInit
<1>2. TypeOK
  <2>1. disp \in Screens /\ buf \in [Cell -> Glyphs]
    BY DEF Init, Screens, Glyphs
  <2>2. keys = <<>> /\ Len(<<>>) = 0 /\ KeyBuf \in Nat \ {0} /\ TAB \in Nat
    BY ConsoleAssumption DEF Init
  <2>3. cx \in 0..(COLS + TAB) /\ cy \in 0..ROWS /\ COLS \in 1..MAX_COLS /\ ROWS \in 1..MAX_ROWS
    BY <1>a, <2>2, ConsoleSizes
  <2>4. Len(keys) < KeyBuf
    BY <2>2
  <2>5. cursor_blink \in BOOLEAN
    BY DEF Init
  <2> QED BY <1>1, <2>1, <2>3, <2>4, <2>5 DEF TypeOK, WhereOK
<1>3. CursorOK
  <2>1. cx < COLS /\ cy < ROWS
    BY <1>a, ConsoleSizes
  <2>2. cpu.at = "run"
    BY DEF Init, At
  <2> QED BY <2>1, <2>2 DEF CursorOK
<1>4. ShownOK
  BY DEF Init, ShownOK
<1> QED BY <1>1, <1>2, <1>3, <1>4 DEF ConsoleInv

(* The steps that the next lemma leaves: what they must show.                     *)
LEMMA InvParts ==
  ASSUME ConsoleInv, WhereOK', UNCHANGED <<COLS, ROWS, fb, keys>>,
         cx' \in Int, 0 <= cx', cx' <= COLS + TAB, cy' \in Int, 0 <= cy', cy' <= ROWS,
         buf' \in [Cell -> Glyphs], disp' \in Screens, cursor_blink' \in BOOLEAN,
         CursorOK', ShownOK'
  PROVE  ConsoleInv'
<1>1. TAB \in Int /\ COLS \in Int /\ ROWS \in Int
  BY ConsoleAssumption DEF ConsoleInv, TypeOK
<1>2. cx' \in 0..(COLS + TAB) /\ cy' \in 0..ROWS
  BY <1>1
<1>3. TypeOK'
  BY <1>2 DEF ConsoleInv, WhereOK, TypeOK, Cell, Screens
<1> QED BY <1>3 DEF ConsoleInv

(* The types of the cursor and the grid, as bounds.                         *)
LEMMA Numbers ==
  ASSUME TypeOK
  PROVE  /\ COLS \in Int /\ 1 <= COLS /\ ROWS \in Int /\ 1 <= ROWS
         /\ cx \in Int /\ 0 <= cx /\ cx <= COLS + TAB /\ cy \in Int /\ 0 <= cy /\ cy <= ROWS
         /\ TAB \in Int /\ 1 <= TAB
         /\ buf \in [Cell -> Glyphs] /\ disp \in Screens
         /\ visible \in BOOLEAN /\ cursor_blink \in BOOLEAN /\ fb \in BOOLEAN
BY ConsoleSizes DEF TypeOK

(* Inside a putchar the cursor moves unseen.                                   *)
LEMMA ShownMoved ==
  ASSUME ConsoleInv, UNCHANGED <<buf, disp, visible, COLS, ROWS>>, cpu'.who = cpu.who,
         InPut, cpu.at # "show", InPut',
         cpu.at \in {"lift", "redraw"} => cpu'.at \in {"lift", "redraw"}
  PROVE  ShownOK'
<1>1. UNCHANGED <<Grid, Painted>>
  BY DEF Grid, Painted
<1> QED BY <1>1 DEF ConsoleInv, ShownOK, Shows, InPut, PutPoints

(* PutBegin takes the block away.                                             *)
LEMMA BeginInv == ConsoleInv /\ WhereOK' /\ PutBegin => ConsoleInv'
<1>. SUFFICES ASSUME ConsoleInv, WhereOK', PutBegin PROVE ConsoleInv'
  OBVIOUS
<1>0. TypeOK /\ WhereOK /\ CursorOK /\ ShownOK /\ cpu \in Contexts
  BY DEF ConsoleInv, WhereOK
<1>1. /\ cpu.at = "put" /\ disp' = cursor_hide(disp) /\ Goto("store")
      /\ UNCHANGED <<COLS, ROWS, visible, fb, keys, cx, cy, buf, cursor_blink>>
  BY DEF PutBegin, putFrame
<1>2. cpu'.at = "store" /\ cpu'.who = cpu.who
  BY <1>0, <1>1, GotoType DEF IdlePoints, PutPoints
<1>3. CursorOK'
  BY <1>0, <1>1, <1>2 DEF CursorOK
<1>4. disp' \in Screens
  BY <1>0, <1>1, HideFacts
<1>5. ShownOK'
  <2>. SUFFICES ASSUME visible, Painted
                PROVE  disp'.cursor = Hidden /\ \A p \in Grid : Shows(disp', buf, p)
    BY <1>1, <1>2 DEF ShownOK, Painted, Grid, Shows
  <2>1. fb /\ \A p \in Grid : Shows(disp, buf, p)
    BY <1>0, <1>1 DEF WhereOK, ShownOK
  <2> QED BY <1>0, <1>1, <2>1, HideFacts
<1> QED BY <1>0, <1>1, <1>3, <1>4, <1>5, Numbers, InvParts

(* PutStore stores and draws the same character.                               *)
LEMMA StoreFacts ==
  ASSUME ConsoleInv, NEW x, NEW y, <<x, y>> \in Grid, NEW c \in Glyphs, Store(x, y, c),
         cpu.at = "store", UNCHANGED <<visible, COLS, ROWS>>,
         cpu'.who = cpu.who, InPut', cpu'.at \notin {"lift", "redraw"}
  PROVE  buf' \in [Cell -> Glyphs] /\ disp' \in Screens /\ ShownOK'
<1>0. /\ TypeOK /\ WhereOK /\ ShownOK /\ buf \in [Cell -> Glyphs] /\ disp \in Screens
  BY DEF ConsoleInv, TypeOK
<1>1. (\A p \in Grid : p \in Cell) /\ <<x, y>> \in Cell /\ Hidden \notin Cell
  BY <1>0, GridCells
<1>2. buf' = [buf EXCEPT ![<<x, y>>] = c] /\ buf' \in [Cell -> Glyphs]
  BY <1>0, <1>1 DEF Store
<1>3. disp' = IF visible /\ fb THEN fb_drawchar(disp, <<x, y>>, c) ELSE disp
  BY DEF Store
<1>4. disp' \in Screens
  BY <1>0, <1>1, <1>3, DrawFacts
<1>5. ASSUME visible, Painted
      PROVE  disp'.cursor = Hidden /\ \A p \in Grid : Shows(disp', buf', p)
  <2>1. /\ fb /\ disp.cursor = Hidden /\ \A p \in Grid : Shows(disp, buf, p)
    BY <1>0, <1>5 DEF WhereOK, ShownOK, InPut, PutPoints
  <2>2. /\ disp'.cursor = disp.cursor
        /\ \A q \in Cell : disp'.cell[q] = IF q = <<x, y>> /\ c # "ctl" THEN c ELSE disp.cell[q]
    <3>1. disp' = fb_drawchar(disp, <<x, y>>, c)
      BY <1>3, <1>5, <2>1
    <3>2. /\ fb_drawchar(disp, <<x, y>>, c).cursor = disp.cursor
          /\ \A q \in Cell : fb_drawchar(disp, <<x, y>>, c).cell[q] =
               IF q = <<x, y>> /\ c # "ctl" THEN c ELSE disp.cell[q]
      <4>. DEFINE r == <<x, y>>
      <4>1. r \in Cell
        BY <1>1
      <4>. HIDE DEF r
      <4>2. /\ fb_drawchar(disp, r, c).cursor = disp.cursor
            /\ \A q \in Cell : fb_drawchar(disp, r, c).cell[q] =
                 IF q = r /\ c # "ctl" THEN c ELSE disp.cell[q]
        BY <1>0, <4>1, DrawFacts
      <4> QED BY <4>2 DEF r
    <3> QED BY <3>1, <3>2
  <2>3. ASSUME NEW p \in Grid PROVE Shows(disp', buf', p)
    <3>1. p \in Cell /\ p # Hidden /\ Shows(disp, buf, p)
      BY <1>1, <2>1
    <3>2. buf'[p] = IF p = <<x, y>> THEN c ELSE buf[p]
      BY <1>0, <1>1, <1>2, <3>1
    <3> QED BY <2>1, <2>2, <3>1, <3>2 DEF Shows
  <2> QED BY <2>1, <2>2, <2>3
<1>6. ShownOK'
  <2>1. UNCHANGED <<Grid, visible>> /\ Painted' = Painted
    BY DEF Grid, Painted
  <2> QED BY <1>5, <2>1 DEF ShownOK, InPut, PutPoints
<1> QED BY <1>2, <1>4, <1>6

(* The next tab stop is at most TAB columns away.                               *)
LEMMA TabStop ==
  ASSUME NEW x \in Nat, NEW d \in Nat \ {0}
  PROVE  /\ ((x + d) \div d) * d \in Nat
         /\ ((x + d) \div d) * d <= x + d /\ x < ((x + d) \div d) * d
<1>. DEFINE y == x + d
            q == y \div d
<1>1. y \in Nat
  OBVIOUS
<1>. HIDE DEF y
<1>2. q \in Nat /\ d * q <= y /\ y < d * q + d
  BY <1>1, DivBounds
<1>. HIDE DEF q
<1>3. q * d = d * q /\ d * q \in Nat
  BY <1>2
<1>4. q * d \in Nat /\ q * d <= y /\ y < q * d + d
  BY <1>2, <1>3
<1>5. x < q * d
  BY <1>4 DEF y
<1> QED BY <1>4, <1>5 DEF q, y

(* The cell before the cursor is in the grid.                                   *)
LEMMA BackFacts ==
  ASSUME COLS \in Int, 1 <= COLS, ROWS \in Int, cx \in Int, 0 <= cx, cx < COLS,
         cy \in Int, 0 <= cy, cy < ROWS
  PROVE  Back[1] \in 0..(COLS - 1) /\ Back[2] \in 0..(ROWS - 1)
<1>1. CASE cx > 0
  BY <1>1 DEF Back
<1>2. CASE cx = 0 /\ cy > 0
  BY <1>2 DEF Back
<1>3. CASE cx = 0 /\ cy = 0
  BY <1>3 DEF Back
<1> QED BY <1>1, <1>2, <1>3

(* fbcon_putchar stores its character.                                   *)
LEMMA StoreInv == ConsoleInv /\ WhereOK' /\ PutStore => ConsoleInv'
<1>. SUFFICES ASSUME ConsoleInv, WhereOK', PutStore PROVE ConsoleInv'
  OBVIOUS
<1>0. TypeOK /\ WhereOK /\ CursorOK /\ ShownOK /\ cpu \in Contexts
  BY DEF ConsoleInv, WhereOK
<1>1. /\ cpu.at = "store" /\ UNCHANGED <<COLS, ROWS, visible, fb, keys, cursor_blink>>
      /\ cx < COLS /\ cy < ROWS
  BY <1>0 DEF PutStore, putFrame, CursorOK
<1>2. /\ COLS \in Int /\ 1 <= COLS /\ ROWS \in Int /\ 1 <= ROWS
      /\ cx \in Int /\ 0 <= cx /\ cy \in Int /\ 0 <= cy /\ TAB \in Int /\ 1 <= TAB
      /\ buf \in [Cell -> Glyphs] /\ disp \in Screens /\ cursor_blink \in BOOLEAN
  BY <1>0, Numbers
<1>a. ASSUME NEW a \in {"down", "wrap", "advance"}, Goto(a)
      PROVE  cpu'.at = a /\ cpu'.who = cpu.who /\ InPut /\ InPut'
  BY <1>0, <1>1, <1>a, GotoType DEF IdlePoints, PutPoints, InPut
<1>. DEFINE c == Head(cpu.out)
<1>3. CASE /\ c \in {"nl", "cr"} /\ cx' = 0 /\ Goto(IF c = "nl" THEN "down" ELSE "wrap")
           /\ UNCHANGED <<cy, buf, disp>>
  <2>1. cpu'.at \in {"down", "wrap"} /\ cpu'.who = cpu.who /\ InPut /\ InPut'
    BY <1>3, <1>a
  <2>2. CursorOK'
    BY <1>1, <1>2, <1>3, <2>1 DEF CursorOK
  <2>3. ShownOK'
    BY <1>1, <1>3, <2>1, ShownMoved
  <2> QED BY <1>1, <1>2, <1>3, <2>2, <2>3, InvParts
<1>4. CASE c = "bs" /\ cx' = Back[1] /\ cy' = Back[2] /\ Store(cx', cy', " ") /\ Goto("wrap")
  <2>1. cpu'.at = "wrap" /\ cpu'.who = cpu.who /\ InPut /\ InPut'
    BY <1>4, <1>a
  <2>2. cx' \in 0..(COLS - 1) /\ cy' \in 0..(ROWS - 1)
    <3>1. Back[1] \in 0..(COLS - 1) /\ Back[2] \in 0..(ROWS - 1)
      BY <1>1, <1>2, BackFacts
    <3> QED BY <1>4, <3>1
  <2>3. <<cx', cy'>> \in Grid /\ " " \in Glyphs
    BY <2>2 DEF Grid, Glyphs
  <2>4. buf' \in [Cell -> Glyphs] /\ disp' \in Screens /\ ShownOK'
    BY <1>1, <1>4, <2>1, <2>3, StoreFacts
  <2>5. CursorOK'
    BY <1>1, <1>2, <2>1, <2>2 DEF CursorOK
  <2> QED BY <1>1, <1>2, <2>2, <2>4, <2>5, InvParts
<1>5. CASE c = "tab" /\ cx' = ((cx + TAB) \div TAB) * TAB /\ Goto("wrap") /\ UNCHANGED <<cy, buf, disp>>
  <2>1. cpu'.at = "wrap" /\ cpu'.who = cpu.who /\ InPut /\ InPut'
    BY <1>5, <1>a
  <2>2. cx' \in Nat /\ cx' <= cx + TAB
    <3>1. cx \in Nat /\ TAB \in Nat \ {0}
      BY <1>2
    <3>2. /\ ((cx + TAB) \div TAB) * TAB \in Nat
          /\ ((cx + TAB) \div TAB) * TAB <= cx + TAB
      BY <3>1, TabStop
    <3> QED BY <1>5, <3>2
  <2>3. CursorOK'
    BY <1>1, <1>5, <2>1 DEF CursorOK
  <2>4. ShownOK'
    BY <1>1, <1>5, <2>1, ShownMoved
  <2> QED BY <1>1, <1>2, <1>5, <2>2, <2>3, <2>4, InvParts
<1>6. CASE c \in Glyphs /\ Store(cx, cy, c) /\ Goto("advance") /\ UNCHANGED <<cx, cy>>
  <2>1. cpu'.at = "advance" /\ cpu'.who = cpu.who /\ InPut /\ InPut'
    BY <1>6, <1>a
  <2>2. <<cx, cy>> \in Grid
    BY <1>1, <1>2 DEF Grid
  <2>3. buf' \in [Cell -> Glyphs] /\ disp' \in Screens /\ ShownOK'
    BY <1>1, <1>6, <2>1, <2>2, StoreFacts
  <2>4. CursorOK'
    BY <1>1, <1>6, <2>1 DEF CursorOK
  <2> QED BY <1>1, <1>2, <1>6, <2>3, <2>4, InvParts
<1> QED BY <1>3, <1>4, <1>5, <1>6 DEF PutStore

(* The steps that move the cursor on, unseen.                                    *)
LEMMA MoveInv ==
  ConsoleInv /\ WhereOK' /\ (PutAdvance \/ PutWrap \/ PutDown \/ PutLift) => ConsoleInv'
<1>. SUFFICES ASSUME ConsoleInv, WhereOK', PutAdvance \/ PutWrap \/ PutDown \/ PutLift
              PROVE  ConsoleInv'
  OBVIOUS
<1>0. TypeOK /\ WhereOK /\ CursorOK /\ ShownOK /\ cpu \in Contexts
  BY DEF ConsoleInv, WhereOK
<1>1. UNCHANGED <<COLS, ROWS, visible, fb, keys, cursor_blink, buf, disp>>
  BY DEF PutAdvance, PutWrap, PutDown, PutLift, putFrame
<1>2. /\ COLS \in Int /\ 1 <= COLS /\ ROWS \in Int /\ 1 <= ROWS
      /\ cx \in Int /\ 0 <= cx /\ cx <= COLS + TAB /\ cy \in Int /\ 0 <= cy /\ cy <= ROWS
      /\ TAB \in Int /\ 1 <= TAB
      /\ buf \in [Cell -> Glyphs] /\ disp \in Screens /\ cursor_blink \in BOOLEAN
  BY <1>0, Numbers
<1>a. ASSUME NEW a \in {"wrap", "down", "bottom", "redraw"}, Goto(a)
      PROVE  cpu'.at = a /\ cpu'.who = cpu.who /\ InPut'
  BY <1>0, <1>a, GotoType DEF IdlePoints, PutPoints, InPut
<1>b. InPut /\ cpu.at # "show" /\ cpu.at # "redraw"
  BY DEF PutAdvance, PutWrap, PutDown, PutLift, InPut, PutPoints
<1>3. CASE PutAdvance
  <2>1. cpu'.at = "wrap" /\ cpu'.who = cpu.who /\ InPut' /\ cpu.at = "advance"
    BY <1>3, <1>a DEF PutAdvance
  <2>2. cx' = cx + 1 /\ cx < COLS /\ cy < ROWS /\ UNCHANGED cy
    BY <1>0, <1>3 DEF PutAdvance, CursorOK
  <2>3. CursorOK'
    BY <1>1, <2>1, <2>2 DEF CursorOK
  <2>4. ShownOK'
    BY <1>1, <1>b, <2>1, ShownMoved
  <2> QED BY <1>1, <1>2, <2>2, <2>3, <2>4, InvParts
<1>4. CASE PutWrap
  <2>1. cpu.at = "wrap" /\ cy < ROWS /\ UNCHANGED cy
    BY <1>0, <1>4 DEF PutWrap, CursorOK
  <2>2. \/ cx' = 0 /\ Goto("down")
        \/ cx < COLS /\ UNCHANGED cx /\ Goto("bottom")
    BY <1>2, <1>4 DEF PutWrap
  <2>3. /\ cpu'.at \in {"down", "bottom"} /\ cpu'.who = cpu.who /\ InPut'
    BY <1>a, <2>2
  <2>4. CursorOK'
    BY <1>1, <1>2, <2>1, <2>2, <2>3 DEF CursorOK
  <2>5. ShownOK'
    BY <1>1, <1>b, <2>1, <2>3, ShownMoved
  <2> QED BY <1>1, <1>2, <2>1, <2>2, <2>4, <2>5, InvParts
<1>5. CASE PutDown
  <2>1. cpu'.at = "bottom" /\ cpu'.who = cpu.who /\ InPut' /\ cpu.at = "down"
    BY <1>5, <1>a DEF PutDown
  <2>2. cy' = cy + 1 /\ cx < COLS /\ cy < ROWS /\ UNCHANGED cx
    BY <1>0, <1>5 DEF PutDown, CursorOK
  <2>3. CursorOK'
    BY <1>1, <2>1, <2>2 DEF CursorOK
  <2>4. ShownOK'
    BY <1>1, <1>b, <2>1, ShownMoved
  <2> QED BY <1>1, <1>2, <2>2, <2>3, <2>4, InvParts
<1>6. CASE PutLift
  <2>1. cpu'.at = "redraw" /\ cpu'.who = cpu.who /\ InPut' /\ cpu.at = "lift"
    BY <1>6, <1>a DEF PutLift
  <2>2. cy' = cy - 1 /\ cx < COLS /\ cy = ROWS /\ UNCHANGED cx
    BY <1>0, <1>6 DEF PutLift, CursorOK
  <2>3. CursorOK'
    BY <1>1, <1>2, <2>1, <2>2 DEF CursorOK
  <2>4. ShownOK'
    BY <1>1, <1>b, <2>1, ShownMoved
  <2> QED BY <1>1, <1>2, <2>2, <2>3, <2>4, InvParts
<1> QED BY <1>3, <1>4, <1>5, <1>6

(* scroll() keeps the buffer a buffer; the screen is redrawn later.                *)
LEMMA BottomInv == ConsoleInv /\ WhereOK' /\ PutBottom => ConsoleInv'
<1>. SUFFICES ASSUME ConsoleInv, WhereOK', PutBottom PROVE ConsoleInv'
  OBVIOUS
<1>0. TypeOK /\ WhereOK /\ CursorOK /\ ShownOK /\ cpu \in Contexts
  BY DEF ConsoleInv, WhereOK
<1>1. /\ cpu.at = "bottom" /\ cx < COLS
      /\ UNCHANGED <<COLS, ROWS, visible, fb, keys, cx, cy, disp, cursor_blink>>
  BY <1>0 DEF PutBottom, putFrame, CursorOK
<1>2. /\ COLS \in Int /\ 1 <= COLS /\ ROWS \in Int /\ 1 <= ROWS
      /\ cx \in Int /\ 0 <= cx /\ cx <= COLS + TAB /\ cy \in Int /\ 0 <= cy /\ cy <= ROWS
      /\ buf \in [Cell -> Glyphs] /\ disp \in Screens /\ cursor_blink \in BOOLEAN
  BY <1>0, Numbers
<1>a. InPut /\ cpu.at \notin {"show", "lift", "redraw"}
  BY <1>1 DEF InPut, PutPoints
<1>3. CASE cy >= ROWS
  <2>1. buf' = Scrolled /\ cpu'.at = "lift" /\ cpu'.who = cpu.who
    BY <1>0, <1>3, GotoType DEF PutBottom, IdlePoints, PutPoints
  <2>2. Scrolled \in [Cell -> Glyphs]
    <3>1. ASSUME NEW p \in Cell
          PROVE  (IF p \notin Grid THEN buf[p]
                  ELSE IF p[2] = ROWS - 1 THEN " " ELSE buf[<<p[1], p[2] + 1>>]) \in Glyphs
      <4>1. CASE p \notin Grid
        BY <1>2, <4>1
      <4>2. CASE p \in Grid /\ p[2] = ROWS - 1
        BY <4>2 DEF Glyphs
      <4>3. CASE p \in Grid /\ p[2] # ROWS - 1
        <5>1. p[1] \in 0..(COLS - 1) /\ p[2] + 1 \in 0..(ROWS - 1)
          BY <1>2, <4>3 DEF Grid
        <5>2. <<p[1], p[2] + 1>> \in Cell
          BY <1>0, <5>1, GridCells DEF Grid
        <5> QED BY <1>2, <4>3, <5>2
      <4> QED BY <4>1, <4>2, <4>3
    <3> QED BY <3>1 DEF Scrolled
  <2>3. CursorOK'
    BY <1>1, <1>2, <1>3, <2>1 DEF CursorOK
  <2>4. ShownOK'
    BY <1>0, <1>1, <1>a, <2>1 DEF ShownOK, Painted
  <2> QED BY <1>1, <1>2, <2>1, <2>2, <2>3, <2>4, InvParts
<1>4. CASE cy < ROWS
  <2>1. UNCHANGED buf /\ cpu'.at = "show" /\ cpu'.who = cpu.who
    BY <1>0, <1>2, <1>4, GotoType DEF PutBottom, IdlePoints, PutPoints
  <2>2. CursorOK'
    BY <1>1, <1>4, <2>1 DEF CursorOK
  <2>3. InPut'
    BY <2>1 DEF InPut, PutPoints
  <2>4. ShownOK'
    BY <1>1, <1>a, <2>1, <2>3, ShownMoved
  <2> QED BY <1>1, <1>2, <2>1, <2>2, <2>4, InvParts
<1> QED BY <1>2, <1>3, <1>4

(* The redraw after a scroll, and the block after the character.                    *)
LEMMA ShowInv == ConsoleInv /\ WhereOK' /\ (PutRedraw \/ PutShow) => ConsoleInv'
<1>. SUFFICES ASSUME ConsoleInv, WhereOK', PutRedraw \/ PutShow PROVE ConsoleInv'
  OBVIOUS
<1>0. TypeOK /\ WhereOK /\ CursorOK /\ ShownOK /\ cpu \in Contexts
  BY DEF ConsoleInv, WhereOK
<1>1. /\ cpu.at \in {"redraw", "show"} /\ cx < COLS /\ cy < ROWS
      /\ UNCHANGED <<COLS, ROWS, visible, fb, keys, cx, cy, buf>>
  BY <1>0 DEF PutRedraw, PutShow, putFrame, CursorOK
<1>2. /\ COLS \in Int /\ 1 <= COLS /\ ROWS \in Int /\ 1 <= ROWS
      /\ cx \in Int /\ 0 <= cx /\ cx <= COLS + TAB /\ cy \in Int /\ 0 <= cy /\ cy <= ROWS
      /\ buf \in [Cell -> Glyphs] /\ disp \in Screens
      /\ cursor_blink \in BOOLEAN /\ visible \in BOOLEAN
  BY <1>0, Numbers
<1>3. <<cx, cy>> \in Grid
  BY <1>1, <1>2 DEF Grid
<1>4. cursor_blink' \in BOOLEAN
  BY <1>2 DEF PutRedraw, PutShow
<1>5. cpu'.at \in {"put", "show"} /\ cpu'.who = cpu.who
  <2>1. CASE PutRedraw
    BY <1>0, <2>1, GotoType DEF PutRedraw, IdlePoints, PutPoints
  <2>2. CASE PutShow
    BY <1>0, <2>2 DEF PutShow, Contexts
  <2> QED BY <2>1, <2>2
<1>6. CursorOK'
  BY <1>1, <1>5 DEF CursorOK
<1>7. ASSUME visible, Painted
      PROVE  /\ disp' \in Screens /\ disp'.cursor \in {Hidden, <<cx, cy>>}
             /\ \A p \in Grid : Shows(disp', buf, p)
  <2>1. CASE PutRedraw
    BY <1>0, <1>2, <1>3, <1>7, <2>1, RedrawFacts DEF PutRedraw, WhereOK
  <2>2. CASE PutShow
    <3>1. disp' = cursor_show(disp, visible, cx, cy) /\ cpu.at = "show"
      BY <2>2 DEF PutShow
    <3>2. disp.cursor \in {Hidden, <<cx, cy>>} /\ \A p \in Grid : Shows(disp, buf, p)
      BY <1>0, <1>7, <3>1 DEF ShownOK
    <3> QED BY <1>0, <1>2, <1>3, <3>1, <3>2, BlockFacts
  <2> QED BY <2>1, <2>2
<1>8. disp' \in Screens
  <2>1. CASE PutRedraw
    BY <1>0, <1>2, <1>3, <2>1, RedrawFacts DEF PutRedraw, WhereOK
  <2>2. CASE PutShow
    <3>1. <<cx, cy>> \in Cell
      BY <1>0, <1>3, GridCells
    <3> QED BY <1>2, <2>2, <3>1, ShowFacts DEF PutShow
  <2> QED BY <2>1, <2>2
<1>9. ShownOK'
  <2>1. UNCHANGED <<Grid, visible, buf, cx, cy>> /\ Painted' = Painted
    BY <1>1, <1>5 DEF Grid, Painted
  <2>2. InPut' => cpu'.at = "show"
    BY <1>5 DEF InPut
  <2> QED BY <1>5, <1>7, <2>1, <2>2 DEF ShownOK
<1> QED BY <1>1, <1>2, <1>4, <1>6, <1>8, <1>9, InvParts

(* A screen of one colour.                                                   *)
LEMMA ClearType ==
  ASSUME NEW d \in Screens, NEW c \in Glyphs \cup {"block", "demo", "red"}
  PROVE  fb_clear(d, c) \in Screens
BY DEF Screens, fb_clear

(* panic paints over everything: ShownOK asks nothing more.                        *)
LEMMA PanicInv == ConsoleInv /\ WhereOK' /\ (ActPanic \/ Fault) => ConsoleInv'
<1>. SUFFICES ASSUME ConsoleInv, WhereOK', ActPanic \/ Fault PROVE ConsoleInv'
  OBVIOUS
<1>0. TypeOK /\ WhereOK /\ CursorOK
  BY DEF ConsoleInv
<1>1. UNCHANGED <<COLS, ROWS, visible, fb, keys, cx, cy, buf, cursor_blink>>
  BY DEF ActPanic, Fault, actFrame, text
<1>2. panic /\ cpu.at \in {"act", "run"}
  BY DEF ActPanic, Fault, User, At
<1>3. cpu'.who = "panic" /\ cpu'.at = "put"
  <2>1. "panic" \in Who /\ PanicText \in Seq(Chars)
    BY ConsoleAssumption DEF Who
  <2> QED BY <1>2, <2>1, PrintType DEF panic, Prints
<1>4. CursorOK'
  BY <1>0, <1>1, <1>2, <1>3 DEF CursorOK
<1>5. disp' \in Screens
  BY <1>0, <1>2, Numbers, ClearType DEF panic, RedScreen
<1>6. ShownOK'
  BY <1>3 DEF ShownOK, Painted
<1> QED BY <1>0, <1>1, <1>4, <1>5, <1>6, Numbers, InvParts

(* The steps that leave the text and the keys alone: what they must show.         *)
LEMMA LoopParts ==
  ASSUME ConsoleInv, WhereOK', UNCHANGED <<COLS, ROWS, fb, keys, buf, cx, cy>>,
         cpu.at \in IdlePoints \ PutPoints, cpu'.at \in IdlePoints \ PutPoints,
         disp' \in Screens, cursor_blink' \in BOOLEAN, ShownOK'
  PROVE  ConsoleInv'
<1>1. /\ COLS \in Int /\ 1 <= COLS /\ ROWS \in Int /\ 1 <= ROWS
      /\ cx \in Int /\ 0 <= cx /\ cx <= COLS + TAB /\ cy \in Int /\ 0 <= cy /\ cy <= ROWS
      /\ buf \in [Cell -> Glyphs]
  BY Numbers DEF ConsoleInv
<1>2. CursorOK'
  BY LoopPoints DEF ConsoleInv, CursorOK
<1> QED BY <1>1, <1>2, InvParts

(* F12 asks for a clear screen, and for all of the buffer if it is to be seen.      *)
LEMMA ToggleInv ==
  ConsoleInv /\ WhereOK' /\ (ActToggle \/ ToggleClear \/ ToggleRepaint) => ConsoleInv'
<1>. SUFFICES ASSUME ConsoleInv, WhereOK', ActToggle \/ ToggleClear \/ ToggleRepaint
              PROVE  ConsoleInv'
  OBVIOUS
<1>0. TypeOK /\ WhereOK /\ ShownOK /\ cpu \in Contexts
  BY DEF ConsoleInv, WhereOK
<1>1. /\ UNCHANGED <<COLS, ROWS, fb, keys, cx, cy, buf>>
      /\ cpu.at \in {"act", "clear", "repaint"}
  BY DEF ActToggle, ToggleClear, ToggleRepaint, actFrame
<1>2. /\ disp \in Screens /\ cursor_blink \in BOOLEAN /\ visible \in BOOLEAN
  BY <1>0, Numbers
<1>a. ASSUME NEW a \in {"clear", "repaint", "draw"}, Goto(a) PROVE cpu'.at = a
  BY <1>0, <1>a, GotoType, LoopPoints
<1>b. ASSUME cpu' = At(cpu.who, "blink") PROVE cpu'.at = "blink"
  BY <1>b DEF At
<1>3. CASE ActToggle
  <2>1. UNCHANGED disp /\ cursor_blink' \in BOOLEAN /\ visible' = ~visible
    BY <1>2, <1>3 DEF ActToggle
  <2>2. cpu'.at = "clear" \/ (cpu'.at = "blink" /\ ~visible')
    BY <1>3, <1>a, <1>b DEF ActToggle
  <2>3. ShownOK'
    BY <2>2 DEF ShownOK, InPut, PutPoints
  <2> QED BY <1>1, <1>2, <2>1, <2>2, <2>3, LoopParts, LoopPoints
<1>4. CASE ToggleClear
  <2>1. disp' = fb_clear(disp, " ") /\ UNCHANGED <<visible, cursor_blink>>
    BY <1>4 DEF ToggleClear
  <2>2. disp' \in Screens
    BY <1>2, <2>1, ClearType DEF Glyphs
  <2>0. (visible /\ Goto("repaint")) \/ (~visible /\ cpu' = At(cpu.who, "blink"))
    BY <1>2, <1>4 DEF ToggleClear
  <2>3. cpu'.at = "repaint" \/ (cpu'.at = "blink" /\ ~visible')
    BY <1>a, <1>b, <2>0, <2>1
  <2>4. ShownOK'
    BY <2>3 DEF ShownOK, InPut, PutPoints
  <2> QED BY <1>1, <1>2, <2>1, <2>2, <2>3, <2>4, LoopParts, LoopPoints
<1>5. CASE ToggleRepaint
  <2>1. disp' = Repainted(disp) /\ UNCHANGED <<visible, cursor_blink>> /\ cpu'.at = "draw"
    BY <1>5, <1>a DEF ToggleRepaint
  <2>2. disp' \in Screens /\ disp'.cursor = Hidden /\ \A p \in Grid : Shows(disp', buf, p)
    BY <1>0, <1>2, <2>1, RepaintFacts
  <2>3. UNCHANGED <<Grid, buf>>
    BY <1>1 DEF Grid
  <2>4. ShownOK'
    BY <2>1, <2>2, <2>3 DEF ShownOK, InPut, PutPoints
  <2> QED BY <1>1, <1>2, <2>1, <2>2, <2>4, LoopParts, LoopPoints
<1> QED BY <1>3, <1>4, <1>5

(* The cursor keys stay on the screen.                                            *)
LEMMA TargetFacts ==
  ASSUME COLS \in Int, 1 <= COLS, ROWS \in Int, cx \in Int, 0 <= cx, cx < COLS,
         cy \in Int, 0 <= cy, cy < ROWS, NEW k \in Arrows
  PROVE  Target(k)[1] \in 0..(COLS - 1) /\ Target(k)[2] \in 0..(ROWS - 1)
<1>1. CASE k = "up"
  <2>1. Target(k) = <<cx, IF cy > 0 THEN cy - 1 ELSE cy>>
    BY <1>1 DEF Target
  <2> QED BY <2>1
<1>2. CASE k = "down"
  <2>1. Target(k) = <<cx, IF cy < ROWS - 1 THEN cy + 1 ELSE cy>>
    BY <1>2 DEF Target
  <2> QED BY <2>1
<1>3. CASE k = "left"
  <2>1. Target(k) = Back
    BY <1>3 DEF Target
  <2> QED BY <2>1, BackFacts
<1>4. CASE k = "right"
  <2>1. Target(k) = IF cx < COLS - 1 THEN <<cx + 1, cy>>
                    ELSE IF cy < ROWS - 1 THEN <<0, cy + 1>> ELSE <<cx, cy>>
    BY <1>4 DEF Target
  <2>2. CASE cx < COLS - 1
    BY <2>1, <2>2
  <2>3. CASE ~(cx < COLS - 1) /\ cy < ROWS - 1
    BY <2>1, <2>3
  <2>4. CASE ~(cx < COLS - 1) /\ ~(cy < ROWS - 1)
    BY <2>1, <2>4
  <2> QED BY <2>2, <2>3, <2>4
<1> QED BY <1>1, <1>2, <1>3, <1>4 DEF Arrows

(* The character is drawn over the block, which is still recorded.                 *)
LEMMA EraseFacts ==
  ASSUME ConsoleInv, EraseCursor, cpu.at \in {"act", "blink"},
         UNCHANGED <<COLS, ROWS, buf, visible, cx, cy>>
  PROVE  disp' \in Screens /\ cpu'.at = "erased" /\ ShownOK'
<1>0. TypeOK /\ WhereOK /\ ShownOK /\ cpu \in Contexts
  BY DEF ConsoleInv, WhereOK
<1>1. disp \in Screens /\ buf \in [Cell -> Glyphs]
  BY <1>0 DEF TypeOK
<1>2. cpu'.at = "erased" /\ cpu'.who = cpu.who
  BY <1>0, GotoType, LoopPoints DEF EraseCursor
<1>. DEFINE q == disp.cursor
            e == fb_drawchar(disp, q, buf[q])
<1>3. q \in Cell /\ buf[q] \in Glyphs /\ disp' = e
  BY <1>1 DEF EraseCursor, Screens
<1>. HIDE DEF q
<1>4. /\ e \in Screens /\ e.cursor = disp.cursor
      /\ \A p \in Cell : e.cell[p] = IF p = q /\ buf[q] # "ctl" THEN buf[q] ELSE disp.cell[p]
  BY <1>1, <1>3, DrawFacts
<1>. HIDE DEF e
<1>5. ASSUME visible, Painted
      PROVE  /\ disp'.cursor \in {Hidden, <<cx, cy>>}
             /\ \A p \in Grid : Shows(disp', buf, p) /\ (buf[p] # "ctl" => disp'.cell[p] = buf[p])
  <2>1. disp.cursor \in {Hidden, <<cx, cy>>} /\ \A p \in Grid : Shows(disp, buf, p)
    BY <1>0, <1>5 DEF ShownOK
  <2>2. ASSUME NEW p \in Grid
        PROVE  Shows(disp', buf, p) /\ (buf[p] # "ctl" => disp'.cell[p] = buf[p])
    <3>1. p \in Cell /\ Shows(disp, buf, p)
      BY <1>0, <2>1, GridCells
    <3>2. disp'.cursor = q /\ disp.cursor = q
      BY <1>3, <1>4 DEF q
    <3>3. disp'.cell[p] = IF p = q /\ buf[q] # "ctl" THEN buf[q] ELSE disp.cell[p]
      BY <1>3, <1>4, <3>1
    <3> QED BY <3>1, <3>2, <3>3 DEF Shows
  <2> QED BY <1>3, <1>4, <2>1, <2>2
<1>6. UNCHANGED <<Grid, Painted>>
  BY <1>2 DEF Grid, Painted
<1>7. ShownOK'
  BY <1>2, <1>5, <1>6 DEF ShownOK, InPut, PutPoints
<1> QED BY <1>2, <1>3, <1>4, <1>7

(* A cursor key, and fbcon_tick, hide the cursor.                                 *)
LEMMA HideInv == ConsoleInv /\ WhereOK' /\ (ActArrow \/ CursorHidden) => ConsoleInv'
<1>. SUFFICES ASSUME ConsoleInv, WhereOK', ActArrow \/ CursorHidden PROVE ConsoleInv'
  OBVIOUS
<1>0. TypeOK /\ WhereOK /\ ShownOK /\ cpu \in Contexts
  BY DEF ConsoleInv, WhereOK
<1>1. /\ UNCHANGED <<COLS, ROWS, fb, keys, cx, cy, buf, visible, cursor_blink>>
      /\ cpu.at \in {"act", "erased"}
  BY DEF ActArrow, CursorHidden, cursorFrame
<1>2. disp \in Screens /\ cursor_blink \in BOOLEAN /\ UNCHANGED Grid
  BY <1>0, <1>1, Numbers DEF Grid
<1>3. CASE ActArrow /\ EraseCursor
  <2>1. disp' \in Screens /\ cpu'.at = "erased" /\ ShownOK'
    BY <1>1, <1>3, EraseFacts DEF ActArrow
  <2> QED BY <1>1, <1>2, <2>1, LoopParts, LoopPoints
<1>4. CASE ActArrow /\ NoCursorToHide /\ Goto("move")
  <2>1. cpu'.at = "move" /\ cpu'.who = cpu.who /\ UNCHANGED disp
    BY <1>0, <1>4, GotoType, LoopPoints DEF NoCursorToHide
  <2>2. visible => disp.cursor = Hidden
    BY <1>0, <1>4 DEF NoCursorToHide, WhereOK
  <2>3. ShownOK'
    BY <1>0, <1>1, <1>2, <1>4, <2>1, <2>2 DEF ShownOK, InPut, PutPoints, Painted, ActArrow
  <2> QED BY <1>1, <1>2, <2>1, <2>3, LoopParts, LoopPoints
<1>5. CASE CursorHidden
  <2>1. cpu.at = "erased" /\ disp' = [disp EXCEPT !.cursor = Hidden]
    BY <1>5 DEF CursorHidden
  <2>2. cpu'.at \in {"move", "hlt", "blink"} /\ cpu'.who = cpu.who
    BY <1>0, <1>5, GotoType, DoneType, LoopPoints DEF CursorHidden
  <2>3. disp' \in Screens /\ disp'.cursor = Hidden /\ disp'.cell = disp.cell
    BY <1>2, <2>1 DEF Screens
  <2>4. ASSUME visible, Painted, NEW p \in Grid PROVE Shows(disp', buf, p)
    <3>1. p # Hidden
      BY <1>0, GridCells
    <3> QED BY <1>0, <2>1, <2>3, <2>4, <3>1 DEF ShownOK, Shows
  <2>5. ShownOK'
    BY <1>1, <1>2, <2>2, <2>3, <2>4 DEF ShownOK, InPut, PutPoints, Painted
  <2> QED BY <1>1, <1>2, <2>1, <2>2, <2>3, <2>5, LoopParts, LoopPoints
<1> QED BY <1>3, <1>4, <1>5 DEF ActArrow

(* A cursor key moves the cursor.                                        *)
LEMMA ArrowInv == ConsoleInv /\ WhereOK' /\ ArrowMove => ConsoleInv'
<1>. SUFFICES ASSUME ConsoleInv, WhereOK', ArrowMove PROVE ConsoleInv'
  OBVIOUS
<1>0. TypeOK /\ WhereOK /\ CursorOK /\ ShownOK /\ cpu \in Contexts
  BY DEF ConsoleInv, WhereOK
<1>1. /\ UNCHANGED <<COLS, ROWS, fb, keys, visible, buf, cursor_blink, disp>> /\ cpu.at = "move"
      /\ cx < COLS /\ cy < ROWS
  BY <1>0 DEF ArrowMove, cursorFrame, CursorOK
<1>2. /\ COLS \in Int /\ 1 <= COLS /\ ROWS \in Int /\ 1 <= ROWS /\ TAB \in Int /\ 1 <= TAB
      /\ cx \in Int /\ 0 <= cx /\ cy \in Int /\ 0 <= cy
      /\ buf \in [Cell -> Glyphs] /\ disp \in Screens
      /\ cursor_blink \in BOOLEAN /\ visible \in BOOLEAN
  BY <1>0, Numbers
<1>3. cx' \in 0..(COLS - 1) /\ cy' \in 0..(ROWS - 1)
  <2>1. cpu.key \in Arrows /\ cx' = Target(cpu.key)[1] /\ cy' = Target(cpu.key)[2]
    BY <1>0, <1>1 DEF ArrowMove, WhereOK
  <2> QED BY <1>1, <1>2, <2>1, TargetFacts
<1>4. cpu'.at = "draw" /\ cpu'.who = cpu.who
  BY <1>0, GotoType, LoopPoints DEF ArrowMove
<1>5. CursorOK'
  BY <1>1, <1>2, <1>3, <1>4 DEF CursorOK
<1>6. ShownOK'
  <2>1. UNCHANGED <<Grid, Painted>>
    BY <1>1, <1>4 DEF Grid, Painted
  <2> QED BY <1>0, <1>1, <1>4, <2>1 DEF ShownOK, InPut, PutPoints, Shows
<1> QED BY <1>1, <1>2, <1>3, <1>5, <1>6, InvParts

(* The block is drawn, and then recorded.                                       *)
LEMMA BlockInv == ConsoleInv /\ WhereOK' /\ (CursorDraw \/ CursorShown) => ConsoleInv'
<1>. SUFFICES ASSUME ConsoleInv, WhereOK', CursorDraw \/ CursorShown PROVE ConsoleInv'
  OBVIOUS
<1>0. TypeOK /\ WhereOK /\ CursorOK /\ ShownOK /\ cpu \in Contexts
  BY DEF ConsoleInv, WhereOK
<1>1. /\ UNCHANGED <<COLS, ROWS, fb, keys, cx, cy, buf, visible, cursor_blink>>
      /\ cpu.at \in {"draw", "drawn"} /\ cx < COLS /\ cy < ROWS
  BY <1>0 DEF CursorDraw, CursorShown, cursorFrame, CursorOK
<1>2. /\ COLS \in Int /\ 1 <= COLS /\ ROWS \in Int /\ 1 <= ROWS
      /\ cx \in Int /\ 0 <= cx /\ cy \in Int /\ 0 <= cy
      /\ disp \in Screens /\ cursor_blink \in BOOLEAN
  BY <1>0, Numbers
<1>. DEFINE q == <<cx, cy>>
<1>3. q \in Grid /\ q \in Cell /\ UNCHANGED <<Grid, q>>
  <2>1. cx \in 0..(COLS - 1) /\ cy \in 0..(ROWS - 1)
    BY <1>1, <1>2
  <2> QED BY <1>0, <1>1, <2>1, GridCells DEF Grid
<1>4. \A p \in Grid : p \in Cell /\ p # Hidden
  BY <1>0, GridCells
<1>s. ShownOK => (visible /\ Painted => disp.cursor \in {Hidden, q} \/ cpu.at \in {"clear", "repaint"})
  BY DEF ShownOK
<1>5. CASE CursorDraw /\ visible /\ fb
  <2>1. /\ disp' = [disp EXCEPT !.cell[q] = "block"] /\ cpu'.at = "drawn" /\ cpu'.who = cpu.who
        /\ cpu.at = "draw"
    BY <1>0, <1>5, GotoType, LoopPoints DEF CursorDraw
  <2>2. /\ disp' \in Screens /\ disp'.cursor = disp.cursor
        /\ \A p \in Cell : disp'.cell[p] = IF p = q THEN "block" ELSE disp.cell[p]
    BY <1>2, <1>3, <2>1 DEF Screens
  <2>3. ASSUME Painted, NEW p \in Grid PROVE p = q \/ Shows(disp', buf, p)
    BY <1>0, <1>4, <1>5, <2>1, <2>2, <2>3 DEF ShownOK, Shows
  <2>4. ShownOK'
    BY <1>0, <1>1, <1>3, <2>1, <2>2, <2>3 DEF ShownOK, InPut, PutPoints, Painted
  <2> QED BY <1>1, <1>2, <2>1, <2>2, <2>4, LoopParts, LoopPoints
<1>6. CASE CursorDraw /\ ~(visible /\ fb)
  <2>1. UNCHANGED disp /\ CursorDone /\ ~visible'
    BY <1>0, <1>1, <1>6 DEF CursorDraw, WhereOK
  <2>2. cpu'.at \in {"hlt", "blink"} /\ ShownOK'
    BY <1>0, <2>1, DoneType DEF ShownOK
  <2> QED BY <1>1, <1>2, <2>1, <2>2, LoopParts, LoopPoints
<1>7. CASE CursorShown
  <2>1. /\ disp' = [disp EXCEPT !.cursor = q] /\ cpu'.at \in {"hlt", "blink"}
        /\ cpu'.who = cpu.who /\ cpu.at = "drawn"
    BY <1>0, <1>7, DoneType DEF CursorShown
  <2>2. disp' \in Screens /\ disp'.cursor = q /\ disp'.cell = disp.cell
    BY <1>2, <1>3, <2>1 DEF Screens
  <2>3. ASSUME visible, Painted, NEW p \in Grid PROVE Shows(disp', buf, p)
    <3>1. CASE p = q
      BY <1>0, <2>1, <2>2, <2>3, <3>1 DEF ShownOK, Shows
    <3>2. CASE p # q
      BY <1>0, <1>4, <2>1, <2>2, <2>3, <3>2 DEF ShownOK, Shows
    <3> QED BY <3>1, <3>2
  <2>4. ShownOK'
    BY <1>1, <1>3, <2>1, <2>2, <2>3 DEF ShownOK, InPut, PutPoints, Painted
  <2> QED BY <1>1, <1>2, <2>1, <2>2, <2>4, LoopParts, LoopPoints
<1> QED BY <1>5, <1>6, <1>7

(* fbcon_tick.                                                                *)
LEMMA BlinkInv == ConsoleInv /\ WhereOK' /\ Blink => ConsoleInv'
<1>. SUFFICES ASSUME ConsoleInv, WhereOK', Blink PROVE ConsoleInv'
  OBVIOUS
<1>0. TypeOK /\ WhereOK /\ ShownOK /\ cpu \in Contexts
  BY DEF ConsoleInv, WhereOK
<1>1. UNCHANGED <<COLS, ROWS, cx, cy, buf, visible, fb, keys>> /\ cpu.at = "blink"
  BY DEF Blink, cursorFrame
<1>2. disp \in Screens /\ cursor_blink \in BOOLEAN /\ UNCHANGED Grid
  BY <1>0, <1>1, Numbers DEF Grid
<1>3. cursor_blink' \in BOOLEAN
  BY <1>2 DEF Blink
<1>4. CASE EraseCursor
  <2>1. disp' \in Screens /\ cpu'.at = "erased" /\ ShownOK'
    BY <1>1, <1>4, EraseFacts
  <2> QED BY <1>1, <1>3, <2>1, LoopParts, LoopPoints
<1>5. CASE (Goto("hlt") \/ Goto("draw")) /\ UNCHANGED disp
  <2>1. cpu'.at \in {"hlt", "draw"} /\ cpu'.who = cpu.who
    BY <1>0, <1>5, GotoType, LoopPoints
  <2>2. ShownOK'
    BY <1>0, <1>1, <1>2, <1>5, <2>1 DEF ShownOK, InPut, PutPoints, Painted, Shows
  <2> QED BY <1>1, <1>2, <1>3, <1>5, <2>1, <2>2, LoopParts, LoopPoints
<1> QED BY <1>4, <1>5 DEF Blink, NoCursorToHide

(* A column inside the grid is one that the cursor may be in.               *)
LEMMA InRange ==
  ASSUME NEW n \in Int, NEW x \in 0..(n - 1), NEW t \in Nat
  PROVE  x < n /\ x \in 0..n /\ x \in 0..(n + t)
OBVIOUS

(* fbcon_resize keeps the cursor inside the new size.                               *)
LEMMA ResizeInv == ConsoleInv /\ WhereOK' /\ FramebufferFound => ConsoleInv'
<1>. SUFFICES ASSUME ConsoleInv, WhereOK', FramebufferFound PROVE ConsoleInv'
  OBVIOUS
<1>0. TypeOK /\ WhereOK /\ CursorOK
  BY DEF ConsoleInv
<1>1. /\ UNCHANGED <<buf, visible, cursor_blink, keys>> /\ cpu = At("boot", "run")
      /\ cpu' = At("booted", "run")
  BY DEF FramebufferFound
<1>2. /\ COLS \in Int /\ 1 <= COLS /\ ROWS \in Int /\ 1 <= ROWS /\ TAB \in Int /\ 1 <= TAB
      /\ cx \in Int /\ 0 <= cx /\ cy \in Int /\ 0 <= cy
      /\ buf \in [Cell -> Glyphs] /\ disp \in Screens /\ cursor_blink \in BOOLEAN
  BY <1>0, Numbers
<1>3. cx < COLS /\ cy < ROWS /\ ~visible /\ cpu'.at = "run" /\ cpu.at = "run"
  BY <1>0, <1>1 DEF CursorOK, WhereOK, At
<1>4. PICK m \in Modes : fbcon_resize(m[1], m[2])
  BY DEF FramebufferFound
<1>5. m[1] \in Nat /\ m[2] \in Nat
  BY ConsoleAssumption
<1>6. /\ COLS' \in 1..MAX_COLS /\ ROWS' \in 1..MAX_ROWS
      /\ cx' \in 0..(COLS' - 1) /\ cy' \in 0..(ROWS' - 1)
  <2>1. CASE m[1] < 1 \/ m[2] < 1
    BY <1>0, <1>2, <1>3, <1>4, <2>1 DEF fbcon_resize, TypeOK
  <2>2. CASE ~(m[1] < 1 \/ m[2] < 1)
    <3>1. /\ COLS' = Clamp(m[1] \div CHAR_W, MAX_COLS)
          /\ ROWS' = Clamp(m[2] \div CHAR_H, MAX_ROWS)
          /\ cx' = IF cx >= COLS' THEN COLS' - 1 ELSE cx
          /\ cy' = IF cy >= ROWS' THEN ROWS' - 1 ELSE cy
      BY <1>4, <2>2 DEF fbcon_resize
    <3>2. m[1] \div CHAR_W \in Nat /\ m[2] \div CHAR_H \in Nat
      BY <1>5, ConsoleSizes, DivBounds
    <3>3. COLS' \in 1..MAX_COLS /\ ROWS' \in 1..MAX_ROWS
      BY <3>1, <3>2, ConsoleSizes DEF Clamp
    <3> QED BY <1>2, <3>1, <3>3
  <2> QED BY <2>1, <2>2
<1>a. /\ cx' < COLS' /\ cx' \in 0..(COLS' + TAB)
      /\ cy' < ROWS' /\ cy' \in 0..(ROWS')
  <2>1. COLS' \in Int /\ ROWS' \in Int /\ TAB \in Nat
    BY <1>2, <1>6
  <2> QED BY <1>6, <2>1, InRange, Zenon
<1>7. disp' \in Screens
  <2>1. fb_clear(disp, "demo") \in Screens
    BY <1>2, ClearType
  <2>2. disp' = [fb_clear(disp, "demo") EXCEPT !.cursor = Hidden]
    BY DEF FramebufferFound
  <2> QED BY <2>1, <2>2 DEF Screens
<1>8. TypeOK'
  <2>2. /\ buf' \in [Cell -> Glyphs] /\ cursor_blink' \in BOOLEAN /\ Len(keys') < KeyBuf
    BY <1>0, <1>1 DEF TypeOK
  <2> QED BY <1>6, <1>7, <1>a, <2>2 DEF TypeOK, WhereOK, Cell, Screens
<1>9. CursorOK'
  BY <1>3, <1>a DEF CursorOK
<1>10. ShownOK'
  BY <1>1, <1>3 DEF ShownOK
<1> QED BY <1>8, <1>9, <1>10 DEF ConsoleInv

(* The inductive step, interrupts kept out of what DrawWhole names.                  *)
LEMMA ConsoleStep ==
  ASSUME DrawWhole
  PROVE  ConsoleInv /\ [Next]_vars => ConsoleInv'
<1>. SUFFICES ASSUME ConsoleInv, [Next]_vars PROVE ConsoleInv'
  OBVIOUS
<1>0. TypeOK /\ WhereOK /\ Len(keys) < KeyBuf /\ cpu \in Contexts /\ keys \in Seq(Keys)
  BY DEF ConsoleInv, TypeOK
<1>1. WhereOK'
  BY <1>0, WhereStep
<1>2. CASE UNCHANGED vars
  <2>1. UNCHANGED <<COLS, ROWS, cx, cy, buf, visible, cursor_blink, disp, fb, keys, cpu>>
    BY <1>2 DEF vars, console, text
  <2>2. TypeOK'
    BY <1>0, <2>1 DEF TypeOK, Cell, Screens, Contexts
  <2>3. CursorOK'
    BY <2>1 DEF ConsoleInv, CursorOK
  <2>4. ShownOK'
    <3>1. UNCHANGED <<Grid, InPut, Painted>>
      BY <2>1 DEF Grid, InPut, Painted
    <3> QED BY <2>1, <3>1 DEF ConsoleInv, ShownOK
  <2> QED BY <1>1, <2>2, <2>3, <2>4 DEF ConsoleInv
<1>a. ASSUME UNCHANGED console, ~InPut, ~InPut', cpu.who = "panic" => cpu'.who = "panic",
             \/ cpu'.at = cpu.at
             \/ /\ cpu.at \notin {"clear", "repaint", "drawn"}
                /\ cpu'.at \notin {"clear", "repaint", "drawn", "erased", "move"}
      PROVE  ConsoleInv'
  BY <1>0, <1>1, <1>a, InvKept DEF console
<1>3. CASE Halted
  <2>1. cpu.at = "halt" /\ UNCHANGED console /\ cpu' = cpu
    BY <1>3 DEF Halted, At, vars
  <2> QED BY <1>a, <2>1 DEF InPut, PutPoints
<1>4. CASE BootPrint
  <2>1. /\ UNCHANGED console /\ cpu.at = "run" /\ cpu.who \in {"boot", "booted"}
        /\ cpu'.at = "put"
    BY <1>0, <1>4 DEF BootPrint, Contexts
  <2> QED BY <1>a, <2>1 DEF InPut, PutPoints
<1>5. CASE NoFramebuffer \/ BootEnds
  <2>1. UNCHANGED console /\ cpu.at = "run" /\ cpu.who \in {"boot", "booted"}
    BY <1>5 DEF NoFramebuffer, BootEnds, At
  <2>2. cpu'.at \in {"run", "put"}
    BY <1>5 DEF NoFramebuffer, BootEnds, At
  <2> QED BY <1>a, <2>1, <2>2 DEF InPut, PutPoints
<1>6. CASE PutReturns
  <2>1. UNCHANGED console /\ cpu.at = "put" /\ cpu.who \in Who /\ cpu.who # "user"
    BY <1>0, <1>6 DEF PutReturns, Contexts, WhereOK
  <2>2. /\ cpu'.at \in {"run", "pick", "halt", "poll", "blink"}
        /\ cpu.who = "panic" => cpu'.who = "panic"
    BY <1>6, <2>1 DEF PutReturns, Who, User, At
  <2> QED BY <1>a, <2>1, <2>2 DEF InPut, PutPoints
<1>7. CASE Pick
  <2>1. UNCHANGED console /\ cpu.at = "pick" /\ cpu.who = "yield" /\ cpu'.at = "poll"
    BY <1>7 DEF Pick, At
  <2> QED BY <1>a, <2>1 DEF InPut, PutPoints
<1>8. CASE Poll
  <2>1. /\ UNCHANGED <<text, visible, cursor_blink, disp, fb>> /\ cpu.at = "poll"
        /\ cpu.who \in {"main", "yield"}
    BY <1>0, <1>8 DEF Poll, WhereOK
  <2>2. Len(keys') < KeyBuf
    <3>1. CASE keys = <<>>
      BY <1>0, <1>8, <3>1 DEF Poll
    <3>2. CASE keys # <<>>
      <4>0. keys' = Tail(keys)
        BY <1>8, <3>2 DEF Poll
      <4>1. keys' = Tail(keys) /\ Len(Tail(keys)) = Len(keys) - 1 /\ Len(keys) \in Nat
        BY <1>0, <3>2, <4>0
      <4> QED BY <1>0, <4>1, ConsoleSizes
    <3> QED BY <3>1, <3>2
  <2>3. cpu'.at \in {"blink", "act"}
    BY <1>0, <1>8 DEF Poll, Goto, Contexts
  <2> QED BY <1>1, <2>1, <2>2, <2>3, InvKept DEF InPut, PutPoints
<1>9. CASE ActEcho
  <2>1. /\ UNCHANGED <<text, visible, cursor_blink, disp, fb, keys>> /\ cpu.at = "act"
        /\ cpu.who \in {"main", "yield"} /\ cpu'.at = "put"
    BY <1>0, <1>9 DEF ActEcho, actFrame, text, WhereOK, Contexts
  <2> QED BY <1>0, <1>1, <2>1, InvKept DEF InPut, PutPoints
<1>b. ASSUME InterruptsOn
      PROVE  ~InPut /\ cpu.who # "panic" /\ cpu.at \notin {"clear", "repaint", "drawn"}
  BY <1>0, <1>b DEF InterruptsOn, Idle, DrawWhole, WhereOK, InPut, PutPoints
<1>c. ASSUME InterruptsOn, cpu' \in {Awake(cpu), User}
      PROVE  /\ ~InPut'
             /\ \/ cpu'.at = cpu.at
                \/ /\ cpu.at \notin {"clear", "repaint", "drawn"}
                   /\ cpu'.at \notin {"clear", "repaint", "drawn", "erased", "move"}
  <2>1. cpu'.at \in {cpu.at, "poll", "pick", "run"}
    BY <1>0, <1>c DEF Awake, User, At, Contexts
  <2> QED BY <1>b, <1>c, <2>1 DEF InPut, PutPoints
<1>10. CASE Tick
  BY <1>10, <1>a, <1>b, <1>c DEF Tick
<1>11. CASE keyboard_handler
  <2>1. /\ UNCHANGED <<text, visible, cursor_blink, disp, fb>> /\ InterruptsOn
        /\ cpu' = Awake(cpu)
    BY <1>11 DEF keyboard_handler
  <2>2. Len(keys') < KeyBuf
    <3>1. PICK k \in Keys : keys' = IF Len(keys) < KeyBuf - 1 THEN Append(keys, k) ELSE keys
      BY <1>11 DEF keyboard_handler
    <3>2. Len(Append(keys, k)) = Len(keys) + 1 /\ Len(keys) \in Nat
      BY <1>0
    <3> QED BY <1>0, <3>1, <3>2, ConsoleSizes
  <2> QED BY <1>1, <1>b, <1>c, <2>1, <2>2, InvKept
<1>12. CASE handle_writestr \/ handle_exit \/ handle_sleep
  <2>1. UNCHANGED console /\ cpu.at = "run" /\ cpu.who = "user"
    BY <1>12 DEF handle_writestr, handle_exit, handle_sleep, User, At
  <2>2. cpu'.at \in {"put", "pick"}
    BY <1>12 DEF handle_writestr, handle_exit, handle_sleep, At
  <2> QED BY <1>a, <2>1, <2>2 DEF InPut, PutPoints
<1>13. CASE PutBegin \/ PutStore \/ PutAdvance \/ PutWrap \/ PutDown \/ PutBottom \/ PutLift
            \/ PutRedraw \/ PutShow
  BY <1>1, <1>13, BeginInv, StoreInv, MoveInv, BottomInv, ShowInv
<1>14. CASE \/ ActPanic \/ ActToggle \/ ToggleClear \/ ToggleRepaint \/ ActArrow
            \/ CursorHidden \/ ArrowMove \/ CursorDraw \/ CursorShown \/ Blink
  BY <1>1, <1>14, PanicInv, ToggleInv, HideInv, ArrowInv, BlockInv, BlinkInv
<1>15. CASE FramebufferFound \/ Fault
  BY <1>1, <1>15, ResizeInv, PanicInv
<1> QED
  BY <1>2, <1>3, <1>4, <1>5, <1>6, <1>7, <1>8, <1>9, <1>10, <1>11, <1>12, <1>13, <1>14, <1>15
     DEF Next, PutStep, IdleStep

(* ConsoleInv holds while no interrupt splits a drawing.                            *)
LEMMA ConsoleInvariant == ASSUME DrawWhole PROVE Spec => []ConsoleInv
<1>1. ConsoleInv /\ [Next]_vars => ConsoleInv'
  BY ConsoleStep
<1> QED BY <1>1, ConsoleStarts, PTL DEF Spec

(* No putchar, cursor key or resize takes the cursor further than a tab past the     *)
(* grid, and every cell of buf and of the screen holds what it may hold.            *)
THEOREM ConsoleTypes == ASSUME DrawWhole PROVE Spec => []TypeOK
<1>1. ConsoleInv => TypeOK
  BY DEF ConsoleInv
<1> QED BY <1>1, ConsoleInvariant, PTL

(* Whatever was printed, moved or resized before, a character is stored on the       *)
(* screen: buf is never written outside the grid.                                  *)
THEOREM WritesAreInside == ASSUME DrawWhole PROVE Spec => []WritesLand
<1>1. ConsoleInv => WritesLand
  <2>. SUFFICES ASSUME ConsoleInv, cpu.at = "store" PROVE <<cx, cy>> \in Grid
    BY DEF WritesLand
  <2>1. TypeOK /\ cx < COLS /\ cy < ROWS
    BY DEF ConsoleInv, CursorOK
  <2>2. cx \in 0..(COLS - 1) /\ cy \in 0..(ROWS - 1)
    BY <2>1, Numbers
  <2> QED BY <2>2 DEF Grid
<1> QED BY <1>1, ConsoleInvariant, PTL

(* A visible console shows its buffer and one cursor at most, where it is, also      *)
(* after a task switch in the middle of a cursor key, a blink or an echoed text.      *)
THEOREM ScreenIsBuffer == ASSUME DrawWhole PROVE Spec => []ScreenShows
<1>1. ConsoleInv => ScreenShows
  <2>. SUFFICES ASSUME ConsoleInv, visible, Painted, ~Drawing
                PROVE  /\ disp.cursor \in {Hidden, <<cx, cy>>}
                       /\ \A p \in Grid : Shows(disp, buf, p)
    BY DEF ScreenShows, Shows
  <2> QED BY DEF ConsoleInv, ShownOK, Drawing, InPut, PutPoints
<1> QED BY <1>1, ConsoleInvariant, PTL

=============================================================================
