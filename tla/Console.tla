------------------------------ MODULE Console ------------------------------
(***************************************************************************)
(* The framebuffer console (src/drivers/fbcon.c), what draws it               *)
(* (framebuffer.c), and who writes to it: kernel_main while it boots, the     *)
(* write calls of user programs, the two idle loops that echo the keyboard    *)
(* (kernel_main's and yield()'s), and panic.                                *)
(*                                                                         *)
(* Boot, system calls and panic run with interrupts off.  The idle loops     *)
(* run with interrupts on: a tick may switch away from them to a task, in    *)
(* the middle of an echo, a toggle or a cursor key too, and the loop is        *)
(* abandoned for good (kernel_main's; yield()'s of a task that has exited or   *)
(* still sleeps).  A yield() that is saved and resumed instead, because that   *)
(* tick woke its own task (see module Sched), is left out.                     *)
(*                                                                         *)
(* fbcon_putchar goes through the program points "put" (nothing done yet),    *)
(* "store", "advance", "wrap", "down", "bottom", "lift", "redraw" and         *)
(* "show".  The other points of an idle loop are "pick" (yield()'s choice    *)
(* of a task), "poll", "act" (a key in hand), "blink" (fbcon_tick), "hlt" and  *)
(*   "clear"    the console is toggled, the screen is still to be cleared;     *)
(*   "repaint"  it is clear, and fbcon_redraw is still to come;                *)
(*   "erased"   cursor_hide has drawn the character, cursor_shown still stands; *)
(*   "move"     a cursor key has hidden the cursor, which is still to move;      *)
(*   "draw"     cursor_show is about to begin;                                *)
(*   "drawn"    the block is (partly) drawn, cursor_shown, cursor_x and          *)
(*              cursor_y do not all say so yet.                               *)
(*                                                                         *)
(* The screen is one value per character cell: a character, the "block" of    *)
(* the cursor, the "demo" picture of kernel_main or the "red" of panic.       *)
(* Which task runs is the business of module Sched; here user code is one     *)
(* place.  handle_read, which also takes keys, is left to Sched.             *)
(***************************************************************************)
EXTENDS Integers, Sequences

CONSTANTS
  MAX_COLS, MAX_ROWS,   (* the size of buf                                  *)
  BootCols, BootRows,   (* the size that fbcon_init sets                    *)
  CHAR_W, CHAR_H,       (* pixels of a character cell                       *)
  TAB,                  (* distance of the tab stops, a power of 2           *)
  KeyBuf,               (* KEYBUF_SIZE of ps2.c: holds KeyBuf - 1 keys        *)
  Modes,                (* framebuffers, in pixels, that boot may find        *)
  Keys,                 (* keys that get typed                              *)
  Strings,              (* what user programs and boot print                *)
  FnText,               (* what echoes a function key                       *)
  PanicText,            (* what panic prints                               *)
  IrqAt                 (* points of the idle loops where an interrupt may    *)
                        (* arrive                                          *)

PutPoints == {"put", "store", "advance", "wrap", "down", "bottom", "lift",
              "redraw", "show"}

CursorPoints == {"erased", "move", "draw", "drawn"}

IdlePoints ==
  {"pick", "poll", "act", "clear", "repaint", "blink", "hlt"} \cup CursorPoints \cup PutPoints

(* Characters, " " among them; fb_drawchar has no glyph for "ctl".             *)
Glyphs == {" ", "a", "ctl"}

Chars == Glyphs \cup {"nl", "cr", "bs", "tab"}

Arrows == {"up", "down", "left", "right"}

ASSUME ConsoleAssumption ==
  /\ {MAX_COLS, MAX_ROWS, CHAR_W, CHAR_H, TAB, KeyBuf} \subseteq Nat \ {0}
  /\ BootCols \in 1..MAX_COLS
  /\ BootRows \in 1..MAX_ROWS
  /\ Modes \subseteq Nat \X Nat
  /\ Keys \subseteq Chars \cup Arrows \cup {"F12"}
  /\ Strings \subseteq Seq(Chars) \ {<<>>}
  /\ {FnText, PanicText} \subseteq Seq(Chars) \ {<<>>}
  /\ IrqAt \subseteq IdlePoints

VARIABLES
  COLS, ROWS, cx, cy, buf, visible, cursor_blink,
  disp,     (* the screen's cells, and where the cursor is shown             *)
  fb,       (* fb_enabled                                                  *)
  keys,     (* the keyboard buffer                                          *)
  cpu,      (* who runs, at which point, the key in hand, what is still to be put *)
  before    (* history: buf, cx and cy when the putchar in progress began      *)

text == <<COLS, ROWS, cx, cy, buf>>

console == <<text, visible, cursor_blink, disp, fb, keys, before>>

vars == <<console, cpu>>

Cell == (0..(MAX_COLS - 1)) \X (0..(MAX_ROWS - 1))

Grid == (0..(COLS - 1)) \X (0..(ROWS - 1))

NoKey == "none"

Hidden == <<-1, -1>>

At(w, a) == [who |-> w, at |-> a, key |-> NoKey, out |-> <<>>]

User == At("user", "run")

NoPut == [buf |-> <<>>, cx |-> 0, cy |-> 0]

(* kernel_main after its sti, or yield().                                    *)
Idle == cpu.who \in {"prompt", "main", "yield"}

InterruptsOn == cpu.who = "user" \/ (Idle /\ cpu.at \in IrqAt)

-----------------------------------------------------------------------------
(***************************************************************************)
(* Drawing.  d is a value of disp, v one of visible.                         *)
(***************************************************************************)
(* fb_drawchar at cell p: nothing for a character without a glyph.             *)
fb_drawchar(d, p, c) == IF c = "ctl" THEN d ELSE [d EXCEPT !.cell[p] = c]

fb_clear(d, color) == [d EXCEPT !.cell = [p \in Cell |-> color]]

cursor_show(d, v, x, y) ==
  IF ~v \/ ~fb THEN d
  ELSE [cell |-> [d.cell EXCEPT ![<<x, y>>] = "block"], cursor |-> <<x, y>>]

(* Mutant: the cursor is taken away from a hidden console too.                *)
cursor_hide_always(d) ==
  IF d.cursor # Hidden
    THEN [fb_drawchar(d, d.cursor, buf[d.cursor]) EXCEPT !.cursor = Hidden]
    ELSE d

cursor_hide(d) ==
  IF visible /\ fb /\ d.cursor # Hidden
    THEN [fb_drawchar(d, d.cursor, buf[d.cursor]) EXCEPT !.cursor = Hidden]
    ELSE d

(* All the characters of the grid are drawn, and cursor_shown is 0.            *)
Repainted(d) ==
  [d EXCEPT !.cell = [p \in Cell |-> IF p \in Grid /\ buf[p] # "ctl" THEN buf[p] ELSE @[p]],
            !.cursor = Hidden]

fbcon_redraw(d, v, blink) ==
  IF ~fb THEN d
  ELSE IF blink THEN cursor_show(Repainted(d), v, cx, cy) ELSE Repainted(d)

-----------------------------------------------------------------------------
(***************************************************************************)
(* Boot.  kernel_main prints, looks for a framebuffer, prints, and goes to   *)
(* its idle loop with interrupts on.                                        *)
(***************************************************************************)
(* fbcon_init.                                                              *)
Init ==
  /\ COLS = BootCols
  /\ ROWS = BootRows
  /\ cx = 0
  /\ cy = 0
  /\ buf = [p \in Cell |-> " "]
  /\ visible = FALSE
  /\ cursor_blink = FALSE
  /\ disp = [cell |-> [p \in Cell |-> " "], cursor |-> Hidden]
  /\ fb = FALSE
  /\ keys = <<>>
  /\ cpu = At("boot", "run")
  /\ before = NoPut

BootPrint ==
  /\ cpu.who \in {"boot", "booted"}
  /\ cpu.at = "run"
  /\ \E s \in Strings : cpu' = [cpu EXCEPT !.at = "put", !.out = s]
  /\ UNCHANGED console

Clamp(n, max) == IF n < 1 THEN 1 ELSE IF n > max THEN max ELSE n

fbcon_resize(w, h) ==
  IF w < 1 \/ h < 1 THEN UNCHANGED <<COLS, ROWS, cx, cy>>
  ELSE /\ COLS' = Clamp(w \div CHAR_W, MAX_COLS)
       /\ ROWS' = Clamp(h \div CHAR_H, MAX_ROWS)
       /\ cx' = IF cx >= COLS' THEN COLS' - 1 ELSE cx
       /\ cy' = IF cy >= ROWS' THEN ROWS' - 1 ELSE cy

(* fb_init finds a framebuffer; the demo picture is drawn on it.               *)
FramebufferFound ==
  /\ cpu = At("boot", "run")
  /\ \E m \in Modes : fbcon_resize(m[1], m[2])
  /\ fb' = TRUE
  /\ disp' = [fb_clear(disp, "demo") EXCEPT !.cursor = Hidden]
  /\ cpu' = At("booted", "run")
  /\ UNCHANGED <<buf, visible, cursor_blink, keys, before>>

NoFramebuffer ==
  /\ cpu = At("boot", "run")
  /\ cpu' = At("booted", "run")
  /\ UNCHANGED console

(* sti, and the prompt, the last text that kernel_main prints of itself.        *)
BootEnds ==
  /\ cpu = At("booted", "run")
  /\ \E s \in Strings : cpu' = [At("prompt", "put") EXCEPT !.out = s]
  /\ UNCHANGED console

-----------------------------------------------------------------------------
(***************************************************************************)
(* fbcon_putchar of the next character of cpu.out, whoever prints it.         *)
(***************************************************************************)
putFrame == <<COLS, ROWS, visible, fb, keys>>

Goto(a) == cpu' = [cpu EXCEPT !.at = a]

(* Mutant: putchar does not take the cursor away.                             *)
PutBeginNoHide ==
  /\ cpu.at = "put"
  /\ cpu.out # <<>>
  /\ before' = [buf |-> buf, cx |-> cx, cy |-> cy]
  /\ Goto("store")
  /\ UNCHANGED <<putFrame, cx, cy, buf, disp, cursor_blink>>

PutBegin ==
  /\ cpu.at = "put"
  /\ cpu.out # <<>>
  /\ disp' = cursor_hide(disp)
  /\ before' = [buf |-> buf, cx |-> cx, cy |-> cy]
  /\ Goto("store")
  /\ UNCHANGED <<putFrame, cx, cy, buf, cursor_blink>>

(* buf[y][x] = c, drawn if the console is visible.                             *)
Store(x, y, c) ==
  /\ buf' = [buf EXCEPT ![<<x, y>>] = c]
  /\ disp' = IF visible /\ fb THEN fb_drawchar(disp, <<x, y>>, c) ELSE disp

(* Mutant: backspace at the left margin stays on its line.                     *)
BackInLine == IF cx > 0 THEN <<cx - 1, cy>> ELSE <<cx, cy>>

(* The cell before the cursor.                                               *)
Back ==
  IF cx > 0 THEN <<cx - 1, cy>>
  ELSE IF cy > 0 THEN <<COLS - 1, cy - 1>> ELSE <<cx, cy>>

PutStore ==
  /\ cpu.at = "store"
  /\ LET c == Head(cpu.out)
     IN  \/ /\ c \in {"nl", "cr"}
            /\ cx' = 0
            /\ Goto(IF c = "nl" THEN "down" ELSE "wrap")
            /\ UNCHANGED <<cy, buf, disp>>
         \/ /\ c = "bs"
            /\ cx' = Back[1]
            /\ cy' = Back[2]
            /\ Store(cx', cy', " ")
            /\ Goto("wrap")
         \/ /\ c = "tab"
            /\ cx' = ((cx + TAB) \div TAB) * TAB
            /\ Goto("wrap")
            /\ UNCHANGED <<cy, buf, disp>>
         \/ /\ c \in Glyphs
            /\ Store(cx, cy, c)
            /\ Goto("advance")
            /\ UNCHANGED <<cx, cy>>
  /\ UNCHANGED <<putFrame, cursor_blink, before>>

PutAdvance ==
  /\ cpu.at = "advance"
  /\ cx' = cx + 1
  /\ Goto("wrap")
  /\ UNCHANGED <<putFrame, cy, buf, disp, cursor_blink, before>>

(* Mutant: the wrap comes one column late.                                    *)
PutWrapLate ==
  /\ cpu.at = "wrap"
  /\ IF cx > COLS THEN cx' = 0 /\ Goto("down") ELSE UNCHANGED cx /\ Goto("bottom")
  /\ UNCHANGED <<putFrame, cy, buf, disp, cursor_blink, before>>

PutWrap ==
  /\ cpu.at = "wrap"
  /\ IF cx >= COLS THEN cx' = 0 /\ Goto("down") ELSE UNCHANGED cx /\ Goto("bottom")
  /\ UNCHANGED <<putFrame, cy, buf, disp, cursor_blink, before>>

PutDown ==
  /\ cpu.at = "down"
  /\ cy' = cy + 1
  /\ Goto("bottom")
  /\ UNCHANGED <<putFrame, cx, buf, disp, cursor_blink, before>>

(* The rows after scroll(): one up, the last one blank.                        *)
Scrolled ==
  [p \in Cell |-> IF p \notin Grid THEN buf[p]
                  ELSE IF p[2] = ROWS - 1 THEN " " ELSE buf[<<p[1], p[2] + 1>>]]

PutBottom ==
  /\ cpu.at = "bottom"
  /\ IF cy >= ROWS THEN buf' = Scrolled /\ Goto("lift") ELSE UNCHANGED buf /\ Goto("show")
  /\ UNCHANGED <<putFrame, cx, cy, disp, cursor_blink, before>>

(* Mutant: scrolling leaves the cursor below the screen.                       *)
PutLiftForgotten ==
  /\ cpu.at = "lift"
  /\ Goto("redraw")
  /\ UNCHANGED <<putFrame, cx, cy, buf, disp, cursor_blink, before>>

PutLift ==
  /\ cpu.at = "lift"
  /\ cy' = cy - 1
  /\ Goto("redraw")
  /\ UNCHANGED <<putFrame, cx, buf, disp, cursor_blink, before>>

PutRedraw ==
  /\ cpu.at = "redraw"
  /\ disp' = IF visible THEN fbcon_redraw(disp, visible, cursor_blink) ELSE disp
  /\ Goto("show")
  /\ UNCHANGED <<putFrame, cx, cy, buf, cursor_blink, before>>

PutShow ==
  /\ cpu.at = "show"
  /\ cursor_blink' = TRUE
  /\ disp' = cursor_show(disp, visible, cx, cy)
  /\ cpu' = [cpu EXCEPT !.at = "put", !.out = Tail(@)]
  /\ before' = NoPut
  /\ UNCHANGED <<putFrame, cx, cy, buf>>

(* vprintf has put all of its text.                                          *)
PutReturns ==
  /\ cpu.at = "put"
  /\ cpu.out = <<>>
  /\ cpu' = CASE cpu.who \in {"boot", "booted"} -> At(cpu.who, "run")
              [] cpu.who = "sys" -> User
              [] cpu.who = "exit" -> At("yield", "pick")
              [] cpu.who = "panic" -> At("panic", "halt")
              [] cpu.who = "prompt" -> At("main", "poll")
              [] cpu.who \in {"main", "yield"} -> At(cpu.who, "blink")
  /\ UNCHANGED console

-----------------------------------------------------------------------------
(***************************************************************************)
(* The idle loops.                                                          *)
(***************************************************************************)
(* pick_next_task in yield() finds nothing to run; with a task to run the      *)
(* loop is over before it touches the console.                              *)
Pick ==
  /\ cpu = At("yield", "pick")
  /\ cpu' = At("yield", "poll")
  /\ UNCHANGED console

(* ps2_poll.                                                                *)
Poll ==
  /\ cpu.at = "poll"
  /\ IF keys = <<>>
       THEN Goto("blink") /\ UNCHANGED keys
       ELSE cpu' = [cpu EXCEPT !.at = "act", !.key = Head(keys)] /\ keys' = Tail(keys)
  /\ UNCHANGED <<text, visible, cursor_blink, disp, fb, before>>

RedScreen == IF fb THEN fb_clear(disp, "red") ELSE disp

(* panic: the red screen, then its text on the console.                        *)
panic ==
  /\ disp' = RedScreen
  /\ cpu' = [At("panic", "put") EXCEPT !.out = PanicText]

actFrame == <<COLS, ROWS, buf, fb, keys, before>>

Echo(k) ==
  CASE k = "bs" -> <<"bs", " ", "bs">>
    [] k = "F12" -> FnText
    [] OTHER -> <<k>>

(* F12 asks for Ctrl, Shift and Alt in up to five calls with interrupts on: the    *)
(* answers, and so which of text, panic and toggle comes of it, may be any.       *)
ActEcho ==
  /\ cpu.at = "act"
  /\ cpu.key \notin Arrows
  /\ cpu' = [cpu EXCEPT !.at = "put", !.key = NoKey, !.out = Echo(cpu.key)]
  /\ UNCHANGED <<actFrame, cx, cy, visible, cursor_blink, disp>>

ActPanic ==
  /\ cpu.at = "act"
  /\ cpu.key = "F12"
  /\ panic
  /\ UNCHANGED <<actFrame, cx, cy, visible, cursor_blink>>

(* fbcon_set_visible(1), or (0), which yield() does not follow by a clear screen.  *)
ActToggle ==
  /\ cpu.at = "act"
  /\ cpu.key = "F12"
  /\ fb
  /\ visible' = ~visible
  /\ cursor_blink' = (cursor_blink \/ visible')
  /\ IF visible' \/ cpu.who = "main" THEN Goto("clear") ELSE cpu' = At(cpu.who, "blink")
  /\ UNCHANGED <<actFrame, cx, cy, disp>>

ToggleClear ==
  /\ cpu.at = "clear"
  /\ disp' = fb_clear(disp, " ")
  /\ IF visible THEN Goto("repaint") ELSE cpu' = At(cpu.who, "blink")
  /\ UNCHANGED <<actFrame, cx, cy, visible, cursor_blink>>

(* fbcon_redraw up to its call of cursor_show; set_visible(1) has set cursor_blink. *)
ToggleRepaint ==
  /\ cpu.at = "repaint"
  /\ disp' = Repainted(disp)
  /\ Goto("draw")
  /\ UNCHANGED <<actFrame, cx, cy, visible, cursor_blink>>

-----------------------------------------------------------------------------
(***************************************************************************)
(* The cursor in the idle loops: hidden, moved and shown by the cursor keys,   *)
(* hidden or shown by fbcon_tick.                                            *)
(***************************************************************************)
cursorFrame == <<COLS, ROWS, buf, visible, fb, keys, before>>

(* A shown or hidden cursor ends what the key did, or fbcon_tick.               *)
CursorDone == cpu' = At(cpu.who, IF cpu.key = NoKey THEN "hlt" ELSE "blink")

(* Where an arrow key takes the cursor.                                       *)
Target(k) ==
  CASE k = "up" -> <<cx, IF cy > 0 THEN cy - 1 ELSE cy>>
    [] k = "down" -> <<cx, IF cy < ROWS - 1 THEN cy + 1 ELSE cy>>
    [] k = "left" -> Back
    [] k = "right" -> IF cx < COLS - 1 THEN <<cx + 1, cy>>
                      ELSE IF cy < ROWS - 1 THEN <<0, cy + 1>> ELSE <<cx, cy>>

(* cursor_hide, as far as the character.                                      *)
EraseCursor ==
  /\ visible /\ fb /\ disp.cursor # Hidden
  /\ disp' = fb_drawchar(disp, disp.cursor, buf[disp.cursor])
  /\ Goto("erased")

NoCursorToHide == ~(visible /\ fb /\ disp.cursor # Hidden) /\ UNCHANGED disp

ActArrow ==
  /\ cpu.at = "act"
  /\ cpu.key \in Arrows
  /\ EraseCursor \/ (NoCursorToHide /\ Goto("move"))
  /\ UNCHANGED <<cursorFrame, cx, cy, cursor_blink>>

(* cursor_shown = 0.                                                         *)
CursorHidden ==
  /\ cpu.at = "erased"
  /\ disp' = [disp EXCEPT !.cursor = Hidden]
  /\ IF cpu.key \in Arrows THEN Goto("move") ELSE CursorDone
  /\ UNCHANGED <<cursorFrame, cx, cy, cursor_blink>>

(* The one or two stores of cx and cy are one step.                            *)
ArrowMove ==
  /\ cpu.at = "move"
  /\ cx' = Target(cpu.key)[1]
  /\ cy' = Target(cpu.key)[2]
  /\ Goto("draw")
  /\ UNCHANGED <<cursorFrame, cursor_blink, disp>>

(* cursor_show: nothing on a hidden console.                                   *)
CursorDraw ==
  /\ cpu.at = "draw"
  /\ IF visible /\ fb
       THEN disp' = [disp EXCEPT !.cell[<<cx, cy>>] = "block"] /\ Goto("drawn")
       ELSE CursorDone /\ UNCHANGED disp
  /\ UNCHANGED <<cursorFrame, cx, cy, cursor_blink>>

(* cursor_shown = 1, and where.                                               *)
CursorShown ==
  /\ cpu.at = "drawn"
  /\ disp' = [disp EXCEPT !.cursor = <<cx, cy>>]
  /\ CursorDone
  /\ UNCHANGED <<cursorFrame, cx, cy, cursor_blink>>

(* fbcon_tick, which kernel_main calls only with a framebuffer, then hlt.  Of    *)
(* the time since the last toggle it is only known that it may be up.          *)
Blink ==
  /\ cpu.at = "blink"
  /\ \/ /\ ~visible
        /\ cursor_blink' = (cursor_blink /\ cpu.who = "main" /\ ~fb)
        /\ Goto("hlt") /\ UNCHANGED disp
     \/ /\ visible
        /\ cursor_blink' = ~cursor_blink
        /\ \/ cursor_blink' /\ Goto("draw") /\ UNCHANGED disp
           \/ ~cursor_blink' /\ (EraseCursor \/ (NoCursorToHide /\ Goto("hlt")))
     \/ /\ visible
        /\ Goto("hlt") /\ UNCHANGED <<cursor_blink, disp>>
  /\ UNCHANGED <<cursorFrame, cx, cy>>

-----------------------------------------------------------------------------
(***************************************************************************)
(* Interrupts and user code.                                                *)
(***************************************************************************)
(* Mutant: the loop goes back to fbcon_tick only.                              *)
AwakePastPoll(c) == IF c.at # "hlt" THEN c ELSE [c EXCEPT !.at = "blink"]

(* An interrupted context goes on; hlt ends.                                  *)
Awake(c) ==
  IF c.at # "hlt" THEN c ELSE [c EXCEPT !.at = IF c.who = "main" THEN "poll" ELSE "pick"]

(* sched_tick, as far as the console can tell: the interrupted code goes on,    *)
(* or an idle loop is left for a task.                                       *)
Tick ==
  /\ InterruptsOn
  /\ cpu' \in {Awake(cpu), User}
  /\ UNCHANGED console

(* keyboard_handler: a key that finds the buffer full is dropped.             *)
keyboard_handler ==
  /\ InterruptsOn
  /\ \E k \in Keys : keys' = IF Len(keys) < KeyBuf - 1 THEN Append(keys, k) ELSE keys
  /\ cpu' = Awake(cpu)
  /\ UNCHANGED <<text, visible, cursor_blink, disp, fb, before>>

(* handle_write and handle_writestr; wait, and a call that does not exist, also *)
(* print a message and return.                                               *)
handle_writestr ==
  /\ cpu = User
  /\ \E s \in Strings : cpu' = [At("sys", "put") EXCEPT !.out = s]
  /\ UNCHANGED console

(* Prints a message; yield() comes when it is put.                            *)
handle_exit ==
  /\ cpu = User
  /\ \E s \in Strings : cpu' = [At("exit", "put") EXCEPT !.out = s]
  /\ UNCHANGED console

(* sched_sleep ends in yield(), which goes to another task while it can.        *)
handle_sleep ==
  /\ cpu = User
  /\ cpu' = At("yield", "pick")
  /\ UNCHANGED console

(* An exception in user code: panic_regs.                                     *)
Fault ==
  /\ cpu = User
  /\ panic
  /\ UNCHANGED <<text, visible, cursor_blink, fb, keys, before>>

Halted == cpu = At("panic", "halt") /\ UNCHANGED vars

PutStep ==
  \/ PutBegin
  \/ PutStore
  \/ PutAdvance
  \/ PutWrap
  \/ PutDown
  \/ PutBottom
  \/ PutLift
  \/ PutRedraw
  \/ PutShow
  \/ PutReturns

IdleStep ==
  \/ Pick
  \/ Poll
  \/ ActEcho
  \/ ActPanic
  \/ ActToggle
  \/ ToggleClear
  \/ ToggleRepaint
  \/ ActArrow
  \/ CursorHidden
  \/ ArrowMove
  \/ CursorDraw
  \/ CursorShown
  \/ Blink

Next ==
  \/ BootPrint
  \/ FramebufferFound
  \/ NoFramebuffer
  \/ BootEnds
  \/ PutStep
  \/ IdleStep
  \/ Tick
  \/ keyboard_handler
  \/ handle_writestr
  \/ handle_exit
  \/ handle_sleep
  \/ Fault
  \/ Halted

Spec == Init /\ [][Next]_vars

(* The CPU executes the kernel's instructions and the PIT keeps ticking; boot   *)
(* comes to its end.                                                        *)
FairSpec == Spec /\ WF_vars(PutStep \/ IdleStep) /\ WF_vars(Tick)

-----------------------------------------------------------------------------
(***************************************************************************)
(* Properties.                                                             *)
(***************************************************************************)
Who == {"boot", "booted", "prompt", "main", "yield", "sys", "exit", "user", "panic"}

Contexts ==
  [who : Who, at : IdlePoints \cup {"run", "halt"},
   key : Keys \cup {NoKey}, out : Seq(Chars)]

Screens ==
  [cell : [Cell -> Glyphs \cup {"block", "demo", "red"}], cursor : Cell \cup {Hidden}]

(* The variables of fbcon.c keep their ranges: cx and cy leave the grid by one   *)
(* step (a tab by up to TAB) and only inside a putchar.                       *)
TypeOK ==
  /\ COLS \in 1..MAX_COLS
  /\ ROWS \in 1..MAX_ROWS
  /\ cx \in 0..(COLS + TAB)
  /\ cy \in 0..ROWS
  /\ buf \in [Cell -> Glyphs]
  /\ visible \in BOOLEAN /\ cursor_blink \in BOOLEAN /\ fb \in BOOLEAN
  /\ disp \in Screens
  /\ keys \in Seq(Keys) /\ Len(keys) < KeyBuf
  /\ cpu \in Contexts

(* No idle loop is interrupted inside fbcon_putchar, from fbcon_set_visible to     *)
(* the end of fbcon_redraw's characters, or inside cursor_show.  The code does    *)
(* not see to any of this: a tick may leave the loop for a task with the cursor   *)
(* outside the grid, with a visible screen that is not drawn, with a block that    *)
(* nothing takes away again.                                                   *)
DrawWhole ==
  IrqAt \cap ((PutPoints \ {"put"}) \cup {"clear", "repaint", "drawn"}) = {}

(* README: "you can type and see output echoed to both serial and the           *)
(* framebuffer console".  Every character that fbcon_putchar stores lands in a   *)
(* cell of the screen, whatever was printed, moved or resized before.          *)
WritesLand == cpu.at = "store" /\ Head(cpu.out) \in Glyphs => <<cx, cy>> \in Grid

InPut == cpu.at \in PutPoints \ {"put"}

Painted == cpu.who # "panic"

Drawing == InPut \/ cpu.at \in {"clear", "repaint", "drawn"}

(* Whenever none of these is under way, a visible console shows its buffer, and the  *)
(* block of the cursor in one cell at most: where the next character goes.  No      *)
(* blink, cursor key, scroll, hidden output or task switch in the middle of a        *)
(* cursor key or an echoed text leaves a stale cell.  (A control code has no glyph:   *)
(* such a cell may show anything.)                                             *)
ScreenShows ==
  visible /\ Painted /\ ~Drawing =>
    /\ disp.cursor \in {Hidden, <<cx, cy>>}
    /\ \A p \in Grid :
         IF p = disp.cursor
           THEN disp.cell[p] \in {"block", buf[p]}
           ELSE buf[p] # "ctl" => disp.cell[p] = buf[p]

(* A hidden console draws nothing: what is on the screen stays, panic's screen    *)
(* too, until the console is toggled, which clears it, or the machine panics.    *)
HiddenStays ==
  [][fb /\ ~visible /\ ~visible' =>
       \/ disp'.cell = disp.cell
       \/ cpu.at = "clear"
       \/ cpu'.who = "panic" /\ cpu.who # "panic"]_vars

(* No key waits while the CPU idles: a key that comes between ps2_poll and hlt     *)
(* is found after the next tick, unless the CPU turns to a task.                 *)
KeyHandled ==
  (Idle /\ keys # <<>>) ~> (cpu.at = "act" \/ ~Idle)

(* The w by h cells of the buffer b in reading order.                           *)
OnTape(b, w, h) == [i \in 0..(w * h - 1) |-> b[<<i % w, i \div w>>]]

(* The console as a tape and a position.  During a putchar they are still what    *)
(* they were before it.                                                     *)
TapeNow == OnTape(IF InPut THEN before.buf ELSE buf, COLS, ROWS)

PosNow == IF InPut THEN before.cy * COLS + before.cx ELSE cy * COLS + cx

Tape == INSTANCE Terminal WITH
  Width <- 1..MAX_COLS,
  Height <- 1..MAX_ROWS,
  Glyph <- Glyphs,
  width <- COLS,
  height <- ROWS,
  tape <- TapeNow,
  pos <- PosNow

(* fbcon implements a tape terminal: wrapping, scrolling, backspace over a line    *)
(* end, tabs, cursor keys and the resize at boot lose and displace no character.  *)
ImplementsTerminal == Tape!Spec

=============================================================================
