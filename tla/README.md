# A TLA+ verification of the neodymium kernel

neodymium is a 32-bit x86 hobby kernel: one CPU, a PIT tick that preempts,
round-robin scheduling, `fork`/`exec`/`wait`, one page directory per task, a
PS/2 keyboard, a framebuffer console. This directory holds TLA+ modules that
model its core, TLC configurations that check them on small instances, and
proofs that TLAPS checks for every instance. Source paths below are relative to
the repository (`src/kernel/...`); `PROJECT.json` maps each definition to its
lines.

To run a configuration: `tlc -config SchedRing.cfg Sched`. To check the proofs:
`tlapm SchedProof.tla`, and likewise `PmmProof`, `HeapProof`, `Ps2Proof`,
`VmmProof`, `ConsoleProof`, `TerminalProof` and `NumberLemmas`.

## 1. Inventory

| part | state it keeps | operations | who calls it |
|---|---|---|---|
| scheduler, `kernel/sched.c`, `switch.S` | `task_list` (circular), `current_task`, `next_pid`, `tick`, the `struct task`s and their kernel stacks | `sched_tick`, `yield`, `task_create_elf`, `task_create_fork`, `sched_exit_with`, `sched_sleep`, `sched_wait`, `sched_exec` | timer interrupt, system calls, `kernel_main` |
| system calls, `kernel/syscall.c` | none | `syscall_handler` and one handler per call | user code, `int 0x80` |
| interrupts, `kernel/idt.c`, `isr.S` | the IDT, handler table | `isr_handler`, PIC end-of-interrupt | the processor |
| physical pages, `kernel/pmm.c` | bitmap, `free_count`, `total_pages` | `pmm_init`, `pmm_alloc_page(s)`, `pmm_free_page(s)` | VMM |
| kernel heap, `kernel/heap.c` | free list in address order, `heap_top` | `heap_init`, `malloc`, `free` | scheduler |
| virtual memory, `kernel/vmm.c` | directories and tables in frames, `current_page_directory` | create, clone, destroy, switch, map, alloc | scheduler, heap, ELF loader |
| ELF loader, `kernel/elf.c` | none | `elf_load` | `kernel_main`, `sched_exec` |
| keyboard, `drivers/ps2.c` | ring buffer, modifier flags, `extended` | `keyboard_handler`, `ps2_poll` | keyboard interrupt; `yield`, `kernel_main`, `handle_read` |
| `kernel_main`, `kernel/kernel.c` | none | boot order, self tests, idle loop | boot code |
| console, `drivers/fbcon.c` | `buf`, `COLS`, `ROWS`, `cx`, `cy`, `visible`, the cursor's block and its blinking | `fbcon_putchar`, `fbcon_resize`, `fbcon_redraw`, `fbcon_set_visible`, the cursor keys, `fbcon_tick` | printf; `yield`, `kernel_main` |
| framebuffer, `drivers/framebuffer.c` | the screen, `fb_enabled` | `fb_init`, `fb_drawchar`, `fb_fillrect`, `fb_clear` | console, `kernel_main`, panic |
| printf, `kernel/printf.c` | none | `printf`, one `fbcon_putchar` after the other | everyone |
| panic, `kernel/panic.c` | none | `panic`, `panic_regs`: a screen, a text, the end | exceptions, the F12 shortcut |
| GDT/TSS, boot loaders, VGA, serial, CMOS | output and boot-time tables | | |

**How they interact.** Every IDT gate is an interrupt gate, so a handler or a
system call runs with interrupts off, start to end. There are two exceptions.
`yield()`, which `exit` and `sleep` end in, executes `sti` and then chooses the
next task, switches, or idles, with interrupts on: a timer or keyboard
interrupt may come between any two of its instructions, may switch away from
the middle of it, and may come back to it later. And `kernel_main`'s idle loop
polls the keyboard with interrupts on. Both loops echo keys to the console, so
that a task switch can leave them in the middle of an echo, and the tasks they
are left for write to the same console. The heap grows through the VMM in
whatever address space is loaded. `fork` takes two heap blocks and clones a
space, `wait` gives all three back, `exec` builds a space while the old one is
still needed.

**What is hard.** Interrupts inside `yield()`; what `t->stack` points at
depending on what was interrupted; pointers to tasks kept over an interrupt or
over the death of the task; allocation failing half-way through `fork`, `exec`
and heap growth; frames owned by exactly one space through any sequence of
forks, execs and waits; the ring buffer written by an interrupt between two
accesses of its reader; two-byte scancodes; counters that wrap; a console that
several parties write to, hidden and shown at any time, whose cursor is drawn
over the text. `PROJECT.json` lists 40 hazards with the line where each one
bites.

**What makes each part correct.**

* Scheduler: the list is one cycle of the live tasks; `current_task` does not
  dangle; only runnable tasks run, on their own stack, in their own space;
  zombies stay dead until collected by their own parent; nobody starves;
  sleepers come back; calls return.
* Physical pages: counter, bitmap and holders agree; no frame is given twice; no
  refusal while a run that fits is free.
* Heap: blocks tile the heap without gap or overlap; free neighbours are joined;
  a block handed out is fresh and large enough.
* Virtual memory: each frame has one owner; a fork copies; a call that fails leaves
  nothing behind.
* Keyboard: what is polled is what was typed, in order, only the overflow
  dropped; modifiers follow the keys.
* Console: every character lands where the text before it ends, across wraps,
  scrolls, tabs and backspaces; the screen shows the buffer and one cursor when
  the console is visible, and is left alone when it is not; no key waits while the
  CPU idles.

## 2. Plan

Order of work, most important behaviour first; the first six are done.

1. `Sched` with interrupts inside `yield()`; `SchedProof`.
2. `Pmm`; `PmmProof`.
3. `Heap`; `HeapProof`.
4. `Ps2`, an implementation of the abstract queue `KeyQueue`; `Ps2Proof`.
5. `Vmm` with the ELF loader, fork, exec and wait; `VmmProof`.
6. `Console`, an implementation of the abstract `Terminal`, with the idle loops,
   the F12 shortcuts and panic; `ConsoleProof`, and `TerminalProof` that it does.
7. Later: two pollers of `ps2_poll` (a preempted `yield()` and a task's `read`).
8. Later: a module that composes `Sched` with `Vmm`, so that the stack and the
   task struct on the heap, and the space that is loaded, are those of `Vmm`.

## 3. Modules

### Sched

The fields of `struct task` are functions of the task's address (`next`,
`parent`, `pid`, `state`, `wakeup_tick`, `exit_code`, and `frame` for
`t->stack`); address 0 is the null pointer. First-fit `malloc` gives a new task
the lowest free address, so a reaped parent's address is used again.

`cpu` is what the CPU is doing: user code, `kernel_main`, one of the program
points of `yield()` (`pick`, `set`, `go`, `poll`, `hlt`), `handle_read`'s halt,
panic. `cpu.on` is the task on whose kernel stack `yield()` runs and `cpu.nxt`
its local variable `next`. `frame[t] = 0` is a context that returns to user
code; `frame[t] = x` is one that an interrupt of `yield()` pushed on `x`'s
stack, and `spot[t]` is what that frame holds. `restore_context` pops a frame but
leaves `t->stack` pointing at it, and `yield()` may restore it a second time. So
whatever lies on a stack is marked (`ok = FALSE`) as soon as the kernel runs on
that stack again (`Spoiled`). To restore a marked frame resumes where it did, if
the calls of the resumed `yield()` happened to leave it alone, or leads to the
point `lost`. `wild` is the point after `yield()` dereferences a freed task. Of what
comes after these two the model says nothing. `exec` can panic (a bad image pointer,
a page without a table), and user code can fault at any time.

| action | code |
|---|---|
| `task_create_elf`, `BootWithoutTask` | `kernel_main` creating the first task |
| `sched_tick` | the timer handler: count, wake, save, pick, switch |
| `keyboard_handler` | the keyboard handler, reduced to its buffer |
| `YieldPick`, `YieldSet`, `YieldGo`, `YieldPoll` | `yield()` after its `sti` |
| `MainPoll` | `kernel_main`'s idle loop |
| `sched_exit_with`, `sched_sleep` | the calls that end in `yield()` |
| `task_create_fork`, `ForkFails`, `sched_wait`, `WaitFindsNone`, `sched_exec`, `handle_read` | the calls that return |
| `page_fault_handler`, `PanicHalt` | the stops |

A user program is any sequence of calls from `Calls`. `IrqAt` says at which
points of `yield()` an interrupt may arrive: all of them is the code as it is;
without `set` and `go` it is the code with the three instructions between
`pick_next_task` and `restore_context` protected.

### Pmm

The bitmap is the set of its set bits. Addresses are bytes, the page size and
the width of an `unsigned int` are constants, so `pmm_init`'s rounding, clipping
and wrap-around are the code's. `held` is history: what callers have not given
back. Callers allocate and free runs of any length up to `MaxCount`, including
frees of what is free already and of what lies past the end. `ReservedPages` wraps
where `pmm_init`'s unsigned sums and roundings do.

### Heap

Blocks are (address, size) pairs; `heap_free` is the list in its own order, `used`
the headers of blocks handed out. `malloc` searches, splits (`Carve`,
`HandOut`), grows by pages with the frames the machine has, and refuses; `free`
inserts in address order and joins upwards, then downwards. The kernel asks for a
`struct task` and for a stack; requests so large that the 32-bit sum of size, header
and alignment wraps are outside the model (`Needed`).

### Ps2 and KeyQueue

`Ps2` decodes scancodes byte by byte into the ring buffer and reads it with
`ps2_poll`, whose test, fetch and update are separate steps. The keyboard is
external: it sends the bytes of one event after the other. `KeyQueue` is what the
driver promises: a bounded queue of keys where a press is appended, or dropped
when the queue is full, and a poll returns the oldest or says there is none.
`Ps2!ImplementsQueue` maps the ring buffer to the queue. At most one Shift key is down
at a time: the two share one flag.

### Vmm

Physical memory is a function from frames to words; directories and tables are
frames, and a freed frame keeps its contents. A kernel function that takes frames
is an operator from memory to memory, so it fails where the code fails, with what
it has done by then. The slots of a directory are the identity map, the heap, the
program, its stack, and the page that `kernel_main` maps for its module. The order
of frames is `pmm_alloc_page`'s: the lowest free one. A loop over words or slots is a
recursive function of the number of rounds, so that a failure in one round leaves
what the earlier rounds have done.

Nothing keeps user code from forking or executing with too few frames. How that ends
is the outcome of the operator (`st`), kept in `last`:

| outcome | what the code does | in the model |
|---|---|---|
| `ok` | the call succeeds | goes on |
| `oom` | the call returns an error | goes on; `FailureUndone` |
| `nomap` | `vmm_map_page` has no frame for a table and returns without a mapping; `vmm_alloc_page` reports success (vmm.c:55,64) | for the stack `elf_load` clears the page through its physical address and reports success too: `exec` succeeds, and the frame is in `lost` from then on; for a page of the program it is a `fault` |
| `fault` | `elf_load` clears the page at its own address (elf.c:25), and the kernel panics | stops |
| `torn` | a clone runs out of frames inside a table, and the clean-up frees what the table's unwritten words point at (vmm.c:195-201) | stops |
| `grown` | the heap grows in a system call: its new page is mapped in the caller's private copy of the heap's table (heap.c:58) | stops |

After `torn` and `grown` the machine runs on, with frames that have two owners, or
none: the code breaks `FramesExact` there. What exactly follows depends on what user code
left in the frames, so the model ends instead, and the two are listed as hazards
without a property. `AfterMalloc` shows the first page of a growth.

### Console and Terminal

`Console` has the variables of `fbcon.c` under their own names, and the screen as
one value per character cell: a character, the cursor's block, the demo picture
or panic's red. `disp.cursor` is `cursor_shown` with `cursor_x` and `cursor_y`.
Characters are a space, a letter, a control code that `fb_drawchar` has no glyph
for, and the four that `fbcon_putchar` treats apart; a text is a sequence of them.

`cpu` says who runs (`boot`, `booted`, `prompt` and `main` are `kernel_main`
before and after `fb_init`, printing its prompt, and idling; `yield`; `sys` and
`exit` are system calls; `user`; `panic`), at which point, with which key and
which text still to be put. `fbcon_putchar` is nine points, so that an
interrupt can be placed between any two of its updates. What the idle loops do else
with the console is cut up in the same way: a toggle into `fbcon_set_visible`,
`fb_clear` (`clear`) and `fbcon_redraw` (`repaint`, then `cursor_show`); a cursor key
and a blink into the drawing of `cursor_hide`, its reset of `cursor_shown` (`erased`),
the move (`move`, where the one or two stores of `cx` and `cy` are one step), the
drawing of `cursor_show` (`draw`) and its note of where the block is (`drawn`). As in
`Sched`, `IrqAt` says where in the idle loops an interrupt may arrive.

| action | code |
|---|---|
| `BootPrint`, `FramebufferFound`, `NoFramebuffer`, `BootEnds` | `kernel_main` until it idles |
| `PutBegin`, `PutStore`, `PutAdvance`, `PutWrap`, `PutDown`, `PutBottom`, `PutLift`, `PutRedraw`, `PutShow` | `fbcon_putchar` with `scroll` and `fbcon_redraw` |
| `PutReturns` | the end of `printf` and what its caller does next |
| `Pick`, `Poll`, `ActEcho`, `ActPanic` | the two idle loops |
| `ActToggle`, `ToggleClear`, `ToggleRepaint` | Ctrl+Shift+F12 in them |
| `ActArrow`, `Blink`, `CursorHidden`, `ArrowMove`, `CursorDraw`, `CursorShown` | the cursor keys and `fbcon_tick` in them |
| `Tick`, `keyboard_handler` | interrupts |
| `handle_writestr`, `handle_exit`, `handle_sleep`, `Fault`, `Halted` | user code, exceptions, the end |

Which task runs is left to `Sched`: a tick lets the interrupted code go on, or
leaves an idle loop for user code. A loop that is left is not resumed, which is
so for `kernel_main` and for the `yield()` of a task that has exited or still
sleeps. (The `yield()` of a task that the same tick wakes is saved and resumed later;
that is left out here.) The time since the last blink is not kept: the cursor may
or may not blink in each round. The modifiers of F12 are asked for in up to five
calls with interrupts on, so F12 may print, panic or toggle whatever was held
when it was pressed.

`Terminal` is what the console promises: a tape of width times height cells, a
position, and writing, line ends, tabs, erasing, moving and resizing on it.
`Console!ImplementsTerminal` maps the cells of the grid in reading order to the tape
(`TapeNow`) and the cursor to the position (`PosNow`), taking both from before the
putchar that is under way.

`MCPmm`, `MCPs2` and `MCConsole` hold the values of constants that a configuration file
cannot express; `MCConsole` has TLC evaluate the hypothesis of the console's theorems.

## 4. Runs

Passing:

| run | instance | shows |
|---|---|---|
| `sched_ring` | 3 tasks, 4 pids, interrupts at every point of `yield()` | `RingIntegrity`, `CurrentLive`, `ScansMissNobody` of the code as it is |
| `sched_quiet` | 3 tasks, 3 pids, keys, `read`, allocations that fail, no interrupt at `set` and `go` | `TypeOK`, `OnlyRunnableRuns`, `StackSafe`, `UserInOwnSpace`, `SleepersKeepContext`, `ZombieStays`, and the liveness `RoundRobin`, `SleeperReturns` |
| `pmm` | 4 machines of up to 8 frames | `TypeOK`, `FreeCountExact`, `BitmapExact`, `ReservedSafe`, `NoDoubleAlloc`, `NoFalseOom` |
| `heap` | pages of 32 bytes, 1, 2 or 4 frames, sizes 0, 10, 24, 60 | `TypeOK`, `Tiled`, `Coalesced`, `Aligned`, `MallocFresh`, `MallocRefuses` |
| `ps2` | buffer of 3 slots; a letter, a digit, both Shifts, Ctrl, Alt, Caps Lock, two extended keys | `TypeOK`, `ModifiersFollow`, `PollSafe`, `ImplementsQueue` |
| `vmm` | 26 frames, 9 entries per table, programs of 2 and 6 pages, a heap that must grow for a fourth task | `TypeOK`, `FramesExact`, `ForkCopies`, `FailureUndone` |
| `console` | 2 x 2 cells at boot, then 3 x 1, 1 x 2 or no framebuffer; backspace, two cursor keys, F12 | `TypeOK`, `WritesLand`, `ScreenShows`, `HiddenStays`, `ImplementsTerminal`, and the liveness `KeyHandled` |

Violated, each of them a disagreement between the code and what the repository
says of it (`findings` in `PROJECT.json` quotes the lines):

| run | property | what happens |
|---|---|---|
| `sched_read` | `ReadReturns` | `read` with no key waiting halts with interrupts off; the keyboard interrupt that should end it cannot come |
| `sched_sleep` | `SleepReturns` | the only runnable task sleeps; the tick that wakes it inside its own `yield()` saves that frame over its user frame, and it loops in `yield()` for ever |
| `sched_race` | `RoundRobin` | a tick between `yield()`'s choice and its switch starves a runnable task |
| `sched_wait` | `WaitCollectsOwnChild` | a new task at a reaped parent's address collects that parent's child |
| `sched_exec` | `ExecFailReturns` | an `exec` that runs out of memory returns to user code with the kernel's directory loaded |

**Bounds and why they are enough.** Three tasks are the fewest with a head, an
element that is unlinked and one whose predecessor changes; four pids
(`sched_ring`, `sched_wait`) let one address be used twice. `TickMod = 2` makes the tick and the deadlines wrap all
the time. `KEYBUF_SIZE = 3` holds two keys, so full, empty, one key and the
wrap-around of both indices occur. The memory maps of `MCPmm` have regions that
are unaligned, that are clipped, that wrap by their length or only when their end is
rounded, and a machine without a map. The heap has machines
that cannot even hold the initial pages, that cannot grow and that can; the sizes
make remainders smaller and larger than `HEAP_MIN_BLOCK`, and one that needs a
growth. Twenty-six frames hold two or three spaces of programs of two and six pages,
of which one needs most of a table, and run out at each point where the code asks for one:
for a directory, a page, or a table of the program or the stack in `exec`, for a
directory, a table or a page of the copy in `fork`. All six outcomes of the table in section 3 are among the 14,317 distinct
states.
The console's screens are one wider and lower than at boot and one narrower than a
cell and taller than the buffer, so that the resize clips on all sides and cells
of the old text lie outside the new grid; with two or three cells every second
character wraps or scrolls, and a tab both stays in its line and leaves it.
A key buffer that holds one key is empty or full, so keys get dropped.

**Deadlock** is checked except in `sched_quiet` and `sched_read`, where
`handle_read` really stops the machine.

**Fairness.** `FairSpec` has weak fairness of the kernel's own instructions (the
CPU executes them) and strong fairness of the tick: the PIT interrupts
periodically, and code that again and again passes a point with interrupts on
is hit there at some time. That the kernel's instructions go on excludes the step to
`lost`: an overwritten frame may resume as it did for ever. `Console` has weak fairness of the kernel's
instructions and of the tick, of which only the one that ends a `hlt` is used.
Nothing is assumed of user programs. `TypingSpec`
adds a person who keeps typing, to show that `read` does not return even then.

**Restrictions of the passing runs**, each a hazard with a note:

* `sched_quiet` leaves out interrupts at `set` and `go`: `sched_race` shows why.
  `UserInOwnSpace` allows the kernel's directory after a failed `exec`, which
  `sched_exec` is about. `SleeperReturns` is about sleepers other than the one
  whose `yield()` idles the CPU: `sched_sleep` shows why.
* `CurrentLive` allows the stale pointer that `yield()` loads after an interrupt at
  `set` (point `wild`): it says that nothing else makes `current_task` dangle.
  `OnlyRunnableRuns`, with no interrupt there, says that it does not happen then.
* `vmm` ends with a panic, a torn clone or a grown heap (section 3).
* `pmm`: `ReservedSafe` is about regions whose end, rounded up, stays below 2^32
  (`NoWrap`); the others are not reserved, and two of the machines have one.
* `Ps2` has one caller of `ps2_poll` at a time, and at most one Shift key held.
* `console` has interrupts between the characters of a text, before a key is acted
  on, at `hlt`, and inside cursor keys and blinks up to the drawing of the block. It has
  none inside `fbcon_putchar`, between `fbcon_set_visible` and the end of the redraw, or
  between the drawing of the block and the note of it (`DrawWhole`). The code does not
  see to that:
  * With all points in `IrqAt` and a letter among the texts, TLC finds `WritesLand`
    violated: `kernel_main`'s prompt, or an echo, is left for a task after the cursor
    has moved and before it wraps, and the task's write stores at column `COLS`.
  * With `clear` or `repaint` in `IrqAt`, TLC finds `ScreenShows` violated: a tick leaves
    the loop for good with the console visible and the old picture, or nothing, on
    the screen.
  * With `drawn` in `IrqAt`, TLC finds `ScreenShows` violated: a block stays that
    `cursor_hide` does not know of.

  A cell with a control code may show anything, as nothing is drawn for it.

Observations that contradict nothing the repository says:

* `wait` never blocks and returns -1 for "no zombie child" as well as for an exit
  code of -1; an orphan is never collected, so its memory is held for ever.
* A key that `yield()` has polled is lost when a tick leaves the loop before it is
  echoed.
* The modifiers of an F12 shortcut are those of the moments at which they are asked
  for, not of the press.
* Hiding the console clears the screen in `kernel_main`; in `yield()` it leaves the
  text standing.
* panic prints on the console after it has drawn its screen: a visible console
  writes over it.
* `vprintf` knows no field widths: the date that `kernel_main` prints with `%04u`
  comes out as the letters of the format.

## 5. Proofs

Every theorem is about the same `Spec` that the runs check, for every value of the
constants that the module's assumption allows. Two hypotheses go beyond types;
each is a statement about constants, is true in the passing run of its component
(TLC evaluates `DrawWhole` there; `Quiet` can be read off `SchedQuiet.cfg`), and is
needed:

| hypothesis | says | without it |
|---|---|---|
| `Quiet` (`Sched`) | no interrupt between `yield()`'s choice and its switch | `sched_race` |
| `DrawWhole` (`Console`) | no interrupt in the idle loops inside `fbcon_putchar`, a toggle's drawing, or the drawing of the block | `WritesLand` and `ScreenShows` are violated (section 4) |

### SchedProof

From `SchedAssumption` (types of the constants), with interrupts anywhere:

* `TypeCorrect`, `ListStaysRing`, `CurrentNeverDangles`: `Spec => []TypeOK`,
  `[]RingIntegrity`, `[]CurrentLive`. The inductive invariant is `SchedInv`,
  the three together with `Active` (user code and `yield()` have a current task)
  and `NotOwnParent`. They need each other: a call writes at `current_task`, which
  must be a live task; `wait` must not free its caller, which `NotOwnParent` gives;
  and the new order of the list has to be exhibited. `RingIntegrity` says that a numbering of the live
  tasks along `next` exists; insertion after the head shifts the numbers behind
  it, and unlinking closes the gap (with a rotation when the head goes). These are
  lemmas about `AddTask` and `Unlink`.
* `ScansAreComplete`: `[]ScansMissNobody`. The loops of `pick_next_task`,
  `sched_tick` and `sched_wait` walk along `next` from some live task until they are
  back; that they meet every live task follows from the numbering. `Walk` is a
  recursive function, and what it computes is shown by the least step at which it
  would be wrong.
* `UserSpaceIsOwn`: `[]UserInOwnSpace`.
* `SleepersKeepFrame`: `[]SleepersKeepContext`. Only `sched_tick` saves a frame of
  `yield()`, and only for a task that is running after the wake-up scan; so the task in
  whose `yield()` the CPU idles keeps its user frame until it is woken.

With `Quiet`:

* `QuietRunnable`, `QuietStacks`: `[]OnlyRunnableRuns` and `[]StackSafe`. The
  strengthening is `QuietInv`: `yield()` is on `current_task`'s stack until it has
  switched, the chosen task is still running when it is switched to, and a saved
  frame lies on its task's own stack at a point before the choice.
* `QuietZombies`: the action property `ZombieStays`.

That no overwritten frame is ever restored cannot be stated: in the code one is, when a
keyboard interrupt ends the `hlt` of a `yield()` that has been resumed from such a frame.

### PmmProof

For every memory map that `PmmAssumption` allows (the kernel lies in reported
memory), `PmmTypes`, `CountIsExact`, `NothingLeaks`, `AllocIsFresh` and `OomIsReal`.
The invariant is that the bitmap is what boot marked and what is held, without
overlap, and that the counter is the number of clear bits; each call moves the
cardinality by the number of bits it really changes. That the early exit on
`free_count` refuses nothing (`OomIsReal`) is the counter's exactness once more: a
free run of `n` frames is `n` clear bits. `ReservedStaysOut` adds that `pmm_init`'s
rounding to pages covers every page inside a reserved region whose end, rounded up, is
below 2^32. That is a condition on the region (`NoWrap`, part of `ReservedSafe`), not on
the machine: other regions may wrap.

### HeapProof

For every page size, alignment, header and minimum block size that
`HeapAssumption` relates as the code's constants are, every set of request sizes
and every number of frames: `HeapTypes`, `NothingIsLost`, `FreeJoinsAll`,
`HeadersAligned` and the action properties `MallocIsFresh` and
`MallocRefusesRightly`. The inductive invariant `HeapInv` is that the free list is
in order with gaps between its blocks (`Sorted`) and that free blocks and blocks in
use are disjoint, aligned and tile the heap (`Divides`). `Coalesced` speaks of
neighbours in the list only; the proof needs it of any two blocks.

The proof has two levels. As sets: cutting a block in two, adding one at the top
and joining two that touch keep a heap divided. As a list: what `malloc` and `free`
do to the linked list is always a *splice*, one block or none in the place of a few
neighbours, and a splice of an ordered list is ordered when the new block lies
between the ones that stay. That `free` compares with one block above and one below
only is enough because all others are further away, by `Sorted`. `MallocRefuses`
is stricter than the code's test: no block holds the *request*, whereas the code
compares with the rounded size; `Aligned` closes the gap.

### Ps2Proof

For every buffer size from 2 up and every set of keys that mean what the keymaps
say (`KeyMeans`, part of `Ps2Assumption`: a statement about the keyboard, in terms
of the driver's own tables): `Ps2Types`, `FlagsFollowKeys`, `PollIsSafe`, and the
refinement `DriverIsQueue`, `Spec => ImplementsQueue`. The invariant `Ps2Inv`
adds which bytes of which event can be on the wire (`WireOK`), which keys count as
held (`HeldOK`), and that every slot between tail and head holds a key
(`PendingKeys`). The refinement
mapping reads the ring buffer from its tail on; `buf_put` appends to that sequence or
leaves it alone when the buffer is full, which is arithmetic modulo the size, and
`ps2_poll` takes its head when it stores the tail, not when it reads the key.

### VmmProof

For every number of frames, entries per table and tasks, every set of program sizes
and any room in the heap that `VmmAssumption` allows (the identity map ends below the
other slots, and the machine boots): `VmmTypes`, `FramesHaveOneOwner`, and the action
properties `ForksCopy` and `FailuresAreUndone`. Exec and fork may run out of frames
anywhere; the theorems speak of the machine until it stops (section 3).

The inductive invariant `VmmInv` is `TypeOK` and, while the machine runs, `WellFormed`
of memory, the spaces and the lost frames: every frame has one owner as in
`FramesExact`, and in addition

* `KernelOK`: the kernel's directory has no program and no stack, and its table for the
  first task's extra page maps nothing, so that a private copy of that table owns nothing
  of the kernel's;
* `SameKernel`: a space has the kernel's tables for memory and the heap, and a table
  wherever the kernel has one. Without it a clone, which starts from the kernel's
  directory, could map more than its parent;
* `Once`: no frame is in two places of one space. Without it destroying a space would
  free a frame twice although the owners are right.

Every function is first reduced to what it may do to memory: `AllocPage` lists the
four ways `vmm_alloc_page` ends, `PageCopied` the three of a round of the clone's
inner loop. `Grown` is what holds between a space and the same space later in a
function that adds to it: it owns exactly what it owned and the frames that are no
longer free, and nothing else was touched. A step of `elf_load` or of the clone is
`Grown`, `Grown` is transitive, and a loop is an induction over its rounds (`UpTo` and
`Rounds` in `NumberLemmas`: the least round that would be wrong). An exec that fails
destroys the new space, and by `Grown` that is exactly what it took; so does a fork that
finds no frame for a table. When a table for the stack is missing, `Grown` does not hold of
the space, and `LoseFrame` says what does: one frame more has no owner but `lost`.

The clone is a loop in a loop. `CopiedTo` and `ClonedTo` say what has been done after
`k` words and after `k` slots: the child has pages where the parent has, and has grown by
the frames taken. `SpaceCloned` has the three ways in which it ends. `Booted` and
`FirstTask` compute what `vmm_init` and `kernel_main` leave: the frames after the
directory are the tables of the identity map.

### ConsoleProof

For every size of the console, screen, tab stops and set of texts:

* `HiddenConsole`: the action property `HiddenStays`, with interrupts anywhere.
* With `DrawWhole`: `ConsoleTypes`, `WritesAreInside`, `ScreenIsBuffer`. The
  invariant `ConsoleInv` says at which points of `fbcon_putchar` the CPU can be for
  whom (`WhereOK`), how far outside the grid the cursor may be at each of them
  (`CursorOK`), and which cells a visible console shows at each of them (`ShownOK`):
  all of them, but for the time from a scroll to its redraw and from a toggle to its
  redraw. Between the two halves of `cursor_hide` the cursor is noted as shown and its cell
  is clean, between those of `cursor_show` it is the other way round.

### TerminalProof

`ConsoleIsTape`, with `DrawWhole`: `Spec => ImplementsTerminal`, for every size of the
console, of the screens that boot may find, and of the tab stops. No step of
`fbcon_putchar` but its last is one of the tape, so the invariant `TerminalInv` adds to
`ConsoleInv` how far a putchar has come at each of its points (`PutOK`): what it has
made of the buffer it found (`PutBuf`), where the cursor goes before the wrap (`PutX`,
`PutY`) and after it (`EndX`, `EndY`), and whether the rows have moved up. TLC checked
`TerminalInv` on the instance of `console` before it was proved. At the last step the
result is the tape's `Settle` of `PutBuf` and the place of <<`EndX`, `EndY`>>
(`ShowSettles`), and one case per kind of character finds the operation of the tape
that it is (`PutIsStep`). `BlankOK`, that boot leaves blanks outside its first grid, is
what the change of size needs: cells that appear are blank, and not old text. The
lemmas `Places`, `CellOf` and `PlaceOf` take cells to places on the tape and back;
`TapeStored` and `TapeRaised` say what a store and a scroll are there.

`NumberLemmas` has the facts about division, multiples, least elements and loops that
several proofs use.

### Only model-checked

* Liveness (`RoundRobin`, `SleeperReturns`, `KeyHandled`) and the violations, which
  are out of the prover's reach.

## 6. Not modelled

* Pixels, colours and the font, the detection of the framebuffer (VBE, PCI) and
  its mapping; the formatting of numbers in `printf` and `panic`, panic's register
  dump and backtrace.
* Serial output, which nothing reads back; `vga.c`, of which only the initialisation
  is called; the CMOS clock.
* GDT/TSS, PIC and PIT programming, the boot loaders: written once before
  anything runs; what boot reports is the input of `Pmm`.
* Entry flags, the accessed bit and the TLB in `Vmm`, and functions that nothing
  calls (`vmm_free_page`, the `_in` variants, `ps2_getchar`, `task_create`).
* The bytes of ELF images and of pages. `Vmm` loads one segment per program, as
  the embedded programs have.
* Machines with more than 128 MiB, where the program's address lies in the
  identity map (`VmmAssumption` excludes them; see the hazards).
