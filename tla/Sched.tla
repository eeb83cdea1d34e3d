------------------------------- MODULE Sched -------------------------------
(***************************************************************************)
(* The neodymium scheduler (src/kernel/sched.c), the system calls that      *)
(* drive it (src/kernel/syscall.c) and the interrupts that preempt it.      *)
(*                                                                         *)
(* One CPU.  Every IDT gate is an interrupt gate (idt.c:82,90), so a        *)
(* handler runs with interrupts off and is one atomic step here.  The one   *)
(* exception is yield() (sched.c:207): it executes sti and then picks the   *)
(* next task, switches to it, or idles, with interrupts on.  Its program    *)
(* points are                                                              *)
(*                                                                         *)
(*   "pick"  about to call pick_next_task                                  *)
(*   "set"   pick_next_task returned nxt, current_task not yet assigned     *)
(*   "go"    current_task assigned, restore_context not yet entered         *)
(*   "poll"  nothing to run, about to poll the keyboard                    *)
(*   "hlt"   halted until an interrupt                                     *)
(*                                                                         *)
(* The other values of cpu.at are "init" (kernel_main before sti), "main"   *)
(* (kernel_main's idle loop, on the boot stack), "user" (user code of       *)
(* current_task), "read" (handle_read's hlt, interrupts off), "panic",      *)
(* "wild" (the kernel has followed a pointer to a freed task) and "lost"    *)
(* (it has popped a context that was written over): of what comes after     *)
(* the last two the model says nothing.                                    *)
(*                                                                         *)
(* A task is the address of its struct task; first-fit malloc gives a new   *)
(* task the lowest free address.  Address 0 is the null pointer.  The       *)
(* saved context t->stack is frame[t]: 0 is the register frame of t's own   *)
(* entry from user mode, on top of t's kernel stack; x # 0 is a frame that   *)
(* an interrupt of yield() pushed on x's kernel stack, and spot[t] is what   *)
(* that frame holds.  restore_context pops the frame, but t->stack goes on   *)
(* pointing at it while the calls of the resumed yield() write over it.     *)
(*                                                                         *)
(* Left out: the calls that change no state of this module (write,          *)
(* writestr, gettick, getpid), console output, the registers of a frame      *)
(* other than where it resumes.                                            *)
(***************************************************************************)
EXTENDS Integers, Sequences, FiniteSets

CONSTANTS
  MaxTask,     (* number of struct task blocks the heap can hold            *)
  MaxPid,      (* bound: no fork once next_pid exceeds it                   *)
  TickMod,     (* tick is an unsigned counter modulo TickMod (2^32)          *)
  KeyBuf,      (* KEYBUF_SIZE of ps2.c: holds KeyBuf - 1 keys                *)
  Keys,        (* keys that get typed: a subset of {"char", "panic"}         *)
  Calls,       (* system calls that user programs issue                     *)
  SleepTicks,  (* arguments they pass to sleep                              *)
  Codes,       (* arguments they pass to exit                               *)
  Oom,         (* TRUE: memory allocation may fail                          *)
  IrqAt        (* points of yield() where an interrupt may arrive            *)

LoopPoints == {"pick", "set", "go", "poll", "hlt"}

Syscalls == {"exit", "read", "fork", "wait", "sleep", "exec"}

ASSUME SchedAssumption ==
  /\ MaxTask \in Nat \ {0}
  /\ MaxPid \in Nat \ {0}
  /\ TickMod \in Nat \ {0}
  /\ KeyBuf \in Nat \ {0}
  /\ Keys \subseteq {"char", "panic"}
  /\ Calls \subseteq Syscalls
  /\ SleepTicks \subseteq Nat
  /\ Codes \subseteq Int
  /\ Oom \in BOOLEAN
  /\ IrqAt \subseteq LoopPoints

Task == 1..MaxTask

Null == 0

Ptr == Task \cup {Null}

(***************************************************************************)
(* The fields of struct task are functions of the task's address.  "free"   *)
(* marks an address that holds no task.                                    *)
(***************************************************************************)
VARIABLES
  task_list, current_task, next_pid, tick,
  next, parent, pid, exit_code, state, wakeup_tick, frame,
  spot,    (* what t->stack holds when it is a frame of yield(), per task    *)
  cr3,     (* whose page directory is loaded; 0 is the kernel's              *)
  keys,    (* the keyboard buffer                                           *)
  cpu,     (* program point, kernel stack in use by yield(), its local next *)
  ret      (* the system call that has just returned to user code, and eax  *)

taskVars == <<task_list, next_pid, next, parent, pid, exit_code>>

vars == <<taskVars, current_task, tick, state, wakeup_tick, frame, spot, cr3,
          keys, cpu, ret>>

Live == {t \in Task : state[t] # "free"}

At(a) == [at |-> a, on |-> Null, nxt |-> Null]

Loop(a, x, n) == [at |-> a, on |-> x, nxt |-> n]

NoSpot == [at |-> "pick", nxt |-> Null, ok |-> FALSE]

NoRet == [call |-> "none", val |-> 0]

Returned(c, v) == [call |-> c, val |-> v]

InLoop == cpu.at \in LoopPoints

(***************************************************************************)
(* The circular list.  Walk(s)[k] is the task reached from s by k steps     *)
(* along t->next.                                                          *)
(***************************************************************************)
Walk(s) ==
  LET w[k \in 0..MaxTask] == IF k = 0 THEN s ELSE next[w[k - 1]]
  IN  w

(* Mutant: the search always starts from the head of the list.              *)
StartAtHead == task_list

Start == IF current_task # Null THEN current_task ELSE task_list

(* Mutant: every task but a zombie is good enough.                          *)
pick_not_zombie(n, st) ==
  /\ task_list # Null
  /\ \E k \in 1..MaxTask :
       /\ Walk(Start)[k] = n
       /\ st[n] # "zombie"
       /\ \A j \in 1..(k - 1) : st[Walk(Start)[j]] = "zombie"

(* n is the first running task after Start, when the states are st.         *)
pick_next_task(n, st) ==
  /\ task_list # Null
  /\ \E k \in 1..MaxTask :
       /\ Walk(Start)[k] = n
       /\ st[n] = "running"
       /\ \A j \in 1..(k - 1) : st[Walk(Start)[j]] # "running"

(* pick_next_task returns the null pointer.                                 *)
NothingToRun(st) ==
  task_list # Null => \A k \in 1..MaxTask : st[Walk(Start)[k]] # "running"

(***************************************************************************)
(* Frames on kernel stacks.                                                *)
(***************************************************************************)
(* The frame that an interrupt pushes in the middle of yield().             *)
Interrupted ==
  [at |-> IF cpu.at = "hlt" THEN "pick" ELSE cpu.at, nxt |-> cpu.nxt, ok |-> TRUE]

(* Stack x is written on from now on: the frames f that lie there, popped    *)
(* or further down, may be overwritten.                                    *)
Spoiled(x, f, s) ==
  [t \in Task |-> IF f[t] = x THEN [s[t] EXCEPT !.ok = FALSE] ELSE s[t]]

(* restore_context(n->stack), for saved frames f and their contents s.  An  *)
(* overwritten frame resumes where it did, or the machine is lost.          *)
restore_context(n, f, s) ==
  \/ /\ f[n] = Null
     /\ cpu' = At("user")
     /\ spot' = Spoiled(n, f, s)
  \/ /\ f[n] # Null
     /\ cpu' = Loop(s[n].at, f[n], s[n].nxt)
     /\ spot' = Spoiled(f[n], f, s)
  \/ /\ f[n] # Null
     /\ ~s[n].ok
     /\ cpu' = At("lost")
     /\ spot' = s

(* An interrupt returns to where it arrived; hlt ends with it.              *)
Resumed == [cpu EXCEPT !.at = IF @ = "hlt" THEN "pick" ELSE @]

(* An interrupt may arrive: IF is set, at a point of yield() that IrqAt      *)
(* allows.                                                                 *)
InterruptsOn == cpu.at \in {"main", "user"} \cup IrqAt

-----------------------------------------------------------------------------
(***************************************************************************)
(* Boot: sched_init, then kernel_main loads the ELF module and creates the  *)
(* first task, or carries on without one when memory runs out.             *)
(***************************************************************************)
Init ==
  /\ task_list = Null
  /\ current_task = Null
  /\ next_pid = 1
  /\ tick = 0
  /\ next = [t \in Task |-> Null]
  /\ parent = [t \in Task |-> Null]
  /\ pid = [t \in Task |-> 0]
  /\ exit_code = [t \in Task |-> 0]
  /\ state = [t \in Task |-> "free"]
  /\ wakeup_tick = [t \in Task |-> 0]
  /\ frame = [t \in Task |-> Null]
  /\ spot = [t \in Task |-> NoSpot]
  /\ cr3 = Null
  /\ keys = <<>>
  /\ cpu = At("init")
  /\ ret = NoRet

(* The fields of a new task t, forked by p, and its place in the list:      *)
(* after the head.                                                         *)
AddTask(t, p) ==
  /\ \A u \in Task \ Live : t <= u
  /\ next_pid' = next_pid + 1
  /\ pid' = [pid EXCEPT ![t] = next_pid]
  /\ parent' = [parent EXCEPT ![t] = p]
  /\ state' = [state EXCEPT ![t] = "running"]
  /\ exit_code' = [exit_code EXCEPT ![t] = 0]
  /\ wakeup_tick' = [wakeup_tick EXCEPT ![t] = 0]
  /\ frame' = [frame EXCEPT ![t] = Null]
  /\ IF task_list = Null
       THEN /\ task_list' = t
            /\ next' = [next EXCEPT ![t] = t]
       ELSE /\ next' = [next EXCEPT ![t] = next[task_list], ![task_list] = t]
            /\ UNCHANGED task_list

task_create_elf ==
  /\ cpu.at = "init"
  /\ \E t \in Task \ Live : AddTask(t, Null)
  /\ cpu' = At("main")
  /\ UNCHANGED <<current_task, tick, spot, cr3, keys, ret>>

BootWithoutTask ==
  /\ Oom
  /\ cpu.at = "init"
  /\ cpu' = At("main")
  /\ UNCHANGED <<taskVars, current_task, tick, state, wakeup_tick, frame, spot,
                 cr3, keys, ret>>

-----------------------------------------------------------------------------
(***************************************************************************)
(* Interrupts.                                                             *)
(***************************************************************************)
(* Mutant: the scan wakes whatever is not running.                          *)
WokenAny(now) ==
  [t \in Task |->
     IF state[t] \in {"sleeping", "zombie"} /\ wakeup_tick[t] <= now
     THEN "running" ELSE state[t]]

(* Mutant: the scan starts at task_list->next and never looks at the head.    *)
WokenButHead(now) ==
  [t \in Task |->
     IF t # task_list /\ state[t] = "sleeping" /\ wakeup_tick[t] <= now
     THEN "running" ELSE state[t]]

(* The states after the handler's wake-up scan, at tick value now.          *)
Woken(now) ==
  [t \in Task |->
     IF /\ task_list # Null
        /\ \E k \in 0..MaxTask : Walk(task_list)[k] = t
        /\ state[t] = "sleeping"
        /\ wakeup_tick[t] <= now
     THEN "running" ELSE state[t]]

(* Mutant: the context is saved whatever the state of the task.             *)
SaveFrameAlways(st) ==
  IF current_task # Null
    THEN [frame EXCEPT ![current_task] = cpu.on]
    ELSE frame

(* t->stack of the running task becomes the interrupted frame, when the     *)
(* states are st.                                                          *)
SaveFrame(st) ==
  IF current_task # Null /\ st[current_task] = "running"
    THEN [frame EXCEPT ![current_task] = cpu.on]
    ELSE frame

(* What the saved frames hold then.                                        *)
SaveSpot(st) ==
  IF current_task # Null /\ st[current_task] = "running"
    THEN [spot EXCEPT ![current_task] = IF InLoop THEN Interrupted ELSE NoSpot]
    ELSE spot

(* Mutant: current_task is assigned before the context is saved.             *)
sched_tick_saves_late ==
  /\ InterruptsOn
  /\ tick' = (tick + 1) % TickMod
  /\ state' = Woken(tick')
  /\ ret' = NoRet
  /\ \/ \E n \in Task :
          /\ pick_next_task(n, state')
          /\ current_task' = n
          /\ cr3' = n
          /\ frame' = [frame EXCEPT ![n] = cpu.on]
          /\ restore_context(n, frame', [spot EXCEPT ![n] = IF InLoop THEN Interrupted ELSE NoSpot])
     \/ /\ NothingToRun(state')
        /\ cpu' = Resumed
        /\ UNCHANGED <<current_task, cr3, frame, spot>>
  /\ UNCHANGED <<taskVars, wakeup_tick, keys>>

sched_tick ==
  /\ InterruptsOn
  /\ tick' = (tick + 1) % TickMod
  /\ state' = Woken(tick')
  /\ frame' = SaveFrame(state')
  /\ ret' = NoRet
  /\ \/ \E n \in Task :
          /\ pick_next_task(n, state')
          /\ current_task' = n
          /\ cr3' = n
          /\ restore_context(n, frame', SaveSpot(state'))
     \/ /\ NothingToRun(state')
        /\ cpu' = Resumed
        /\ spot' = SaveSpot(state')
        /\ UNCHANGED <<current_task, cr3>>
  /\ UNCHANGED <<taskVars, wakeup_tick, keys>>

(* keyboard_handler: a key that finds the buffer full is dropped.           *)
keyboard_handler ==
  /\ InterruptsOn
  /\ \E k \in Keys :
       keys' = IF Len(keys) < KeyBuf - 1 THEN Append(keys, k) ELSE keys
  /\ cpu' = Resumed
  /\ ret' = NoRet
  /\ UNCHANGED <<taskVars, current_task, tick, state, wakeup_tick, frame, spot, cr3>>

-----------------------------------------------------------------------------
(***************************************************************************)
(* yield(), with interrupts on, and kernel_main's loop.                    *)
(***************************************************************************)
loopFrame == <<taskVars, tick, state, wakeup_tick, frame, ret>>

YieldPick ==
  /\ cpu.at = "pick"
  /\ \/ \E n \in Task :
          /\ pick_next_task(n, state)
          /\ cpu' = Loop("set", cpu.on, n)
     \/ /\ NothingToRun(state)
        /\ cpu' = Loop("poll", cpu.on, Null)
  /\ UNCHANGED <<loopFrame, current_task, spot, cr3, keys>>

YieldSet ==
  /\ cpu.at = "set"
  /\ current_task' = cpu.nxt
  /\ cpu' = IF cpu.nxt \in Live THEN Loop("go", cpu.on, Null) ELSE At("wild")
  /\ UNCHANGED <<loopFrame, spot, cr3, keys>>

(* Mutant: yield() does not load the task's page directory.                  *)
YieldGoSameSpace ==
  /\ cpu.at = "go"
  /\ restore_context(current_task, frame, spot)
  /\ UNCHANGED <<loopFrame, current_task, cr3, keys>>

YieldGo ==
  /\ cpu.at = "go"
  /\ cr3' = current_task
  /\ restore_context(current_task, frame, spot)
  /\ UNCHANGED <<loopFrame, current_task, keys>>

(* ps2_poll and what is done with the key.                                 *)
YieldPoll ==
  /\ cpu.at = "poll"
  /\ keys' = IF keys = <<>> THEN keys ELSE Tail(keys)
  /\ cpu' = IF keys # <<>> /\ Head(keys) = "panic"
              THEN At("panic") ELSE Loop("hlt", cpu.on, Null)
  /\ UNCHANGED <<loopFrame, current_task, spot, cr3>>

MainPoll ==
  /\ cpu.at = "main"
  /\ keys # <<>>
  /\ keys' = Tail(keys)
  /\ cpu' = IF Head(keys) = "panic" THEN At("panic") ELSE cpu
  /\ UNCHANGED <<loopFrame, current_task, spot, cr3>>

(* panic: cli, then hlt for ever.                                          *)
PanicHalt == cpu.at \in {"panic", "wild", "lost"} /\ UNCHANGED vars

-----------------------------------------------------------------------------
(***************************************************************************)
(* System calls.  They come from user code, which runs only in its own      *)
(* address space; anywhere else its next instruction faults.               *)
(***************************************************************************)
Call(c) ==
  /\ cpu.at = "user"
  /\ cr3 = current_task
  /\ c \in Calls

(* Back to user code with v in eax.                                        *)
ReturnToUser(c, v) ==
  /\ ret' = Returned(c, v)
  /\ cpu' = At("user")

(* yield(r) up to its sti, for a caller that has set its state to s.        *)
EnterYield(s) ==
  /\ state' = [state EXCEPT ![current_task] = s]
  /\ frame' = [frame EXCEPT ![current_task] = Null]
  /\ spot' = [spot EXCEPT ![current_task] = NoSpot]
  /\ cpu' = Loop("pick", current_task, Null)
  /\ ret' = NoRet

sched_exit_with ==
  /\ Call("exit")
  /\ \E code \in Codes : exit_code' = [exit_code EXCEPT ![current_task] = code]
  /\ EnterYield("zombie")
  /\ UNCHANGED <<task_list, next_pid, next, parent, pid, current_task, tick,
                 wakeup_tick, cr3, keys>>

(* Mutant: the deadline is computed in a wider integer.                      *)
DeadlineWide(ticks) == tick + ticks

Deadline(ticks) == (tick + ticks) % TickMod

sched_sleep ==
  /\ Call("sleep")
  /\ \E ticks \in SleepTicks :
       wakeup_tick' = [wakeup_tick EXCEPT ![current_task] = Deadline(ticks)]
  /\ EnterYield("sleeping")
  /\ UNCHANGED <<taskVars, current_task, tick, cr3, keys>>

task_create_fork ==
  /\ Call("fork")
  /\ next_pid <= MaxPid
  /\ \E t \in Task \ Live : AddTask(t, current_task)
  /\ ReturnToUser("fork", 1)
  /\ UNCHANGED <<current_task, tick, spot, cr3, keys>>

(* A malloc or the clone of the address space fails and is undone.          *)
ForkFails ==
  /\ Call("fork")
  /\ Oom \/ Live = Task
  /\ ReturnToUser("fork", -1)
  /\ UNCHANGED <<taskVars, current_task, tick, state, wakeup_tick, frame, spot, cr3,
                 keys>>

(* Mutant: wait collects anybody's zombie.                                  *)
AnyZombie(t) == state[t] = "zombie"

ZombieChild(t) == parent[t] = current_task /\ state[t] = "zombie"

(* The first zombie child in list order.                                   *)
FirstZombieChild(t) ==
  /\ ZombieChild(t)
  /\ \E k \in 0..MaxTask :
       /\ Walk(task_list)[k] = t
       /\ \A j \in 0..(k - 1) : ~ZombieChild(Walk(task_list)[j])

Prev(t) == CHOOSE p \in Live : next[p] = t

(* Mutant: the predecessor keeps its pointer.                               *)
UnlinkKeepsPrev(t) ==
  /\ next' = [next EXCEPT ![t] = Null]
  /\ task_list' = IF task_list # t THEN task_list
                  ELSE IF next[t] = t THEN Null ELSE next[t]

Unlink(t) ==
  /\ next' = [[next EXCEPT ![Prev(t)] = next[t]] EXCEPT ![t] = Null]
  /\ task_list' = IF task_list # t THEN task_list
                  ELSE IF next[t] = t THEN Null ELSE next[t]

(* Unlink t and free it: the task, its stack and its address space.         *)
Reap(t) ==
  /\ Unlink(t)
  /\ state' = [state EXCEPT ![t] = "free"]
  /\ parent' = [parent EXCEPT ![t] = Null]
  /\ pid' = [pid EXCEPT ![t] = 0]
  /\ exit_code' = [exit_code EXCEPT ![t] = 0]
  /\ wakeup_tick' = [wakeup_tick EXCEPT ![t] = 0]
  /\ frame' = [frame EXCEPT ![t] = Null]
  /\ spot' = [Spoiled(t, frame, spot) EXCEPT ![t] = NoSpot]

sched_wait ==
  /\ Call("wait")
  /\ \E t \in Live :
       /\ FirstZombieChild(t)
       /\ Reap(t)
       /\ ReturnToUser("wait", exit_code[t])
  /\ UNCHANGED <<next_pid, current_task, tick, cr3, keys>>

WaitFindsNone ==
  /\ Call("wait")
  /\ \A k \in 0..MaxTask : ~ZombieChild(Walk(task_list)[k])
  /\ ReturnToUser("wait", -1)
  /\ UNCHANGED <<taskVars, current_task, tick, state, wakeup_tick, frame, spot, cr3,
                 keys>>

(* sched_exec: the new address space replaces the old one; or the image is  *)
(* refused before anything changes; or loading it runs out of memory, and   *)
(* the kernel's page directory stays loaded; or the kernel itself faults,   *)
(* on a bad image pointer or on a page it could get no table for.           *)
sched_exec ==
  /\ Call("exec")
  /\ \/ ReturnToUser("exec", 0) /\ UNCHANGED cr3
     \/ ReturnToUser("exec", -1) /\ UNCHANGED cr3
     \/ Oom /\ ReturnToUser("exec", -1) /\ cr3' = Null
     \/ cpu' = At("panic") /\ ret' = NoRet /\ UNCHANGED cr3
  /\ UNCHANGED <<taskVars, current_task, tick, state, wakeup_tick, frame, spot, keys>>

(* handle_read with a key waiting, and without: hlt with interrupts off.    *)
handle_read ==
  /\ Call("read")
  /\ IF keys # <<>>
       THEN keys' = Tail(keys) /\ ReturnToUser("read", 1)
       ELSE cpu' = At("read") /\ ret' = NoRet /\ UNCHANGED keys
  /\ UNCHANGED <<taskVars, current_task, tick, state, wakeup_tick, frame, spot, cr3>>

(* page_fault_handler: user code touches a page it does not have.  Outside  *)
(* its own address space this is all it can do.                            *)
page_fault_handler ==
  /\ cpu.at = "user"
  /\ cpu' = At("panic")
  /\ ret' = NoRet
  /\ UNCHANGED <<taskVars, current_task, tick, state, wakeup_tick, frame, spot,
                 cr3, keys>>

-----------------------------------------------------------------------------
KernelStep == YieldPick \/ YieldSet \/ YieldGo \/ YieldPoll

Next ==
  \/ task_create_elf
  \/ BootWithoutTask
  \/ sched_tick
  \/ keyboard_handler
  \/ YieldPick
  \/ YieldSet
  \/ YieldGo
  \/ YieldPoll
  \/ MainPoll
  \/ PanicHalt
  \/ sched_exit_with
  \/ sched_sleep
  \/ task_create_fork
  \/ ForkFails
  \/ sched_wait
  \/ WaitFindsNone
  \/ sched_exec
  \/ handle_read
  \/ page_fault_handler

Spec == Init /\ [][Next]_vars

(***************************************************************************)
(* Fairness.  The CPU keeps executing the kernel's own instructions, and     *)
(* the PIT keeps interrupting: code that again and again passes a point      *)
(* where IrqAt allows an interrupt is hit by one sooner or later (with all   *)
(* points in IrqAt this is no more than weak fairness).  User programs and   *)
(* the person at the keyboard owe nothing, and nothing makes an overwritten  *)
(* frame lead astray.                                                      *)
(***************************************************************************)
FairSpec == Spec /\ SF_vars(sched_tick) /\ WF_vars(KernelStep /\ cpu'.at # "lost")

(* The same, when somebody keeps typing.                                    *)
TypingSpec == FairSpec /\ WF_vars(keyboard_handler)

-----------------------------------------------------------------------------
(***************************************************************************)
(* Properties.                                                             *)
(***************************************************************************)
States == {"free", "running", "sleeping", "zombie"}

Points == {"init", "main", "user", "read", "panic", "wild", "lost"} \cup LoopPoints

(* Every variable keeps the shape its C declaration gives it; the saved      *)
(* contexts lie on the stack of some task.                                 *)
TypeOK ==
  /\ task_list \in Ptr
  /\ current_task \in Ptr
  /\ next_pid \in Nat
  /\ tick \in 0..(TickMod - 1)
  /\ next \in [Task -> Ptr]
  /\ parent \in [Task -> Ptr]
  /\ pid \in [Task -> Nat]
  /\ exit_code \in [Task -> Int]
  /\ state \in [Task -> States]
  /\ wakeup_tick \in [Task -> 0..(TickMod - 1)]
  /\ frame \in [Task -> Ptr]
  /\ spot \in [Task -> [at : LoopPoints, nxt : Ptr, ok : BOOLEAN]]
  /\ cr3 \in Ptr
  /\ keys \in Seq(Keys)
  /\ cpu \in [at : Points, on : Ptr, nxt : Ptr]
  /\ ret \in [call : Syscalls \cup {"none"}, val : Int]

(* f lists the n tasks of S in the order of the pointers nx, from head round *)
(* to head again.                                                          *)
IsRing(f, n, S, head, nx) ==
  /\ \A i, j \in 1..n : f[i] = f[j] => i = j
  /\ \A i \in 1..n : f[i] \in S
  /\ \A t \in S : \E i \in 1..n : f[i] = t
  /\ n > 0 => f[1] = head
  /\ \A i \in 1..n : nx[f[i]] = f[IF i = n THEN 1 ELSE i + 1]

(* The task list is one cycle through exactly the live tasks, whatever       *)
(* forks, exits, waits and interrupts come in whatever order: the do-while   *)
(* loops of pick_next_task, sched_tick and sched_wait end, and miss no task. *)
RingIntegrity ==
  /\ task_list = Null <=> Live = {}
  /\ \E f \in [1..Cardinality(Live) -> Task] :
       IsRing(f, Cardinality(Live), Live, task_list, next)

(* current_task never dangles, unless yield() has loaded a pointer to a task *)
(* that was freed while yield() was interrupted.                           *)
CurrentLive ==
  current_task # Null /\ cpu.at # "wild" => current_task \in Live

(* User code and yield() run only once a task has been scheduled.            *)
Active == cpu.at \in {"user", "read"} \cup LoopPoints => current_task # Null

(* No task is its own parent, so wait never frees its caller.               *)
NotOwnParent == \A t \in Live : parent[t] # t

(* The inductive invariant of module SchedProof.                             *)
SchedInv == TypeOK /\ RingIntegrity /\ CurrentLive /\ Active /\ NotOwnParent

(* The scans along the list miss nobody: pick_next_task comes back without a   *)
(* task only if none is runnable, the tick handler wakes every sleeper whose  *)
(* time has come, and sched_wait reports no child only if none has exited.    *)
ScansMissNobody ==
  cpu.at # "wild" =>
    /\ (\E t \in Live : state[t] = "running") => ~NothingToRun(state)
    /\ \A t \in Live : state[t] = "sleeping" /\ wakeup_tick[t] <= tick =>
         Woken(tick)[t] = "running"
    /\ (\E t \in Live : ZombieChild(t)) =>
         \E k \in 0..MaxTask : ZombieChild(Walk(task_list)[k])

(* User code runs only as a task that is runnable: never a zombie, never a   *)
(* sleeper whose time has not come, never a freed task.                    *)
OnlyRunnableRuns ==
  /\ cpu.at # "wild"
  /\ cpu.at \in {"user", "read"} => current_task # Null /\ state[current_task] = "running"

(* The kernel never executes on, and never keeps a context on, the stack of  *)
(* another task; in particular not on a stack that sched_wait frees.        *)
StackSafe ==
  /\ InLoop => cpu.on \in Live
  /\ \A t \in Live : frame[t] \in {Null, t}

(***************************************************************************)
(* What makes the last two inductive when no interrupt hits yield() between  *)
(* its choice of a task and restore_context.                               *)
(***************************************************************************)
Quiet == IrqAt \cap {"set", "go"} = {}

(* yield() runs on the stack of current_task until it has switched.          *)
LoopOwnStack ==
  /\ cpu.at # "wild"
  /\ cpu.at \in {"pick", "set", "poll", "hlt"} => cpu.on = current_task
  /\ cpu.at = "go" => cpu.on \in Live
  /\ ~InLoop => cpu.on = Null

(* The task that runs, or is about to run, is a running one.                 *)
ChosenRuns ==
  /\ cpu.at \in {"user", "read", "go"} => state[current_task] = "running"
  /\ cpu.at = "set" => cpu.nxt \in Live /\ state[cpu.nxt] = "running"

(* A context saved inside yield() lies on the task's own stack, before the    *)
(* choice of the next task.                                                *)
FrameOwnStack ==
  \A t \in Live :
    /\ frame[t] \in {Null, t}
    /\ frame[t] = t => spot[t].at \in {"pick", "poll"}

QuietInv == LoopOwnStack /\ ChosenRuns /\ FrameOwnStack

(* User code never runs in the address space of another task; after an exec     *)
(* that ran out of memory it is left in the kernel's.                        *)
UserInOwnSpace ==
  cpu.at = "user" => cr3 = current_task \/ (Oom /\ cr3 = Null)

(* A task that has exited is never scheduled, put to sleep or woken again:   *)
(* it leaves the zombie state only when its parent collects it.            *)
ZombieStays ==
  [][\A t \in Task : state[t] = "zombie" =>
       \/ state'[t] = "zombie"
       \/ state'[t] = "free" /\ parent[t] = current_task /\ ret'.call = "wait"]_vars

(* While a task sleeps, and once it has exited, its saved context stays the  *)
(* frame of its own system call, however many ticks, keys and switches hit   *)
(* the yield() that idles on its stack: the tick never saves the idle loop   *)
(* as the context of a task that is not runnable.                          *)
SleepersKeepContext ==
  \A t \in Live : state[t] \in {"sleeping", "zombie"} => frame[t] = Null

(* The machine has stopped: no scheduling property can hold after that.      *)
Stopped == cpu.at \in {"panic", "wild", "lost", "read"}

RunsInUser(t) == cpu.at = "user" /\ current_task = t

Ready(t) == state[t] = "running" /\ frame[t] = Null

(* Round robin starves nobody: a runnable task gets the CPU, whatever the    *)
(* other tasks do.                                                         *)
RoundRobin == \A t \in Task : Ready(t) ~> (RunsInUser(t) \/ Stopped)

(* A sleeping task that is not the one whose yield() is idling the CPU gets  *)
(* back to its user code.                                                  *)
SleeperReturns ==
  \A t \in Task :
    (state[t] = "sleeping" /\ current_task # t) ~> (RunsInUser(t) \/ Stopped)

(* README: "Sleep for N ticks".  Every sleeper gets back to its user code.   *)
SleepReturns ==
  \A t \in Task : (state[t] = "sleeping") ~> (RunsInUser(t) \/ Stopped)

(* README: "Blocking keyboard read".  A read returns once keys are typed.    *)
ReadReturns == (cpu.at = "read") ~> (ret.call = "read")

(* README: "Wait for a child to exit".  The task that wait collects is a      *)
(* child of the caller, hence younger than the caller: a parent pointer is    *)
(* never taken for a pointer to a later task at the same address.           *)
WaitCollectsOwnChild ==
  [][\A t \in Task : state[t] = "zombie" /\ state'[t] = "free" =>
       pid[current_task] < pid[t]]_vars

(* programs/hello.S prints an 'X' after an exec that fails: exec returns to   *)
(* its caller, which can go on only in its own address space.               *)
ExecFailReturns == ret = Returned("exec", -1) => cr3 = current_task

=============================================================================
