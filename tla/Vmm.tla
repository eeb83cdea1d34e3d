-------------------------------- MODULE Vmm --------------------------------
(***************************************************************************)
(* Address spaces (src/kernel/vmm.c), and what the rest of the kernel does    *)
(* with them: kernel_main and exec load a program (src/kernel/elf.c), fork    *)
(* clones the caller's space, wait destroys that of the child it collects.    *)
(*                                                                         *)
(* Physical memory is mem: frame f, when it is a page directory or a page     *)
(* table, holds mem[f], one entry per word.  An entry is the frame it points   *)
(* at, 0 when it is not present; a frame keeps its contents when it is freed.  *)
(* Memory is mapped one to one by the low tables of the kernel's directory,    *)
(* and frame 0 is never handed out.  Flags are left out, the accessed bit that  *)
(* the processor sets in an entry included: two entries that point at the same  *)
(* table are taken to be equal.                                             *)
(*                                                                         *)
(* A kernel function that takes frames is an operator from memory to memory,   *)
(* where memory is a record of the free frames, mem, and how it went:          *)
(*   "ok"                                                                   *)
(*   "oom"    the function returned an error                                  *)
(*   "nomap"  vmm_map_page found no frame for a table and returned without a    *)
(*            mapping: the page's frame is taken, and nobody is told            *)
(*   "fault"  the kernel touched a page that is not mapped: it panics           *)
(*   "torn"   a clone ran out of frames inside a table: the clean-up frees       *)
(*            what the table's unwritten words point at (vmm.c:195-200)         *)
(*   "grown"  the kernel heap grew in a task's own copy of its table             *)
(* What memory is like after "torn" depends on what the table's frame held      *)
(* before, user data included; after "grown" the pages of the kernel heap are    *)
(* also the task's.  After these two and after a panic the model stops.        *)
(***************************************************************************)
EXTENDS Integers, FiniteSets, FiniteSetsExt

CONSTANTS
  NFrames,     (* frames 1..NFrames are free at boot                        *)
  Entries,     (* words of a page directory, and of a page table            *)
  ProgPages,   (* sizes, in pages, of the programs that exec is given        *)
  HeapRoom     (* tasks that the heap has room for before it must grow        *)

Frame == 1..NFrames

Word == 0..(Entries - 1)

(* Slots of a page directory: physical memory from 0 on, the kernel heap       *)
(* (0xD0000000), the program (0x08048000), its stack (0xB0000000), and the      *)
(* page at 0xE0001000 that kernel_main maps for the first task.              *)
LowTables == NFrames \div Entries + 1
LowSlots == 0..(LowTables - 1)
HeapSlot == Entries - 4
UserSlot == Entries - 3
StackSlot == Entries - 2
ModSlot == Entries - 1

(* The program's slot is above those that map memory, and the machine boots:     *)
(* vmm_init and kernel_main find the frames that they need.                  *)
ASSUME VmmAssumption ==
  /\ NFrames \in Nat \ {0}
  /\ Entries \in Nat \ {0}
  /\ LowTables <= HeapSlot
  /\ ProgPages \subseteq 1..Entries
  /\ ProgPages # {}
  /\ LowTables + 10 + Min(ProgPages) <= NFrames
  /\ HeapRoom \in Nat \ {0}

VARIABLES
  free, mem,
  spaces,   (* the page directories of the tasks                            *)
  own,      (* current_task->page_dir                                       *)
  cr3,      (* current_page_directory                                       *)
  lost,     (* frames that elf_load took for a stack and did not map          *)
  last      (* the last system call, whether it succeeded, and what it made   *)

vars == <<free, mem, spaces, own, cr3, lost, last>>

Blank == [w \in Word |-> 0]

kernel_pd == 1

Memory == [free |-> free, mem |-> mem, st |-> "ok"]

(* pmm_alloc_page: the lowest free frame.                                     *)
NextFrame(m) == Min(m.free)

Take(m) == [m EXCEPT !.free = @ \ {NextFrame(m)}]

Store(m, M) == [m EXCEPT !.mem = M]

Failed(m, how) == [m EXCEPT !.st = how]

(* The table of slot i is the kernel's own.                                   *)
Shared(m, pd, i) ==
  pd # kernel_pd /\ m.mem[pd][i] # 0 /\ m.mem[pd][i] = m.mem[kernel_pd][i]

(* A table is allocated when the slot has none, and copied when it has the     *)
(* kernel's; without a frame for it nothing is mapped, and nobody is told.     *)
vmm_map_page(m, pd, i, j, f) ==
  LET pt    == m.mem[pd][i]
      fresh == pt = 0 \/ Shared(m, pd, i)
      new   == NextFrame(m)
      table == IF pt = 0 THEN Blank ELSE m.mem[pt]
  IN  IF ~fresh THEN Store(m, [m.mem EXCEPT ![pt][j] = f])
      ELSE IF m.free = {} THEN Failed(m, "nomap")
      ELSE Store(Take(m), [m.mem EXCEPT ![new] = [table EXCEPT ![j] = f], ![pd][i] = new])

(* A page for (i, j), cleared by the caller (through its physical address if it  *)
(* is a stack, elf.c:34).                                                    *)
vmm_alloc_page(m, pd, i, j) ==
  IF m.st # "ok" THEN m
  ELSE IF m.free = {} THEN Failed(m, "oom")
  ELSE LET f == NextFrame(m)
       IN  vmm_map_page(Store(Take(m), [m.mem EXCEPT ![f] = Blank]), pd, i, j, f)

(* A page of the program is cleared at its own address (elf.c:25).               *)
ProgramPage(m, pd, k) ==
  LET a == vmm_alloc_page(m, pd, UserSlot, k)
  IN  IF a.st = "nomap" THEN Failed(a, "fault") ELSE a

(* Pages 0..n-1 of a program.                                                 *)
ProgramLoaded(m, pd, n) ==
  LET page[k \in 0..n] == IF k = 0 THEN m ELSE ProgramPage(page[k - 1], pd, k - 1)
  IN  page[n]

(* The program and its stack.  With "nomap" the caller is told that all is well.  *)
elf_load(m, pd, n) == vmm_alloc_page(ProgramLoaded(m, pd, n), pd, StackSlot, 0)

(* The new directory, in frame NextFrame(m), shares the kernel's tables.        *)
vmm_create_address_space(m) ==
  IF m.free = {} THEN Failed(m, "oom")
  ELSE Store(Take(m), [m.mem EXCEPT ![NextFrame(m)] = m.mem[kernel_pd]])

(* The slots whose tables are not the kernel's.                               *)
Private(m, pd) ==
  {i \in Word : m.mem[pd][i] # 0 /\ m.mem[pd][i] # m.mem[kernel_pd][i]}

Present(m, pt) == {m.mem[pt][j] : j \in Word} \ {0}

(* A directory, its own tables, and the pages that they map.                   *)
FramesOf(m, pd) ==
  {pd} \cup UNION {{m.mem[pd][i]} \cup Present(m, m.mem[pd][i]) : i \in Private(m, pd)}

(* Mutant: the pages are freed, the tables are not.                           *)
destroy_pages_only(m, pd) ==
  [m EXCEPT !.free = @ \cup {pd} \cup
     UNION {Present(m, m.mem[pd][i]) : i \in Private(m, pd)}]

vmm_destroy_address_space(m, pd) ==
  IF pd = kernel_pd THEN m ELSE [m EXCEPT !.free = @ \cup FramesOf(m, pd)]

(* Page j of a table of the clone: a copy in a new frame of the page that old     *)
(* maps, until the frames run out.                                          *)
CopyPage(s, old, new, j) ==
  LET page == s.mem[old][j]
      f    == NextFrame(s)
  IN  IF s.st # "ok" THEN s
      ELSE IF page = 0 THEN Store(s, [s.mem EXCEPT ![new][j] = 0])
      ELSE IF s.free = {} THEN Failed(s, "oom")
      ELSE Store(Take(s), [s.mem EXCEPT ![f] = s.mem[page], ![new][j] = f])

(* Mutant: the loop over the pages starts at the second one.                    *)
CopyPagesFromOne(m, old, new) ==
  LET done[k \in 0..(Entries - 1)] ==
        IF k = 0 THEN m ELSE CopyPage(done[k - 1], old, new, k)
  IN  done[Entries - 1]

CopyPages(m, old, new) ==
  LET done[k \in 0..Entries] ==
        IF k = 0 THEN m ELSE CopyPage(done[k - 1], old, new, k - 1)
  IN  done[Entries]

(* Mutant: the child is given the parent's table itself.                       *)
CloneTableShares(m, pd, new_pd, i) ==
  Store(m, [m.mem EXCEPT ![new_pd][i] = m.mem[pd][i]])

(* The table of slot i.                                                       *)
CloneTable(m, pd, new_pd, i) ==
  LET new  == NextFrame(m)
      done == CopyPages(Take(m), m.mem[pd][i], new)
  IN  IF m.free = {} THEN Failed(m, "oom")
      ELSE IF done.st = "ok" THEN Store(done, [done.mem EXCEPT ![new_pd][i] = new])
      ELSE Failed(done, "torn")

vmm_clone_address_space(m, pd) ==
  LET new_pd == NextFrame(m)
      slot(s, i) == IF s.st = "ok" /\ i \in Private(m, pd)
                      THEN CloneTable(s, pd, new_pd, i) ELSE s
      done[k \in 0..Entries] ==
        IF k = 0 THEN vmm_create_address_space(m) ELSE slot(done[k - 1], k - 1)
  IN  IF m.free = {} THEN Failed(m, "oom")
      ELSE IF done[Entries].st = "oom" THEN vmm_destroy_address_space(done[Entries], new_pd)
      ELSE done[Entries]

-----------------------------------------------------------------------------
(* vmm_init: the kernel's directory and the tables that map memory one to one.    *)
(* The words of the last table that vmm_init does not write (vmm.c:37) count as   *)
(* empty; nothing below looks at them.                                       *)
AfterVmmInit ==
  LET map(m, i) ==
        LET f == NextFrame(m)
        IN  Store(Take(m), [m.mem EXCEPT
              ![kernel_pd][i] = f,
              ![f] = [w \in Word |-> IF i * Entries + w \in Frame
                                     THEN i * Entries + w ELSE 0]])
      done[k \in 0..LowTables] ==
        IF k = 0 THEN [free |-> Frame \ {kernel_pd}, mem |-> [f \in Frame |-> Blank],
                       st |-> "ok"]
        ELSE map(done[k - 1], k - 1)
  IN  done[LowTables]

(* kernel_main: a page mapped and unmapped at 0xE0000000, which leaves a table   *)
(* in the kernel's directory; the heap, here one page.                      *)
AfterHeapInit ==
  LET m == vmm_alloc_page(AfterVmmInit, kernel_pd, ModSlot, 0)
      f == m.mem[m.mem[kernel_pd][ModSlot]][0]
      u == [Store(m, [m.mem EXCEPT ![m.mem[kernel_pd][ModSlot]][0] = 0])
              EXCEPT !.free = @ \cup {f}]
  IN  vmm_alloc_page(u, kernel_pd, HeapSlot, 0)

(* kernel_main: the address space of the first task.                          *)
FirstSpace ==
  LET pd == NextFrame(AfterHeapInit)
      m  == elf_load(vmm_create_address_space(AfterHeapInit), pd, Min(ProgPages))
  IN  [pd |-> pd, m |-> vmm_alloc_page(m, pd, ModSlot, 1)]

Did(call, st, pd) == [call |-> call, st |-> st, pd |-> pd]

(* A machine that had the frames for it.                                      *)
Init ==
  /\ FirstSpace.m.st = "ok"
  /\ free = FirstSpace.m.free
  /\ mem = FirstSpace.m.mem
  /\ spaces = {FirstSpace.pd}
  /\ own = FirstSpace.pd
  /\ cr3 = own
  /\ lost = {}
  /\ last = Did("boot", "ok", own)

Running == last.st \in {"ok", "oom"}

(* User code makes system calls in its own space.                              *)
InUser == Running /\ cr3 = own

(* sched_tick and yield switch to the space of some task.                      *)
vmm_switch_address_space ==
  /\ Running
  /\ own' \in spaces
  /\ cr3' = own'
  /\ last' = Did("switch", "ok", own')
  /\ UNCHANGED <<free, mem, spaces, lost>>

(* malloc, for a new task: a heap that is full grows, and what it takes is       *)
(* mapped in the directory that is loaded; without any frame it returns 0.  The   *)
(* first page of the growth is shown.                                        *)
HeapFull == Cardinality(spaces) >= HeapRoom

AfterMalloc ==
  IF ~HeapFull THEN Memory
  ELSE IF free = {} THEN Failed(Memory, "oom")
  ELSE Failed(vmm_alloc_page(Memory, cr3, HeapSlot, 1), "grown")

(* task_create_fork: the task struct and the stack, then the address space.      *)
fork ==
  /\ InUser
  /\ LET h  == AfterMalloc
         pd == NextFrame(h)
         m  == IF h.st = "ok" THEN vmm_clone_address_space(h, own) ELSE h
     IN  /\ free' = m.free
         /\ mem' = m.mem
         /\ spaces' = IF m.st = "ok" THEN spaces \cup {pd} ELSE spaces
         /\ last' = Did("fork", m.st, IF m.st = "ok" THEN pd ELSE own)
  /\ UNCHANGED <<own, cr3, lost>>

(* sched_exec of a program of n pages.  On an error the kernel's directory      *)
(* stays loaded; a stack that could not be mapped is not an error.              *)
sched_exec(n) ==
  /\ InUser
  /\ free # {}
  /\ LET new_pd == NextFrame(Memory)
         dir == vmm_create_address_space(Memory)
         m == elf_load(dir, new_pd, n)
     IN  \/ /\ m.st \in {"ok", "nomap"}
            /\ LET d == vmm_destroy_address_space(m, own)
               IN  free' = d.free /\ mem' = d.mem
            /\ spaces' = (spaces \ {own}) \cup {new_pd}
            /\ own' = new_pd
            /\ cr3' = new_pd
            /\ lost' = IF m.st = "nomap"
                         THEN lost \cup {NextFrame(ProgramLoaded(dir, new_pd, n))} ELSE lost
            /\ last' = Did("exec", "ok", new_pd)
         \/ /\ m.st = "oom"
            /\ LET d == vmm_destroy_address_space(m, new_pd)
               IN  free' = d.free /\ mem' = d.mem
            /\ cr3' = kernel_pd
            /\ last' = Did("exec", "oom", own)
            /\ UNCHANGED <<spaces, own, lost>>
         \/ /\ m.st = "fault"
            /\ free' = m.free
            /\ mem' = m.mem
            /\ cr3' = new_pd
            /\ last' = Did("exec", "fault", own)
            /\ UNCHANGED <<spaces, own, lost>>

(* sched_exec when there is no frame for the directory.                        *)
ExecNoDirectory ==
  /\ InUser
  /\ free = {}
  /\ last' = Did("exec", "oom", own)
  /\ UNCHANGED <<free, mem, spaces, own, cr3, lost>>

(* Mutant: a task may collect itself.                                          *)
wait_for_anyone ==
  /\ InUser
  /\ \E pd \in spaces :
       /\ LET d == vmm_destroy_address_space(Memory, pd)
          IN  free' = d.free /\ mem' = d.mem
       /\ spaces' = spaces \ {pd}
  /\ last' = Did("wait", "ok", own)
  /\ UNCHANGED <<own, cr3, lost>>

(* sched_wait collects another task.                                          *)
sched_wait ==
  /\ InUser
  /\ \E pd \in spaces \ {own} :
       /\ LET d == vmm_destroy_address_space(Memory, pd)
          IN  free' = d.free /\ mem' = d.mem
       /\ spaces' = spaces \ {pd}
  /\ last' = Did("wait", "ok", own)
  /\ UNCHANGED <<own, cr3, lost>>

(* A panic, or the end of what the model says.                                 *)
Stopped == ~Running /\ UNCHANGED vars

Next ==
  \/ vmm_switch_address_space
  \/ fork
  \/ \E n \in ProgPages : sched_exec(n)
  \/ ExecNoDirectory
  \/ sched_wait
  \/ Stopped

Spec == Init /\ [][Next]_vars

-----------------------------------------------------------------------------
(* Frames hold frames; every space is a frame; a space is loaded that exists.   *)
TypeOK ==
  /\ free \subseteq Frame
  /\ mem \in [Frame -> [Word -> Frame \cup {0}]]
  /\ spaces \subseteq Frame
  /\ own \in spaces
  /\ cr3 \in Frame
  /\ lost \subseteq Frame
  /\ last.st \in {"ok", "oom", "fault", "torn", "grown"}

(* The kernel's directory, its tables, and the pages of its heap.                *)
KernelFrames(m) ==
  {kernel_pd} \cup Present(m, kernel_pd) \cup Present(m, m.mem[kernel_pd][HeapSlot])

(* Every frame has exactly one owner: it is free, the kernel's, part of one       *)
(* address space, or the frame of a stack that elf_load took and did not map     *)
(* (elf.c:32-36).  Apart from that one nothing is leaked; nothing in use is free,  *)
(* and no two tasks share a page.  So it is after any forks, execs and waits,    *)
(* those that fail for want of a directory, a page or a table included, until    *)
(* the machine panics, a fork runs out of frames inside a table (vmm.c:195-201,   *)
(* where the code breaks this) or the heap grows (heap.c:58, likewise).          *)
FramesExact ==
  Running =>
    /\ Frame = free \cup KernelFrames(Memory) \cup lost
                 \cup UNION {FramesOf(Memory, pd) : pd \in spaces}
    /\ free \cap KernelFrames(Memory) = {}
    /\ lost \cap (free \cup KernelFrames(Memory)) = {}
    /\ \A pd \in spaces : FramesOf(Memory, pd) \cap (free \cup lost \cup KernelFrames(Memory)) = {}
    /\ \A p, q \in spaces : p # q => FramesOf(Memory, p) \cap FramesOf(Memory, q) = {}

Mapped(M, pd) ==
  {at \in Word \X Word : M[pd][at[1]] # 0 /\ M[M[pd][at[1]]][at[2]] # 0}

(* A fork's child has pages where its parent has pages, and the parent's space   *)
(* is left alone.                                                          *)
ForkCopies ==
  [][last'.call = "fork" /\ last'.st = "ok" =>
       /\ Mapped(mem', last'.pd) = Mapped(mem, own)
       /\ \A f \in FramesOf(Memory, own) : mem'[f] = mem[f]]_vars

(* A call that returns an error for want of a frame gives back every frame it     *)
(* took, and no others, and has written to none that was in use: an exec without  *)
(* a frame for the directory, a page of the program or the stack, and a fork     *)
(* without one for the directory, a table or the heap.  Not the fork that runs    *)
(* out while it copies the pages of a table, whose outcome is "torn".          *)
FailureUndone ==
  [][last'.st = "oom" => free' = free /\ \A f \in Frame \ free : mem'[f] = mem[f]]_vars

=============================================================================
