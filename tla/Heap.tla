-------------------------------- MODULE Heap --------------------------------
(***************************************************************************)
(* The kernel heap (src/kernel/heap.c): a first-fit allocator whose free     *)
(* blocks form a list in address order.                                     *)
(*                                                                         *)
(* An address is a byte offset from HEAP_START.  A block is the address of   *)
(* its header and its size, header included; heap_free is the linked list    *)
(* from its head on.  The header of a block that has been handed out lies    *)
(* in used, where free() finds its size.  The callers, task_create_elf,      *)
(* task_create_fork and sched_wait, run with interrupts off, so each call    *)
(* is one step.                                                            *)
(*                                                                         *)
(* vmm_alloc_page takes a frame or returns the null pointer; that the page   *)
(* it maps is then there in every address space is a matter of the VMM.      *)
(* base and last are no part of the code: where the blocks start, and what   *)
(* the last call was given and returned.                                    *)
(***************************************************************************)
EXTENDS Integers, Sequences, SequencesExt

CONSTANTS
  PageSize,    (* PAGE_SIZE                                                *)
  InitPages,   (* HEAP_INIT_PAGES                                          *)
  HeapAlign,   (* HEAP_ALIGN                                               *)
  MinBlock,    (* HEAP_MIN_BLOCK                                           *)
  Header,      (* sizeof(struct heap_block)                                *)
  Sizes,       (* the sizes that callers ask for                            *)
  FrameCounts  (* page frames the heap can get from pmm, per machine         *)

ASSUME HeapAssumption ==
  /\ {PageSize, InitPages, HeapAlign, MinBlock, Header} \subseteq Nat \ {0}
  /\ PageSize % HeapAlign = 0
  /\ MinBlock % HeapAlign = 0
  /\ Header % HeapAlign = 0
  /\ Header <= MinBlock
  /\ MinBlock <= PageSize
  /\ Sizes \subseteq Nat
  /\ FrameCounts \subseteq Nat

VARIABLES heap_free, heap_top, used, frames, base, last

vars == <<heap_free, heap_top, used, frames, base, last>>

Block(a, s) == [addr |-> a, size |-> s]

Limit(b) == b.addr + b.size

RoundUp(x, to) == ((x + to - 1) \div to) * to

Called(op, n, b) == [op |-> op, n |-> n, block |-> b]

NullBlock == Block(0, 0)

(* heap_init: one block over all the initial pages; or, when the frames run   *)
(* out, an empty list and a heap_top past the pages it got.                 *)
Init ==
  /\ \E n \in FrameCounts :
       IF n >= InitPages
         THEN /\ heap_top = InitPages * PageSize
              /\ heap_free = <<Block(0, InitPages * PageSize)>>
              /\ base = 0
              /\ frames = n - InitPages
         ELSE /\ heap_top = n * PageSize
              /\ heap_free = <<>>
              /\ base = heap_top
              /\ frames = 0
  /\ used = {}
  /\ last = Called("init", 0, NullBlock)

(* Mutant: the header is not counted.                                       *)
NeededBare(n) ==
  LET r == RoundUp(n, HeapAlign) IN IF r < MinBlock THEN MinBlock ELSE r

(* The size of the block for a request of n bytes.  Kernel code asks for a    *)
(* struct task and for STACK_SIZE bytes, so the sum stays far below 2^32;      *)
(* requests for which the 32-bit sum would wrap are outside this model.        *)
Needed(n) ==
  LET r == RoundUp(Header + n, HeapAlign) IN IF r < MinBlock THEN MinBlock ELSE r

(* The first block of the list that is large enough.                         *)
FirstFit(i, n) ==
  /\ heap_free[i].size >= Needed(n)
  /\ \A j \in 1..(i - 1) : heap_free[j].size < Needed(n)

(* Mutant: the rest of a block is cut off even when no header fits in it.      *)
CarveAll(b, n) ==
  [got  |-> Block(b.addr, Needed(n)),
   rest |-> IF b.size > Needed(n)
            THEN <<Block(b.addr + Needed(n), b.size - Needed(n))>> ELSE <<>>]

(* Cut block b for a request of n bytes: what is handed out, and the rest of  *)
(* the block, if that is worth a block of its own.                          *)
Carve(b, n) ==
  IF b.size - Needed(n) >= MinBlock
    THEN [got  |-> Block(b.addr, Needed(n)),
          rest |-> <<Block(b.addr + Needed(n), b.size - Needed(n))>>]
    ELSE [got |-> b, rest |-> <<>>]

(* Mutant: a block that is used up stays on the list.                        *)
HandOutKeeps(before, b, after, n) ==
  /\ heap_free' = before
       \o (IF Carve(b, n).rest = <<>> THEN <<b>> ELSE Carve(b, n).rest) \o after
  /\ used' = used \cup {Carve(b, n).got}
  /\ last' = Called("malloc", n, Carve(b, n).got)

(* Block b, between two parts of the list, gives way to its rest.              *)
HandOut(before, b, after, n) ==
  /\ heap_free' = before \o Carve(b, n).rest \o after
  /\ used' = used \cup {Carve(b, n).got}
  /\ last' = Called("malloc", n, Carve(b, n).got)

MallocFit(n) ==
  /\ n # 0
  /\ \E i \in DOMAIN heap_free :
       /\ FirstFit(i, n)
       /\ HandOut(SubSeq(heap_free, 1, i - 1), heap_free[i],
                  SubSeq(heap_free, i + 1, Len(heap_free)), n)
  /\ UNCHANGED <<heap_top, frames, base>>

ReturnNull(n) ==
  /\ last' = Called("malloc", n, NullBlock)
  /\ UNCHANGED <<heap_free, heap_top, used, base>>

(* Mutant: a size that fills its pages exactly asks for one page more.         *)
GrowthLong(n) == (Needed(n) \div PageSize + 1) * PageSize

Growth(n) == RoundUp(Needed(n), PageSize)

(* How many blocks of the list the walk to address a passes.                   *)
Passed(a) ==
  LET k == SelectInSeq(heap_free, LAMBDA b : b.addr >= a)
  IN  IF k = 0 THEN Len(heap_free) ELSE k - 1

Below(a) == SubSeq(heap_free, 1, Passed(a))

Above(a) == SubSeq(heap_free, Passed(a) + 1, Len(heap_free))

(* The pages that a growth needs are taken one by one; when they run out, the *)
(* ones taken already stay taken.                                          *)
MallocGrow(n) ==
  /\ n # 0
  /\ \A i \in DOMAIN heap_free : heap_free[i].size < Needed(n)
  /\ IF frames >= Growth(n) \div PageSize
       THEN /\ frames' = frames - Growth(n) \div PageSize
            /\ heap_top' = heap_top + Growth(n)
            /\ HandOut(Below(heap_top), Block(heap_top, Growth(n)), Above(heap_top), n)
            /\ UNCHANGED base
       ELSE frames' = 0 /\ ReturnNull(n)

MallocZero ==
  /\ 0 \in Sizes
  /\ ReturnNull(0)
  /\ UNCHANGED frames

malloc(n) == MallocFit(n) \/ MallocGrow(n)

(* Mutant: a block that is freed is not joined to the one before it.           *)
JoinUpOnly(pre, b, post) ==
  IF post # <<>> /\ Limit(b) = Head(post).addr
    THEN pre \o <<Block(b.addr, b.size + Head(post).size)>> \o Tail(post)
    ELSE pre \o <<b>> \o post

(* Mutant: the joined block keeps its old size.                              *)
JoinLosesSize(pre, b, post) ==
  IF post # <<>> /\ Limit(b) = Head(post).addr
    THEN pre \o <<b>> \o Tail(post)
    ELSE pre \o <<b>> \o post

(* The list with b between pre and post, joined to the neighbours it touches:  *)
(* the one above first.                                                    *)
Join(pre, b, post) ==
  LET touches == post # <<>> /\ Limit(b) = Head(post).addr
      up   == IF touches THEN Block(b.addr, b.size + Head(post).size) ELSE b
      rest == IF touches THEN Tail(post) ELSE post
  IN  IF pre # <<>> /\ Limit(Last(pre)) = up.addr
        THEN Front(pre) \o <<Block(Last(pre).addr, Last(pre).size + up.size)>> \o rest
        ELSE pre \o <<up>> \o rest

free(b) ==
  /\ heap_free' = Join(Below(b.addr), b, Above(b.addr))
  /\ used' = used \ {b}
  /\ last' = Called("free", 0, b)
  /\ UNCHANGED <<heap_top, frames, base>>

(* Callers free what malloc returned to them, once.                          *)
Next ==
  \/ \E n \in Sizes : malloc(n)
  \/ MallocZero
  \/ \E b \in used : free(b)

Spec == Init /\ [][Next]_vars

-----------------------------------------------------------------------------
FreeBlocks == {heap_free[i] : i \in DOMAIN heap_free}

Blocks == FreeBlocks \cup used

Bytes(b) == b.addr..(Limit(b) - 1)

(* Every header holds an address and a size; nothing handed out is listed.    *)
TypeOK ==
  /\ heap_free \in Seq([addr : Nat, size : Nat \ {0}])
  /\ used \subseteq [addr : Nat, size : Nat \ {0}]
  /\ heap_top \in Nat /\ frames \in Nat /\ base \in Nat
  /\ FreeBlocks \cap used = {}

(* No two of the blocks B overlap and together they fill lo to hi.             *)
Tiles(B, lo, hi) ==
  /\ \A b, c \in B : b # c => Limit(b) <= c.addr \/ Limit(c) <= b.addr
  /\ \A b \in B : lo <= b.addr /\ Limit(b) <= hi
  /\ \A b \in B : Limit(b) = hi \/ \E c \in B : c.addr = Limit(b)
  /\ lo < hi => \E b \in B : b.addr = lo

(* The free blocks and the blocks in use tile the heap: whatever was split,    *)
(* joined and grown, no two overlap and no byte is lost.                    *)
Tiled == Tiles(Blocks, base, heap_top)

(* The list is in address order and no two of its blocks touch: free() has    *)
(* joined all that can be joined, and growth has not undone that.           *)
Coalesced ==
  \A i \in 1..(Len(heap_free) - 1) : Limit(heap_free[i]) < heap_free[i + 1].addr

(* Blocks start and end on HEAP_ALIGN and can hold a list node, so a pointer   *)
(* from malloc is aligned and a freed block can be linked.                  *)
Aligned ==
  \A b \in Blocks :
    b.addr % HeapAlign = 0 /\ b.size % HeapAlign = 0 /\ b.size >= MinBlock

(* What malloc returns is new and has room for what was asked for: none of     *)
(* its bytes was in a block in use, and all of them belong to the heap.      *)
MallocFresh ==
  [][last'.op = "malloc" /\ last'.block # NullBlock =>
       /\ Header + last'.n <= last'.block.size
       /\ Limit(last'.block) <= heap_top'
       /\ \A b \in used : Bytes(b) \cap Bytes(last'.block) = {}]_vars

(* malloc refuses only when no free block would do and the frames have run    *)
(* out, and a refusal leaves every block as it was.                         *)
MallocRefuses ==
  [][last'.op = "malloc" /\ last'.n # 0 /\ last'.block = NullBlock =>
       /\ \A b \in FreeBlocks : b.size < Header + last'.n
       /\ frames * PageSize < Header + last'.n
       /\ heap_free' = heap_free /\ used' = used]_vars

=============================================================================
