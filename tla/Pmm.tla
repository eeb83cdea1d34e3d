-------------------------------- MODULE Pmm --------------------------------
(***************************************************************************)
(* The physical page allocator (src/kernel/pmm.c): a bitmap with one bit    *)
(* per page frame, and a count of the free frames kept beside it.           *)
(*                                                                         *)
(* The bitmap is the set of its set bits.  Addresses are bytes; PageSize     *)
(* and the word size AddrMod (2^32) are parameters, so the rounding and the  *)
(* wrap-around of pmm_init are those of the code.                           *)
(*                                                                         *)
(* held and last are no part of the code: the frames that callers have and   *)
(* have not given back, and what the last call was and returned.            *)
(***************************************************************************)
EXTENDS Integers, FiniteSets, FiniteSetsExt

CONSTANTS
  PageSize,    (* PAGE_SIZE                                                *)
  MaxPages,    (* PMM_MAX_PAGES                                            *)
  AddrMod,     (* unsigned int is computed modulo AddrMod                   *)
  MaxCount,    (* bound: largest count passed to alloc_pages, free_pages    *)
  Boots        (* the machines to boot on: what the boot loader reports     *)

(***************************************************************************)
(* A boot record: the memory map as a set of regions (empty: flag 6 is not   *)
(* set), the memory size in bytes that flag 0 reports (0: not set), and the  *)
(* addresses of the kernel image.                                          *)
(***************************************************************************)
Region == [addr : 0..(AddrMod - 1), len : 0..(AddrMod - 1), type : Nat]

BootInfo == [mmap : SUBSET Region, mem : 0..(AddrMod - 1),
             kernel_start : 0..(AddrMod - 1), kernel_end : 0..(AddrMod - 1)]

End(r) == (r.addr + r.len) % AddrMod

TotalMem(b) ==
  LET m == Max({0} \cup {End(r) : r \in b.mmap})
  IN  IF m = 0 THEN b.mem ELSE m

TotalPages(b) == Min({TotalMem(b) \div PageSize, MaxPages})

(* The first frame that starts at or after a; the sum wraps.                 *)
RoundUp(a) == ((a + PageSize - 1) % AddrMod) \div PageSize

KernelPages(b) == (b.kernel_start \div PageSize)..(RoundUp(b.kernel_end) - 1)

(* Mutant: a region that reaches the end of memory is skipped, not clipped.    *)
ReservedPagesInside(b) ==
  {p \in 0..(TotalPages(b) - 1) : \E r \in b.mmap :
     /\ r.type # 1
     /\ End(r) < TotalMem(b)
     /\ RoundUp(r.addr) <= p
     /\ p < RoundUp(End(r))}

(* The frames of the regions that are not RAM.  Both ends are rounded up.     *)
ReservedPages(b) ==
  {p \in 0..(TotalPages(b) - 1) : \E r \in b.mmap :
     /\ r.type # 1
     /\ r.addr < TotalMem(b)
     /\ RoundUp(r.addr) <= p
     /\ p < RoundUp(Min({End(r), TotalMem(b)}))}

(* What pmm_init marks: frame 0, the kernel and the reserved regions.         *)
Marked(b) == {0} \cup KernelPages(b) \cup ReservedPages(b)

(* The kernel has been loaded into memory that is reported and that the       *)
(* bitmap covers.                                                          *)
ASSUME PmmAssumption ==
  /\ PageSize \in Nat \ {0}
  /\ MaxPages \in Nat \ {0}
  /\ AddrMod \in Nat \ {0}
  /\ MaxPages < AddrMod
  /\ MaxCount \in Nat
  /\ Boots \subseteq BootInfo
  /\ \A b \in Boots : TotalPages(b) \in 1..MaxPages
  /\ \A b \in Boots : KernelPages(b) \subseteq 0..(TotalPages(b) - 1)

VARIABLES boot, bitmap, free_count, total_pages, held, last

vars == <<boot, bitmap, free_count, total_pages, held, last>>

Pages == 0..(total_pages - 1)

Free == Pages \ bitmap

(* pmm_init.                                                               *)
Init ==
  /\ boot \in Boots
  /\ total_pages = TotalPages(boot)
  /\ bitmap = Marked(boot)
  /\ free_count = (total_pages - Cardinality(bitmap)) % AddrMod
  /\ held = {}
  /\ last = [op |-> "init", count |-> 0, got |-> {}]

(* Mutant: only the first bit of a run is set.                               *)
HandOutFirst(S) ==
  /\ bitmap' = bitmap \cup {Min(S)}
  /\ free_count' = free_count - Cardinality(S)
  /\ held' = held \cup S
  /\ last' = [op |-> "alloc", count |-> Cardinality(S), got |-> S]
  /\ UNCHANGED <<boot, total_pages>>

(* A call that hands out the frames of S, and one that finds none.           *)
HandOut(S) ==
  /\ bitmap' = bitmap \cup S
  /\ free_count' = free_count - Cardinality(S)
  /\ held' = held \cup S
  /\ last' = [op |-> "alloc", count |-> Cardinality(S), got |-> S]
  /\ UNCHANGED <<boot, total_pages>>

ReturnNull(n) ==
  /\ last' = [op |-> "alloc", count |-> n, got |-> {}]
  /\ UNCHANGED <<boot, bitmap, free_count, total_pages, held>>

(* The lowest clear bit.                                                   *)
pmm_alloc_page ==
  \/ /\ free_count # 0
     /\ \E i \in Free : (\A j \in Free : i <= j) /\ HandOut({i})
  \/ /\ free_count = 0 \/ Free = {}
     /\ ReturnNull(1)

Run(i, n) == i..(i + n - 1)

(* Mutant: the search stops one frame early.                                 *)
FitsEarly(i, n) == i < total_pages - n /\ Run(i, n) \cap bitmap = {}

(* Mutant: only the first bit of a run is looked at.                         *)
FitsFirst(i, n) == i <= total_pages - n /\ i \notin bitmap

(* Mutant: the search runs to the last frame whatever the count.              *)
FitsPastEnd(i, n) == Run(i, n) \cap bitmap = {}

(* n clear bits from i on, inside the loop bound i <= total_pages - n.        *)
Fits(i, n) == i <= total_pages - n /\ Run(i, n) \cap bitmap = {}

pmm_alloc_pages(n) ==
  \/ /\ n # 0 /\ n <= free_count
     /\ \E i \in Pages :
          /\ Fits(i, n)
          /\ \A j \in 0..(i - 1) : ~Fits(j, n)
          /\ HandOut(Run(i, n))
  \/ /\ n = 0 \/ free_count < n \/ \A i \in Pages : ~Fits(i, n)
     /\ ReturnNull(n)

(* Mutant: bits that are already clear are counted again.                    *)
TakeBackTwice(S) ==
  /\ bitmap' = bitmap \ (S \cap Pages)
  /\ free_count' = free_count + Cardinality(S \cap Pages)
  /\ held' = held \ S
  /\ last' = [op |-> "free", count |-> Cardinality(S), got |-> {}]
  /\ UNCHANGED <<boot, total_pages>>

(* Frames past the end and frames already free are passed over.              *)
TakeBack(S) ==
  /\ bitmap' = bitmap \ (S \cap Pages)
  /\ free_count' = free_count + Cardinality(S \cap Pages \cap bitmap)
  /\ held' = held \ S
  /\ last' = [op |-> "free", count |-> Cardinality(S), got |-> {}]
  /\ UNCHANGED <<boot, total_pages>>

(* Callers give back frames that they have, or, by mistake, ones that are     *)
(* free or that do not exist; never the kernel's or reserved ones.           *)
MayFree(S) == S \cap Marked(boot) = {}

pmm_free_page ==
  \E p \in 0..MaxPages : MayFree({p}) /\ TakeBack({p})

pmm_free_pages(n) ==
  \E p \in 0..MaxPages : MayFree(Run(p, n)) /\ TakeBack(Run(p, n))

Next ==
  \/ pmm_alloc_page
  \/ \E n \in 0..MaxCount : pmm_alloc_pages(n)
  \/ pmm_free_page
  \/ \E n \in 0..MaxCount : pmm_free_pages(n)

Spec == Init /\ [][Next]_vars

-----------------------------------------------------------------------------
(* Every variable has its C type; marks and holders stay inside memory.        *)
TypeOK ==
  /\ boot \in Boots
  /\ total_pages = TotalPages(boot)
  /\ bitmap \subseteq Pages
  /\ free_count \in Nat
  /\ held \subseteq Pages
  /\ last \in [op : {"init", "alloc", "free"}, count : Nat, got : SUBSET Pages]

(* The counter kept beside the bitmap never drifts from it: not after        *)
(* overlapping marks at boot, double frees, or runs that are partly free.     *)
FreeCountExact == free_count = Cardinality(Free)

(* The bitmap is exactly what boot marked and what callers hold; nothing      *)
(* leaks and nothing that is held looks free.                               *)
BitmapExact == bitmap = Marked(boot) \cup held /\ Marked(boot) \cap held = {}

(* What a call hands out is whole: frames of the machine that nobody holds     *)
(* and that boot did not mark.                                             *)
NoDoubleAlloc ==
  [][last'.op = "alloc" =>
       /\ last'.got \subseteq Pages
       /\ last'.got \cap (held \cup Marked(boot)) = {}]_vars

(* A call fails only when there really is no run of that many free frames:    *)
(* the early exits on free_count refuse nothing that could be given.         *)
NoFalseOom ==
  [][last'.op = "alloc" /\ last'.count # 0 /\ last'.got = {} =>
       \A i \in Pages : ~(Run(i, last'.count) \subseteq Free)]_vars

(* The region ends far enough below 2^32 that neither its end nor the          *)
(* rounding of its end wraps.                                              *)
NoWrap(r) == r.addr + r.len + PageSize - 1 < AddrMod

(* No frame that lies inside a region that is not RAM is ever handed out; only *)
(* a region that ends in the last page below 2^32, or beyond, is not kept out. *)
ReservedSafe ==
  \A p \in held : ~\E r \in boot.mmap :
    /\ r.type # 1
    /\ NoWrap(r)
    /\ r.addr <= p * PageSize
    /\ (p + 1) * PageSize <= r.addr + r.len

=============================================================================
