------------------------------ MODULE PmmProof ------------------------------
(***************************************************************************)
(* Theorems about module Pmm, for every memory size, every memory map and    *)
(* every sequence of calls.                                                *)
(***************************************************************************)
EXTENDS Pmm, NumberLemmas, FiniteSetTheorems, TLAPS

(* The inductive invariant: the counter and the bitmap agree, and the bitmap  *)
(* is what boot marked and what callers hold.                               *)
PmmInv == TypeOK /\ FreeCountExact /\ BitmapExact

(* Sizes of finite sets.                                                   *)
LEMMA CardDiff ==
  ASSUME NEW A, IsFiniteSet(A), NEW S \in SUBSET A
  PROVE  /\ IsFiniteSet(S)
         /\ Cardinality(S) \in Nat
         /\ Cardinality(A) \in Nat
         /\ Cardinality(A \ S) = Cardinality(A) - Cardinality(S)
<1>1. IsFiniteSet(S) /\ Cardinality(S) \in Nat /\ Cardinality(A) \in Nat
  BY FS_Subset, FS_CardinalityType
<1>2. IsFiniteSet(A \ S) /\ Cardinality(A \ S) \in Nat
  BY FS_Subset, FS_CardinalityType
<1>3. Cardinality(S \cup (A \ S)) =
        Cardinality(S) + Cardinality(A \ S) - Cardinality(S \cap (A \ S))
  BY <1>1, <1>2, FS_Union
<1>4. S \cup (A \ S) = A /\ S \cap (A \ S) = {}
  OBVIOUS
<1>5. Cardinality(S \cap (A \ S)) = 0
  BY <1>4, FS_EmptySet, Zenon
<1>6. Cardinality(S \cup (A \ S)) = Cardinality(A)
  BY <1>4, Zenon
<1>7. Cardinality(A) = Cardinality(S) + Cardinality(A \ S) - 0
  BY <1>3, <1>5, <1>6, Zenon
<1> QED BY <1>1, <1>2, <1>7

(* The frames of the machine are finitely many.                              *)
LEMMA PagesFinite ==
  ASSUME TypeOK
  PROVE  /\ total_pages \in 1..MaxPages
         /\ IsFiniteSet(Pages)
         /\ Cardinality(Pages) = total_pages
         /\ IsFiniteSet(Free)
         /\ Cardinality(Free) \in Nat
<1>1. total_pages \in 1..MaxPages
  BY PmmAssumption DEF TypeOK
<1>2. IsFiniteSet(Pages) /\ Cardinality(Pages) = total_pages
  BY <1>1, PmmAssumption, FS_Interval DEF Pages
<1>3. IsFiniteSet(Free)
  BY <1>2, FS_Subset DEF Free
<1> QED BY <1>1, <1>2, <1>3, FS_CardinalityType

(* What pmm_init marks lies in memory.                                       *)
LEMMA MarkedInside ==
  ASSUME NEW b \in Boots
  PROVE  Marked(b) \subseteq 0..(TotalPages(b) - 1)
<1>1. 0 \in 0..(TotalPages(b) - 1)
  BY PmmAssumption
<1>2. KernelPages(b) \subseteq 0..(TotalPages(b) - 1)
  BY PmmAssumption
<1>3. ReservedPages(b) \subseteq 0..(TotalPages(b) - 1)
  BY DEF ReservedPages
<1> QED BY <1>1, <1>2, <1>3 DEF Marked

(* pmm_init: the overlapping marks are counted once each, and free_count      *)
(* does not wrap.                                                          *)
LEMMA PmmInit == Init => PmmInv
<1>. SUFFICES ASSUME Init PROVE PmmInv
  OBVIOUS
<1>1. boot \in Boots /\ total_pages = TotalPages(boot) /\ bitmap = Marked(boot)
  BY DEF Init
<1>2. total_pages \in 1..MaxPages /\ bitmap \subseteq Pages
  BY <1>1, MarkedInside, PmmAssumption DEF Pages
<1>3. IsFiniteSet(Pages) /\ Cardinality(Pages) = total_pages
  BY <1>2, PmmAssumption, FS_Interval DEF Pages
<1>4. /\ Cardinality(bitmap) \in Nat
      /\ Cardinality(Free) = total_pages - Cardinality(bitmap)
  BY <1>2, <1>3, CardDiff DEF Free
<1>5. Cardinality(Free) \in Nat
  BY <1>3, FS_Subset, FS_CardinalityType DEF Free
<1>6. free_count = Cardinality(Free)
  <2>1. total_pages - Cardinality(bitmap) \in 0..(AddrMod - 1)
    BY <1>2, <1>4, <1>5, PmmAssumption
  <2>2. free_count = (total_pages - Cardinality(bitmap)) % AddrMod
    BY DEF Init
  <2>3. \A x \in 0..(AddrMod - 1) : x % AddrMod = x
    BY PmmAssumption
  <2> QED BY <1>4, <2>1, <2>2, <2>3
<1>7. TypeOK
  BY <1>1, <1>2, <1>5, <1>6 DEF Init, TypeOK
<1>8. BitmapExact
  BY <1>1 DEF Init, BitmapExact
<1> QED BY <1>6, <1>7, <1>8 DEF PmmInv, FreeCountExact

(* Handing out free frames.                                                 *)
LEMMA HandOutInv ==
  ASSUME PmmInv, NEW S \in SUBSET Free, HandOut(S)
  PROVE  PmmInv'
<1>. USE DEF PmmInv
<1>1. /\ IsFiniteSet(Free) /\ Cardinality(S) \in Nat
      /\ Cardinality(Free \ S) = Cardinality(Free) - Cardinality(S)
  BY PagesFinite, CardDiff
<1>2. Pages' = Pages /\ boot' = boot /\ total_pages' = total_pages
  BY DEF HandOut, Pages
<1>3. Free' = Free \ S /\ bitmap' = bitmap \cup S /\ held' = held \cup S
  BY <1>2 DEF HandOut, Free
<1>4. FreeCountExact'
  BY <1>1, <1>3 DEF HandOut, FreeCountExact
<1>5. Cardinality(Free \ S) \in Nat
  BY <1>1, FS_Subset, FS_CardinalityType
<1>6. BitmapExact'
  BY <1>2, <1>3 DEF BitmapExact, Free
<1>7. TypeOK'
  <2>1. free_count' \in Nat
    BY <1>3, <1>4, <1>5 DEF FreeCountExact
  <2>2. last' \in [op : {"init", "alloc", "free"}, count : Nat, got : SUBSET Pages]
    BY <1>1 DEF HandOut, Free
  <2> QED BY <1>2, <1>3, <2>1, <2>2 DEF TypeOK, Free
<1> QED BY <1>4, <1>6, <1>7

(* A call that returns the null pointer.                                     *)
LEMMA ReturnNullInv ==
  ASSUME PmmInv, NEW n \in Nat, ReturnNull(n)
  PROVE  PmmInv'
<1>1. last' \in [op : {"init", "alloc", "free"}, count : Nat, got : SUBSET Pages]
  BY DEF ReturnNull
<1> QED BY <1>1
    DEF PmmInv, ReturnNull, TypeOK, FreeCountExact, BitmapExact, Free, Pages

(* Giving frames back, twice or past the end of memory too.                   *)
LEMMA TakeBackInv ==
  ASSUME PmmInv, NEW S, IsFiniteSet(S), MayFree(S), TakeBack(S)
  PROVE  PmmInv'
<1>. USE DEF PmmInv
<1>. DEFINE B == S \cap Pages \cap bitmap
<1>1. Pages' = Pages /\ boot' = boot /\ total_pages' = total_pages
  BY DEF TakeBack, Pages
<1>2. bitmap' = bitmap \ (S \cap Pages) /\ held' = held \ S
  BY DEF TakeBack
<1>3. Free' = Free \cup B /\ Free \cap B = {}
  BY <1>1, <1>2 DEF Free
<1>4. IsFiniteSet(Free) /\ IsFiniteSet(B) /\ Cardinality(B) \in Nat /\ Cardinality(Free) \in Nat
  BY PagesFinite, FS_Subset, FS_CardinalityType
<1>5. Cardinality(Free \cup B) = Cardinality(Free) + Cardinality(B)
  <2>1. Cardinality(Free \cup B) = Cardinality(Free) + Cardinality(B) - Cardinality(Free \cap B)
    BY <1>4, FS_Union
  <2>2. Cardinality(Free \cap B) = 0
    BY <1>3, FS_EmptySet, Zenon
  <2>3. Cardinality(Free \cup B) = Cardinality(Free) + Cardinality(B) - 0
    BY <2>1, <2>2, Zenon
  <2> HIDE DEF B
  <2> QED BY <1>4, <2>3
<1>6. free_count' = free_count + Cardinality(B)
  BY DEF TakeBack
<1>7. FreeCountExact'
  BY <1>3, <1>4, <1>5, <1>6 DEF FreeCountExact
<1>8. BitmapExact'
  <2>1. S \cap Marked(boot) = {}
    BY DEF MayFree
  <2>2. Marked(boot) \subseteq Pages /\ held \subseteq Pages
    BY MarkedInside DEF TypeOK, Pages
  <2> QED BY <1>1, <1>2, <2>1, <2>2 DEF BitmapExact
<1>9. TypeOK'
  <2>1. free_count' \in Nat
    BY <1>4, <1>6 DEF TypeOK
  <2>2. last' \in [op : {"init", "alloc", "free"}, count : Nat, got : SUBSET Pages]
    BY FS_CardinalityType DEF TakeBack
  <2> QED BY <1>1, <1>2, <2>1, <2>2 DEF TypeOK
<1> QED BY <1>7, <1>8, <1>9

(* A run that fits consists of free frames.                                  *)
LEMMA FitsFree ==
  ASSUME TypeOK, NEW i \in Pages, NEW n \in Nat, Fits(i, n)
  PROVE  Run(i, n) \subseteq Free
BY PagesFinite, PmmAssumption DEF Fits, Run, Free, Pages

(* Every call of the allocator keeps the counter and the bitmap exact.      *)
LEMMA PmmStep == PmmInv /\ [Next]_vars => PmmInv'
<1>. SUFFICES ASSUME PmmInv, [Next]_vars PROVE PmmInv'
  OBVIOUS
<1>0. TypeOK /\ MaxCount \in Nat
  BY PmmAssumption DEF PmmInv
<1>1. CASE UNCHANGED vars
  BY <1>1 DEF vars, PmmInv, TypeOK, FreeCountExact, BitmapExact, Free, Pages
<1>2. CASE pmm_alloc_page
  <2>1. ASSUME NEW i \in Free, HandOut({i}) PROVE PmmInv'
    BY <2>1, HandOutInv
  <2>2. CASE ReturnNull(1)
    BY <2>2, ReturnNullInv
  <2> QED BY <1>2, <2>1, <2>2 DEF pmm_alloc_page
<1>3. ASSUME NEW n \in 0..MaxCount, pmm_alloc_pages(n) PROVE PmmInv'
  <2>1. ASSUME NEW i \in Pages, Fits(i, n), HandOut(Run(i, n)) PROVE PmmInv'
    <3>1. Run(i, n) \subseteq Free
      BY <1>0, <2>1, FitsFree
    <3> QED BY <2>1, <3>1, HandOutInv
  <2>2. CASE ReturnNull(n)
    BY <1>0, <2>2, ReturnNullInv
  <2> QED BY <1>3, <2>1, <2>2 DEF pmm_alloc_pages
<1>4. CASE pmm_free_page
  <2>1. PICK p \in 0..MaxPages : MayFree({p}) /\ TakeBack({p})
    BY <1>4 DEF pmm_free_page
  <2>2. IsFiniteSet({p})
    BY FS_Singleton
  <2> QED BY <2>1, <2>2, TakeBackInv
<1>5. ASSUME NEW n \in 0..MaxCount, pmm_free_pages(n) PROVE PmmInv'
  <2>1. PICK p \in 0..MaxPages : MayFree(Run(p, n)) /\ TakeBack(Run(p, n))
    BY <1>5 DEF pmm_free_pages
  <2>2. IsFiniteSet(Run(p, n))
    BY <1>0, PmmAssumption, FS_Interval DEF Run
  <2> QED BY <2>1, <2>2, TakeBackInv
<1> QED BY <1>1, <1>2, <1>3, <1>4, <1>5 DEF Next

(* Hence they are exact in every sequence of calls.                         *)
LEMMA PmmInvariant == Spec => []PmmInv
BY PmmInit, PmmStep, PTL DEF Spec

(* Whatever is marked at boot, allocated, freed and freed twice, free_count    *)
(* is the number of clear bits.                                            *)
THEOREM CountIsExact == Spec => []FreeCountExact
<1>1. PmmInv => FreeCountExact
  BY DEF PmmInv
<1> QED BY <1>1, PmmInvariant, PTL

(* The bitmap is what boot marked and what callers hold, with nothing in      *)
(* both: no frame leaks and none that is held looks free.                   *)
THEOREM NothingLeaks == Spec => []BitmapExact
<1>1. PmmInv => BitmapExact
  BY DEF PmmInv
<1> QED BY <1>1, PmmInvariant, PTL

(* No step hands out a frame that is held, marked at boot, or not there.       *)
LEMMA StepFresh ==
  PmmInv /\ [Next]_vars =>
    [last'.op = "alloc" =>
       /\ last'.got \subseteq Pages
       /\ last'.got \cap (held \cup Marked(boot)) = {}]_vars
<1>. SUFFICES ASSUME PmmInv, Next, last'.op = "alloc"
              PROVE  /\ last'.got \subseteq Pages
                     /\ last'.got \cap (held \cup Marked(boot)) = {}
  BY DEF Next
<1>0. TypeOK /\ bitmap = Marked(boot) \cup held /\ MaxCount \in Nat
  BY PmmAssumption DEF PmmInv, BitmapExact
<1>1. ASSUME NEW S \in SUBSET Free, HandOut(S)
      PROVE  /\ last'.got \subseteq Pages
             /\ last'.got \cap (held \cup Marked(boot)) = {}
  BY <1>0, <1>1 DEF HandOut, Free
<1>2. ASSUME NEW n, ReturnNull(n) PROVE last'.got = {}
  BY <1>2 DEF ReturnNull
<1>3. ASSUME NEW S, TakeBack(S) PROVE FALSE
  BY <1>3 DEF TakeBack
<1>4. CASE pmm_alloc_page
  BY <1>1, <1>2, <1>4 DEF pmm_alloc_page
<1>5. ASSUME NEW n \in 0..MaxCount, pmm_alloc_pages(n)
      PROVE  /\ last'.got \subseteq Pages
             /\ last'.got \cap (held \cup Marked(boot)) = {}
  <2>1. ASSUME NEW i \in Pages, Fits(i, n), HandOut(Run(i, n))
        PROVE  /\ last'.got \subseteq Pages
               /\ last'.got \cap (held \cup Marked(boot)) = {}
    <3>1. Run(i, n) \subseteq Free
      BY <1>0, <2>1, FitsFree
    <3> QED BY <1>1, <2>1, <3>1
  <2> QED BY <1>2, <1>5, <2>1 DEF pmm_alloc_pages
<1> QED BY <1>3, <1>4, <1>5 DEF Next, pmm_free_page, pmm_free_pages

(* What pmm_alloc_page and pmm_alloc_pages return is memory that exists, that*)
(* nobody holds, and that pmm_init did not mark.                            *)
THEOREM AllocIsFresh == Spec => NoDoubleAlloc
BY StepFresh, PmmInvariant, PTL DEF Spec, NoDoubleAlloc

(* Every variable keeps its C type; free_count never goes below zero and no   *)
(* mark or holder lies past the end of memory.                             *)
THEOREM PmmTypes == Spec => []TypeOK
<1>1. PmmInv => TypeOK
  BY DEF PmmInv
<1> QED BY <1>1, PmmInvariant, PTL

(* A call that fails had no run to give: the counter that the early exits     *)
(* look at is exact, and the search is complete.                            *)
LEMMA StepNoFalseOom ==
  PmmInv /\ [Next]_vars =>
    [last'.op = "alloc" /\ last'.count # 0 /\ last'.got = {} =>
       \A i \in Pages : ~(Run(i, last'.count) \subseteq Free)]_vars
<1>. SUFFICES ASSUME PmmInv, Next,
                     last'.op = "alloc", last'.count # 0, last'.got = {},
                     NEW i \in Pages, Run(i, last'.count) \subseteq Free
              PROVE  FALSE
  BY DEF Next
<1>0. /\ TypeOK /\ MaxCount \in Nat /\ free_count = Cardinality(Free)
      /\ total_pages \in 1..MaxPages /\ MaxPages \in Nat
      /\ IsFiniteSet(Free) /\ Cardinality(Free) \in Nat
  BY PmmAssumption, PagesFinite DEF PmmInv, FreeCountExact
<1>1. ASSUME NEW S, HandOut(S) PROVE S = {} /\ last'.count = Cardinality(S)
  BY <1>1 DEF HandOut
<1>2. ASSUME NEW S, IsFiniteSet(S), HandOut(S) PROVE FALSE
  BY <1>1, <1>2, FS_EmptySet
<1>3. ASSUME NEW n, ReturnNull(n) PROVE last'.count = n
  BY <1>3 DEF ReturnNull
<1>4. CASE pmm_alloc_page
  <2>1. ASSUME NEW j, HandOut({j}) PROVE FALSE
    BY <1>2, <2>1, FS_Singleton
  <2>2. CASE (free_count = 0 \/ Free = {}) /\ ReturnNull(1)
    <3>1. Free = {}
      BY <1>0, <2>2, FS_EmptySet
    <3>2. i \in Run(i, last'.count)
      BY <1>0, <1>3, <2>2 DEF Run, Pages
    <3> QED BY <3>1, <3>2
  <2> QED BY <1>4, <2>1, <2>2 DEF pmm_alloc_page
<1>5. ASSUME NEW n \in 0..MaxCount, pmm_alloc_pages(n) PROVE FALSE
  <2>1. ASSUME NEW j \in Pages, HandOut(Run(j, n)) PROVE FALSE
    <3>1. IsFiniteSet(Run(j, n))
      BY <1>0, FS_Interval DEF Run, Pages
    <3> QED BY <1>2, <2>1, <3>1
  <2>2. CASE /\ n = 0 \/ free_count < n \/ \A j \in Pages : ~Fits(j, n)
             /\ ReturnNull(n)
    <3>1. n # 0 /\ Run(i, n) \subseteq Free
      BY <1>3, <2>2
    <3>2. n <= Cardinality(Free)
      <4>1. Cardinality(Run(i, n)) = n
        BY <1>0, <3>1, FS_Interval DEF Run, Pages
      <4>2. Cardinality(Run(i, n)) <= Cardinality(Free)
        BY <1>0, <3>1, FS_Subset
      <4> QED BY <4>1, <4>2
    <3>3. Fits(i, n)
      <4>1. i + n - 1 \in Run(i, n)
        BY <1>0, <3>1 DEF Run, Pages
      <4>2. i + n - 1 \in Pages /\ Run(i, n) \cap bitmap = {}
        BY <3>1, <4>1 DEF Free
      <4> QED BY <1>0, <4>2 DEF Fits, Pages
    <3> QED BY <1>0, <2>2, <3>1, <3>2, <3>3
  <2> QED BY <1>5, <2>1, <2>2 DEF pmm_alloc_pages
<1>6. ASSUME NEW S, TakeBack(S) PROVE FALSE
  BY <1>6 DEF TakeBack
<1> QED BY <1>4, <1>5, <1>6 DEF Next, pmm_free_page, pmm_free_pages

(* pmm_alloc_page and pmm_alloc_pages return the null pointer only when memory*)
(* holds no run of that many free frames.                                   *)
THEOREM OomIsReal == Spec => NoFalseOom
BY StepNoFalseOom, PmmInvariant, PTL DEF Spec, NoFalseOom

(* The size that pmm_init computes from the memory map.                       *)
LEMMA TotalMemType ==
  ASSUME NEW b \in Boots
  PROVE  TotalMem(b) \in Nat
<1>1. /\ b.mem \in 0..(AddrMod - 1) /\ AddrMod \in Nat \ {0}
      /\ b.mmap \subseteq Region
  BY PmmAssumption DEF BootInfo
<1>2. ASSUME NEW r \in b.mmap PROVE End(r) \in 0..(AddrMod - 1)
  <2>1. r.addr + r.len \in Nat
    BY <1>1 DEF Region
  <2> QED BY <1>1, <2>1 DEF End
<1>. DEFINE S == {0} \cup {End(r) : r \in b.mmap}
<1>3. S \in SUBSET (0..(AddrMod - 1)) /\ S # {}
  BY <1>1, <1>2
<1>4. Max(S) \in Nat
  <2> HIDE DEF S
  <2>1. AddrMod - 1 \in Nat
    BY <1>1
  <2>2. Max(S) \in S
    BY <1>3, <2>1, MaxBounded, Zenon
  <2>3. Max(S) \in 0..(AddrMod - 1)
    BY <1>3, <2>2, Zenon
  <2> QED BY <1>1, <2>3
<1>5. TotalMem(b) = IF Max(S) = 0 THEN b.mem ELSE Max(S)
  BY DEF TotalMem
<1> HIDE DEF S
<1> QED BY <1>1, <1>4, <1>5

(* The frames that pmm_init marks for a region include every frame that lies  *)
(* inside the region, although both ends are rounded up.                     *)
LEMMA ReservedCovered ==
  ASSUME NEW b \in Boots, NEW p \in 0..(TotalPages(b) - 1),
         NEW r \in b.mmap, r.type # 1, NoWrap(r),
         r.addr <= p * PageSize, (p + 1) * PageSize <= r.addr + r.len
  PROVE  p \in ReservedPages(b)
<1>. DEFINE m == TotalMem(b)
            e == Min({End(r), m})
<1>1. /\ PageSize \in Nat \ {0} /\ AddrMod \in Nat \ {0} /\ MaxPages \in Nat
      /\ r.addr \in Nat /\ r.len \in Nat
  BY PmmAssumption DEF BootInfo, Region
<1>2. m \in Nat /\ m \div PageSize \in Nat
  BY <1>1, TotalMemType, DivBounds
<1>. HIDE DEF m
<1>3. TotalPages(b) = IF m \div PageSize <= MaxPages THEN m \div PageSize ELSE MaxPages
  BY <1>1, <1>2, MinOfTwo DEF TotalPages, m
<1>4. p \in Nat /\ p + 1 <= m \div PageSize
  BY <1>1, <1>2, <1>3
<1>5. p * PageSize + PageSize <= m
  <2>1. PageSize * (p + 1) <= PageSize * (m \div PageSize)
    BY <1>1, <1>2, <1>4, Multiples
  <2>2. PageSize * (p + 1) = p * PageSize + PageSize /\ p * PageSize \in Int
    BY <1>1, <1>4, Multiples
  <2>3. PageSize * (m \div PageSize) <= m /\ PageSize * (m \div PageSize) \in Int
    BY <1>1, <1>2, DivBounds, Multiples
  <2> QED BY <1>1, <1>2, <2>1, <2>2, <2>3
<1>6. p * PageSize \in Int /\ (p + 1) * PageSize = p * PageSize + PageSize
  BY <1>1, <1>4
<1>7. r.addr < m
  BY <1>1, <1>2, <1>5, <1>6
<1>8. End(r) = r.addr + r.len
  <2>1. r.addr + r.len \in 0..(AddrMod - 1)
    BY <1>1 DEF NoWrap
  <2> QED BY <1>1, <2>1 DEF End
<1>9. e \in Nat /\ p * PageSize + PageSize <= e /\ e <= r.addr + r.len
  BY <1>1, <1>2, <1>5, <1>6, <1>8, MinOfTwo
<1>13. \A a \in Nat : a <= r.addr + r.len => RoundUp(a) = (a + PageSize - 1) \div PageSize
  <2>. SUFFICES ASSUME NEW a \in Nat, a <= r.addr + r.len
                PROVE  (a + PageSize - 1) % AddrMod = a + PageSize - 1
    BY DEF RoundUp
  <2>1. a + PageSize - 1 \in 0..(AddrMod - 1)
    BY <1>1 DEF NoWrap
  <2> QED BY <1>1, <2>1
<1>10. (r.addr + PageSize - 1) \div PageSize <= p
  <2>. DEFINE q == (r.addr + PageSize - 1) \div PageSize
  <2>1. q \in Nat /\ PageSize * q <= r.addr + PageSize - 1
    BY <1>1, DivBounds
  <2>. HIDE DEF q
  <2>2. PageSize * q < PageSize * (p + 1)
    BY <1>1, <1>4, <1>6, <2>1, Multiples
  <2>3. q < p + 1
    BY <1>1, <1>4, <2>1, <2>2, Multiples
  <2> QED BY <1>4, <2>1, <2>3 DEF q
<1>11. p < (e + PageSize - 1) \div PageSize
  <2>. HIDE DEF e
  <2>. DEFINE q == (e + PageSize - 1) \div PageSize
  <2>1. q \in Nat /\ e + PageSize - 1 < PageSize * q + PageSize
    <3>1. e + PageSize - 1 \in Nat
      BY <1>1, <1>9
    <3> QED BY <1>1, <3>1, DivBounds
  <2>. HIDE DEF q
  <2>2. PageSize * q \in Int /\ PageSize * p = p * PageSize
    BY <1>1, <1>4, <2>1, Multiples
  <2>3. PageSize * p < PageSize * q
    BY <1>1, <1>6, <1>9, <2>1, <2>2
  <2>4. p < q
    BY <1>1, <1>4, <2>1, <2>3, Multiples
  <2> QED BY <2>4 DEF q
<1>14. RoundUp(r.addr) <= p /\ p < RoundUp(e)
  <2>. HIDE DEF e
  <2>1. r.addr <= r.addr + r.len
    BY <1>1
  <2>2. RoundUp(r.addr) = (r.addr + PageSize - 1) \div PageSize
    BY <1>1, <1>13, <2>1
  <2>3. RoundUp(e) = (e + PageSize - 1) \div PageSize
    BY <1>9, <1>13
  <2> QED BY <1>10, <1>11, <2>2, <2>3
<1>12. /\ r.addr < TotalMem(b)
       /\ p < RoundUp(Min({End(r), TotalMem(b)}))
  BY <1>7, <1>14 DEF m
<1> QED BY <1>12, <1>14 DEF ReservedPages

(* On every machine, no caller ever holds a frame of a region that is not RAM  *)
(* and does not reach the last page below 2^32.                             *)
THEOREM ReservedStaysOut == Spec => []ReservedSafe
<1>1. PmmInv => ReservedSafe
  <2>. SUFFICES ASSUME PmmInv, NEW p \in held, NEW r \in boot.mmap, r.type # 1,
                       NoWrap(r), r.addr <= p * PageSize,
                       (p + 1) * PageSize <= r.addr + r.len
                PROVE  FALSE
    BY DEF ReservedSafe
  <2>1. /\ boot \in Boots /\ p \in 0..(TotalPages(boot) - 1)
        /\ Marked(boot) \cap held = {}
    BY DEF PmmInv, TypeOK, BitmapExact, Pages
  <2>2. p \in ReservedPages(boot)
    BY <2>1, ReservedCovered
  <2> QED BY <2>1, <2>2 DEF Marked
<1> QED BY <1>1, PmmInvariant, PTL

=============================================================================
