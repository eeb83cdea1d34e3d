------------------------------ MODULE VmmProof ------------------------------
(***************************************************************************)
(* Proofs about the address spaces of module Vmm.                           *)
(***************************************************************************)
EXTENDS Vmm, NumberLemmas

(* What the kernel's functions take and return.                              *)
MemState ==
  [free : SUBSET Frame, mem : [Frame -> [Word -> Frame \cup {0}]],
   st : {"ok", "oom", "nomap", "fault", "torn"}]

(* Page j of the table in slot i.                                            *)
Entry(m, pd, i, j) == m.mem[m.mem[pd][i]][j]

(* The slots of the kernel's directory, in numbers.                           *)
LEMMA Slots ==
  /\ NFrames \in Nat \ {0} /\ Entries \in Nat \ {0}
  /\ LowTables \in Nat \ {0} /\ LowTables <= HeapSlot
  /\ Word = 0..(Entries - 1) /\ kernel_pd \in Frame
  /\ LowSlots \subseteq Word
  /\ {HeapSlot, UserSlot, StackSlot, ModSlot} \subseteq Word
  /\ {HeapSlot, UserSlot, StackSlot, ModSlot} \cap LowSlots = {}
  /\ HeapSlot # UserSlot /\ HeapSlot # StackSlot /\ HeapSlot # ModSlot
  /\ UserSlot # StackSlot /\ UserSlot # ModSlot /\ StackSlot # ModSlot
<1>1. NFrames \in Nat \ {0} /\ Entries \in Nat \ {0} /\ LowTables <= HeapSlot
  BY VmmAssumption
<1>2. NFrames \div Entries \in Nat
  BY <1>1, DivBounds
<1> QED BY <1>1, <1>2
     DEF LowTables, HeapSlot, UserSlot, StackSlot, ModSlot, LowSlots, Word, Frame, kernel_pd

(* pmm_alloc_page returns a free frame when there is one.                      *)
LEMMA NextFree ==
  ASSUME NEW m, m.free \subseteq Frame, m.free # {}
  PROVE  NextFrame(m) \in m.free
<1>1. m.free \in SUBSET Nat
  BY DEF Frame
<1>2. \E x \in m.free : \A y \in m.free : x <= y
  BY <1>1, Least
<1> QED BY <1>2 DEF NextFrame, Min

(* The fields of a memory.                                                   *)
LEMMA Fields ==
  ASSUME NEW m \in MemState
  PROVE  /\ m.free \subseteq Frame
         /\ m.mem \in [Frame -> [Word -> Frame \cup {0}]]
         /\ m.st \in {"ok", "oom", "nomap", "fault", "torn"}
         /\ m = [free |-> m.free, mem |-> m.mem, st |-> m.st]
BY DEF MemState

(* Taking a frame, writing, freeing, and giving up.                            *)
LEMMA Ops ==
  ASSUME NEW m \in MemState
  PROVE  /\ Take(m) = [free |-> m.free \ {NextFrame(m)}, mem |-> m.mem, st |-> m.st]
         /\ \A t : Failed(m, t) = [free |-> m.free, mem |-> m.mem, st |-> t]
         /\ \A M : Store(m, M) = [free |-> m.free, mem |-> M, st |-> m.st]
         /\ \A F : [m EXCEPT !.free = F] = [free |-> F, mem |-> m.mem, st |-> m.st]
         /\ \A M : Store(Take(m), M) = [free |-> m.free \ {NextFrame(m)}, mem |-> M, st |-> m.st]
<1>1. m = [free |-> m.free, mem |-> m.mem, st |-> m.st]
  BY Fields
<1>2. \A F : [m EXCEPT !.free = F] = [free |-> F, mem |-> m.mem, st |-> m.st]
  BY <1>1
<1>3. \A M : Store(m, M) = [free |-> m.free, mem |-> M, st |-> m.st]
  BY <1>1 DEF Store
<1>4. \A t : Failed(m, t) = [free |-> m.free, mem |-> m.mem, st |-> t]
  BY <1>1 DEF Failed
<1>5. Take(m) = [free |-> m.free \ {NextFrame(m)}, mem |-> m.mem, st |-> m.st]
  BY <1>2 DEF Take
<1>6. \A M : Store(Take(m), M) = [free |-> m.free \ {NextFrame(m)}, mem |-> M, st |-> m.st]
  BY <1>5 DEF Store
<1> QED BY <1>2, <1>3, <1>4, <1>5, <1>6

(* A present entry is a frame.                                                *)
LEMMA EntryType ==
  ASSUME NEW m \in MemState, NEW f \in Frame
  PROVE  /\ m.mem[f] \in [Word -> Frame \cup {0}]
         /\ \A i \in Word : m.mem[f][i] \in Frame \cup {0}
         /\ \A i, j \in Word : m.mem[f][i] # 0 => Entry(m, f, i, j) \in Frame \cup {0}
<1>1. m.mem \in [Frame -> [Word -> Frame \cup {0}]]
  BY Fields
<1> QED BY <1>1 DEF Entry

-----------------------------------------------------------------------------
(* How vmm_alloc_page ends: no frame for the page; a frame for the page and      *)
(* none for the table; the page f in a table that the directory had; the page f  *)
(* in a new table.                                                         *)
NoPage(m, r) == m.free = {} /\ r = [free |-> m.free, mem |-> m.mem, st |-> "oom"]

NoTable(m, r) ==
  /\ r.st = "nomap"
  /\ \E f \in m.free : /\ m.free = {f}
                        /\ r.free = {}
                        /\ \A x \in Frame \ {f} : r.mem[x] = m.mem[x]

PageAdded(m, r, pd, i, j) ==
  LET pt == m.mem[pd][i]
  IN  /\ r.st = "ok" /\ pt # 0 /\ ~Shared(m, pd, i)
      /\ \E f \in m.free :
           /\ r.free = m.free \ {f}
           /\ r.mem[pt] = [m.mem[pt] EXCEPT ![j] = f]
           /\ \A x \in Frame \ {f, pt} : r.mem[x] = m.mem[x]

OldTable(m, pd, i) == IF m.mem[pd][i] = 0 THEN Blank ELSE m.mem[m.mem[pd][i]]

TableAdded(m, r, pd, i, j) ==
  /\ r.st = "ok" /\ (m.mem[pd][i] = 0 \/ Shared(m, pd, i))
  /\ \E f, t \in m.free :
       /\ f # t
       /\ r.free = m.free \ {f, t}
       /\ r.mem[pd] = [m.mem[pd] EXCEPT ![i] = t]
       /\ r.mem[t] = [OldTable(m, pd, i) EXCEPT ![j] = f]
       /\ \A x \in Frame \ {f, t, pd} : r.mem[x] = m.mem[x]

(* The state in which vmm_alloc_page calls vmm_map_page.                        *)
LEMMA PageCleared ==
  ASSUME NEW m \in MemState, m.free # {}, NEW f, f = NextFrame(m)
  PROVE  /\ f \in m.free
         /\ f \in Frame
         /\ Store(Take(m), [m.mem EXCEPT ![f] = Blank])
              = [free |-> m.free \ {f}, mem |-> [m.mem EXCEPT ![f] = Blank], st |-> m.st]
         /\ Store(Take(m), [m.mem EXCEPT ![f] = Blank]) \in MemState
         /\ [m.mem EXCEPT ![f] = Blank] \in [Frame -> [Word -> Frame \cup {0}]]
<1>1. f \in m.free /\ f \in Frame
  BY Fields, NextFree
<1>2. Blank \in [Word -> Frame \cup {0}]
  BY DEF Blank
<1>3. m.mem \in [Frame -> [Word -> Frame \cup {0}]]
  BY Fields
<1>. DEFINE M == [m.mem EXCEPT ![f] = Blank]
<1>4. M \in [Frame -> [Word -> Frame \cup {0}]]
  BY <1>1, <1>2, <1>3
<1>5. Store(Take(m), M) = [free |-> m.free \ {f}, mem |-> M, st |-> m.st]
  BY Ops
<1>6. m.free \ {f} \in SUBSET Frame /\ m.st \in {"ok", "oom", "nomap", "fault", "torn"}
  BY Fields
<1>7. Store(Take(m), M) \in MemState
  <2>. HIDE DEF M
  <2> QED BY <1>4, <1>5, <1>6 DEF MemState
<1> QED BY <1>1, <1>4, <1>5, <1>7

(* vmm_map_page keeps the type of memory.                                      *)
LEMMA MapType ==
  ASSUME NEW m \in MemState, NEW pd \in Frame, NEW i \in Word, NEW j \in Word, NEW f \in Frame
  PROVE  vmm_map_page(m, pd, i, j, f) \in MemState
<1>. DEFINE pt == m.mem[pd][i]
            new == NextFrame(m)
            table == IF pt = 0 THEN Blank ELSE m.mem[pt]
            fresh == pt = 0 \/ Shared(m, pd, i)
<1>1. /\ m.mem \in [Frame -> [Word -> Frame \cup {0}]]
      /\ m.free \in SUBSET Frame /\ m.st \in {"ok", "oom", "nomap", "fault", "torn"}
  BY Fields
<1>2. pt \in Frame \cup {0} /\ table \in [Word -> Frame \cup {0}]
  BY <1>1 DEF Blank
<1>3. CASE ~fresh
  <2>. DEFINE M == [m.mem EXCEPT ![pt][j] = f]
  <2>1. vmm_map_page(m, pd, i, j, f) = Store(m, M)
    BY <1>3 DEF vmm_map_page
  <2>2. pt \in Frame
    BY <1>2, <1>3
  <2>3. M \in [Frame -> [Word -> Frame \cup {0}]]
    <3>. HIDE DEF pt
    <3> QED BY <1>1, <2>2
  <2>. HIDE DEF M
  <2> QED BY <1>1, <2>1, <2>3, Ops DEF MemState
<1>4. CASE fresh /\ m.free = {}
  <2>1. vmm_map_page(m, pd, i, j, f) = Failed(m, "nomap")
    BY <1>4 DEF vmm_map_page
  <2> QED BY <1>1, <2>1, Ops DEF MemState
<1>5. CASE fresh /\ m.free # {}
  <2>. DEFINE T == [table EXCEPT ![j] = f]
              M == [m.mem EXCEPT ![new] = T, ![pd][i] = new]
  <2>1. vmm_map_page(m, pd, i, j, f) = Store(Take(m), M)
    BY <1>5 DEF vmm_map_page
  <2>2. new \in Frame
    BY <1>1, <1>5, NextFree
  <2>3. T \in [Word -> Frame \cup {0}]
    <3>. HIDE DEF table
    <3> QED BY <1>2
  <2>4. M \in [Frame -> [Word -> Frame \cup {0}]]
    <3>. HIDE DEF T, new
    <3> QED BY <1>1, <2>2, <2>3
  <2>5. m.free \ {new} \in SUBSET Frame
    BY <1>1
  <2>6. Store(Take(m), M) = [free |-> m.free \ {new}, mem |-> M, st |-> m.st]
    BY Ops
  <2>. HIDE DEF M
  <2> QED BY <1>1, <2>1, <2>4, <2>5, <2>6 DEF MemState
<1> QED BY <1>3, <1>4, <1>5

(* vmm_alloc_page keeps the type of memory.                                    *)
LEMMA AllocType ==
  ASSUME NEW m \in MemState, NEW pd \in Frame, NEW i \in Word, NEW j \in Word
  PROVE  vmm_alloc_page(m, pd, i, j) \in MemState
<1>1. CASE m.st # "ok"
  BY <1>1 DEF vmm_alloc_page
<1>2. CASE m.st = "ok" /\ m.free = {}
  <2>1. vmm_alloc_page(m, pd, i, j) = [free |-> m.free, mem |-> m.mem, st |-> "oom"]
    BY <1>2, Ops DEF vmm_alloc_page
  <2> QED BY <2>1, Fields DEF MemState
<1>3. CASE m.st = "ok" /\ m.free # {}
  <2>. DEFINE f == NextFrame(m)
              n == Store(Take(m), [m.mem EXCEPT ![f] = Blank])
  <2>1. vmm_alloc_page(m, pd, i, j) = vmm_map_page(n, pd, i, j, f)
    BY <1>3 DEF vmm_alloc_page
  <2>2. f \in Frame /\ n \in MemState
    BY <1>3, PageCleared
  <2> HIDE DEF f, n
  <2> QED BY <2>1, <2>2, MapType
<1> QED BY <1>1, <1>2, <1>3

(* The four ways in which vmm_alloc_page ends.                                  *)
LEMMA AllocPage ==
  ASSUME NEW m \in MemState, NEW pd \in Frame, NEW i \in Word, NEW j \in Word,
         m.st = "ok", pd \notin m.free, kernel_pd \notin m.free,
         m.mem[pd][i] \notin m.free, NEW r, r = vmm_alloc_page(m, pd, i, j)
  PROVE  \/ NoPage(m, r) \/ NoTable(m, r)
         \/ PageAdded(m, r, pd, i, j) \/ TableAdded(m, r, pd, i, j)
<1>1. CASE m.free = {}
  BY <1>1, Ops DEF vmm_alloc_page, NoPage
<1>2. CASE m.free # {}
  <2>. DEFINE f == NextFrame(m)
              M == [m.mem EXCEPT ![f] = Blank]
              n == Store(Take(m), M)
              pt == m.mem[pd][i]
  <2>1. r = vmm_map_page(n, pd, i, j, f)
    BY <1>2 DEF vmm_alloc_page
  <2>2. /\ f \in m.free /\ f \in Frame /\ n \in MemState
        /\ n = [free |-> m.free \ {f}, mem |-> M, st |-> m.st]
        /\ M \in [Frame -> [Word -> Frame \cup {0}]]
    BY <1>2, PageCleared
  <2>3. m.mem \in [Frame -> [Word -> Frame \cup {0}]] /\ m.free \subseteq Frame
    BY Fields
  <2>4. \A x \in Frame \ {f} : M[x] = m.mem[x]
    BY <2>2, <2>3
  <2>5. n.free = m.free \ {f} /\ n.mem = M /\ n.st = "ok"
    BY <2>2
  <2>6. pt \in Frame \cup {0}
    BY <2>3
  <2>. HIDE DEF M, n, f
  <2>7. M[pd] = m.mem[pd] /\ M[kernel_pd] = m.mem[kernel_pd] /\ (pt # 0 => M[pt] = m.mem[pt])
    BY <2>2, <2>4, <2>6, Slots
  <2>8. Shared(n, pd, i) <=> Shared(m, pd, i)
    BY <2>5, <2>7 DEF Shared
  <2>9. n.mem[pd][i] = pt
    BY <2>5, <2>7
  <2>10. CASE pt # 0 /\ ~Shared(m, pd, i)
    <3>1. r = Store(n, [n.mem EXCEPT ![pt][j] = f])
      BY <2>1, <2>8, <2>9, <2>10 DEF vmm_map_page
    <3>. DEFINE R == [M EXCEPT ![pt][j] = f]
    <3>a. r = Store(n, R)
      BY <2>5, <3>1
    <3>b. Store(n, R) = [free |-> n.free, mem |-> R, st |-> n.st]
      BY <2>2, Ops
    <3>2. r = [free |-> m.free \ {f}, mem |-> R, st |-> "ok"]
      <4>. HIDE DEF R
      <4> QED BY <3>a, <3>b, <2>5
    <3>3. R[pt] = [m.mem[pt] EXCEPT ![j] = f] /\ \A x \in Frame \ {f, pt} : R[x] = m.mem[x]
      <4>. HIDE DEF pt
      <4> QED BY <2>2, <2>4, <2>6, <2>7, <2>10
    <3>. HIDE DEF R
    <3>4. r.mem = R /\ r.free = m.free \ {f} /\ r.st = "ok"
      BY <3>2
    <3>5. PageAdded(m, r, pd, i, j)
      BY <2>2, <2>10, <3>3, <3>4 DEF PageAdded
    <3> QED BY <3>5
  <2>11. CASE (pt = 0 \/ Shared(m, pd, i)) /\ m.free = {f}
    <3>1. r = Failed(n, "nomap")
      BY <2>1, <2>5, <2>8, <2>9, <2>11 DEF vmm_map_page
    <3>2. r = [free |-> m.free \ {f}, mem |-> M, st |-> "nomap"]
      BY <2>2, <2>5, <3>1, Ops
    <3>3. NoTable(m, r)
      BY <2>2, <2>4, <2>11, <3>2 DEF NoTable
    <3> QED BY <3>3
  <2>12. CASE (pt = 0 \/ Shared(m, pd, i)) /\ m.free # {f}
    <3>. DEFINE t == NextFrame(n)
                T == [OldTable(m, pd, i) EXCEPT ![j] = f]
                R == [M EXCEPT ![t] = T, ![pd][i] = t]
    <3>1. n.free # {} /\ n.free \subseteq Frame
      BY <2>2, <2>3, <2>5, <2>12
    <3>2. t \in m.free \ {f}
      BY <2>5, <3>1, NextFree
    <3>3. (IF n.mem[pd][i] = 0 THEN Blank ELSE n.mem[n.mem[pd][i]]) = OldTable(m, pd, i)
      BY <2>5, <2>7, <2>9 DEF OldTable
    <3>4. r = Store(Take(n), [n.mem EXCEPT ![t] = T, ![pd][i] = t])
      BY <2>1, <2>8, <2>9, <2>12, <3>1, <3>3 DEF vmm_map_page
    <3>a. r = Store(Take(n), R)
      BY <2>5, <3>4
    <3>b. Store(Take(n), R) = [free |-> n.free \ {t}, mem |-> R, st |-> n.st]
      <4>. HIDE DEF R
      <4>1. \A Q : Store(Take(n), Q) = [free |-> n.free \ {NextFrame(n)}, mem |-> Q, st |-> n.st]
        BY <2>2, Ops
      <4> QED BY <4>1
    <3>5. r = [free |-> n.free \ {t}, mem |-> R, st |-> "ok"]
      <4>. HIDE DEF R
      <4> QED BY <3>a, <3>b, <2>5
    <3>. HIDE DEF t, T
    <3>6. t # pd /\ t \in Frame
      BY <2>3, <3>2
    <3>7. /\ R[pd] = [m.mem[pd] EXCEPT ![i] = t]
          /\ R[t] = T
          /\ \A x \in Frame \ {f, t, pd} : R[x] = m.mem[x]
      BY <2>2, <2>4, <2>7, <3>6
    <3>. HIDE DEF R
    <3>8. r.mem = R /\ r.free = m.free \ {f, t} /\ r.st = "ok"
      BY <2>5, <3>5
    <3>9. r.mem[t] = [OldTable(m, pd, i) EXCEPT ![j] = f]
      BY <3>7, <3>8 DEF T
    <3>10. TableAdded(m, r, pd, i, j)
      BY <2>2, <2>12, <3>2, <3>7, <3>8, <3>9 DEF TableAdded
    <3> QED BY <3>10
  <2> QED BY <2>10, <2>11, <2>12
<1> QED BY <1>1, <1>2

-----------------------------------------------------------------------------
(* The kernel's directory has the heap and a table for the first task's extra    *)
(* page, which maps nothing; it has no program.  None of its frames is free.     *)
KernelOK(m) ==
  /\ m.mem[kernel_pd][HeapSlot] # 0
  /\ m.mem[kernel_pd][UserSlot] = 0
  /\ m.mem[kernel_pd][StackSlot] = 0
  /\ m.mem[kernel_pd][ModSlot] # 0
  /\ m.mem[m.mem[kernel_pd][ModSlot]] = Blank
  /\ m.free \cap KernelFrames(m) = {}

(* A directory has the kernel's tables for memory and the heap, and some table    *)
(* wherever the kernel has one.                                             *)
SameKernel(m, pd) ==
  /\ \A i \in LowSlots \cup {HeapSlot} : m.mem[pd][i] = m.mem[kernel_pd][i]
  /\ \A i \in Word : m.mem[kernel_pd][i] # 0 => m.mem[pd][i] # 0

(* Every frame of a space is there in one place: as the directory, as one of its  *)
(* own tables, or as one page of one of these.                                *)
Once(m, pd) ==
  LET P == Private(m, pd)
  IN  /\ \A i \in P : m.mem[pd][i] # pd
      /\ \A i \in P, j \in Word : Entry(m, pd, i, j) # pd
      /\ \A i, k \in P : m.mem[pd][i] = m.mem[pd][k] => i = k
      /\ \A i, k \in P, j \in Word : Entry(m, pd, i, j) # m.mem[pd][k]
      /\ \A i, k \in P, j, l \in Word :
           Entry(m, pd, i, j) # 0 /\ Entry(m, pd, i, j) = Entry(m, pd, k, l) => i = k /\ j = l

SpaceOK(m, pd) ==
  /\ FramesOf(m, pd) \cap (m.free \cup KernelFrames(m)) = {}
  /\ SameKernel(m, pd)
  /\ Once(m, pd)

(* The frames of a space, one by one.                                         *)
LEMMA InFramesOf ==
  ASSUME NEW m \in MemState, NEW pd \in Frame, NEW x
  PROVE  x \in FramesOf(m, pd) <=>
           \/ x = pd
           \/ \E i \in Private(m, pd) : x = m.mem[pd][i]
           \/ \E i \in Private(m, pd), j \in Word : x = Entry(m, pd, i, j) /\ x # 0
BY DEF FramesOf, Present, Entry

(* The frames of a space are frames.                                          *)
LEMMA FramesOfFrames ==
  ASSUME NEW m \in MemState, NEW pd \in Frame
  PROVE  /\ FramesOf(m, pd) \subseteq Frame
         /\ pd \in FramesOf(m, pd)
         /\ Private(m, pd) \subseteq Word
         /\ \A i \in Private(m, pd) : /\ m.mem[pd][i] \in Frame
                                      /\ m.mem[pd][i] \in FramesOf(m, pd)
<1>1. \A i \in Private(m, pd) : i \in Word /\ m.mem[pd][i] # 0
  BY DEF Private
<1>2. \A i \in Private(m, pd) : m.mem[pd][i] \in Frame
  BY <1>1, EntryType
<1>3. \A i \in Private(m, pd), j \in Word : Entry(m, pd, i, j) \in Frame \cup {0}
  BY <1>1, EntryType
<1>4. ASSUME NEW x \in FramesOf(m, pd) PROVE x \in Frame
  BY <1>2, <1>3, <1>4, InFramesOf
<1>5. pd \in FramesOf(m, pd) /\ \A i \in Private(m, pd) : m.mem[pd][i] \in FramesOf(m, pd)
  BY InFramesOf
<1> QED BY <1>1, <1>2, <1>4, <1>5

(* A space depends on its own frames and the kernel's directory only.           *)
LEMMA Keep ==
  ASSUME NEW m \in MemState, NEW n \in MemState, NEW pd \in Frame,
         \A x \in FramesOf(m, pd) \cup {kernel_pd} : n.mem[x] = m.mem[x]
  PROVE  /\ Private(n, pd) = Private(m, pd)
         /\ FramesOf(n, pd) = FramesOf(m, pd)
         /\ SameKernel(m, pd) => SameKernel(n, pd)
         /\ Once(m, pd) => Once(n, pd)
         /\ \A i \in Private(m, pd), j \in Word : Entry(n, pd, i, j) = Entry(m, pd, i, j)
<1>1. n.mem[pd] = m.mem[pd] /\ n.mem[kernel_pd] = m.mem[kernel_pd]
  BY FramesOfFrames
<1>2. Private(n, pd) = Private(m, pd)
  BY <1>1 DEF Private
<1>3. \A i \in Private(m, pd) : n.mem[n.mem[pd][i]] = m.mem[m.mem[pd][i]]
  BY <1>1, FramesOfFrames
<1>4. \A i \in Private(m, pd), j \in Word : Entry(n, pd, i, j) = Entry(m, pd, i, j)
  BY <1>3 DEF Entry
<1>5. FramesOf(n, pd) = FramesOf(m, pd)
  BY <1>1, <1>2, <1>4, InFramesOf
<1>6. SameKernel(m, pd) => SameKernel(n, pd)
  BY <1>1 DEF SameKernel
<1>7. Once(m, pd) => Once(n, pd)
  BY <1>1, <1>2, <1>4 DEF Once
<1> QED BY <1>2, <1>4, <1>5, <1>6, <1>7

(* What KernelOK is about does not change while the kernel's frames do not.       *)
LEMMA KernelKeep ==
  ASSUME NEW m \in MemState, NEW n \in MemState, KernelOK(m),
         \A x \in KernelFrames(m) : n.mem[x] = m.mem[x]
  PROVE  /\ KernelFrames(n) = KernelFrames(m)
         /\ n.free \subseteq m.free => KernelOK(n)
<1>1. kernel_pd \in KernelFrames(m) /\ n.mem[kernel_pd] = m.mem[kernel_pd]
  BY DEF KernelFrames
<1>2. \A i \in Word : m.mem[kernel_pd][i] # 0 => m.mem[kernel_pd][i] \in KernelFrames(m)
  BY DEF KernelFrames, Present
<1>3. HeapSlot \in Word /\ ModSlot \in Word
  BY Slots
<1>4. n.mem[m.mem[kernel_pd][HeapSlot]] = m.mem[m.mem[kernel_pd][HeapSlot]]
  BY <1>2, <1>3 DEF KernelOK
<1>5. n.mem[m.mem[kernel_pd][ModSlot]] = m.mem[m.mem[kernel_pd][ModSlot]]
  BY <1>2, <1>3 DEF KernelOK
<1>6. Present(n, kernel_pd) = Present(m, kernel_pd)
  BY <1>1 DEF Present
<1>7. Present(n, n.mem[kernel_pd][HeapSlot]) = Present(m, m.mem[kernel_pd][HeapSlot])
  BY <1>1, <1>4 DEF Present
<1>8. KernelFrames(n) = KernelFrames(m)
  BY <1>6, <1>7 DEF KernelFrames
<1>9. ASSUME n.free \subseteq m.free PROVE KernelOK(n)
  BY <1>1, <1>5, <1>8, <1>9 DEF KernelOK
<1> QED BY <1>8, <1>9

(* The kernel's tables are frames of the kernel.                               *)
LEMMA KernelTables ==
  ASSUME NEW m \in MemState, KernelOK(m)
  PROVE  /\ kernel_pd \in KernelFrames(m) /\ kernel_pd \notin m.free
         /\ \A i \in Word : m.mem[kernel_pd][i] # 0 =>
              m.mem[kernel_pd][i] \in KernelFrames(m) /\ m.mem[kernel_pd][i] \notin m.free
         /\ KernelFrames(m) \subseteq Frame
<1>1. kernel_pd \in KernelFrames(m)
  BY DEF KernelFrames
<1>2. \A i \in Word : m.mem[kernel_pd][i] # 0 => m.mem[kernel_pd][i] \in KernelFrames(m)
  BY DEF KernelFrames, Present
<1>3. m.free \cap KernelFrames(m) = {}
  BY DEF KernelOK
<1>4. ASSUME NEW f \in Frame PROVE Present(m, f) \subseteq Frame
  BY EntryType DEF Present
<1>5. m.mem[kernel_pd][HeapSlot] \in Frame
  BY Slots, EntryType DEF KernelOK
<1>6. KernelFrames(m) \subseteq Frame
  BY <1>4, <1>5, Slots DEF KernelFrames
<1> QED BY <1>1, <1>2, <1>3, <1>6

-----------------------------------------------------------------------------
(* Between m and r the space pd has grown by the frames that are no longer free,   *)
(* and nothing else has been touched; when a page could not be mapped only the    *)
(* directory is known to be sound.                                           *)
Grown(m, r, pd) ==
  /\ r \in MemState
  /\ r.free \subseteq m.free
  /\ \A x \in Frame \ (m.free \cup FramesOf(m, pd)) : r.mem[x] = m.mem[x]
  /\ KernelOK(r)
  /\ SameKernel(r, pd)
  /\ r.st \in {"ok", "oom"} =>
       SpaceOK(r, pd) /\ FramesOf(r, pd) = FramesOf(m, pd) \cup (m.free \ r.free)

(* A table t of frames that were free is put in slot i ...                          *)
TableMade(m, r, pd, i, t) ==
  /\ t \in m.free
  /\ r.free \subseteq m.free
  /\ r.mem[pd] = [m.mem[pd] EXCEPT ![i] = t]
  /\ \A x \in Frame \ (m.free \cup {pd}) : r.mem[x] = m.mem[x]
  /\ m.free \ r.free = {t} \cup Present(r, t)
  /\ \A j, l \in Word : r.mem[t][j] # 0 /\ r.mem[t][j] = r.mem[t][l] => j = l
  /\ t \notin Present(r, t)

(* ... which had none or the kernel's.                                            *)
TableJoined(m, r, pd, i, t) ==
  /\ m.mem[pd][i] = 0 \/ m.mem[pd][i] = m.mem[kernel_pd][i]
  /\ TableMade(m, r, pd, i, t)

(* A page f that was free is put in a vacant word of a table of the space.          *)
PageJoined(m, r, pd, i, j, f) ==
  LET pt == m.mem[pd][i]
  IN  /\ i \in Private(m, pd)
      /\ f \in m.free
      /\ m.mem[pt][j] = 0
      /\ r.free = m.free \ {f}
      /\ r.mem[pt] = [m.mem[pt] EXCEPT ![j] = f]
      /\ \A x \in Frame \ {f, pt} : r.mem[x] = m.mem[x]

(* A space that a table joins has grown by the frames of the table.                *)
LEMMA TableJoins ==
  ASSUME NEW m \in MemState, NEW r \in MemState, NEW pd \in Frame, NEW i \in Word, NEW t,
         KernelOK(m), SpaceOK(m, pd), i \notin LowSlots \cup {HeapSlot},
         TableJoined(m, r, pd, i, t)
  PROVE  /\ Grown(m, r, pd)
         /\ Private(r, pd) = Private(m, pd) \cup {i}
<1>1. /\ FramesOf(m, pd) \cap (m.free \cup KernelFrames(m)) = {}
      /\ SameKernel(m, pd) /\ Once(m, pd)
  BY DEF SpaceOK
<1>2. pd \in FramesOf(m, pd) /\ FramesOf(m, pd) \subseteq Frame
  BY FramesOfFrames
<1>3. m.free \subseteq Frame /\ r.free \subseteq m.free
  BY Fields DEF TableJoined, TableMade
<1>4. t \in m.free /\ t \in Frame /\ t # 0
  BY <1>3 DEF TableJoined, TableMade, Frame
<1>5. \A x \in KernelFrames(m) : r.mem[x] = m.mem[x]
  BY <1>1, <1>2, KernelTables DEF TableJoined, TableMade, KernelOK
<1>6. KernelFrames(r) = KernelFrames(m) /\ KernelOK(r)
  BY <1>3, <1>5, KernelKeep
<1>7. kernel_pd # pd /\ kernel_pd \in Frame /\ r.mem[kernel_pd] = m.mem[kernel_pd]
  BY <1>1, <1>2, <1>5, KernelTables, Slots
<1>8. /\ r.mem[pd][i] = t
      /\ \A k \in Word \ {i} : r.mem[pd][k] = m.mem[pd][k]
  BY EntryType DEF TableJoined, TableMade
<1>9. t # m.mem[kernel_pd][i]
  BY <1>4, KernelTables
<1>10. Private(r, pd) = Private(m, pd) \cup {i}
  BY <1>4, <1>7, <1>8, <1>9 DEF Private
<1>11. i \notin Private(m, pd)
  BY DEF TableJoined, TableMade, Private
<1>12. \A k \in Private(m, pd) : /\ k \in Word \ {i}
                                /\ r.mem[pd][k] = m.mem[pd][k]
                                /\ m.mem[pd][k] \in Frame \ (m.free \cup {pd})
  BY <1>1, <1>8, <1>11, FramesOfFrames DEF Once
<1>13. \A k \in Private(m, pd) : r.mem[m.mem[pd][k]] = m.mem[m.mem[pd][k]]
  BY <1>12 DEF TableJoined, TableMade
<1>14. \A k \in Private(m, pd), j \in Word : Entry(r, pd, k, j) = Entry(m, pd, k, j)
  BY <1>12, <1>13 DEF Entry
<1>15. \A j \in Word : Entry(r, pd, i, j) = r.mem[t][j]
  BY <1>8 DEF Entry
<1>16. Present(r, t) = {Entry(r, pd, i, j) : j \in Word} \ {0}
  BY <1>15 DEF Present
<1>17. m.free \ r.free = {t} \cup Present(r, t)
  BY DEF TableJoined, TableMade
<1>18. FramesOf(r, pd) = FramesOf(m, pd) \cup (m.free \ r.free)
  <2>1. ASSUME NEW x \in FramesOf(r, pd) PROVE x \in FramesOf(m, pd) \cup (m.free \ r.free)
    <3>1. CASE x = pd
      BY <1>2, <3>1
    <3>2. CASE \E k \in Private(r, pd) : x = r.mem[pd][k]
      BY <1>8, <1>10, <1>12, <1>17, <3>2, FramesOfFrames
    <3>3. CASE \E k \in Private(r, pd), j \in Word : x = Entry(r, pd, k, j) /\ x # 0
      BY <1>10, <1>14, <1>16, <1>17, <3>3, InFramesOf
    <3> QED BY <2>1, <3>1, <3>2, <3>3, InFramesOf
  <2>2. ASSUME NEW x \in FramesOf(m, pd) PROVE x \in FramesOf(r, pd)
    <3>1. CASE x = pd
      BY <3>1, FramesOfFrames
    <3>2. CASE \E k \in Private(m, pd) : x = m.mem[pd][k]
      BY <1>10, <1>12, <3>2, InFramesOf
    <3>3. CASE \E k \in Private(m, pd), j \in Word : x = Entry(m, pd, k, j) /\ x # 0
      BY <1>10, <1>14, <3>3, InFramesOf
    <3> QED BY <2>2, <3>1, <3>2, <3>3, InFramesOf
  <2>3. ASSUME NEW x \in m.free \ r.free PROVE x \in FramesOf(r, pd)
    BY <1>8, <1>10, <1>16, <1>17, <2>3, InFramesOf
  <2> QED BY <2>1, <2>2, <2>3
<1>19. FramesOf(r, pd) \cap (r.free \cup KernelFrames(r)) = {}
  BY <1>1, <1>3, <1>6, <1>18 DEF KernelOK
<1>20. SameKernel(r, pd)
  BY <1>1, <1>4, <1>7, <1>8, Slots DEF SameKernel
<1>21. Once(r, pd)
  <2>1. \A k \in Private(m, pd), j \in Word : Entry(m, pd, k, j) \in FramesOf(m, pd) \cup {0}
    BY InFramesOf
  <2>2. \A k \in Private(m, pd) : m.mem[pd][k] \in FramesOf(m, pd)
    BY FramesOfFrames
  <2>3. \A j \in Word : Entry(r, pd, i, j) \in (m.free \ r.free) \cup {0}
    BY <1>16, <1>17
  <2>4. pd \notin m.free /\ 0 \notin m.free /\ \A x \in FramesOf(m, pd) : x \notin m.free
    BY <1>1, <1>2, <1>3 DEF Frame
  <2>a. 0 \notin FramesOf(m, pd)
    BY <1>2 DEF Frame
  <2>5. \A j \in Word : Entry(r, pd, i, j) # t
    BY <1>4, <1>16 DEF TableJoined, TableMade
  <2>6. \A k \in Private(r, pd) : r.mem[pd][k] # pd
    BY <1>1, <1>4, <1>8, <1>10, <1>12, <2>4 DEF Once
  <2>7. \A k \in Private(r, pd), j \in Word : Entry(r, pd, k, j) # pd
    BY <1>1, <1>2, <1>10, <1>14, <2>3, <2>4, <2>a DEF Once
  <2>8. \A k, l \in Private(r, pd) : r.mem[pd][k] = r.mem[pd][l] => k = l
    BY <1>1, <1>4, <1>8, <1>10, <1>12, <2>2, <2>4 DEF Once
  <2>9. \A k, l \in Private(r, pd), j \in Word : Entry(r, pd, k, j) # r.mem[pd][l]
    <3>. SUFFICES ASSUME NEW k \in Private(r, pd), NEW l \in Private(r, pd), NEW j \in Word
                  PROVE  Entry(r, pd, k, j) # r.mem[pd][l]
      OBVIOUS
    <3>1. CASE k = i /\ l = i
      BY <1>8, <2>5, <3>1
    <3>2. CASE k = i /\ l # i
      BY <1>10, <1>12, <2>2, <2>3, <2>4, <2>a, <3>2
    <3>3. CASE k # i /\ l = i
      BY <1>4, <1>8, <1>10, <1>14, <2>1, <2>4, <3>3
    <3>4. CASE k # i /\ l # i
      BY <1>1, <1>10, <1>12, <1>14, <3>4 DEF Once
    <3> QED BY <3>1, <3>2, <3>3, <3>4
  <2>10. ASSUME NEW k \in Private(r, pd), NEW l \in Private(r, pd), NEW j \in Word, NEW h \in Word,
                Entry(r, pd, k, j) # 0, Entry(r, pd, k, j) = Entry(r, pd, l, h)
         PROVE  k = l /\ j = h
    <3>1. CASE k = i /\ l = i
      BY <1>15, <2>10, <3>1 DEF TableJoined, TableMade
    <3>2. CASE k = i /\ l # i
      <4>1. Entry(r, pd, k, j) \in m.free
        BY <2>3, <2>10, <3>2
      <4>2. Entry(r, pd, l, h) \in FramesOf(m, pd)
        BY <1>10, <1>14, <2>1, <2>10, <3>2
      <4> QED BY <2>4, <2>10, <4>1, <4>2
    <3>3. CASE k # i /\ l = i
      <4>1. Entry(r, pd, l, h) \in m.free
        BY <2>3, <2>10, <3>3
      <4>2. Entry(r, pd, k, j) \in FramesOf(m, pd)
        BY <1>10, <1>14, <2>1, <2>10, <3>3
      <4> QED BY <2>4, <2>10, <4>1, <4>2
    <3>4. CASE k # i /\ l # i
      BY <1>1, <1>10, <1>14, <2>10, <3>4 DEF Once
    <3> QED BY <3>1, <3>2, <3>3, <3>4
  <2>11. \A k, l \in Private(r, pd), j, h \in Word :
           Entry(r, pd, k, j) # 0 /\ Entry(r, pd, k, j) = Entry(r, pd, l, h) => k = l /\ j = h
    BY <2>10
  <2> QED BY <2>6, <2>7, <2>8, <2>9, <2>11 DEF Once
<1>22. \A x \in Frame \ (m.free \cup FramesOf(m, pd)) : r.mem[x] = m.mem[x]
  BY <1>2 DEF TableJoined, TableMade
<1> QED BY <1>3, <1>6, <1>10, <1>18, <1>19, <1>20, <1>21, <1>22 DEF Grown, SpaceOK

(* A space that a page joins has grown by it.                                    *)
LEMMA PageJoins ==
  ASSUME NEW m \in MemState, NEW r \in MemState, NEW pd \in Frame, NEW i \in Word,
         NEW j \in Word, NEW f, KernelOK(m), SpaceOK(m, pd), PageJoined(m, r, pd, i, j, f)
  PROVE  /\ Grown(m, r, pd)
         /\ Private(r, pd) = Private(m, pd)
<1>. DEFINE pt == m.mem[pd][i]
<1>1. /\ FramesOf(m, pd) \cap (m.free \cup KernelFrames(m)) = {}
      /\ SameKernel(m, pd) /\ Once(m, pd)
  BY DEF SpaceOK
<1>2. pd \in FramesOf(m, pd) /\ FramesOf(m, pd) \subseteq Frame
  BY FramesOfFrames
<1>3. m.free \subseteq Frame /\ r.free \subseteq m.free /\ r.free = m.free \ {f}
  BY Fields DEF PageJoined
<1>4. f \in m.free /\ f \in Frame /\ f # 0 /\ i \in Private(m, pd)
  BY <1>3 DEF PageJoined, Frame
<1>5. pt \in FramesOf(m, pd) /\ pt \in Frame /\ pt # f /\ pt # pd
  BY <1>1, <1>4, FramesOfFrames DEF Once
<1>6. \A x \in Frame \ {f, pt} : r.mem[x] = m.mem[x]
  BY DEF PageJoined
<1>7. m.mem[pt][j] = 0 /\ r.mem[pt] = [m.mem[pt] EXCEPT ![j] = f]
  BY DEF PageJoined
<1>. HIDE DEF pt
<1>8. r.mem[pt][j] = f /\ \A h \in Word \ {j} : r.mem[pt][h] = m.mem[pt][h]
  BY <1>5, <1>7, EntryType
<1>9. \A x \in KernelFrames(m) : r.mem[x] = m.mem[x]
  BY <1>1, <1>4, <1>5, <1>6, KernelTables DEF KernelOK
<1>10. KernelFrames(r) = KernelFrames(m) /\ KernelOK(r)
  BY <1>3, <1>9, KernelKeep
<1>11. r.mem[kernel_pd] = m.mem[kernel_pd] /\ r.mem[pd] = m.mem[pd]
  BY <1>1, <1>2, <1>4, <1>5, <1>6, <1>9, KernelTables
<1>12. Private(r, pd) = Private(m, pd)
  BY <1>11 DEF Private
<1>13. \A k \in Private(m, pd) : /\ k \in Word
                                /\ m.mem[pd][k] \in Frame \ {f}
                                /\ m.mem[pd][k] \in FramesOf(m, pd)
                                /\ (m.mem[pd][k] = pt => k = i)
  BY <1>1, <1>4, FramesOfFrames DEF Once, pt
<1>14. ASSUME NEW k \in Private(m, pd), NEW h \in Word
       PROVE  Entry(r, pd, k, h) = IF k = i /\ h = j THEN f ELSE Entry(m, pd, k, h)
  <2>1. CASE k = i
    BY <1>8, <1>11, <2>1 DEF Entry, pt
  <2>2. CASE k # i
    <3>1. r.mem[m.mem[pd][k]] = m.mem[m.mem[pd][k]]
      BY <1>6, <1>13, <2>2
    <3> QED BY <1>11, <2>2, <3>1 DEF Entry
  <2> QED BY <2>1, <2>2
<1>15. Entry(m, pd, i, j) = 0
  BY <1>7 DEF Entry, pt
<1>16. FramesOf(r, pd) = FramesOf(m, pd) \cup {f}
  <2>1. ASSUME NEW x \in FramesOf(r, pd) PROVE x \in FramesOf(m, pd) \cup {f}
    <3>1. CASE x = pd
      BY <1>2, <3>1
    <3>2. CASE \E k \in Private(r, pd) : x = r.mem[pd][k]
      BY <1>11, <1>12, <1>13, <3>2
    <3>3. CASE \E k \in Private(r, pd), h \in Word : x = Entry(r, pd, k, h) /\ x # 0
      BY <1>12, <1>14, <3>3, InFramesOf
    <3> QED BY <2>1, <3>1, <3>2, <3>3, InFramesOf
  <2>2. ASSUME NEW x \in FramesOf(m, pd) PROVE x \in FramesOf(r, pd)
    <3>1. CASE x = pd
      BY <3>1, FramesOfFrames
    <3>2. CASE \E k \in Private(m, pd) : x = m.mem[pd][k]
      BY <1>11, <1>12, <3>2, InFramesOf
    <3>3. CASE \E k \in Private(m, pd), h \in Word : x = Entry(m, pd, k, h) /\ x # 0
      BY <1>12, <1>14, <1>15, <3>3, InFramesOf
    <3> QED BY <2>2, <3>1, <3>2, <3>3, InFramesOf
  <2>3. f \in FramesOf(r, pd)
    BY <1>4, <1>12, <1>14, InFramesOf
  <2> QED BY <2>1, <2>2, <2>3
<1>17. FramesOf(r, pd) = FramesOf(m, pd) \cup (m.free \ r.free)
  BY <1>3, <1>4, <1>16
<1>18. FramesOf(r, pd) \cap (r.free \cup KernelFrames(r)) = {}
  BY <1>1, <1>3, <1>4, <1>10, <1>16 DEF KernelOK
<1>19. SameKernel(r, pd)
  BY <1>1, <1>11 DEF SameKernel
<1>20. Once(r, pd)
  <2>1. \A k \in Private(m, pd), h \in Word : Entry(m, pd, k, h) # f
    BY <1>1, <1>4, InFramesOf
  <2>2. f # pd
    BY <1>1, <1>2, <1>4
  <2>3. \A k \in Private(r, pd) : r.mem[pd][k] # pd
    BY <1>1, <1>11, <1>12 DEF Once
  <2>4. \A k \in Private(r, pd), h \in Word : Entry(r, pd, k, h) # pd
    BY <1>1, <1>12, <1>14, <2>2 DEF Once
  <2>5. \A k, l \in Private(r, pd) : r.mem[pd][k] = r.mem[pd][l] => k = l
    BY <1>1, <1>11, <1>12 DEF Once
  <2>6. \A k, l \in Private(r, pd), h \in Word : Entry(r, pd, k, h) # r.mem[pd][l]
    BY <1>1, <1>11, <1>12, <1>13, <1>14 DEF Once
  <2>7. ASSUME NEW k \in Private(r, pd), NEW l \in Private(r, pd), NEW g \in Word, NEW h \in Word,
               Entry(r, pd, k, g) # 0, Entry(r, pd, k, g) = Entry(r, pd, l, h)
        PROVE  k = l /\ g = h
    <3>1. CASE k = i /\ g = j
      BY <1>12, <1>14, <2>1, <2>7, <3>1
    <3>2. CASE l = i /\ h = j
      BY <1>12, <1>14, <2>1, <2>7, <3>2
    <3>3. CASE ~(k = i /\ g = j) /\ ~(l = i /\ h = j)
      BY <1>1, <1>12, <1>14, <2>7, <3>3 DEF Once
    <3> QED BY <3>1, <3>2, <3>3
  <2>8. \A k, l \in Private(r, pd), g, h \in Word :
          Entry(r, pd, k, g) # 0 /\ Entry(r, pd, k, g) = Entry(r, pd, l, h) => k = l /\ g = h
    BY <2>7
  <2> QED BY <2>3, <2>4, <2>5, <2>6, <2>8 DEF Once
<1>21. \A x \in Frame \ (m.free \cup FramesOf(m, pd)) : r.mem[x] = m.mem[x]
  BY <1>4, <1>5, <1>6
<1> QED BY <1>3, <1>10, <1>12, <1>17, <1>18, <1>19, <1>20, <1>21 DEF Grown, SpaceOK

(* Nothing has happened.                                                       *)
LEMMA GrownSame ==
  ASSUME NEW m \in MemState, NEW pd \in Frame, KernelOK(m), SpaceOK(m, pd), NEW r \in MemState,
         r.free = m.free, r.mem = m.mem
  PROVE  Grown(m, r, pd)
<1>1. \A x \in FramesOf(m, pd) \cup {kernel_pd} : r.mem[x] = m.mem[x]
  OBVIOUS
<1>2. FramesOf(r, pd) = FramesOf(m, pd) /\ SameKernel(r, pd) /\ Once(r, pd)
  BY <1>1, Keep DEF SpaceOK
<1>3. KernelFrames(r) = KernelFrames(m) /\ KernelOK(r)
  BY KernelKeep
<1>4. FramesOf(r, pd) \cap (r.free \cup KernelFrames(r)) = {}
  BY <1>2, <1>3 DEF SpaceOK
<1>5. FramesOf(r, pd) = FramesOf(m, pd) \cup (m.free \ r.free)
  BY <1>2
<1> QED BY <1>2, <1>3, <1>4, <1>5 DEF Grown, SpaceOK

(* A space that has grown and grows again has grown.                            *)
LEMMA GrownTwice ==
  ASSUME NEW m \in MemState, NEW q, NEW r, NEW pd \in Frame,
         Grown(m, q, pd), q.st \in {"ok", "oom"}, Grown(q, r, pd)
  PROVE  Grown(m, r, pd)
<1>1. q.free \subseteq m.free /\ FramesOf(q, pd) = FramesOf(m, pd) \cup (m.free \ q.free)
  BY DEF Grown
<1>2. r.free \subseteq m.free
  BY <1>1 DEF Grown
<1>3. \A x \in Frame \ (m.free \cup FramesOf(m, pd)) : r.mem[x] = m.mem[x]
  BY <1>1 DEF Grown
<1>4. r.st \in {"ok", "oom"} => FramesOf(r, pd) = FramesOf(m, pd) \cup (m.free \ r.free)
  BY <1>1 DEF Grown
<1> QED BY <1>2, <1>3, <1>4 DEF Grown

(* A page can be mapped at (i, j) and nothing is lost: the slot has no table, or   *)
(* the kernel's, which maps nothing, or one of its own in which the word is 0.    *)
Vacant(m, pd, i, j) ==
  LET pt == m.mem[pd][i]
  IN  \/ pt = 0
      \/ pt = m.mem[kernel_pd][i] /\ m.mem[pt] = Blank
      \/ pt # m.mem[kernel_pd][i] /\ m.mem[pt][j] = 0

(* vmm_alloc_page makes the space grow, or fails and leaves the rest alone; the    *)
(* other places stay vacant.  Its page is lost only for want of a table.        *)
LEMMA AllocGrows ==
  ASSUME NEW m \in MemState, NEW pd \in Frame, NEW i \in Word, NEW j \in Word,
         KernelOK(m), SpaceOK(m, pd), i \notin LowSlots \cup {HeapSlot},
         m.st = "ok", Vacant(m, pd, i, j), NEW r, r = vmm_alloc_page(m, pd, i, j)
  PROVE  /\ Grown(m, r, pd)
         /\ r.st \in {"ok", "oom", "nomap"}
         /\ r.st = "nomap" => NoTable(m, r)
         /\ r.st = "ok" => \A k, h \in Word : Vacant(m, pd, k, h) /\ <<k, h>> # <<i, j>>
                                                => Vacant(r, pd, k, h)
<1>. DEFINE pt == m.mem[pd][i]
<1>0. r \in MemState
  BY AllocType
<1>1. /\ FramesOf(m, pd) \cap (m.free \cup KernelFrames(m)) = {}
      /\ SameKernel(m, pd) /\ Once(m, pd)
  BY DEF SpaceOK
<1>2. pd \in FramesOf(m, pd) /\ FramesOf(m, pd) \subseteq Frame /\ pd \notin m.free
  BY <1>1, FramesOfFrames
<1>3. kernel_pd \notin m.free /\ kernel_pd # pd /\ kernel_pd \in Frame
  BY <1>1, <1>2, KernelTables, Slots
<1>4. m.free \subseteq Frame /\ 0 \notin m.free /\ 0 \notin Frame
  BY Fields DEF Frame
<1>5. pt \in Frame \cup {0}
  BY EntryType
<1>6. pt # 0 => \/ i \in Private(m, pd) /\ pt # m.mem[kernel_pd][i] /\ ~Shared(m, pd, i)
                \/ i \notin Private(m, pd) /\ pt = m.mem[kernel_pd][i] /\ Shared(m, pd, i)
  <2>1. i \in Private(m, pd) <=> pt # 0 /\ pt # m.mem[kernel_pd][i]
    BY DEF Private
  <2>2. Shared(m, pd, i) <=> pd # kernel_pd /\ pt # 0 /\ pt = m.mem[kernel_pd][i]
    BY DEF Shared
  <2>. HIDE DEF pt
  <2> QED BY <1>3, <2>1, <2>2, Zenon
<1>7. pt \notin m.free
  BY <1>1, <1>4, <1>6, FramesOfFrames, KernelTables
<1>8. \/ NoPage(m, r) \/ NoTable(m, r)
      \/ PageAdded(m, r, pd, i, j) \/ TableAdded(m, r, pd, i, j)
  BY <1>2, <1>3, <1>7, AllocPage
<1>9. CASE NoPage(m, r)
  <2>1. r.free = m.free /\ r.mem = m.mem /\ r.st = "oom"
    BY <1>9 DEF NoPage
  <2> QED BY <1>0, <2>1, GrownSame
<1>10. CASE NoTable(m, r)
  <2>1. PICK f \in m.free : r.free = m.free \ {f} /\ \A x \in Frame \ {f} : r.mem[x] = m.mem[x]
    BY <1>10 DEF NoTable
  <2>2. r.st = "nomap"
    BY <1>10 DEF NoTable
  <2>3. \A x \in KernelFrames(m) : r.mem[x] = m.mem[x]
    BY <2>1, KernelTables DEF KernelOK
  <2>4. KernelOK(r)
    BY <1>0, <2>1, <2>3, KernelKeep
  <2>5. \A x \in FramesOf(m, pd) \cup {kernel_pd} : r.mem[x] = m.mem[x]
    BY <1>1, <1>2, <1>3, <2>1
  <2>6. SameKernel(r, pd)
    BY <1>0, <1>1, <2>5, Keep
  <2> QED BY <1>0, <1>10, <2>1, <2>2, <2>4, <2>6 DEF Grown
<1>11. CASE PageAdded(m, r, pd, i, j)
  <2>1. PICK f \in m.free :
           /\ r.free = m.free \ {f}
           /\ r.mem[pt] = [m.mem[pt] EXCEPT ![j] = f]
           /\ \A x \in Frame \ {f, pt} : r.mem[x] = m.mem[x]
    BY <1>11 DEF PageAdded
  <2>2. pt # 0 /\ i \in Private(m, pd) /\ pt # m.mem[kernel_pd][i]
    BY <1>6, <1>11 DEF PageAdded
  <2>3. m.mem[pt][j] = 0
    BY <2>2 DEF Vacant
  <2>4. PageJoined(m, r, pd, i, j, f)
    BY <2>1, <2>2, <2>3 DEF PageJoined
  <2>5. Grown(m, r, pd)
    BY <1>0, <2>4, PageJoins
  <2>6. pt \in Frame /\ pt # pd /\ pt \in FramesOf(m, pd) /\ pt # kernel_pd
    BY <1>1, <2>2, FramesOfFrames, KernelTables DEF Once
  <2>7. r.mem[pd] = m.mem[pd] /\ r.mem[kernel_pd] = m.mem[kernel_pd]
    BY <1>2, <1>3, <2>1, <2>6
  <2>8. ASSUME NEW k \in Word, NEW h \in Word, Vacant(m, pd, k, h), <<k, h>> # <<i, j>>
        PROVE  Vacant(r, pd, k, h)
    <3>. DEFINE kt == m.mem[pd][k]
    <3>1. CASE kt = 0
      BY <2>7, <3>1 DEF Vacant
    <3>2. CASE kt # 0 /\ kt = m.mem[kernel_pd][k]
      <4>1. kt \in KernelFrames(m) /\ kt \notin m.free /\ kt \in Frame
        BY <3>2, KernelTables
      <4>2. r.mem[kt] = m.mem[kt]
        BY <1>1, <2>1, <2>6, <4>1
      <4> QED BY <2>7, <2>8, <3>2, <4>2 DEF Vacant
    <3>3. CASE kt # 0 /\ kt # m.mem[kernel_pd][k]
      <4>1. k \in Private(m, pd)
        BY <3>3 DEF Private
      <4>2. kt \in Frame /\ kt \notin m.free
        BY <1>1, <4>1, FramesOfFrames
      <4>3. CASE k = i
        <5>1. h # j /\ r.mem[pt][h] = m.mem[pt][h]
          BY <2>1, <2>6, <2>8, <4>3, EntryType
        <5> QED BY <2>7, <2>8, <3>3, <4>3, <5>1 DEF Vacant
      <4>4. CASE k # i
        <5>1. kt # pt
          BY <1>1, <2>2, <4>1, <4>4 DEF Once
        <5>2. r.mem[kt] = m.mem[kt]
          BY <2>1, <4>2, <5>1
        <5> QED BY <2>7, <2>8, <3>3, <5>2 DEF Vacant
      <4> QED BY <4>3, <4>4
    <3> QED BY <3>1, <3>2, <3>3
  <2>9. r.st = "ok"
    BY <1>11 DEF PageAdded
  <2> QED BY <2>5, <2>8, <2>9
<1>12. CASE TableAdded(m, r, pd, i, j)
  <2>1. PICK f \in m.free, t \in m.free :
       /\ f # t
       /\ r.free = m.free \ {f, t}
       /\ r.mem[pd] = [m.mem[pd] EXCEPT ![i] = t]
       /\ r.mem[t] = [OldTable(m, pd, i) EXCEPT ![j] = f]
       /\ \A x \in Frame \ {f, t, pd} : r.mem[x] = m.mem[x]
    BY <1>12 DEF TableAdded
  <2>2. pt = 0 \/ (pt = m.mem[kernel_pd][i] /\ pt # 0)
    BY <1>12 DEF TableAdded, Shared
  <2>3. OldTable(m, pd, i) = Blank
    BY <2>2 DEF OldTable, Vacant
  <2>4. r.mem[t] = [w \in Word |-> IF w = j THEN f ELSE 0]
    BY <2>1, <2>3 DEF Blank
  <2>5. Present(r, t) = {f}
    BY <1>4, <2>4 DEF Present
  <2>6. \A g, h \in Word : r.mem[t][g] # 0 /\ r.mem[t][g] = r.mem[t][h] => g = h
    BY <2>4
  <2>7. TableJoined(m, r, pd, i, t)
    BY <2>1, <2>2, <2>5, <2>6 DEF TableJoined, TableMade
  <2>8. Grown(m, r, pd) /\ Private(r, pd) = Private(m, pd) \cup {i}
    BY <1>0, <2>7, TableJoins
  <2>9. r.mem[kernel_pd] = m.mem[kernel_pd]
    BY <1>3, <2>1
  <2>10. r.mem[pd][i] = t /\ \A k \in Word \ {i} : r.mem[pd][k] = m.mem[pd][k]
    BY <2>1, EntryType
  <2>11. ASSUME NEW k \in Word, NEW h \in Word, Vacant(m, pd, k, h), <<k, h>> # <<i, j>>
         PROVE  Vacant(r, pd, k, h)
    <3>. DEFINE kt == m.mem[pd][k]
    <3>1. CASE k = i
      <4>1. h # j /\ r.mem[t][h] = 0
        BY <2>4, <2>11, <3>1
      <4>2. t # m.mem[kernel_pd][i]
        BY <1>4, KernelTables
      <4> QED BY <2>9, <2>10, <3>1, <4>1, <4>2 DEF Vacant
    <3>2. CASE k # i
      <4>1. r.mem[pd][k] = kt
        BY <2>10, <3>2
      <4>2. kt # 0 => kt \in Frame \ {f, t, pd}
        <5>1. kt \in Frame \cup {0}
          BY EntryType
        <5>2. CASE kt # 0 /\ kt = m.mem[kernel_pd][k]
          BY <1>1, <1>2, <5>1, <5>2, KernelTables
        <5>3. CASE kt # 0 /\ kt # m.mem[kernel_pd][k]
          <6>1. k \in Private(m, pd)
            BY <5>3 DEF Private
          <6> QED BY <1>1, <5>1, <6>1, FramesOfFrames DEF Once
        <5> QED BY <5>2, <5>3
      <4>3. kt # 0 => r.mem[kt] = m.mem[kt]
        BY <2>1, <4>2
      <4> QED BY <2>9, <2>11, <4>1, <4>3 DEF Vacant
    <3> QED BY <3>1, <3>2
  <2>12. r.st = "ok"
    BY <1>12 DEF TableAdded
  <2> QED BY <2>8, <2>11, <2>12
<1> QED BY <1>8, <1>9, <1>10, <1>11, <1>12

(* A page of the program: the same, but without a table the kernel faults.          *)
LEMMA ProgramPageType ==
  ASSUME NEW m \in MemState, NEW pd \in Frame, NEW k \in Word
  PROVE  ProgramPage(m, pd, k) \in MemState
<1>. DEFINE a == vmm_alloc_page(m, pd, UserSlot, k)
<1>1. a \in MemState
  BY AllocType, Slots
<1>2. ProgramPage(m, pd, k) = IF a.st = "nomap" THEN Failed(a, "fault") ELSE a
  BY DEF ProgramPage
<1>. HIDE DEF a
<1>3. Failed(a, "fault") = [free |-> a.free, mem |-> a.mem, st |-> "fault"]
  BY <1>1, Ops
<1>4. Failed(a, "fault") \in MemState
  BY <1>1, <1>3, Fields DEF MemState
<1> QED BY <1>1, <1>2, <1>4

(* It makes the space grow, or fails.                                            *)
LEMMA ProgramPageGrows ==
  ASSUME NEW m \in MemState, NEW pd \in Frame, NEW k \in Word,
         KernelOK(m), SpaceOK(m, pd), m.st = "ok", Vacant(m, pd, UserSlot, k),
         NEW r, r = ProgramPage(m, pd, k)
  PROVE  /\ Grown(m, r, pd)
         /\ r.st \in {"ok", "oom", "fault"}
         /\ r.st = "ok" => \A i, h \in Word : Vacant(m, pd, i, h) /\ <<i, h>> # <<UserSlot, k>>
                                                => Vacant(r, pd, i, h)
<1>. DEFINE a == vmm_alloc_page(m, pd, UserSlot, k)
<1>1. UserSlot \in Word /\ UserSlot \notin LowSlots \cup {HeapSlot}
  BY Slots
<1>2. a \in MemState
  BY <1>1, AllocType
<1>3. r = IF a.st = "nomap" THEN Failed(a, "fault") ELSE a
  BY DEF ProgramPage
<1>4. /\ Grown(m, a, pd)
      /\ a.st \in {"ok", "oom", "nomap"}
      /\ a.st = "ok" => \A i, h \in Word : Vacant(m, pd, i, h) /\ <<i, h>> # <<UserSlot, k>>
                                             => Vacant(a, pd, i, h)
  <2>. HIDE DEF a
  <2> QED BY <1>1, AllocGrows DEF a
<1>. HIDE DEF a
<1>5. CASE a.st # "nomap"
  BY <1>3, <1>4, <1>5
<1>6. CASE a.st = "nomap"
  <2>1. r = [free |-> a.free, mem |-> a.mem, st |-> "fault"]
    BY <1>2, <1>3, <1>6, Ops
  <2>2. r.free = a.free /\ r.mem = a.mem /\ r.st = "fault"
    BY <2>1
  <2>3. r \in MemState
    BY <1>2, <2>1, Fields DEF MemState
  <2>4. KernelOK(a) /\ SameKernel(a, pd) /\ a.free \subseteq m.free
        /\ \A x \in Frame \ (m.free \cup FramesOf(m, pd)) : a.mem[x] = m.mem[x]
    BY <1>4 DEF Grown
  <2>5. KernelOK(r)
    BY <1>2, <2>2, <2>3, <2>4, KernelKeep
  <2>6. SameKernel(r, pd)
    BY <2>2, <2>4 DEF SameKernel
  <2>7. Grown(m, r, pd)
    BY <2>2, <2>3, <2>4, <2>5, <2>6 DEF Grown
  <2> QED BY <2>2, <2>7
<1> QED BY <1>5, <1>6

-----------------------------------------------------------------------------
(* A new directory: one frame, with all that the kernel has and nothing else.     *)
NewDirectory(m, r, pd) ==
  /\ r \in MemState
  /\ r.st = "ok"
  /\ pd \in m.free
  /\ pd \in Frame
  /\ r.free = m.free \ {pd}
  /\ \A x \in Frame \ {pd} : r.mem[x] = m.mem[x]
  /\ KernelOK(r)
  /\ KernelFrames(r) = KernelFrames(m)
  /\ SpaceOK(r, pd)
  /\ FramesOf(r, pd) = {pd}
  /\ Private(r, pd) = {}
  /\ r.mem[pd] = r.mem[kernel_pd]

(* vmm_create_address_space, when there is a frame.                             *)
LEMMA CreateSpace ==
  ASSUME NEW m \in MemState, m.st = "ok", KernelOK(m), m.free # {}, NEW pd, pd = NextFrame(m)
  PROVE  NewDirectory(m, vmm_create_address_space(m), pd)
<1>. DEFINE M == [m.mem EXCEPT ![pd] = m.mem[kernel_pd]]
            r == vmm_create_address_space(m)
<1>1. m.free \subseteq Frame /\ m.mem \in [Frame -> [Word -> Frame \cup {0}]]
  BY Fields
<1>2. pd \in m.free /\ pd \in Frame
  BY <1>1, NextFree
<1>3. kernel_pd \in Frame /\ kernel_pd \notin m.free /\ kernel_pd # pd
  BY <1>2, KernelTables, Slots
<1>4. r = Store(Take(m), M)
  BY DEF vmm_create_address_space
<1>5. r = [free |-> m.free \ {pd}, mem |-> M, st |-> "ok"]
  BY <1>4, Ops
<1>6. M \in [Frame -> [Word -> Frame \cup {0}]]
  BY <1>1, <1>2, <1>3
<1>7. M[pd] = m.mem[kernel_pd] /\ \A x \in Frame \ {pd} : M[x] = m.mem[x]
  BY <1>1, <1>2
<1>. HIDE DEF M
<1>8. r \in MemState
  BY <1>1, <1>5, <1>6 DEF MemState
<1>9. r.free = m.free \ {pd} /\ r.mem = M /\ r.st = "ok"
  BY <1>5
<1>. HIDE DEF r
<1>10. \A x \in KernelFrames(m) : r.mem[x] = m.mem[x]
  BY <1>2, <1>7, <1>9, KernelTables DEF KernelOK
<1>11. KernelFrames(r) = KernelFrames(m) /\ KernelOK(r)
  BY <1>8, <1>9, <1>10, KernelKeep
<1>12. r.mem[pd] = r.mem[kernel_pd]
  BY <1>3, <1>7, <1>9
<1>13. Private(r, pd) = {}
  BY <1>12 DEF Private
<1>14. FramesOf(r, pd) = {pd}
  BY <1>13 DEF FramesOf
<1>15. FramesOf(r, pd) \cap (r.free \cup KernelFrames(r)) = {}
  BY <1>2, <1>9, <1>11, <1>14 DEF KernelOK
<1>16. SameKernel(r, pd) /\ Once(r, pd)
  BY <1>12, <1>13 DEF SameKernel, Once
<1>17. NewDirectory(m, r, pd)
  BY <1>2, <1>7, <1>8, <1>9, <1>11, <1>12, <1>13, <1>14, <1>15, <1>16 DEF NewDirectory, SpaceOK
<1> QED BY <1>17 DEF r

(* The program, the stack and the extra page are not there in a new directory.     *)
LEMMA NewVacant ==
  ASSUME NEW m \in MemState, NEW r, NEW pd, NewDirectory(m, r, pd)
  PROVE  \A h \in Word : /\ Vacant(r, pd, UserSlot, h)
                         /\ Vacant(r, pd, StackSlot, h)
                         /\ Vacant(r, pd, ModSlot, h)
BY DEF NewDirectory, KernelOK, Vacant

(* The rounds of elf_load's loop over pages.                                    *)
LEMMA ElfRounds ==
  ASSUME NEW m \in MemState, NEW pd \in Frame, NEW n \in 0..Entries
  PROVE  \E w \in [0..n -> MemState] :
           /\ w[0] = m
           /\ \A k \in 1..n : w[k] = ProgramPage(w[k - 1], pd, k - 1)
           /\ ProgramLoaded(m, pd, n) = w[n]
<1>. DEFINE F == [k \in 1..n |-> [s \in MemState |-> ProgramPage(s, pd, k - 1)]]
            body(w) == [k \in 0..n |-> IF k = 0 THEN m
                                       ELSE ProgramPage(w[k - 1], pd, k - 1)]
            c == CHOOSE w : w = body(w)
<1>a. n \in Nat
  BY Slots
<1>0. n \in Nat /\ \A k \in 1..n : k - 1 \in Word
  BY Slots
<1>1. \A k \in 1..n, s \in MemState : ProgramPage(s, pd, k - 1) \in MemState
  BY <1>0, ProgramPageType
<1>2. F \in [1..n -> [MemState -> MemState]]
  BY <1>1
<1>3. PICK w \in [0..n -> MemState] : IsRun(w, n, m, F)
  <2>. HIDE DEF F
  <2> QED BY <1>a, <1>2, Rounds
<1>4. \A k \in 1..n : w[k] = ProgramPage(w[k - 1], pd, k - 1)
  <2>1. \A k \in 1..n : w[k - 1] \in MemState
    BY <1>0
  <2>2. ASSUME NEW k \in 1..n PROVE F[k][w[k - 1]] = ProgramPage(w[k - 1], pd, k - 1)
    BY <2>1
  <2>. HIDE DEF F
  <2> QED BY <1>3, <2>2 DEF IsRun
<1>c. w[0] = m
  <2>. HIDE DEF F
  <2> QED BY <1>3 DEF IsRun
<1>5. w = body(w)
  <2>1. \A k \in 0..n : w[k] = IF k = 0 THEN m ELSE ProgramPage(w[k - 1], pd, k - 1)
    BY <1>0, <1>4, <1>c
  <2> QED BY <2>1
<1>6. c = body(c)
  BY <1>5
<1>7. ProgramLoaded(m, pd, n) = c[n]
  BY DEF ProgramLoaded
<1>. HIDE DEF c
<1>8. c[0] = m /\ \A k \in 1..n : c[k] = ProgramPage(c[k - 1], pd, k - 1)
  <2>1. /\ body(c)[0] = m
        /\ \A k \in 1..n : body(c)[k] = ProgramPage(c[k - 1], pd, k - 1)
    BY <1>0
  <2> QED BY <1>6, <2>1
<1>. DEFINE B == {l \in 0..n : c[l] = w[l]}
<1>9. \A k \in 0..n : k \in B
  <2>1. 0 \in B
    BY <1>0, <1>8, <1>c
  <2>2. \A k \in 1..n : k - 1 \in B => k \in B
    BY <1>4, <1>8
  <2>. HIDE DEF B
  <2> QED BY <1>a, <2>1, <2>2, UpTo
<1>10. c[n] = w[n]
  BY <1>0, <1>9
<1> QED BY <1>4, <1>7, <1>10, <1>c

(* The program's pages make the space grow, or it fails; the stack and an extra page  *)
(* can still be mapped.                                                      *)
LEMMA ProgramGrows ==
  ASSUME NEW m \in MemState, NEW pd \in Frame, NEW n \in 0..Entries,
         KernelOK(m), SpaceOK(m, pd), m.st = "ok",
         \A h \in Word : /\ Vacant(m, pd, UserSlot, h)
                         /\ Vacant(m, pd, StackSlot, h)
                         /\ Vacant(m, pd, ModSlot, h),
         NEW r, r = ProgramLoaded(m, pd, n)
  PROVE  /\ Grown(m, r, pd)
         /\ r \in MemState /\ r.st \in {"ok", "oom", "fault"}
         /\ r.st = "ok" => \A h \in Word : Vacant(r, pd, StackSlot, h) /\ Vacant(r, pd, ModSlot, h)
<1>1. PICK w \in [0..n -> MemState] :
           /\ w[0] = m
           /\ \A k \in 1..n : w[k] = ProgramPage(w[k - 1], pd, k - 1)
           /\ r = w[n]
  BY ElfRounds
<1>a. n \in Nat
  BY Slots
<1>0. /\ 0 \in Word /\ UserSlot \in Word /\ StackSlot \in Word /\ ModSlot \in Word
      /\ UserSlot \notin LowSlots \cup {HeapSlot} /\ StackSlot \notin LowSlots \cup {HeapSlot}
      /\ UserSlot # StackSlot /\ UserSlot # ModSlot /\ StackSlot # ModSlot
      /\ \A k \in 1..n : k - 1 \in Word
      /\ \A h \in Word : h \in Int
  BY Slots
<1>. DEFINE Ready(k) == \A h \in Word : /\ h >= k => Vacant(w[k], pd, UserSlot, h)
                                        /\ Vacant(w[k], pd, StackSlot, h)
                                        /\ Vacant(w[k], pd, ModSlot, h)
            B == {k \in 0..n : /\ Grown(m, w[k], pd)
                               /\ w[k].st \in {"ok", "oom", "fault"}
                               /\ w[k].st = "ok" => Ready(k)}
<1>2. 0 \in B
  <2>1. Grown(m, w[0], pd)
    BY <1>1, GrownSame
  <2>2. Ready(0)
    BY <1>1
  <2>3. w[0].st = "ok" /\ 0 \in 0..n
    BY <1>1, <1>a
  <2>. HIDE DEF Ready
  <2> QED BY <2>1, <2>2, <2>3
<1>3. ASSUME NEW k \in 1..n, k - 1 \in B PROVE k \in B
  <2>. DEFINE s == w[k - 1]
  <2>0. k - 1 \in 0..n /\ k \in 0..n /\ s \in MemState
    BY <1>a
  <2>1. Grown(m, s, pd) /\ s.st \in {"ok", "oom", "fault"} /\ (s.st = "ok" => Ready(k - 1))
    BY <1>3
  <2>2. w[k] = ProgramPage(s, pd, k - 1)
    BY <1>1
  <2>3. CASE s.st # "ok"
    <3>1. w[k] = s
      <4>1. vmm_alloc_page(s, pd, UserSlot, k - 1) = s
        BY <2>3 DEF vmm_alloc_page
      <4> QED BY <2>1, <2>2, <4>1 DEF ProgramPage
    <3>. HIDE DEF s, Ready
    <3> QED BY <2>0, <2>1, <2>3, <3>1
  <2>4. CASE s.st = "ok"
    <3>1. KernelOK(s) /\ SpaceOK(s, pd)
      BY <2>1, <2>4 DEF Grown
    <3>2. Ready(k - 1)
      BY <2>1, <2>4
    <3>3. Vacant(s, pd, UserSlot, k - 1)
      BY <1>0, <3>2
    <3>4. /\ Grown(s, w[k], pd)
          /\ w[k].st \in {"ok", "oom", "fault"}
          /\ w[k].st = "ok" => \A i, h \in Word : Vacant(s, pd, i, h) /\ <<i, h>> # <<UserSlot, k - 1>>
                                                    => Vacant(w[k], pd, i, h)
      <4>. HIDE DEF s
      <4>1. k - 1 \in Word
        BY <1>0
      <4> QED BY <1>0, <2>0, <2>2, <2>4, <3>1, <3>3, <4>1, ProgramPageGrows
    <3>5. Grown(m, w[k], pd)
      <4>. HIDE DEF s
      <4> QED BY <2>1, <2>4, <3>4, GrownTwice
    <3>6. ASSUME w[k].st = "ok" PROVE Ready(k)
      <4>1. ASSUME NEW h \in Word, h >= k PROVE Vacant(w[k], pd, UserSlot, h)
        <5>1. h >= k - 1 /\ h # k - 1
          BY <1>0, <4>1
        <5>2. Vacant(s, pd, UserSlot, h)
          BY <3>2, <5>1
        <5>3. <<UserSlot, h>> # <<UserSlot, k - 1>>
          BY <5>1
        <5>. HIDE DEF s
        <5> QED BY <1>0, <3>4, <3>6, <5>2, <5>3
      <4>2. ASSUME NEW h \in Word PROVE Vacant(w[k], pd, StackSlot, h) /\ Vacant(w[k], pd, ModSlot, h)
        <5>1. Vacant(s, pd, StackSlot, h) /\ Vacant(s, pd, ModSlot, h)
          BY <3>2
        <5>2. <<StackSlot, h>> # <<UserSlot, k - 1>> /\ <<ModSlot, h>> # <<UserSlot, k - 1>>
          BY <1>0
        <5>. HIDE DEF s
        <5> QED BY <1>0, <3>4, <3>6, <5>1, <5>2
      <4> QED BY <4>1, <4>2
    <3>. HIDE DEF Ready
    <3> QED BY <2>0, <3>4, <3>5, <3>6
  <2> QED BY <2>3, <2>4
<1>4. \A k \in 0..n : k \in B
  <2>. HIDE DEF B
  <2> QED BY <1>a, <1>2, <1>3, UpTo
<1>5. n \in B
  <2>. HIDE DEF B
  <2> QED BY <1>a, <1>4
<1>6. n \in 0..n /\ r \in MemState
  BY <1>1, <1>a
<1>7. Grown(m, r, pd) /\ r.st \in {"ok", "oom", "fault"} /\ (r.st = "ok" => Ready(n))
  <2>. HIDE DEF Ready
  <2> QED BY <1>1, <1>5
<1> QED BY <1>6, <1>7, <1>1

(* elf_load makes the space grow, or fails, or loses the frame of the stack; an extra   *)
(* page can still be mapped.                                                 *)
LEMMA ElfGrows ==
  ASSUME NEW m \in MemState, NEW pd \in Frame, NEW n \in 0..Entries,
         KernelOK(m), SpaceOK(m, pd), m.st = "ok",
         \A h \in Word : /\ Vacant(m, pd, UserSlot, h)
                         /\ Vacant(m, pd, StackSlot, h)
                         /\ Vacant(m, pd, ModSlot, h),
         NEW q, q = ProgramLoaded(m, pd, n), NEW r, r = elf_load(m, pd, n)
  PROVE  /\ q \in MemState /\ Grown(m, q, pd)
         /\ r \in MemState
         /\ r.st # "nomap" => Grown(m, r, pd)
         /\ r.st = "nomap" => q.st = "ok" /\ NoTable(q, r)
         /\ r.st = "ok" => \A h \in Word : Vacant(r, pd, ModSlot, h)
         /\ r.st \in {"ok", "oom", "fault", "nomap"}
<1>1. /\ Grown(m, q, pd)
      /\ q \in MemState /\ q.st \in {"ok", "oom", "fault"}
      /\ q.st = "ok" => \A h \in Word : Vacant(q, pd, StackSlot, h) /\ Vacant(q, pd, ModSlot, h)
  BY ProgramGrows
<1>2. r = vmm_alloc_page(q, pd, StackSlot, 0)
  BY DEF elf_load
<1>3. /\ 0 \in Word /\ StackSlot \in Word /\ ModSlot \in Word /\ StackSlot # ModSlot
      /\ StackSlot \notin LowSlots \cup {HeapSlot}
  BY Slots
<1>4. CASE q.st # "ok"
  <2>1. r = q
    BY <1>2, <1>4 DEF vmm_alloc_page
  <2> QED BY <1>1, <1>4, <2>1
<1>5. CASE q.st = "ok"
  <2>1. KernelOK(q) /\ SpaceOK(q, pd)
    BY <1>1, <1>5 DEF Grown
  <2>2. /\ Grown(q, r, pd)
        /\ r.st \in {"ok", "oom", "nomap"}
        /\ r.st = "nomap" => NoTable(q, r)
        /\ r.st = "ok" => \A i, h \in Word : Vacant(q, pd, i, h) /\ <<i, h>> # <<StackSlot, 0>>
                                               => Vacant(r, pd, i, h)
    BY <1>1, <1>2, <1>3, <1>5, <2>1, AllocGrows
  <2>3. Grown(m, r, pd)
    BY <1>1, <1>5, <2>2, GrownTwice
  <2>4. \A h \in Word : <<ModSlot, h>> # <<StackSlot, 0>>
    BY <1>3
  <2>5. ASSUME r.st = "ok", NEW h \in Word PROVE Vacant(r, pd, ModSlot, h)
    BY <1>1, <1>3, <1>5, <2>2, <2>4, <2>5
  <2>6. r \in MemState
    BY <2>2 DEF Grown
  <2> QED BY <1>1, <1>5, <2>2, <2>3, <2>5, <2>6
<1> QED BY <1>4, <1>5

-----------------------------------------------------------------------------
(* Memory, the address spaces S and the lost frames L: every frame has one owner,   *)
(* and every space is sound.                                                *)
WellFormed(m, S, L) ==
  /\ KernelOK(m)
  /\ \A pd \in S : SpaceOK(m, pd)
  /\ Frame = m.free \cup KernelFrames(m) \cup L \cup UNION {FramesOf(m, pd) : pd \in S}
  /\ L \cap (m.free \cup KernelFrames(m)) = {}
  /\ \A pd \in S : FramesOf(m, pd) \cap L = {}
  /\ \A p, q \in S : p # q => FramesOf(m, p) \cap FramesOf(m, q) = {}

(* WellFormed is about the free frames and the contents of memory.               *)
LEMMA WellFormedState ==
  ASSUME NEW m, NEW n, NEW S, NEW L, WellFormed(m, S, L), n.free = m.free, n.mem = m.mem
  PROVE  WellFormed(n, S, L)
<1>1. \A pd : Private(n, pd) = Private(m, pd) /\ Present(n, pd) = Present(m, pd)
  BY DEF Private, Present
<1>2. \A pd : FramesOf(n, pd) = FramesOf(m, pd)
  BY <1>1 DEF FramesOf
<1>3. KernelFrames(n) = KernelFrames(m)
  BY <1>1 DEF KernelFrames
<1>4. KernelOK(n)
  BY <1>3 DEF WellFormed, KernelOK
<1>5. \A pd : Once(m, pd) => Once(n, pd)
  BY <1>1 DEF Once, Entry
<1>6. \A pd : SameKernel(m, pd) => SameKernel(n, pd)
  BY DEF SameKernel
<1>7. ASSUME NEW pd \in S PROVE SpaceOK(n, pd)
  BY <1>2, <1>3, <1>5, <1>6 DEF SpaceOK, WellFormed
<1>8. UNION {FramesOf(n, pd) : pd \in S} = UNION {FramesOf(m, pd) : pd \in S}
  BY <1>2
<1>9. \A p, q \in S : p # q => FramesOf(n, p) \cap FramesOf(n, q) = {}
  BY <1>2 DEF WellFormed
<1>10. \A pd \in S : FramesOf(n, pd) \cap L = {}
  BY <1>2 DEF WellFormed
<1>11. /\ Frame = n.free \cup KernelFrames(n) \cup L \cup UNION {FramesOf(n, pd) : pd \in S}
       /\ L \cap (n.free \cup KernelFrames(n)) = {}
  BY <1>3, <1>8 DEF WellFormed
<1> QED BY <1>4, <1>7, <1>9, <1>10, <1>11 DEF WellFormed

(* Without a frame for a table, the last free frame is taken, and is nobody's.      *)
LEMMA LoseFrame ==
  ASSUME NEW q \in MemState, NEW r \in MemState, NEW S \in SUBSET Frame, NEW L \in SUBSET Frame,
         WellFormed(q, S, L), NoTable(q, r), NEW f, f = NextFrame(q)
  PROVE  /\ f \in q.free /\ f \in Frame /\ q.free = {f} /\ r.free = {}
         /\ \A x \in Frame \ {f} : r.mem[x] = q.mem[x]
         /\ \A p \in S : FramesOf(r, p) = FramesOf(q, p)
         /\ WellFormed(r, S, L \cup {f})
<1>1. /\ q.free = {f} /\ r.free = {} /\ f \in Frame
      /\ \A x \in Frame \ {f} : r.mem[x] = q.mem[x]
  <2>1. PICK g \in q.free : q.free = {g} /\ r.free = {} /\ \A x \in Frame \ {g} : r.mem[x] = q.mem[x]
    BY DEF NoTable
  <2>2. q.free \subseteq Frame /\ f \in q.free
    BY <2>1, Fields, NextFree
  <2> QED BY <2>1, <2>2
<1>2. /\ KernelOK(q) /\ L \cap (q.free \cup KernelFrames(q)) = {}
      /\ \A p \in S : SpaceOK(q, p) /\ FramesOf(q, p) \cap L = {}
      /\ Frame = q.free \cup KernelFrames(q) \cup L \cup UNION {FramesOf(q, p) : p \in S}
      /\ \A p, x \in S : p # x => FramesOf(q, p) \cap FramesOf(q, x) = {}
  BY DEF WellFormed
<1>3. f \notin KernelFrames(q) /\ KernelFrames(q) \subseteq Frame /\ kernel_pd \in KernelFrames(q)
  BY <1>1, <1>2, KernelTables DEF KernelOK
<1>4. KernelFrames(r) = KernelFrames(q) /\ KernelOK(r)
  BY <1>1, <1>2, <1>3, KernelKeep
<1>5. ASSUME NEW p \in S
      PROVE  FramesOf(r, p) = FramesOf(q, p) /\ SpaceOK(r, p) /\ f \notin FramesOf(q, p)
  <2>1. SpaceOK(q, p) /\ p \in Frame
    BY <1>2
  <2>2. FramesOf(q, p) \subseteq Frame /\ f \notin FramesOf(q, p)
    BY <1>1, <2>1, FramesOfFrames DEF SpaceOK
  <2>3. \A x \in FramesOf(q, p) \cup {kernel_pd} : r.mem[x] = q.mem[x]
    BY <1>1, <1>3, <2>2
  <2>4. FramesOf(r, p) = FramesOf(q, p) /\ SameKernel(r, p) /\ Once(r, p)
    BY <2>1, <2>3, Keep DEF SpaceOK
  <2>5. FramesOf(r, p) \cap (r.free \cup KernelFrames(r)) = {}
    BY <1>1, <1>4, <2>1, <2>4 DEF SpaceOK
  <2> QED BY <2>2, <2>4, <2>5 DEF SpaceOK
<1>6. UNION {FramesOf(r, p) : p \in S} = UNION {FramesOf(q, p) : p \in S}
  BY <1>5
<1>7. Frame = r.free \cup KernelFrames(r) \cup (L \cup {f}) \cup UNION {FramesOf(r, p) : p \in S}
  BY <1>1, <1>2, <1>4, <1>6
<1>8. (L \cup {f}) \cap (r.free \cup KernelFrames(r)) = {}
  BY <1>1, <1>2, <1>3, <1>4
<1>9. \A p \in S : FramesOf(r, p) \cap (L \cup {f}) = {}
  BY <1>2, <1>5
<1>10. \A p, x \in S : p # x => FramesOf(r, p) \cap FramesOf(r, x) = {}
  BY <1>2, <1>5
<1>11. WellFormed(r, S, L \cup {f})
  BY <1>4, <1>5, <1>7, <1>8, <1>9, <1>10 DEF WellFormed
<1> QED BY <1>1, <1>5, <1>11

(* A space is added: nothing that was in use is touched, and giving the new space's    *)
(* frames back undoes what it took.                                          *)
SpaceMade(m, r, S, L, pd) ==
  /\ r \in MemState
  /\ pd \in Frame /\ pd \in m.free /\ pd \notin S
  /\ r.free \subseteq m.free
  /\ \A x \in Frame \ m.free : r.mem[x] = m.mem[x]
  /\ KernelOK(r) /\ KernelFrames(r) = KernelFrames(m) /\ SameKernel(r, pd)
  /\ \A p \in S : p \in Frame \ m.free
  /\ r.st \in {"ok", "oom"} =>
       WellFormed(r, S \cup {pd}, L) /\ r.free \cup FramesOf(r, pd) = m.free

(* What has grown from a new directory is a new space.                            *)
LEMMA NewSpace ==
  ASSUME NEW m \in MemState, NEW S \in SUBSET Frame, NEW L, WellFormed(m, S, L),
         NEW d, NEW r, NEW pd, NewDirectory(m, d, pd), Grown(d, r, pd)
  PROVE  SpaceMade(m, r, S, L, pd)
<1>1. /\ d \in MemState /\ pd \in m.free /\ pd \in Frame /\ d.free = m.free \ {pd}
      /\ (\A x \in Frame \ {pd} : d.mem[x] = m.mem[x]) /\ FramesOf(d, pd) = {pd}
  BY DEF NewDirectory
<1>2. /\ r \in MemState /\ r.free \subseteq d.free /\ KernelOK(r) /\ SameKernel(r, pd)
      /\ \A x \in Frame \ (d.free \cup FramesOf(d, pd)) : r.mem[x] = d.mem[x]
  BY DEF Grown
<1>3. \A x \in Frame \ m.free : r.mem[x] = m.mem[x]
  BY <1>1, <1>2
<1>4. ASSUME NEW p \in S PROVE p \in Frame \ m.free /\ \A x \in FramesOf(m, p) : x \in Frame \ m.free
  <2>1. p \in FramesOf(m, p) /\ FramesOf(m, p) \subseteq Frame
    BY FramesOfFrames
  <2>2. FramesOf(m, p) \cap m.free = {}
    BY DEF WellFormed, SpaceOK
  <2> QED BY <2>1, <2>2
<1>5. pd \notin S
  BY <1>1, <1>4
<1>6. KernelOK(m) /\ \A x \in KernelFrames(m) : x \in Frame \ m.free
  BY KernelTables DEF WellFormed, KernelOK
<1>7. KernelFrames(r) = KernelFrames(m)
  BY <1>2, <1>3, <1>6, KernelKeep
<1>8. ASSUME NEW p \in S
      PROVE  FramesOf(r, p) = FramesOf(m, p) /\ SameKernel(r, p) /\ Once(r, p)
  <2>1. \A x \in FramesOf(m, p) \cup {kernel_pd} : r.mem[x] = m.mem[x]
    BY <1>3, <1>4, <1>6, KernelTables
  <2> QED BY <1>2, <2>1, Keep DEF WellFormed, SpaceOK
<1>9. ASSUME r.st \in {"ok", "oom"}
      PROVE  WellFormed(r, S \cup {pd}, L) /\ r.free \cup FramesOf(r, pd) = m.free
  <2>1. SpaceOK(r, pd) /\ FramesOf(r, pd) = {pd} \cup (d.free \ r.free)
    BY <1>1, <1>9 DEF Grown
  <2>2. r.free \cup FramesOf(r, pd) = m.free
    BY <1>1, <1>2, <2>1
  <2>3. ASSUME NEW p \in S PROVE SpaceOK(r, p)
    <3>1. FramesOf(m, p) \cap (m.free \cup KernelFrames(m)) = {}
      BY DEF WellFormed, SpaceOK
    <3>2. FramesOf(r, p) \cap (r.free \cup KernelFrames(r)) = {}
      BY <1>1, <1>2, <1>7, <1>8, <3>1
    <3> QED BY <1>8, <3>2 DEF SpaceOK
  <2>4. UNION {FramesOf(r, p) : p \in S \cup {pd}}
          = FramesOf(r, pd) \cup UNION {FramesOf(m, p) : p \in S}
    BY <1>8
  <2>5. Frame = r.free \cup KernelFrames(r) \cup L \cup UNION {FramesOf(r, p) : p \in S \cup {pd}}
    <3>1. Frame = m.free \cup KernelFrames(m) \cup L \cup UNION {FramesOf(m, p) : p \in S}
      BY DEF WellFormed
    <3> QED BY <1>7, <2>2, <2>4, <3>1
  <2>8. L \cap (m.free \cup KernelFrames(m)) = {} /\ \A p \in S : FramesOf(m, p) \cap L = {}
    BY DEF WellFormed
  <2>9. L \cap (r.free \cup KernelFrames(r)) = {}
    BY <1>1, <1>2, <1>7, <2>8
  <2>10. \A p \in S \cup {pd} : FramesOf(r, p) \cap L = {}
    BY <1>8, <2>2, <2>8
  <2>6. ASSUME NEW p \in S PROVE FramesOf(r, p) \cap FramesOf(r, pd) = {}
    BY <1>4, <1>8, <2>2
  <2>7. ASSUME NEW p \in S \cup {pd}, NEW q \in S \cup {pd}, p # q
        PROVE  FramesOf(r, p) \cap FramesOf(r, q) = {}
    <3>1. CASE p \in S /\ q \in S
      BY <1>8, <2>7, <3>1 DEF WellFormed
    <3>2. CASE p = pd \/ q = pd
      BY <2>6, <2>7, <3>2
    <3> QED BY <3>1, <3>2
  <2>11. \A p \in S \cup {pd} : SpaceOK(r, p)
    BY <2>1, <2>3
  <2> QED BY <1>2, <2>2, <2>5, <2>7, <2>9, <2>10, <2>11 DEF WellFormed
<1> QED BY <1>1, <1>2, <1>3, <1>4, <1>5, <1>7, <1>9 DEF SpaceMade

(* A space is removed: its frames are free, the other spaces are as before.             *)
SpaceGone(m, r, S, L, pd) ==
  /\ r \in MemState
  /\ r.mem = m.mem
  /\ r.st = m.st
  /\ r.free = m.free \cup FramesOf(m, pd)
  /\ WellFormed(r, S \ {pd}, L)

(* vmm_destroy_address_space removes a space.                                      *)
LEMMA DestroySpace ==
  ASSUME NEW m \in MemState, NEW S \in SUBSET Frame, NEW L, WellFormed(m, S, L), NEW pd \in S,
         NEW r, r = vmm_destroy_address_space(m, pd)
  PROVE  SpaceGone(m, r, S, L, pd)
<1>1. SpaceOK(m, pd) /\ KernelOK(m) /\ pd \in Frame
  BY DEF WellFormed
<1>2. pd \in FramesOf(m, pd) /\ FramesOf(m, pd) \subseteq Frame
  BY <1>1, FramesOfFrames
<1>3. pd # kernel_pd
  BY <1>1, <1>2, KernelTables DEF SpaceOK
<1>4. r = [m EXCEPT !.free = m.free \cup FramesOf(m, pd)]
  BY <1>3 DEF vmm_destroy_address_space
<1>5. r = [free |-> m.free \cup FramesOf(m, pd), mem |-> m.mem, st |-> m.st]
  BY <1>4, Ops
<1>6. m.free \cup FramesOf(m, pd) \in SUBSET Frame
  BY <1>2, Fields
<1>7. r \in MemState
  BY <1>5, <1>6, Fields DEF MemState
<1>8. r.mem = m.mem /\ r.st = m.st /\ r.free = m.free \cup FramesOf(m, pd)
  BY <1>5
<1>9. \A p \in Frame : /\ FramesOf(r, p) = FramesOf(m, p)
                       /\ (SameKernel(m, p) => SameKernel(r, p))
                       /\ (Once(m, p) => Once(r, p))
  BY <1>7, <1>8, Keep
<1>10. KernelFrames(r) = KernelFrames(m)
  BY <1>1, <1>7, <1>8, KernelKeep
<1>11. m.free \cap KernelFrames(m) = {} /\ FramesOf(m, pd) \cap KernelFrames(m) = {}
  BY <1>1 DEF KernelOK, SpaceOK
<1>12. KernelOK(r)
  BY <1>1, <1>8, <1>10, <1>11 DEF KernelOK
<1>13. ASSUME NEW p \in S \ {pd} PROVE SpaceOK(r, p)
  <2>1. SpaceOK(m, p) /\ FramesOf(m, p) \cap FramesOf(m, pd) = {} /\ p \in Frame
    BY DEF WellFormed
  <2> QED BY <1>8, <1>9, <1>10, <2>1 DEF SpaceOK
<1>14. UNION {FramesOf(m, p) : p \in S}
         = FramesOf(m, pd) \cup UNION {FramesOf(r, p) : p \in S \ {pd}}
  BY <1>9
<1>a. /\ Frame = m.free \cup KernelFrames(m) \cup L \cup UNION {FramesOf(m, p) : p \in S}
      /\ L \cap (m.free \cup KernelFrames(m)) = {}
      /\ \A p \in S : p \in Frame /\ FramesOf(m, p) \cap L = {}
  BY DEF WellFormed
<1>15. Frame = r.free \cup KernelFrames(r) \cup L \cup UNION {FramesOf(r, p) : p \in S \ {pd}}
  BY <1>8, <1>10, <1>14, <1>a
<1>b. L \cap (r.free \cup KernelFrames(r)) = {}
  BY <1>8, <1>10, <1>a
<1>c. \A p \in S \ {pd} : FramesOf(r, p) \cap L = {}
  BY <1>9, <1>a
<1>16. \A p, q \in S \ {pd} : p # q => FramesOf(r, p) \cap FramesOf(r, q) = {}
  BY <1>9 DEF WellFormed
<1>17. WellFormed(r, S \ {pd}, L)
  BY <1>12, <1>13, <1>15, <1>16, <1>b, <1>c DEF WellFormed
<1> QED BY <1>7, <1>8, <1>17 DEF SpaceGone

-----------------------------------------------------------------------------
(* How CopyPage ends when all is well before it: the word is clear; there is no     *)
(* frame; or the word is a frame that was free.                               *)
WordCleared(s, r, new, j) ==
  /\ r.st = "ok" /\ r.free = s.free
  /\ r.mem[new] = [s.mem[new] EXCEPT ![j] = 0]
  /\ \A x \in Frame \ {new} : r.mem[x] = s.mem[x]

NoFrame(s, r) == s.free = {} /\ r.st = "oom" /\ r.free = s.free /\ r.mem = s.mem

WordCopied(s, r, new, j) ==
  /\ r.st = "ok"
  /\ \E f \in s.free :
       /\ r.free = s.free \ {f}
       /\ r.mem[new] = [s.mem[new] EXCEPT ![j] = f]
       /\ \A x \in Frame \ {f, new} : r.mem[x] = s.mem[x]

(* It ends in one of these ways.                                                *)
LEMMA PageCopied ==
  ASSUME NEW s \in MemState, NEW old \in Frame, NEW new \in Frame, NEW j \in Word,
         s.st = "ok", new \notin s.free, NEW r, r = CopyPage(s, old, new, j)
  PROVE  /\ r \in MemState
         /\ s.mem[old][j] = 0 => WordCleared(s, r, new, j)
         /\ s.mem[old][j] # 0 => NoFrame(s, r) \/ WordCopied(s, r, new, j)
<1>. DEFINE page == s.mem[old][j]
            f == NextFrame(s)
<1>1. s.free \subseteq Frame /\ s.mem \in [Frame -> [Word -> Frame \cup {0}]]
  BY Fields
<1>2. page \in Frame \cup {0}
  BY EntryType
<1>3. CASE page = 0
  <2>. DEFINE R == [s.mem EXCEPT ![new][j] = 0]
  <2>1. r = Store(s, R)
    BY <1>3 DEF CopyPage
  <2>2. R \in [Frame -> [Word -> Frame \cup {0}]]
    BY <1>1
  <2>3. R[new] = [s.mem[new] EXCEPT ![j] = 0] /\ \A x \in Frame \ {new} : R[x] = s.mem[x]
    BY <1>1
  <2>. HIDE DEF R
  <2>4. r = [free |-> s.free, mem |-> R, st |-> "ok"]
    BY <2>1, Ops
  <2>5. r \in MemState
    BY <1>1, <2>2, <2>4 DEF MemState
  <2>6. r.free = s.free /\ r.mem = R /\ r.st = "ok"
    BY <2>4
  <2> QED BY <1>3, <2>3, <2>5, <2>6 DEF WordCleared
<1>4. CASE page # 0 /\ s.free = {}
  <2>1. r = Failed(s, "oom")
    BY <1>4 DEF CopyPage
  <2>2. r = [free |-> s.free, mem |-> s.mem, st |-> "oom"]
    BY <2>1, Ops
  <2>3. r \in MemState
    BY <1>1, <2>2 DEF MemState
  <2> QED BY <1>4, <2>2, <2>3 DEF NoFrame
<1>5. CASE page # 0 /\ s.free # {}
  <2>. DEFINE R == [s.mem EXCEPT ![f] = s.mem[page], ![new][j] = f]
  <2>1. r = Store(Take(s), R)
    BY <1>5 DEF CopyPage
  <2>2. f \in s.free /\ f \in Frame /\ f # new
    BY <1>1, <1>5, NextFree
  <2>3. r = [free |-> s.free \ {f}, mem |-> R, st |-> "ok"]
    BY <2>1, Ops
  <2>. HIDE DEF f
  <2>4. s.mem[page] \in [Word -> Frame \cup {0}]
    BY <1>1, <1>2, <1>5
  <2>. HIDE DEF page
  <2>5. R \in [Frame -> [Word -> Frame \cup {0}]]
    BY <1>1, <2>2, <2>4
  <2>6. R[new] = [s.mem[new] EXCEPT ![j] = f] /\ \A x \in Frame \ {f, new} : R[x] = s.mem[x]
    BY <1>1, <2>2
  <2>. HIDE DEF R
  <2>7. r \in MemState
    BY <1>1, <2>3, <2>5 DEF MemState
  <2>8. r.free = s.free \ {f} /\ r.mem = R /\ r.st = "ok"
    BY <2>3
  <2> QED BY <1>5, <2>2, <2>6, <2>7, <2>8 DEF page, WordCopied
<1> QED BY <1>3, <1>4, <1>5

(* The states in which the loop over the pages is, with new kept out of the free     *)
(* frames.                                                                 *)
LoopState(new) == {s \in MemState : new \notin s.free}

(* The loop stays in these states.                                              *)
LEMMA CopyType ==
  ASSUME NEW old \in Frame, NEW new \in Frame, NEW j \in Word, NEW s \in LoopState(new)
  PROVE  CopyPage(s, old, new, j) \in LoopState(new)
<1>. DEFINE r == CopyPage(s, old, new, j)
<1>1. s \in MemState /\ new \notin s.free
  BY DEF LoopState
<1>2. CASE s.st # "ok"
  BY <1>2 DEF CopyPage
<1>3. CASE s.st = "ok"
  <2>1. r \in MemState /\ (r.free = s.free \/ \E f \in s.free : r.free = s.free \ {f})
    <3>1. /\ r \in MemState
          /\ WordCleared(s, r, new, j) \/ NoFrame(s, r) \/ WordCopied(s, r, new, j)
      BY <1>1, <1>3, PageCopied
    <3>. HIDE DEF r
    <3> QED BY <3>1 DEF WordCleared, NoFrame, WordCopied
  <2> QED BY <1>1, <2>1 DEF LoopState
<1> QED BY <1>2, <1>3

(* The rounds of the loop over the pages of a table.                              *)
LEMMA CopyRounds ==
  ASSUME NEW old \in Frame, NEW new \in Frame, NEW m \in LoopState(new)
  PROVE  \E w \in [0..Entries -> LoopState(new)] :
           /\ w[0] = m
           /\ \A k \in 1..Entries : w[k] = CopyPage(w[k - 1], old, new, k - 1)
           /\ CopyPages(m, old, new) = w[Entries]
<1>. DEFINE S == LoopState(new)
            n == Entries
            F == [k \in 1..n |-> [s \in S |-> CopyPage(s, old, new, k - 1)]]
            body(w) == [k \in 0..n |-> IF k = 0 THEN m ELSE CopyPage(w[k - 1], old, new, k - 1)]
            c == CHOOSE w : w = body(w)
<1>a. n \in Nat
  BY Slots
<1>0. n \in Nat /\ \A k \in 1..n : k - 1 \in Word
  BY Slots
<1>1. \A k \in 1..n, s \in S : CopyPage(s, old, new, k - 1) \in S
  BY <1>0, CopyType
<1>. HIDE DEF S
<1>2. F \in [1..n -> [S -> S]]
  BY <1>1
<1>3. PICK w \in [0..n -> S] : IsRun(w, n, m, F)
  <2>1. m \in S
    BY DEF S
  <2>. HIDE DEF F, n
  <2> QED BY <1>a, <1>2, <2>1, Rounds
<1>4. \A k \in 1..n : w[k] = CopyPage(w[k - 1], old, new, k - 1)
  <2>1. \A k \in 1..n : w[k - 1] \in S
    BY <1>0
  <2>2. ASSUME NEW k \in 1..n PROVE F[k][w[k - 1]] = CopyPage(w[k - 1], old, new, k - 1)
    BY <2>1
  <2>. HIDE DEF F
  <2> QED BY <1>3, <2>2 DEF IsRun
<1>c. w[0] = m
  <2>. HIDE DEF F
  <2> QED BY <1>3 DEF IsRun
<1>5. w = body(w)
  <2>1. \A k \in 0..n : w[k] = IF k = 0 THEN m ELSE CopyPage(w[k - 1], old, new, k - 1)
    BY <1>0, <1>4, <1>c
  <2> QED BY <2>1
<1>6. c = body(c)
  BY <1>5
<1>7. CopyPages(m, old, new) = c[n]
  BY DEF CopyPages
<1>. HIDE DEF c
<1>8. c[0] = m /\ \A k \in 1..n : c[k] = CopyPage(c[k - 1], old, new, k - 1)
  <2>1. /\ body(c)[0] = m
        /\ \A k \in 1..n : body(c)[k] = CopyPage(c[k - 1], old, new, k - 1)
    BY <1>0
  <2> QED BY <1>6, <2>1
<1>. DEFINE B == {l \in 0..n : c[l] = w[l]}
<1>9. \A k \in 0..n : k \in B
  <2>1. 0 \in B
    BY <1>0, <1>8, <1>c
  <2>2. \A k \in 1..n : k - 1 \in B => k \in B
    BY <1>4, <1>8
  <2>. HIDE DEF B
  <2> QED BY <1>a, <2>1, <2>2, UpTo
<1>10. c[n] = w[n]
  BY <1>0, <1>9
<1> QED BY <1>4, <1>7, <1>10, <1>c DEF S

(* The first k pages of table old have been copied, to table new: new maps what old   *)
(* maps, the frames taken are the pages of new, and each is there once.          *)
CopiedTo(m, s, old, new, k) ==
  /\ s.st \in {"ok", "oom"}
  /\ s.free \subseteq m.free
  /\ \A x \in Frame \ (m.free \cup {new}) : s.mem[x] = m.mem[x]
  /\ s.st = "ok" =>
       /\ \A j \in Word : j < k => (s.mem[new][j] = 0 <=> m.mem[old][j] = 0)
       /\ \A x \in m.free : x \notin s.free <=> \E j \in Word : j < k /\ s.mem[new][j] = x
       /\ \A j \in Word : j < k => s.mem[new][j] \in m.free \cup {0}
       /\ \A j, l \in Word : j < k /\ l < k /\ s.mem[new][j] # 0 /\ s.mem[new][j] = s.mem[new][l]
                               => j = l

(* One round copies one page more.                                              *)
LEMMA CopyStep ==
  ASSUME NEW m \in MemState, NEW old \in Frame, NEW new \in Frame, NEW s \in LoopState(new),
         new \notin m.free, old \notin m.free, old # new,
         NEW k \in 1..Entries, CopiedTo(m, s, old, new, k - 1),
         NEW r, r = CopyPage(s, old, new, k - 1)
  PROVE  CopiedTo(m, r, old, new, k)
<1>0. k - 1 \in Word /\ \A j \in Word : j \in Int /\ (j < k <=> j < k - 1 \/ j = k - 1)
  BY Slots
<1>1. s \in MemState /\ new \notin s.free
  BY DEF LoopState
<1>a. m.free \subseteq Frame /\ s.free \subseteq m.free /\ 0 \notin m.free
  BY Fields DEF CopiedTo, Frame
<1>b. s.mem[old] = m.mem[old]
  BY DEF CopiedTo
<1>2. CASE s.st # "ok"
  <2>1. r = s
    BY <1>2 DEF CopyPage
  <2> QED BY <1>2, <2>1 DEF CopiedTo
<1>3. CASE s.st = "ok"
  <2>0. s.mem[new] \in [Word -> Frame \cup {0}]
    BY <1>1, EntryType
  <2>c. /\ \A j \in Word : j < k - 1 => (s.mem[new][j] = 0 <=> m.mem[old][j] = 0)
        /\ \A x \in m.free : x \notin s.free <=> \E j \in Word : j < k - 1 /\ s.mem[new][j] = x
        /\ \A j \in Word : j < k - 1 => s.mem[new][j] \in m.free \cup {0}
        /\ \A j, l \in Word : j < k - 1 /\ l < k - 1 /\ s.mem[new][j] # 0
                                /\ s.mem[new][j] = s.mem[new][l] => j = l
    BY <1>3 DEF CopiedTo
  <2>1. CASE s.mem[old][k - 1] = 0
    <3>1. WordCleared(s, r, new, k - 1)
      BY <1>0, <1>1, <1>3, <2>1, PageCopied
    <3>2. r.mem[new][k - 1] = 0 /\ \A j \in Word : j < k - 1 => r.mem[new][j] = s.mem[new][j]
      BY <1>0, <2>0, <3>1 DEF WordCleared
    <3>3. r.st = "ok" /\ r.free = s.free /\ \A x \in Frame \ {new} : r.mem[x] = s.mem[x]
      BY <3>1 DEF WordCleared
    <3>4. \A x \in Frame \ (m.free \cup {new}) : r.mem[x] = m.mem[x]
      BY <3>3 DEF CopiedTo
    <3>5. \A j \in Word : j < k => (r.mem[new][j] = 0 <=> m.mem[old][j] = 0)
      BY <1>0, <1>b, <2>1, <2>c, <3>2
    <3>6. \A j \in Word : j < k => r.mem[new][j] \in m.free \cup {0}
      BY <1>0, <2>c, <3>2
    <3>7. \A x \in m.free : x \notin r.free <=> \E j \in Word : j < k /\ r.mem[new][j] = x
      BY <1>0, <1>a, <2>c, <3>2, <3>3
    <3>8. \A j, l \in Word : j < k /\ l < k /\ r.mem[new][j] # 0 /\ r.mem[new][j] = r.mem[new][l]
                               => j = l
      BY <1>0, <2>c, <3>2
    <3> QED BY <1>a, <3>3, <3>4, <3>5, <3>6, <3>7, <3>8 DEF CopiedTo
  <2>2. CASE s.mem[old][k - 1] # 0 /\ NoFrame(s, r)
    <3>1. r.st = "oom" /\ r.free = s.free /\ r.mem = s.mem
      BY <2>2 DEF NoFrame
    <3> QED BY <1>a, <3>1 DEF CopiedTo
  <2>3. CASE s.mem[old][k - 1] # 0 /\ WordCopied(s, r, new, k - 1)
    <3>1. PICK f \in s.free : /\ r.free = s.free \ {f}
                              /\ r.mem[new] = [s.mem[new] EXCEPT ![k - 1] = f]
                              /\ \A x \in Frame \ {f, new} : r.mem[x] = s.mem[x]
      BY <2>3 DEF WordCopied
    <3>2. r.mem[new][k - 1] = f /\ \A j \in Word : j < k - 1 => r.mem[new][j] = s.mem[new][j]
      BY <1>0, <2>0, <3>1
    <3>3. r.st = "ok"
      BY <2>3 DEF WordCopied
    <3>4. \A x \in Frame \ (m.free \cup {new}) : r.mem[x] = m.mem[x]
      BY <1>a, <3>1 DEF CopiedTo
    <3>5. f # 0 /\ f \in m.free
      BY <1>a
    <3>6. \A j \in Word : j < k => (r.mem[new][j] = 0 <=> m.mem[old][j] = 0)
      BY <1>0, <1>b, <2>3, <2>c, <3>2, <3>5
    <3>7. \A j \in Word : j < k => r.mem[new][j] \in m.free \cup {0}
      BY <1>0, <2>c, <3>2, <3>5
    <3>8. \A x \in m.free : x \notin r.free <=> \E j \in Word : j < k /\ r.mem[new][j] = x
      <4>. SUFFICES ASSUME NEW x \in m.free
                    PROVE  x \notin r.free <=> \E j \in Word : j < k /\ r.mem[new][j] = x
        OBVIOUS
      <4>1. CASE x = f
        BY <1>0, <3>1, <3>2, <4>1
      <4>2. CASE x # f
        BY <1>0, <2>c, <3>1, <3>2, <4>2
      <4> QED BY <4>1, <4>2
    <3>9. \A j \in Word : j < k - 1 => s.mem[new][j] # f
      BY <2>c, <3>5
    <3>10. \A j, l \in Word : j < k /\ l < k /\ r.mem[new][j] # 0 /\ r.mem[new][j] = r.mem[new][l]
                               => j = l
      BY <1>0, <2>c, <3>2, <3>9
    <3> QED BY <1>a, <3>1, <3>3, <3>4, <3>6, <3>7, <3>8, <3>10 DEF CopiedTo
  <2> QED BY <1>0, <1>1, <1>3, <2>1, <2>2, <2>3, PageCopied
<1> QED BY <1>2, <1>3

(* CopyPages copies the table, or runs out of frames.                            *)
LEMMA PagesCopied ==
  ASSUME NEW m \in MemState, NEW old \in Frame, NEW new \in Frame,
         m.st = "ok", new \notin m.free, old \notin m.free, old # new,
         NEW r, r = CopyPages(m, old, new)
  PROVE  /\ r \in MemState
         /\ CopiedTo(m, r, old, new, Entries)
<1>a. Entries \in Nat /\ \A j \in Word : ~(j < 0)
  BY Slots
<1>0. m \in LoopState(new)
  BY DEF LoopState
<1>1. PICK w \in [0..Entries -> LoopState(new)] :
           /\ w[0] = m
           /\ \A k \in 1..Entries : w[k] = CopyPage(w[k - 1], old, new, k - 1)
           /\ r = w[Entries]
  BY <1>0, CopyRounds
<1>. DEFINE B == {k \in 0..Entries : CopiedTo(m, w[k], old, new, k)}
<1>2. 0 \in B
  <2>1. CopiedTo(m, m, old, new, 0)
    BY <1>a DEF CopiedTo
  <2> QED BY <1>a, <1>1, <2>1
<1>3. ASSUME NEW k \in 1..Entries, k - 1 \in B PROVE k \in B
  <2>1. CopiedTo(m, w[k - 1], old, new, k - 1) /\ w[k - 1] \in LoopState(new) /\ k \in 0..Entries
    BY <1>3, <1>a
  <2>2. w[k] = CopyPage(w[k - 1], old, new, k - 1)
    BY <1>1
  <2>3. CopiedTo(m, w[k], old, new, k)
    BY <2>1, <2>2, CopyStep
  <2> QED BY <2>1, <2>3
<1>4. \A k \in 0..Entries : k \in B
  <2>. HIDE DEF B
  <2>1. Entries \in Nat
    BY <1>a
  <2> QED BY <1>2, <1>3, <2>1, UpTo
<1>5. Entries \in 0..Entries
  BY <1>a
<1>6. r \in LoopState(new)
  BY <1>1, <1>5
<1> QED BY <1>1, <1>4, <1>5, <1>6 DEF LoopState

-----------------------------------------------------------------------------
(* The clone of the table old, in slot i of the new directory: a new table that maps      *)
(* something wherever old does.                                                *)
TableLike(s, r, new_pd, i, old) ==
  \E t : /\ TableMade(s, r, new_pd, i, t)
         /\ \A j \in Word : r.mem[t][j] = 0 <=> s.mem[old][j] = 0

(* CloneTable puts a copy of the parent's table in slot i of the child, or finds   *)
(* no frame for the table and does nothing, or runs out of frames for the pages.   *)
LEMMA TableCloned ==
  ASSUME NEW s \in MemState, NEW pd \in Frame, NEW new_pd \in Frame, NEW i \in Word,
         s.st = "ok", NEW old \in Frame, old = s.mem[pd][i], old \notin s.free,
         new_pd \notin s.free, old # new_pd, NEW r, r = CloneTable(s, pd, new_pd, i)
  PROVE  /\ r \in MemState
         /\ r.st \in {"ok", "oom", "torn"}
         /\ r.st = "ok" => TableLike(s, r, new_pd, i, old)
         /\ r.st = "oom" => r.free = s.free /\ r.mem = s.mem
<1>1. s.free \in SUBSET Frame /\ s.mem \in [Frame -> [Word -> Frame \cup {0}]]
  BY Fields
<1>5. CASE s.free = {}
  <2>1. r = Failed(s, "oom")
    BY <1>5 DEF CloneTable
  <2>2. r = [free |-> s.free, mem |-> s.mem, st |-> "oom"]
    BY <2>1, Ops
  <2>3. r \in MemState /\ r.st = "oom" /\ r.free = s.free /\ r.mem = s.mem
    BY <1>1, <2>2 DEF MemState
  <2> QED BY <2>3
<1>6. CASE s.free # {}
  <2>. DEFINE new == NextFrame(s)
              q == Take(s)
              done == CopyPages(q, old, new)
  <2>1. new \in s.free /\ new \in Frame
    BY <1>1, <1>6, NextFree
  <2>2. q = [free |-> s.free \ {new}, mem |-> s.mem, st |-> "ok"]
    BY Ops
  <2>3. q \in MemState
    BY <1>1, <2>2 DEF MemState
  <2>4. q.free = s.free \ {new} /\ q.mem = s.mem /\ q.st = "ok"
    BY <2>2
  <2>5. r = IF done.st = "ok" THEN Store(done, [done.mem EXCEPT ![new_pd][i] = new])
            ELSE Failed(done, "torn")
    BY <1>6 DEF CloneTable
  <2>. HIDE DEF new, q
  <2>6. done \in MemState /\ CopiedTo(q, done, old, new, Entries)
    BY <2>1, <2>3, <2>4, PagesCopied
  <2>. HIDE DEF done
  <2>7. \A j \in Word : j < Entries
    BY Slots
  <2>11. done.free \in SUBSET Frame /\ done.mem \in [Frame -> [Word -> Frame \cup {0}]]
    BY <2>6, Fields
  <2>12. CASE done.st = "ok"
    <3>. DEFINE R == [done.mem EXCEPT ![new_pd][i] = new]
    <3>1. R \in [Frame -> [Word -> Frame \cup {0}]]
      BY <2>1, <2>11
    <3>2. R[new_pd] = [done.mem[new_pd] EXCEPT ![i] = new] /\ \A x \in Frame \ {new_pd} : R[x] = done.mem[x]
      BY <2>11
    <3>3. r = Store(done, R)
      BY <2>5, <2>12
    <3>. HIDE DEF R
    <3>4. r = [free |-> done.free, mem |-> R, st |-> "ok"]
      BY <2>6, <2>12, <3>3, Ops
    <3>5. r \in MemState /\ r.st = "ok" /\ r.free = done.free /\ r.mem = R
      BY <2>11, <3>1, <3>4 DEF MemState
    <3>6. /\ done.free \subseteq q.free
          /\ \A x \in Frame \ (q.free \cup {new}) : done.mem[x] = q.mem[x]
          /\ \A j \in Word : done.mem[new][j] = 0 <=> q.mem[old][j] = 0
          /\ \A x \in q.free : x \notin done.free <=> \E j \in Word : done.mem[new][j] = x
          /\ \A j \in Word : done.mem[new][j] \in q.free \cup {0}
          /\ \A j, l \in Word : done.mem[new][j] # 0 /\ done.mem[new][j] = done.mem[new][l] => j = l
      BY <2>6, <2>7, <2>12 DEF CopiedTo
    <3>7. new # new_pd /\ r.mem[new] = done.mem[new]
      BY <2>1, <3>2, <3>5
    <3>8. r.mem[new_pd] = [s.mem[new_pd] EXCEPT ![i] = new]
      <4>1. done.mem[new_pd] = s.mem[new_pd]
        BY <2>4, <3>6, <3>7
      <4> QED BY <3>2, <3>5, <4>1
    <3>9. \A x \in Frame \ (s.free \cup {new_pd}) : r.mem[x] = s.mem[x]
      BY <2>1, <2>4, <3>2, <3>5, <3>6
    <3>10. 0 \notin Frame /\ q.free \subseteq Frame
      BY <2>3, Fields DEF Frame
    <3>a. Present(r, new) = {done.mem[new][j] : j \in Word} \ {0}
      BY <3>7 DEF Present
    <3>11. Present(r, new) = q.free \ done.free
      <4>1. ASSUME NEW x \in Present(r, new) PROVE x \in q.free \ done.free
        BY <3>6, <3>a, <4>1
      <4>2. ASSUME NEW x \in q.free \ done.free PROVE x \in Present(r, new)
        BY <3>6, <3>10, <3>a, <4>2
      <4> QED BY <4>1, <4>2
    <3>12. s.free \ r.free = {new} \cup Present(r, new) /\ new \notin Present(r, new)
      BY <2>1, <2>4, <3>5, <3>6, <3>11
    <3>b. r.free \subseteq s.free
      BY <2>4, <3>5, <3>6
    <3>c. \A j, l \in Word : r.mem[new][j] # 0 /\ r.mem[new][j] = r.mem[new][l] => j = l
      BY <3>6, <3>7
    <3>13. TableMade(s, r, new_pd, i, new)
      BY <2>1, <3>b, <3>c, <3>8, <3>9, <3>12 DEF TableMade
    <3>14. \A j \in Word : r.mem[new][j] = 0 <=> s.mem[old][j] = 0
      BY <2>4, <3>6, <3>7
    <3>15. TableLike(s, r, new_pd, i, old)
      BY <3>13, <3>14 DEF TableLike
    <3> QED BY <3>5, <3>15
  <2>13. CASE done.st # "ok"
    <3>1. r = Failed(done, "torn")
      BY <2>5, <2>13
    <3>2. r = [free |-> done.free, mem |-> done.mem, st |-> "torn"]
      BY <2>6, <3>1, Ops
    <3>3. r \in MemState /\ r.st = "torn"
      BY <2>11, <3>2 DEF MemState
    <3> QED BY <3>3
  <2> QED BY <2>12, <2>13
<1> QED BY <1>5, <1>6

(* One slot in the loop of vmm_clone_address_space, and the states of the loop: while *)
(* all is well the parent's frames are as they were.                            *)
CloneSlot(m, s, pd, new_pd, i) ==
  IF s.st = "ok" /\ i \in Private(m, pd) THEN CloneTable(s, pd, new_pd, i) ELSE s

CloneStates(m, pd, new_pd) ==
  {s \in MemState : s.st = "ok" =>
     new_pd \notin s.free /\ \A x \in FramesOf(m, pd) : x \notin s.free /\ s.mem[x] = m.mem[x]}

(* The table that a slot's round reads.                                           *)
LEMMA SlotReads ==
  ASSUME NEW m \in MemState, NEW pd \in Frame, NEW new_pd \in Frame,
         new_pd \notin FramesOf(m, pd), NEW i \in Private(m, pd), NEW old, old = m.mem[pd][i],
         NEW s \in CloneStates(m, pd, new_pd), s.st = "ok"
  PROVE  /\ i \in Word /\ s \in MemState /\ old \in Frame /\ old = s.mem[pd][i]
         /\ old \notin s.free /\ new_pd \notin s.free /\ old # new_pd
         /\ s.mem[old] = m.mem[old]
<1>1. /\ s \in MemState /\ new_pd \notin s.free
      /\ \A x \in FramesOf(m, pd) : x \notin s.free /\ s.mem[x] = m.mem[x]
  BY DEF CloneStates
<1>2. pd \in FramesOf(m, pd) /\ i \in Word /\ old \in Frame /\ old \in FramesOf(m, pd)
  BY FramesOfFrames
<1> QED BY <1>1, <1>2

(* The loop stays in its states.                                                  *)
LEMMA SlotType ==
  ASSUME NEW m \in MemState, NEW pd \in Frame, NEW new_pd \in Frame,
         new_pd \notin FramesOf(m, pd), NEW i \in Word, NEW s \in CloneStates(m, pd, new_pd)
  PROVE  CloneSlot(m, s, pd, new_pd, i) \in CloneStates(m, pd, new_pd)
<1>1. CASE ~(s.st = "ok" /\ i \in Private(m, pd))
  BY <1>1 DEF CloneSlot
<1>2. CASE s.st = "ok" /\ i \in Private(m, pd)
  <2>. DEFINE old == m.mem[pd][i]
              r == CloneTable(s, pd, new_pd, i)
  <2>1. CloneSlot(m, s, pd, new_pd, i) = r
    BY <1>2 DEF CloneSlot
  <2>2. /\ s \in MemState /\ old \in Frame /\ old = s.mem[pd][i]
        /\ old \notin s.free /\ new_pd \notin s.free /\ old # new_pd
    BY <1>2, SlotReads
  <2>3. /\ r \in MemState
        /\ r.st = "ok" => TableLike(s, r, new_pd, i, old)
    <3>. HIDE DEF old
    <3> QED BY <1>2, <2>2, TableCloned
  <2>4. \A x \in FramesOf(m, pd) : x \notin s.free /\ s.mem[x] = m.mem[x] /\ x \in Frame
    BY <1>2, FramesOfFrames DEF CloneStates
  <2>. HIDE DEF r
  <2>5. ASSUME r.st = "ok"
        PROVE  new_pd \notin r.free /\ \A x \in FramesOf(m, pd) : x \notin r.free /\ r.mem[x] = m.mem[x]
    <3>1. PICK t : TableMade(s, r, new_pd, i, t)
      BY <2>3, <2>5 DEF TableLike
    <3>2. r.free \subseteq s.free /\ \A x \in Frame \ (s.free \cup {new_pd}) : r.mem[x] = s.mem[x]
      BY <3>1 DEF TableMade
    <3> QED BY <2>2, <2>4, <3>2
  <2> QED BY <2>1, <2>3, <2>5 DEF CloneStates
<1> QED BY <1>1, <1>2

(* The rounds of the loop over the slots.                                         *)
LEMMA CloneRounds ==
  ASSUME NEW m \in MemState, NEW pd \in Frame, NEW new_pd \in Frame, m.free # {},
         new_pd = NextFrame(m), new_pd \notin FramesOf(m, pd),
         NEW d \in CloneStates(m, pd, new_pd), d = vmm_create_address_space(m)
  PROVE  \E w \in [0..Entries -> CloneStates(m, pd, new_pd)] :
           /\ w[0] = d
           /\ \A k \in 1..Entries : w[k] = CloneSlot(m, w[k - 1], pd, new_pd, k - 1)
           /\ vmm_clone_address_space(m, pd) =
                IF w[Entries].st = "oom" THEN vmm_destroy_address_space(w[Entries], new_pd)
                ELSE w[Entries]
<1>. DEFINE S == CloneStates(m, pd, new_pd)
            n == Entries
            F == [k \in 1..n |-> [s \in S |-> CloneSlot(m, s, pd, new_pd, k - 1)]]
            body(w) == [k \in 0..n |-> IF k = 0 THEN d ELSE CloneSlot(m, w[k - 1], pd, new_pd, k - 1)]
            c == CHOOSE w : w = body(w)
<1>a. n \in Nat
  BY Slots
<1>0. n \in Nat /\ \A k \in 1..n : k - 1 \in Word
  BY Slots
<1>1. \A k \in 1..n, s \in S : CloneSlot(m, s, pd, new_pd, k - 1) \in S
  BY <1>0, SlotType
<1>b. d \in S
  OBVIOUS
<1>. HIDE DEF S
<1>2. F \in [1..n -> [S -> S]]
  BY <1>1
<1>3. PICK w \in [0..n -> S] : IsRun(w, n, d, F)
  <2>. HIDE DEF F, n
  <2> QED BY <1>a, <1>b, <1>2, Rounds
<1>4. \A k \in 1..n : w[k] = CloneSlot(m, w[k - 1], pd, new_pd, k - 1)
  <2>1. \A k \in 1..n : w[k - 1] \in S
    BY <1>0
  <2>2. ASSUME NEW k \in 1..n PROVE F[k][w[k - 1]] = CloneSlot(m, w[k - 1], pd, new_pd, k - 1)
    BY <2>1
  <2>. HIDE DEF F
  <2> QED BY <1>3, <2>2 DEF IsRun
<1>c. w[0] = d
  <2>. HIDE DEF F
  <2> QED BY <1>3 DEF IsRun
<1>5. w = body(w)
  <2>1. \A k \in 0..n : w[k] = IF k = 0 THEN d ELSE CloneSlot(m, w[k - 1], pd, new_pd, k - 1)
    BY <1>0, <1>4, <1>c
  <2> QED BY <2>1
<1>6. c = body(c)
  BY <1>5
<1>7. vmm_clone_address_space(m, pd) =
        IF c[n].st = "oom" THEN vmm_destroy_address_space(c[n], new_pd) ELSE c[n]
  BY DEF vmm_clone_address_space, CloneSlot
<1>. HIDE DEF c
<1>8. c[0] = d /\ \A k \in 1..n : c[k] = CloneSlot(m, c[k - 1], pd, new_pd, k - 1)
  <2>1. /\ body(c)[0] = d
        /\ \A k \in 1..n : body(c)[k] = CloneSlot(m, c[k - 1], pd, new_pd, k - 1)
    BY <1>0
  <2> QED BY <1>6, <2>1
<1>. DEFINE B == {l \in 0..n : c[l] = w[l]}
<1>9. \A k \in 0..n : k \in B
  <2>1. 0 \in B
    BY <1>0, <1>8, <1>c
  <2>2. \A k \in 1..n : k - 1 \in B => k \in B
    BY <1>4, <1>8
  <2>. HIDE DEF B
  <2> QED BY <1>a, <2>1, <2>2, UpTo
<1>10. c[n] = w[n]
  BY <1>0, <1>9
<1> QED BY <1>4, <1>7, <1>10, <1>c DEF S

(* The slots below k have been cloned: the child, which has grown from the new         *)
(* directory d, maps there what the parent maps; elsewhere it has what the kernel     *)
(* has.  Or there was no frame for a table, and the child has grown all the same.      *)
ClonedTo(m, d, s, pd, new_pd, k) ==
  /\ s.st \in {"ok", "oom", "torn"}
  /\ s.st \in {"ok", "oom"} => Grown(d, s, new_pd)
  /\ s.st = "ok" =>
       /\ \A i \in Word : i < k /\ i \in Private(m, pd) => i \in Private(s, new_pd)
       /\ \A i, j \in Word : i < k /\ i \in Private(m, pd) =>
                               (Entry(s, new_pd, i, j) = 0 <=> Entry(m, pd, i, j) = 0)
       /\ \A i \in Word : i >= k \/ i \notin Private(m, pd) => s.mem[new_pd][i] = m.mem[kernel_pd][i]

(* One round clones one slot.                                                     *)
LEMMA CloneStep ==
  ASSUME NEW m \in MemState, NEW pd \in Frame, NEW new_pd \in Frame, NEW d,
         KernelOK(m), SpaceOK(m, pd), NewDirectory(m, d, new_pd), new_pd \notin FramesOf(m, pd),
         NEW s \in CloneStates(m, pd, new_pd), NEW k \in 1..Entries,
         ClonedTo(m, d, s, pd, new_pd, k - 1), NEW r, r = CloneSlot(m, s, pd, new_pd, k - 1)
  PROVE  ClonedTo(m, d, r, pd, new_pd, k)
<1>. DEFINE i == k - 1
<1>0. i \in Word /\ \A l \in Word : /\ l \in Int
                                    /\ (l < k <=> l < i \/ l = i)
                                    /\ (l >= k => l >= i)
                                    /\ i >= i
  BY Slots
<1>1. CASE ~(s.st = "ok" /\ i \in Private(m, pd))
  <2>1. r = s
    BY <1>1 DEF CloneSlot
  <2> QED BY <1>0, <1>1, <2>1 DEF ClonedTo
<1>2. CASE s.st = "ok" /\ i \in Private(m, pd)
  <2>. DEFINE old == m.mem[pd][i]
  <2>a. r = CloneTable(s, pd, new_pd, i)
    BY <1>2 DEF CloneSlot
  <2>b. /\ s \in MemState /\ old \in Frame /\ old = s.mem[pd][i]
        /\ old \notin s.free /\ new_pd \notin s.free /\ old # new_pd /\ s.mem[old] = m.mem[old]
    BY <1>2, SlotReads
  <2>c. /\ r \in MemState /\ r.st \in {"ok", "oom", "torn"}
        /\ r.st = "ok" => TableLike(s, r, new_pd, i, old)
        /\ r.st = "oom" => r.free = s.free /\ r.mem = s.mem
    <3>. HIDE DEF i, old
    <3> QED BY <1>0, <1>2, <2>a, <2>b, TableCloned
  <2>0. CASE r.st = "torn"
    BY <2>0 DEF ClonedTo
  <2>1. CASE r.st = "oom"
    <3>1. Grown(d, s, new_pd)
      BY <1>2 DEF ClonedTo
    <3>2. KernelOK(s) /\ SpaceOK(s, new_pd)
      BY <1>2, <3>1 DEF Grown
    <3>3. Grown(s, r, new_pd)
      BY <2>b, <2>c, <2>1, <3>2, GrownSame
    <3>4. Grown(d, r, new_pd)
      BY <1>2, <3>1, <3>3, GrownTwice DEF NewDirectory
    <3> QED BY <2>1, <3>4 DEF ClonedTo
  <2>2. CASE r.st = "ok"
    <3>1. PICK t : /\ TableMade(s, r, new_pd, i, t)
                   /\ \A j \in Word : r.mem[t][j] = 0 <=> s.mem[old][j] = 0
      BY <2>c, <2>2 DEF TableLike
    <3>2. /\ Grown(d, s, new_pd)
          /\ \A l \in Word : l < i /\ l \in Private(m, pd) => l \in Private(s, new_pd)
          /\ \A l, j \in Word : l < i /\ l \in Private(m, pd) =>
                               (Entry(s, new_pd, l, j) = 0 <=> Entry(m, pd, l, j) = 0)
          /\ \A l \in Word : l >= i \/ l \notin Private(m, pd) => s.mem[new_pd][l] = m.mem[kernel_pd][l]
      BY <1>2 DEF ClonedTo
    <3>3. KernelOK(s) /\ SpaceOK(s, new_pd)
      BY <1>2, <3>2 DEF Grown
    <3>4. s.mem[kernel_pd] = m.mem[kernel_pd]
      <4>1. kernel_pd \in Frame /\ kernel_pd \notin m.free
        BY KernelTables, Slots
      <4>2. kernel_pd # new_pd /\ d.mem[kernel_pd] = m.mem[kernel_pd] /\ d.free \subseteq m.free
            /\ FramesOf(d, new_pd) = {new_pd}
        BY <4>1 DEF NewDirectory
      <4> QED BY <3>2, <4>1, <4>2 DEF Grown
    <3>5. s.mem[new_pd][i] = s.mem[kernel_pd][i]
      BY <1>0, <3>2, <3>4
    <3>6. i \notin LowSlots \cup {HeapSlot}
      BY <1>2 DEF SpaceOK, SameKernel, Private
    <3>7. TableJoined(s, r, new_pd, i, t)
      BY <3>1, <3>5 DEF TableJoined
    <3>8. Grown(s, r, new_pd) /\ Private(r, new_pd) = Private(s, new_pd) \cup {i}
      <4>. HIDE DEF i
      <4> QED BY <1>0, <2>b, <2>c, <3>3, <3>6, <3>7, TableJoins
    <3>9. Grown(d, r, new_pd)
      BY <1>2, <3>2, <3>8, GrownTwice DEF NewDirectory
    <3>10. /\ r.mem[new_pd][i] = t
           /\ \A l \in Word \ {i} : r.mem[new_pd][l] = s.mem[new_pd][l]
      <4>1. r.mem[new_pd] = [s.mem[new_pd] EXCEPT ![i] = t]
        BY <3>1 DEF TableMade
      <4>. HIDE DEF i
      <4> QED BY <1>0, <2>b, <4>1, EntryType
    <3>11. ASSUME NEW l \in Word, l < k, l \in Private(m, pd) PROVE l \in Private(r, new_pd)
      BY <1>0, <3>2, <3>8, <3>11
    <3>12. ASSUME NEW l \in Word, NEW j \in Word, l < k, l \in Private(m, pd)
           PROVE  Entry(r, new_pd, l, j) = 0 <=> Entry(m, pd, l, j) = 0
      <4>1. CASE l = i
        BY <2>b, <3>1, <3>10, <4>1 DEF Entry
      <4>2. CASE l # i
        <5>1. l < i
          BY <1>0, <3>12, <4>2
        <5>2. l \in Private(s, new_pd)
          BY <3>2, <3>12, <5>1
        <5>. DEFINE lt == s.mem[new_pd][l]
        <5>3. lt \in Frame \ (s.free \cup {new_pd})
          <6>1. lt \in Frame /\ lt \in FramesOf(s, new_pd)
            BY <2>b, <5>2, FramesOfFrames
          <6> QED BY <3>3, <5>2, <6>1 DEF SpaceOK, Once
        <5>4. r.mem[lt] = s.mem[lt]
          BY <3>1, <5>3 DEF TableMade
        <5>5. Entry(r, new_pd, l, j) = Entry(s, new_pd, l, j)
          BY <3>10, <4>2, <5>4 DEF Entry
        <5> QED BY <3>2, <3>12, <5>1, <5>5
      <4> QED BY <4>1, <4>2
    <3>13. ASSUME NEW l \in Word, l >= k \/ l \notin Private(m, pd)
           PROVE  r.mem[new_pd][l] = m.mem[kernel_pd][l]
      <4>1. l # i /\ (l >= i \/ l \notin Private(m, pd))
        BY <1>0, <1>2, <3>13
      <4> QED BY <3>2, <3>10, <4>1
    <3> QED BY <2>2, <3>9, <3>11, <3>12, <3>13 DEF ClonedTo
  <2> QED BY <2>c, <2>0, <2>1, <2>2
<1> QED BY <1>1, <1>2

(* vmm_clone_address_space makes a clone; or finds no frame for a directory or a table,     *)
(* and memory is as before; or runs out of frames inside a table.                *)
LEMMA SpaceCloned ==
  ASSUME NEW m \in MemState, m.st = "ok", NEW S \in SUBSET Frame, NEW L, WellFormed(m, S, L),
         NEW pd \in S, NEW r, r = vmm_clone_address_space(m, pd),
         NEW new_pd, new_pd = NextFrame(m), NEW d, d = vmm_create_address_space(m)
  PROVE  /\ r \in MemState
         /\ r.st \in {"ok", "oom", "torn"}
         /\ r.st = "ok" => NewDirectory(m, d, new_pd) /\ ClonedTo(m, d, r, pd, new_pd, Entries)
         /\ r.st = "oom" => /\ r.free = m.free
                            /\ \A x \in Frame \ m.free : r.mem[x] = m.mem[x]
                            /\ WellFormed(r, S, L)
<1>1. KernelOK(m) /\ SpaceOK(m, pd) /\ pd \in Frame /\ m.free \in SUBSET Frame
  BY Fields DEF WellFormed
<1>2. FramesOf(m, pd) \in SUBSET Frame /\ pd \in FramesOf(m, pd) /\ Private(m, pd) \subseteq Word
  BY <1>1, FramesOfFrames
<1>3. CASE m.free = {}
  <2>1. r = Failed(m, "oom")
    BY <1>3 DEF vmm_clone_address_space
  <2>2. r = [free |-> m.free, mem |-> m.mem, st |-> "oom"]
    BY <2>1, Ops
  <2>3. r.free = m.free /\ r.mem = m.mem /\ r.st = "oom" /\ r \in MemState
    BY <1>1, <2>2, Fields DEF MemState
  <2> QED BY <2>3, WellFormedState
<1>4. CASE m.free # {}
  <2>5. NewDirectory(m, d, new_pd)
    BY <1>1, <1>4, CreateSpace
  <2>6. /\ d \in MemState /\ d.st = "ok" /\ new_pd \in m.free /\ new_pd \in Frame
        /\ d.free = m.free \ {new_pd} /\ KernelOK(d) /\ SpaceOK(d, new_pd)
        /\ \A x \in Frame \ {new_pd} : d.mem[x] = m.mem[x]
        /\ d.mem[new_pd] = d.mem[kernel_pd]
    BY <2>5 DEF NewDirectory
  <2>7. new_pd \notin FramesOf(m, pd) /\ \A x \in FramesOf(m, pd) : x \notin m.free
    BY <1>1, <2>6 DEF SpaceOK
  <2>8. d \in CloneStates(m, pd, new_pd)
    BY <1>2, <2>6, <2>7 DEF CloneStates
  <2>9. PICK w \in [0..Entries -> CloneStates(m, pd, new_pd)] :
          /\ w[0] = d
          /\ \A k \in 1..Entries : w[k] = CloneSlot(m, w[k - 1], pd, new_pd, k - 1)
          /\ r = IF w[Entries].st = "oom" THEN vmm_destroy_address_space(w[Entries], new_pd)
                 ELSE w[Entries]
    BY <1>1, <1>4, <2>6, <2>7, <2>8, CloneRounds
  <2>. DEFINE B == {k \in 0..Entries : ClonedTo(m, d, w[k], pd, new_pd, k)}
              e == w[Entries]
  <2>a. Entries \in Nat
    BY Slots
  <2>10. 0 \in B
    <3>1. \A l \in Word : ~(l < 0)
      BY <2>a DEF Word
    <3>2. Grown(d, d, new_pd)
      BY <2>6, GrownSame
    <3>3. d.mem[kernel_pd] = m.mem[kernel_pd]
      <4>1. kernel_pd # new_pd /\ kernel_pd \in Frame
        BY <1>1, <2>6, KernelTables, Slots
      <4> QED BY <2>6, <4>1
    <3>4. ClonedTo(m, d, d, pd, new_pd, 0)
      BY <2>6, <3>1, <3>2, <3>3 DEF ClonedTo
    <3> QED BY <2>9, <2>a, <3>4
  <2>11. ASSUME NEW k \in 1..Entries, k - 1 \in B PROVE k \in B
    <3>1. ClonedTo(m, d, w[k - 1], pd, new_pd, k - 1)
      BY <2>11
    <3>2. k \in 0..Entries /\ k - 1 \in 0..Entries /\ w[k - 1] \in CloneStates(m, pd, new_pd)
      BY <2>a, <2>9
    <3>3. w[k] = CloneSlot(m, w[k - 1], pd, new_pd, k - 1)
      BY <2>9
    <3>4. ClonedTo(m, d, w[k], pd, new_pd, k)
      BY <1>1, <2>5, <2>6, <2>7, <3>1, <3>2, <3>3, CloneStep
    <3> QED BY <3>2, <3>4
  <2>12. ClonedTo(m, d, e, pd, new_pd, Entries) /\ e \in MemState
    <3>1. \A k \in 0..Entries : k \in B
      <4>. HIDE DEF B
      <4> QED BY <2>a, <2>10, <2>11, UpTo
    <3> QED BY <2>a, <2>9, <3>1 DEF CloneStates
  <2>13. e.st \in {"ok", "oom", "torn"}
    BY <2>12 DEF ClonedTo
  <2>14. r = IF e.st = "oom" THEN vmm_destroy_address_space(e, new_pd) ELSE e
    BY <2>9
  <2>. HIDE DEF e
  <2>15. CASE e.st # "oom"
    BY <2>5, <2>12, <2>13, <2>14, <2>15
  <2>16. CASE e.st = "oom"
    <3>1. Grown(d, e, new_pd)
      BY <2>12, <2>16 DEF ClonedTo
    <3>2. SpaceMade(m, e, S, L, new_pd)
      BY <2>5, <3>1, NewSpace
    <3>3. /\ WellFormed(e, S \cup {new_pd}, L) /\ e.free \cup FramesOf(e, new_pd) = m.free
          /\ new_pd \notin S /\ \A x \in Frame \ m.free : e.mem[x] = m.mem[x]
      BY <2>16, <3>2 DEF SpaceMade
    <3>. DEFINE T == S \cup {new_pd}
    <3>4. T \in SUBSET Frame /\ new_pd \in T /\ WellFormed(e, T, L) /\ T \ {new_pd} = S
      BY <2>6, <3>3
    <3>. HIDE DEF T
    <3>5. SpaceGone(e, r, T, L, new_pd)
      BY <2>12, <2>14, <2>16, <3>4, DestroySpace
    <3>6. /\ r \in MemState /\ r.mem = e.mem /\ r.st = "oom" /\ WellFormed(r, S, L)
          /\ r.free = e.free \cup FramesOf(e, new_pd)
      BY <2>16, <3>4, <3>5 DEF SpaceGone
    <3> QED BY <3>3, <3>6
  <2> QED BY <2>15, <2>16
<1> QED BY <1>3, <1>4

(* The child maps what the parent maps.                                              *)
LEMMA CloneMaps ==
  ASSUME NEW m \in MemState, NEW S \in SUBSET Frame, NEW L, WellFormed(m, S, L), NEW pd \in S,
         NEW d, NEW r, NEW new_pd, NewDirectory(m, d, new_pd), r.st = "ok",
         ClonedTo(m, d, r, pd, new_pd, Entries)
  PROVE  Mapped(r.mem, new_pd) = Mapped(m.mem, pd)
<1>1. /\ Grown(d, r, new_pd)
      /\ \A i \in Word : i \in Private(m, pd) => i \in Private(r, new_pd)
      /\ \A i, j \in Word : i \in Private(m, pd) =>
                              (Entry(r, new_pd, i, j) = 0 <=> Entry(m, pd, i, j) = 0)
      /\ \A i \in Word : i \notin Private(m, pd) => r.mem[new_pd][i] = m.mem[kernel_pd][i]
  <2>1. \A i \in Word : i < Entries
    BY Slots
  <2> QED BY <2>1 DEF ClonedTo
<1>2. \A x \in Frame \ m.free : r.mem[x] = m.mem[x]
  <2>1. Grown(d, r, new_pd)
    BY <1>1
  <2>2. SpaceMade(m, r, S, L, new_pd)
    BY <2>1, NewSpace
  <2> QED BY <2>2 DEF SpaceMade
<1>3. KernelOK(m) /\ SameKernel(m, pd) /\ pd \in Frame
  BY DEF WellFormed, SpaceOK
<1>4. ASSUME NEW i \in Word, NEW j \in Word
      PROVE  (r.mem[new_pd][i] # 0 /\ Entry(r, new_pd, i, j) # 0)
               <=> (m.mem[pd][i] # 0 /\ Entry(m, pd, i, j) # 0)
  <2>1. CASE i \in Private(m, pd)
    <3>1. m.mem[pd][i] # 0 /\ r.mem[new_pd][i] # 0
      BY <1>1, <2>1 DEF Private
    <3> QED BY <1>1, <2>1, <3>1
  <2>2. CASE i \notin Private(m, pd)
    <3>1. r.mem[new_pd][i] = m.mem[kernel_pd][i]
      BY <1>1, <2>2
    <3>2. m.mem[pd][i] = m.mem[kernel_pd][i]
      BY <1>3, <2>2 DEF Private, SameKernel
    <3>. DEFINE t == m.mem[kernel_pd][i]
    <3>3. t # 0 => r.mem[t] = m.mem[t]
      <4>1. t # 0 => t \in Frame \ m.free
        BY <1>3, KernelTables
      <4> QED BY <1>2, <4>1
    <3> QED BY <3>1, <3>2, <3>3 DEF Entry
  <2> QED BY <2>1, <2>2
<1>5. \A at \in Word \X Word : /\ at[1] \in Word /\ at[2] \in Word
                                /\ Entry(r, new_pd, at[1], at[2]) = r.mem[r.mem[new_pd][at[1]]][at[2]]
                                /\ Entry(m, pd, at[1], at[2]) = m.mem[m.mem[pd][at[1]]][at[2]]
  BY DEF Entry
<1>6. \A at \in Word \X Word :
        (r.mem[new_pd][at[1]] # 0 /\ r.mem[r.mem[new_pd][at[1]]][at[2]] # 0)
          <=> (m.mem[pd][at[1]] # 0 /\ m.mem[m.mem[pd][at[1]]][at[2]] # 0)
  BY <1>4, <1>5
<1> QED BY <1>6 DEF Mapped

-----------------------------------------------------------------------------
(* The invariant: until the machine stops, memory and the spaces are well formed.       *)
VmmInv ==
  /\ TypeOK
  /\ Running => WellFormed(Memory, spaces, lost)

(* The variables as a memory.                                                      *)
LEMMA MemoryFields ==
  ASSUME TypeOK
  PROVE  /\ Memory \in MemState /\ Memory.free = free /\ Memory.mem = mem /\ Memory.st = "ok"
         /\ spaces \in SUBSET Frame /\ own \in spaces /\ own \in Frame /\ cr3 \in Frame
         /\ lost \in SUBSET Frame
BY DEF TypeOK, Memory, MemState

(* The invariant again, from a memory r that the step leaves behind.                     *)
LEMMA Again ==
  ASSUME NEW r \in MemState, free' = r.free, mem' = r.mem, spaces' \in SUBSET Frame,
         own' \in spaces', cr3' \in Frame, lost' \in SUBSET Frame, last'.st \in {"ok", "oom"},
         WellFormed(r, spaces', lost')
  PROVE  VmmInv'
<1>1. TypeOK'
  BY Fields DEF TypeOK
<1>2. Memory'.free = r.free /\ Memory'.mem = r.mem
  BY DEF Memory
<1>3. WellFormed(Memory', spaces', lost')
  BY <1>2, WellFormedState
<1> QED BY <1>1, <1>3 DEF VmmInv

(* When the machine stops, only the types are left.                                     *)
LEMMA StoppedAgain ==
  ASSUME NEW r \in MemState, free' = r.free, mem' = r.mem, spaces' \in SUBSET Frame,
         own' \in spaces', cr3' \in Frame, lost' \in SUBSET Frame,
         last'.st \in {"fault", "torn", "grown"}
  PROVE  VmmInv'
<1>1. TypeOK'
  BY Fields DEF TypeOK
<1>2. ~Running'
  BY DEF Running
<1> QED BY <1>1, <1>2 DEF VmmInv

(* The memory in which fork clones.                                                    *)
LEMMA Mallocs ==
  ASSUME TypeOK, NEW h, h = AfterMalloc
  PROVE  /\ h \in [free : SUBSET Frame, mem : [Frame -> [Word -> Frame \cup {0}]],
                   st : {"ok", "oom", "grown"}]
         /\ h.st = "ok" => h = Memory
         /\ h.st = "oom" => h.free = free /\ h.mem = mem
<1>1. Memory \in MemState /\ Memory.free = free /\ Memory.mem = mem /\ Memory.st = "ok" /\ cr3 \in Frame
  BY MemoryFields
<1>2. CASE ~HeapFull
  BY <1>1, <1>2, Fields DEF AfterMalloc
<1>3. CASE HeapFull /\ free = {}
  <2>1. h = Failed(Memory, "oom")
    BY <1>3 DEF AfterMalloc
  <2>2. h = [free |-> free, mem |-> mem, st |-> "oom"]
    BY <1>1, <2>1, Ops
  <2> QED BY <1>1, <2>2, Fields
<1>4. CASE HeapFull /\ free # {}
  <2>. DEFINE a == vmm_alloc_page(Memory, cr3, HeapSlot, 1)
  <2>1. 1 \in Word /\ HeapSlot \in Word
    BY Slots DEF HeapSlot
  <2>2. a \in MemState
    BY <1>1, <2>1, AllocType
  <2>3. h = Failed(a, "grown")
    BY <1>4 DEF AfterMalloc
  <2>. HIDE DEF a
  <2>4. h = [free |-> a.free, mem |-> a.mem, st |-> "grown"]
    BY <2>2, <2>3, Ops
  <2> QED BY <2>2, <2>4, Fields
<1> QED BY <1>2, <1>3, <1>4

(* fork: the child is a copy, and the parent's frames are left alone; or nothing that was   *)
(* in use has changed; or the machine stops.                                    *)
LEMMA ForkStep ==
  ASSUME VmmInv, fork
  PROVE  /\ VmmInv'
         /\ last'.st = "oom" => free' = free /\ \A f \in Frame \ free : mem'[f] = mem[f]
         /\ last'.st = "ok" => /\ Mapped(mem', last'.pd) = Mapped(mem, own)
                               /\ \A f \in FramesOf(Memory, own) : mem'[f] = mem[f]
<1>. DEFINE h == AfterMalloc
            pd == NextFrame(h)
            c == vmm_clone_address_space(h, own)
            r == IF h.st = "ok" THEN c ELSE h
<1>1. /\ Memory \in MemState /\ Memory.free = free /\ Memory.mem = mem /\ Memory.st = "ok"
      /\ spaces \in SUBSET Frame /\ own \in spaces /\ own \in Frame /\ cr3 \in Frame
      /\ lost \in SUBSET Frame
  BY MemoryFields DEF VmmInv
<1>2. WellFormed(Memory, spaces, lost)
  BY DEF VmmInv, fork, InUser
<1>3. /\ free' = r.free /\ mem' = r.mem
      /\ spaces' = (IF r.st = "ok" THEN spaces \cup {pd} ELSE spaces)
      /\ last' = Did("fork", r.st, IF r.st = "ok" THEN pd ELSE own)
      /\ own' = own /\ cr3' = cr3 /\ lost' = lost
  BY DEF fork
<1>4. last'.st = r.st /\ last'.pd = IF r.st = "ok" THEN pd ELSE own
  <2>. HIDE DEF r, pd
  <2> QED BY <1>3 DEF Did
<1>5. /\ h \in [free : SUBSET Frame, mem : [Frame -> [Word -> Frame \cup {0}]],
               st : {"ok", "oom", "grown"}]
      /\ h.st = "ok" => h = Memory
      /\ h.st = "oom" => h.free = free /\ h.mem = mem
  <2>. HIDE DEF h
  <2> QED BY Mallocs DEF VmmInv, h
<1>. HIDE DEF h, c, pd
<1>6. CASE h.st = "oom"
  <2>1. r = h
    BY <1>6
  <2>. HIDE DEF r
  <2>2. r.free = free /\ r.mem = mem /\ r.st = "oom"
    BY <1>5, <1>6, <2>1
  <2>. DEFINE m == Memory
  <2>3. m \in MemState /\ m.free = free /\ m.mem = mem /\ WellFormed(m, spaces, lost)
    BY <1>1, <1>2
  <2>. HIDE DEF m
  <2>4. free' = m.free /\ mem' = m.mem /\ spaces' = spaces /\ own' = own /\ cr3' = cr3 /\ lost' = lost
        /\ last'.st = "oom"
    BY <1>3, <1>4, <2>2, <2>3
  <2>5. VmmInv'
    BY <1>1, <2>3, <2>4, Again
  <2> QED BY <2>3, <2>4, <2>5
<1>7. CASE h.st = "grown"
  <2>1. r = h
    BY <1>7
  <2>. HIDE DEF r
  <2>. DEFINE m == [free |-> h.free, mem |-> h.mem, st |-> "ok"]
  <2>2. m \in MemState /\ m.free = h.free /\ m.mem = h.mem
    BY <1>5 DEF MemState
  <2>. HIDE DEF m
  <2>3. free' = m.free /\ mem' = m.mem /\ spaces' = spaces /\ own' = own /\ cr3' = cr3 /\ lost' = lost
        /\ last'.st = "grown"
    BY <1>3, <1>4, <1>7, <2>1, <2>2
  <2>4. VmmInv'
    BY <1>1, <2>2, <2>3, StoppedAgain
  <2> QED BY <2>3, <2>4
<1>8. CASE h.st = "ok"
  <2>. DEFINE m == Memory
              d == vmm_create_address_space(m)
  <2>1. r = c /\ c = vmm_clone_address_space(m, own) /\ pd = NextFrame(m)
    BY <1>5, <1>8 DEF c, pd
  <2>2. /\ m \in MemState /\ m.free = free /\ m.mem = mem /\ m.st = "ok"
        /\ WellFormed(m, spaces, lost)
    BY <1>1, <1>2
  <2>. HIDE DEF m, r, d
  <2>3. /\ r \in MemState
        /\ r.st \in {"ok", "oom", "torn"}
        /\ r.st = "ok" => NewDirectory(m, d, pd) /\ ClonedTo(m, d, r, own, pd, Entries)
        /\ r.st = "oom" => /\ r.free = m.free
                           /\ \A x \in Frame \ m.free : r.mem[x] = m.mem[x]
                           /\ WellFormed(r, spaces, lost)
    <3>1. d = vmm_create_address_space(m) /\ r = vmm_clone_address_space(m, own) /\ pd = NextFrame(m)
      BY <2>1 DEF d
    <3>2. m \in MemState /\ m.st = "ok" /\ WellFormed(m, spaces, lost)
      BY <2>2
    <3>3. spaces \in SUBSET Frame /\ own \in spaces
      BY <1>1
    <3> QED BY <3>1, <3>2, <3>3, SpaceCloned
  <2>4. CASE r.st = "torn"
    <3>1. /\ free' = r.free /\ mem' = r.mem /\ spaces' = spaces /\ own' = own /\ cr3' = cr3
          /\ lost' = lost /\ last'.st = "torn"
      BY <1>3, <1>4, <2>4
    <3>2. VmmInv'
      BY <1>1, <2>3, <3>1, StoppedAgain
    <3> QED BY <3>1, <3>2
  <2>5. CASE r.st = "oom"
    <3>1. /\ free' = r.free /\ mem' = r.mem /\ spaces' = spaces /\ own' = own /\ cr3' = cr3
          /\ lost' = lost /\ last'.st = "oom"
      BY <1>3, <1>4, <2>5
    <3>2. VmmInv'
      BY <1>1, <2>3, <2>5, <3>1, Again
    <3> QED BY <2>2, <2>3, <2>5, <3>1, <3>2
  <2>6. CASE r.st = "ok"
    <3>1. NewDirectory(m, d, pd) /\ ClonedTo(m, d, r, own, pd, Entries)
      BY <2>3, <2>6
    <3>2. Grown(d, r, pd)
      BY <2>6, <3>1 DEF ClonedTo
    <3>3. SpaceMade(m, r, spaces, lost, pd)
      BY <1>1, <2>2, <3>1, <3>2, NewSpace
    <3>4. /\ r \in MemState /\ pd \in Frame /\ WellFormed(r, spaces \cup {pd}, lost)
          /\ \A x \in Frame \ m.free : r.mem[x] = m.mem[x]
      BY <2>6, <3>3 DEF SpaceMade
    <3>5. /\ free' = r.free /\ mem' = r.mem /\ spaces' = spaces \cup {pd} /\ own' = own /\ cr3' = cr3
          /\ lost' = lost /\ last'.st = "ok" /\ last'.pd = pd
      BY <1>3, <1>4, <2>6
    <3>6. VmmInv'
      BY <1>1, <3>4, <3>5, Again
    <3>7. Mapped(mem', last'.pd) = Mapped(mem, own)
      <4>1. Mapped(r.mem, pd) = Mapped(m.mem, own)
        BY <1>1, <2>2, <2>6, <3>1, CloneMaps
      <4> QED BY <2>2, <3>5, <4>1
    <3>8. \A f \in FramesOf(Memory, own) : mem'[f] = mem[f]
      <4>1. \A f \in FramesOf(m, own) : f \in Frame /\ f \notin m.free
        BY <1>1, <2>2, FramesOfFrames DEF WellFormed, SpaceOK
      <4>2. FramesOf(Memory, own) = FramesOf(m, own)
        BY DEF m
      <4> QED BY <2>2, <3>4, <3>5, <4>1, <4>2
    <3> QED BY <3>5, <3>6, <3>7, <3>8
  <2> QED BY <2>3, <2>4, <2>5, <2>6
<1> QED BY <1>5, <1>6, <1>7, <1>8

(* A program is loaded in a new space; memory then has that space too, unless the        *)
(* kernel panics or the frame of the stack is lost.                              *)
LEMMA Loaded ==
  ASSUME NEW m \in MemState, m.st = "ok", NEW S \in SUBSET Frame, NEW L, WellFormed(m, S, L),
         m.free # {}, NEW n \in 0..Entries, NEW pd, pd = NextFrame(m),
         NEW q, q = ProgramLoaded(vmm_create_address_space(m), pd, n),
         NEW r, r = elf_load(vmm_create_address_space(m), pd, n)
  PROVE  /\ r \in MemState /\ r.st \in {"ok", "oom", "fault", "nomap"}
         /\ r.st # "nomap" => SpaceMade(m, r, S, L, pd)
         /\ r.st = "nomap" => q.st = "ok" /\ SpaceMade(m, q, S, L, pd) /\ NoTable(q, r)
<1>. DEFINE d == vmm_create_address_space(m)
<1>1. NewDirectory(m, d, pd)
  BY CreateSpace DEF WellFormed
<1>2. q = ProgramLoaded(d, pd, n) /\ r = elf_load(d, pd, n)
  OBVIOUS
<1>. HIDE DEF d
<1>3. d \in MemState /\ pd \in Frame /\ KernelOK(d) /\ SpaceOK(d, pd) /\ d.st = "ok"
  BY <1>1 DEF NewDirectory
<1>4. \A h \in Word : /\ Vacant(d, pd, UserSlot, h)
                      /\ Vacant(d, pd, StackSlot, h)
                      /\ Vacant(d, pd, ModSlot, h)
  BY <1>1, NewVacant
<1>5. /\ q \in MemState /\ Grown(d, q, pd)
      /\ r \in MemState
      /\ r.st # "nomap" => Grown(d, r, pd)
      /\ r.st = "nomap" => q.st = "ok" /\ NoTable(q, r)
      /\ r.st \in {"ok", "oom", "fault", "nomap"}
  BY <1>2, <1>3, <1>4, ElfGrows
<1> QED BY <1>1, <1>5, NewSpace

(* exec: the new program replaces the old one, its stack's frame lost or not; or every      *)
(* frame is given back; or the kernel panics.                                    *)
LEMMA ExecStep ==
  ASSUME VmmInv, NEW n \in ProgPages, sched_exec(n)
  PROVE  /\ VmmInv' /\ last'.call = "exec"
         /\ last'.st = "oom" => free' = free /\ \A f \in Frame \ free : mem'[f] = mem[f]
<1>. DEFINE m == Memory
            pd == NextFrame(m)
            d == vmm_create_address_space(m)
            q == ProgramLoaded(d, pd, n)
            r == elf_load(d, pd, n)
            f == NextFrame(q)
            e == vmm_destroy_address_space(r, own)
            u == vmm_destroy_address_space(r, pd)
            T == spaces \cup {pd}
<1>1. /\ m \in MemState /\ m.free = free /\ m.mem = mem /\ m.st = "ok"
      /\ spaces \in SUBSET Frame /\ own \in spaces /\ own \in Frame /\ cr3 \in Frame
      /\ lost \in SUBSET Frame
  BY MemoryFields DEF VmmInv
<1>2. WellFormed(m, spaces, lost) /\ free # {}
  BY DEF VmmInv, sched_exec, InUser
<1>3. n \in 0..Entries
  BY VmmAssumption
<1>4. \/ /\ r.st \in {"ok", "nomap"}
         /\ free' = e.free /\ mem' = e.mem
         /\ spaces' = (spaces \ {own}) \cup {pd} /\ own' = pd /\ cr3' = pd
         /\ lost' = IF r.st = "nomap" THEN lost \cup {f} ELSE lost
         /\ last' = Did("exec", "ok", pd)
      \/ /\ r.st = "oom"
         /\ free' = u.free /\ mem' = u.mem
         /\ cr3' = kernel_pd /\ spaces' = spaces /\ own' = own /\ lost' = lost
         /\ last' = Did("exec", "oom", own)
      \/ /\ r.st = "fault"
         /\ free' = r.free /\ mem' = r.mem
         /\ cr3' = pd /\ spaces' = spaces /\ own' = own /\ lost' = lost
         /\ last' = Did("exec", "fault", own)
  BY DEF sched_exec
<1>5. q = ProgramLoaded(vmm_create_address_space(m), pd, n)
      /\ r = elf_load(vmm_create_address_space(m), pd, n) /\ pd = NextFrame(m)
  OBVIOUS
<1>6. e = vmm_destroy_address_space(r, own) /\ u = vmm_destroy_address_space(r, pd) /\ f = NextFrame(q)
  OBVIOUS
<1>. HIDE DEF m, q, r, d, pd, e, u, f
<1>7. /\ r \in MemState /\ r.st \in {"ok", "oom", "fault", "nomap"}
      /\ r.st # "nomap" => SpaceMade(m, r, spaces, lost, pd)
      /\ r.st = "nomap" => q.st = "ok" /\ SpaceMade(m, q, spaces, lost, pd) /\ NoTable(q, r)
  <2>1. m.free # {}
    BY <1>1, <1>2
  <2> QED BY <1>1, <1>2, <1>3, <1>5, <2>1, Loaded
<1>8. pd \in Frame /\ pd \in m.free /\ pd \notin spaces
  BY <1>7 DEF SpaceMade
<1>9. /\ T \in SUBSET Frame /\ own \in T /\ pd \in T
      /\ T \ {own} = (spaces \ {own}) \cup {pd}
      /\ T \ {pd} = spaces
  BY <1>1, <1>8
<1>10. ASSUME NEW L \in SUBSET Frame, WellFormed(r, T, L), r.st \in {"ok", "nomap"}, lost' = L
       PROVE  VmmInv' /\ last'.call = "exec" /\ last'.st = "ok"
  <2>. HIDE DEF T
  <2>1. SpaceGone(r, e, T, L, own)
    BY <1>6, <1>7, <1>9, <1>10, DestroySpace
  <2>2. e \in MemState /\ WellFormed(e, T \ {own}, L)
    BY <2>1 DEF SpaceGone
  <2>3. /\ free' = e.free /\ mem' = e.mem /\ spaces' = T \ {own} /\ own' = pd /\ cr3' = pd
        /\ last' = Did("exec", "ok", pd)
    BY <1>4, <1>9, <1>10
  <2>4. last'.st = "ok" /\ last'.call = "exec"
    BY <2>3 DEF Did
  <2>5. spaces' \in SUBSET Frame /\ own' \in spaces' /\ cr3' \in Frame
    BY <1>1, <1>8, <1>9, <2>3
  <2>6. VmmInv'
    BY <1>10, <2>2, <2>3, <2>4, <2>5, Again
  <2> QED BY <2>4, <2>6
<1>11. CASE r.st = "ok"
  <2>1. WellFormed(r, T, lost)
    BY <1>7, <1>11 DEF SpaceMade
  <2>2. lost' = lost
    BY <1>4, <1>11
  <2> QED BY <1>1, <1>10, <1>11, <2>1, <2>2
<1>12. CASE r.st = "nomap"
  <2>. DEFINE L == lost \cup {f}
  <2>1. WellFormed(q, T, lost) /\ q \in MemState /\ NoTable(q, r)
    BY <1>7, <1>12 DEF SpaceMade
  <2>2. f \in Frame /\ WellFormed(r, T, L)
    <3>. HIDE DEF T
    <3> QED BY <1>1, <1>6, <1>7, <1>9, <2>1, LoseFrame
  <2>3. lost' = L /\ L \in SUBSET Frame
    BY <1>1, <1>4, <1>12, <2>2
  <2>. HIDE DEF L
  <2> QED BY <1>10, <1>12, <2>2, <2>3
<1>13. CASE r.st = "oom"
  <2>1. /\ WellFormed(r, T, lost) /\ r.free \cup FramesOf(r, pd) = m.free
        /\ \A x \in Frame \ m.free : r.mem[x] = m.mem[x]
    BY <1>7, <1>13 DEF SpaceMade
  <2>. HIDE DEF T
  <2>2. SpaceGone(r, u, T, lost, pd)
    BY <1>6, <1>7, <1>9, <2>1, DestroySpace
  <2>3. u \in MemState /\ u.mem = r.mem /\ u.free = m.free /\ WellFormed(u, spaces, lost)
    BY <1>9, <2>1, <2>2 DEF SpaceGone
  <2>4. /\ free' = u.free /\ mem' = u.mem /\ lost' = lost
        /\ spaces' = spaces /\ own' = own /\ cr3' = kernel_pd
        /\ last' = Did("exec", "oom", own)
    BY <1>4, <1>13
  <2>5. last'.st = "oom" /\ last'.call = "exec"
    BY <2>4 DEF Did
  <2>6. VmmInv'
    BY <1>1, <2>3, <2>4, <2>5, Again, Slots
  <2> QED BY <1>1, <2>1, <2>3, <2>4, <2>5, <2>6
<1>14. CASE r.st = "fault"
  <2>1. /\ free' = r.free /\ mem' = r.mem /\ lost' = lost
        /\ spaces' = spaces /\ own' = own /\ cr3' = pd
        /\ last' = Did("exec", "fault", own)
    BY <1>4, <1>14
  <2>2. last'.st = "fault" /\ last'.call = "exec"
    BY <2>1 DEF Did
  <2>3. VmmInv'
    BY <1>1, <1>7, <1>8, <2>1, <2>2, StoppedAgain
  <2> QED BY <2>2, <2>3
<1> QED BY <1>7, <1>11, <1>12, <1>13, <1>14

(* wait frees the space of the child that it collects.                                  *)
LEMMA WaitStep ==
  ASSUME VmmInv, sched_wait
  PROVE  VmmInv' /\ last'.call = "wait" /\ last'.st = "ok"
<1>. DEFINE m == Memory
<1>1. /\ m \in MemState /\ m.free = free /\ m.mem = mem /\ m.st = "ok"
      /\ spaces \in SUBSET Frame /\ own \in spaces /\ own \in Frame /\ cr3 \in Frame
      /\ lost \in SUBSET Frame
  BY MemoryFields DEF VmmInv
<1>2. WellFormed(m, spaces, lost)
  BY DEF VmmInv, sched_wait, InUser
<1>3. PICK pd \in spaces \ {own} :
        /\ free' = vmm_destroy_address_space(m, pd).free
        /\ mem' = vmm_destroy_address_space(m, pd).mem
        /\ spaces' = spaces \ {pd}
  BY DEF sched_wait
<1>4. last' = Did("wait", "ok", own) /\ own' = own /\ cr3' = cr3 /\ lost' = lost
  BY DEF sched_wait
<1>5. last'.call = "wait" /\ last'.st = "ok"
  BY <1>4 DEF Did
<1>. DEFINE r == vmm_destroy_address_space(m, pd)
<1>6. free' = r.free /\ mem' = r.mem /\ r = vmm_destroy_address_space(m, pd)
  BY <1>3
<1>. HIDE DEF m, r
<1>7. r \in MemState /\ WellFormed(r, spaces \ {pd}, lost)
  <2>1. SpaceGone(m, r, spaces, lost, pd)
    BY <1>1, <1>2, <1>6, DestroySpace
  <2> QED BY <2>1 DEF SpaceGone
<1>8. VmmInv'
  BY <1>1, <1>3, <1>4, <1>5, <1>6, <1>7, Again
<1> QED BY <1>5, <1>8

-----------------------------------------------------------------------------
(* vmm_init: a frame for the table that maps memory from slot i on.                      *)
IdentityTable(i) ==
  [w \in Word |-> IF i * Entries + w \in Frame THEN i * Entries + w ELSE 0]

MapLow(m, i) ==
  Store(Take(m), [m.mem EXCEPT ![kernel_pd][i] = NextFrame(m), ![NextFrame(m)] = IdentityTable(i)])

(* Memory after k of its rounds: the tables are the frames after the directory.           *)
LowTo(s, k) ==
  /\ s \in MemState
  /\ s.st = "ok"
  /\ s.free = (k + 2)..NFrames
  /\ \A i \in Word : s.mem[kernel_pd][i] = IF i < k THEN i + 2 ELSE 0

(* Before the first round.                                                         *)
LEMMA LowStart ==
  LowTo([free |-> Frame \ {kernel_pd}, mem |-> [f \in Frame |-> Blank], st |-> "ok"], 0)
<1>. DEFINE M == [f \in Frame |-> Blank]
            s == [free |-> Frame \ {kernel_pd}, mem |-> M, st |-> "ok"]
<1>1. Blank \in [Word -> Frame \cup {0}] /\ \A i \in Word : Blank[i] = 0
  BY DEF Blank
<1>2. M \in [Frame -> [Word -> Frame \cup {0}]] /\ M[kernel_pd] = Blank
  BY <1>1, Slots
<1>3. Frame \ {kernel_pd} = 2..NFrames
  BY Slots DEF Frame, kernel_pd
<1>4. \A i \in Word : ~(i < 0)
  BY Slots
<1>. HIDE DEF M
<1>5. s \in MemState /\ s.free = 2..NFrames /\ s.mem = M /\ s.st = "ok"
  BY <1>2, <1>3 DEF MemState
<1>. HIDE DEF s
<1>6. s.free = (0 + 2)..NFrames
  BY <1>5
<1>7. LowTo(s, 0)
  BY <1>1, <1>2, <1>4, <1>5, <1>6 DEF LowTo
<1> QED BY <1>7 DEF s, M

(* kernel_main's program is one of the programs.                                        *)
LEMMA LeastProgram ==
  Min(ProgPages) \in ProgPages /\ Min(ProgPages) \in Nat /\ Min(ProgPages) \in 0..Entries
<1>1. ProgPages \in SUBSET Nat /\ ProgPages # {} /\ \A x \in ProgPages : x \in 0..Entries
  BY VmmAssumption
<1>2. \E x \in ProgPages : \A y \in ProgPages : x <= y
  BY <1>1, Least
<1>3. Min(ProgPages) \in ProgPages
  BY <1>2 DEF Min
<1> QED BY <1>1, <1>3

(* A round finds its frame.                                                          *)
LEMMA LowStep ==
  ASSUME NEW s, NEW k \in 1..LowTables, LowTo(s, k - 1)
  PROVE  s.free # {} /\ LowTo(MapLow(s, k - 1), k)
<1>. DEFINE i == k - 1
            f == NextFrame(s)
            T == IdentityTable(i)
            M == [s.mem EXCEPT ![kernel_pd][i] = f, ![f] = T]
<1>1. /\ NFrames \in Nat /\ LowTables \in Nat /\ LowTables + 10 <= NFrames
      /\ i \in Word /\ i \in Nat /\ k = i + 1 /\ k \in Nat
  <2>2. Min(ProgPages) \in Nat
    BY LeastProgram
  <2>3. LowTables <= Entries
    BY Slots DEF HeapSlot
  <2> QED BY <2>2, <2>3, Slots, VmmAssumption
<1>2. /\ s \in MemState /\ s.st = "ok" /\ s.free = (i + 2)..NFrames
      /\ \A l \in Word : s.mem[kernel_pd][l] = IF l < i THEN l + 2 ELSE 0
  BY DEF LowTo
<1>3. i + 2 \in s.free
  BY <1>1, <1>2
<1>4. f = i + 2
  <2>1. \A x \in s.free : x \in Int /\ i + 2 <= x
    BY <1>1, <1>2
  <2>2. f = CHOOSE x \in s.free : \A y \in s.free : x <= y
    BY DEF NextFrame, Min
  <2>3. f \in s.free /\ \A y \in s.free : f <= y
    BY <1>3, <2>1, <2>2
  <2> QED BY <1>1, <1>3, <2>1, <2>3
<1>5. f \in Frame /\ f # kernel_pd
  BY <1>1, <1>4 DEF Frame, kernel_pd
<1>6. T \in [Word -> Frame \cup {0}]
  BY DEF IdentityTable
<1>7. s.mem \in [Frame -> [Word -> Frame \cup {0}]] /\ kernel_pd \in Frame
  BY <1>2, Fields, Slots
<1>. HIDE DEF f, T
<1>8. /\ M \in [Frame -> [Word -> Frame \cup {0}]]
      /\ M[kernel_pd] = [s.mem[kernel_pd] EXCEPT ![i] = f]
  BY <1>1, <1>5, <1>6, <1>7
<1>9. \A l \in Word : M[kernel_pd][l] = IF l < k THEN l + 2 ELSE 0
  <2>1. s.mem[kernel_pd] \in [Word -> Frame \cup {0}]
    BY <1>7
  <2>2. \A l \in Word : M[kernel_pd][l] = IF l = i THEN f ELSE s.mem[kernel_pd][l]
    <3>. HIDE DEF M
    <3> QED BY <1>8, <2>1
  <2>3. \A l \in Word : l \in Int
    BY DEF Word
  <2>. HIDE DEF M
  <2> QED BY <1>1, <1>2, <1>4, <2>2, <2>3
<1>10. MapLow(s, i) = [free |-> s.free \ {f}, mem |-> M, st |-> "ok"]
  <2>1. MapLow(s, i) = Store(Take(s), M)
    BY DEF MapLow, f, T
  <2>. HIDE DEF M
  <2>2. Store(Take(s), M) = [free |-> s.free \ {NextFrame(s)}, mem |-> M, st |-> s.st]
    BY <1>2, Ops
  <2> QED BY <1>2, <2>1, <2>2 DEF f
<1>11. s.free \ {f} = (k + 2)..NFrames
  BY <1>1, <1>2, <1>4
<1>12. s.free \ {f} \in SUBSET Frame
  BY <1>1, <1>11 DEF Frame
<1>. DEFINE r == MapLow(s, i)
<1>13. r \in MemState /\ r.free = (k + 2)..NFrames /\ r.mem = M /\ r.st = "ok"
  <2>. DEFINE G == s.free \ {f}
  <2>1. r = [free |-> G, mem |-> M, st |-> "ok"] /\ G \in SUBSET Frame
    BY <1>10, <1>12
  <2>2. G = (k + 2)..NFrames /\ M \in [Frame -> [Word -> Frame \cup {0}]]
    BY <1>8, <1>11
  <2>. HIDE DEF M, G, r
  <2>3. r \in MemState /\ r.free = G /\ r.mem = M /\ r.st = "ok"
    BY <2>1, <2>2 DEF MemState
  <2> QED BY <2>2, <2>3
<1>. HIDE DEF M, r
<1>14. LowTo(r, k)
  BY <1>9, <1>13 DEF LowTo
<1> QED BY <1>3, <1>14 DEF r

(* vmm_init.                                                                         *)
LEMMA LowRounds ==
  LowTo(AfterVmmInit, LowTables)
<1>. DEFINE S == MemState
            n == LowTables
            d == [free |-> Frame \ {kernel_pd}, mem |-> [f \in Frame |-> Blank], st |-> "ok"]
            step(s, i) == IF LowTo(s, i) THEN MapLow(s, i) ELSE s
            F == [k \in 1..n |-> [s \in S |-> step(s, k - 1)]]
            body(w) == [k \in 0..n |-> IF k = 0 THEN d ELSE MapLow(w[k - 1], k - 1)]
            c == CHOOSE w : w = body(w)
<1>a. n \in Nat
  BY Slots
<1>b. d \in S /\ LowTo(d, 0)
  BY LowStart DEF LowTo
<1>. HIDE DEF d
<1>1. \A k \in 1..n, s \in S : step(s, k - 1) \in S
  BY LowStep DEF LowTo
<1>2. F \in [1..n -> [S -> S]]
  <2>. HIDE DEF S, step
  <2> QED BY <1>1
<1>3. PICK w \in [0..n -> S] : IsRun(w, n, d, F)
  <2>. HIDE DEF F, n, S
  <2> QED BY <1>a, <1>b, <1>2, Rounds
<1>4. w[0] = d /\ \A k \in 1..n : w[k] = step(w[k - 1], k - 1)
  <2>. HIDE DEF S, step
  <2>1. \A k \in 1..n : w[k - 1] \in S
    BY <1>a
  <2>2. ASSUME NEW k \in 1..n PROVE F[k][w[k - 1]] = step(w[k - 1], k - 1)
    BY <2>1
  <2>. HIDE DEF F
  <2> QED BY <1>3, <2>2 DEF IsRun
<1>. DEFINE B == {k \in 0..n : LowTo(w[k], k)}
<1>5. \A k \in 0..n : k \in B
  <2>1. 0 \in B
    BY <1>4, <1>a, <1>b
  <2>2. ASSUME NEW k \in 1..n, k - 1 \in B PROVE k \in B
    <3>1. LowTo(w[k - 1], k - 1)
      BY <2>2
    <3>2. w[k] = MapLow(w[k - 1], k - 1)
      BY <1>4, <3>1
    <3>3. LowTo(w[k], k)
      BY <3>1, <3>2, LowStep
    <3> QED BY <1>a, <3>3
  <2>. HIDE DEF B, n
  <2> QED BY <1>a, <2>1, <2>2, UpTo
<1>6. \A k \in 1..n : w[k] = MapLow(w[k - 1], k - 1)
  <2>1. \A k \in 1..n : k - 1 \in 0..n
    BY <1>a
  <2> QED BY <1>4, <1>5, <2>1
<1>7. w = body(w)
  <2>1. \A k \in 0..n : w[k] = IF k = 0 THEN d ELSE MapLow(w[k - 1], k - 1)
    BY <1>a, <1>4, <1>6
  <2> QED BY <2>1
<1>8. c = body(c)
  BY <1>7
<1>9. AfterVmmInit = c[n]
  BY DEF AfterVmmInit, MapLow, IdentityTable, d
<1>. HIDE DEF c
<1>10. c[0] = d /\ \A k \in 1..n : c[k] = MapLow(c[k - 1], k - 1)
  <2>1. body(c)[0] = d /\ \A k \in 1..n : body(c)[k] = MapLow(c[k - 1], k - 1)
    BY <1>a
  <2> QED BY <1>8, <2>1
<1>. DEFINE C == {k \in 0..n : c[k] = w[k]}
<1>11. \A k \in 0..n : k \in C
  <2>1. 0 \in C
    BY <1>a, <1>4, <1>10
  <2>2. \A k \in 1..n : k - 1 \in C => k \in C
    BY <1>6, <1>10
  <2>. HIDE DEF C, n
  <2> QED BY <1>a, <2>1, <2>2, UpTo
<1>12. c[n] = w[n] /\ LowTo(w[n], n)
  BY <1>5, <1>11, <1>a
<1> QED BY <1>9, <1>12

(* A page of the kernel's, in a slot that has no table yet.                              *)
NewTable(m, r, i, f, t) ==
  /\ f # t
  /\ r.free = m.free \ {f, t}
  /\ r.mem[kernel_pd] = [m.mem[kernel_pd] EXCEPT ![i] = t]
  /\ r.mem[t] = [Blank EXCEPT ![0] = f]
  /\ \A x \in Frame \ {f, t, kernel_pd} : r.mem[x] = m.mem[x]

(* There are two frames for it.                                                      *)
LEMMA KernelPage ==
  ASSUME NEW m \in MemState, m.st = "ok", kernel_pd \notin m.free, NEW i \in Word,
         m.mem[kernel_pd][i] = 0, NEW a \in m.free, NEW b \in m.free, a # b,
         NEW r, r = vmm_alloc_page(m, kernel_pd, i, 0)
  PROVE  /\ r \in MemState /\ r.st = "ok"
         /\ \E f, t \in m.free : NewTable(m, r, i, f, t)
<1>1. 0 \in Word /\ kernel_pd \in Frame /\ 0 \notin Frame
  BY Slots DEF Frame
<1>2. m.free \subseteq Frame
  BY Fields
<1>3. r \in MemState
  BY <1>1, AllocType
<1>4. \/ NoPage(m, r) \/ NoTable(m, r)
      \/ PageAdded(m, r, kernel_pd, i, 0) \/ TableAdded(m, r, kernel_pd, i, 0)
  <2>1. m.mem[kernel_pd][i] \notin m.free
    BY <1>1, <1>2
  <2> QED BY <1>1, <2>1, AllocPage
<1>5. ~NoPage(m, r) /\ ~NoTable(m, r) /\ ~PageAdded(m, r, kernel_pd, i, 0)
  <2>1. ~NoPage(m, r)
    BY DEF NoPage
  <2>2. ~NoTable(m, r)
    BY DEF NoTable
  <2>3. ~PageAdded(m, r, kernel_pd, i, 0)
    BY DEF PageAdded
  <2> QED BY <2>1, <2>2, <2>3
<1>6. TableAdded(m, r, kernel_pd, i, 0)
  BY <1>4, <1>5
<1>7. OldTable(m, kernel_pd, i) = Blank
  BY DEF OldTable
<1> QED BY <1>3, <1>6, <1>7 DEF TableAdded, NewTable

(* kernel_main, up to the first task: every frame is free or the kernel's.                *)
LEMMA Booted ==
  /\ AfterHeapInit \in MemState /\ AfterHeapInit.st = "ok"
  /\ AfterHeapInit.free # {}
  /\ WellFormed(AfterHeapInit, {}, {})
<1>. DEFINE V == AfterVmmInit
            L == LowTables
            q == vmm_alloc_page(V, kernel_pd, ModSlot, 0)
            T == q.mem[kernel_pd][ModSlot]
            g == q.mem[T][0]
            N == [q.mem EXCEPT ![T][0] = 0]
            u == [Store(q, N) EXCEPT !.free = @ \cup {g}]
            A == vmm_alloc_page(u, kernel_pd, HeapSlot, 0)
<1>1. AfterHeapInit = A
  BY DEF AfterHeapInit
<1>2. /\ V \in MemState /\ V.st = "ok" /\ V.free = (L + 2)..NFrames
      /\ \A i \in Word : V.mem[kernel_pd][i] = IF i < L THEN i + 2 ELSE 0
  BY LowRounds DEF LowTo
<1>3. /\ NFrames \in Nat /\ L \in Nat /\ L + 10 <= NFrames /\ L <= HeapSlot /\ HeapSlot \in Nat
      /\ HeapSlot = Entries - 4 /\ Entries \in Nat
  BY LeastProgram, Slots, VmmAssumption DEF HeapSlot
<1>4. {L + 2, L + 3, L + 4, L + 5} \subseteq V.free /\ kernel_pd \notin V.free
  BY <1>2, <1>3 DEF kernel_pd
<1>5. /\ HeapSlot \in Word /\ ModSlot \in Word /\ UserSlot \in Word /\ StackSlot \in Word
      /\ HeapSlot # UserSlot /\ HeapSlot # StackSlot /\ HeapSlot # ModSlot
      /\ UserSlot # ModSlot /\ StackSlot # ModSlot
      /\ kernel_pd \in Frame /\ 0 \in Word /\ 0 \notin Frame
  BY Slots DEF Frame
<1>6. /\ V.mem[kernel_pd][HeapSlot] = 0 /\ V.mem[kernel_pd][ModSlot] = 0
      /\ V.mem[kernel_pd][UserSlot] = 0 /\ V.mem[kernel_pd][StackSlot] = 0
  <2>1. ~(HeapSlot < L) /\ ~(ModSlot < L) /\ ~(UserSlot < L) /\ ~(StackSlot < L)
    BY <1>3 DEF HeapSlot, ModSlot, UserSlot, StackSlot
  <2> QED BY <1>2, <1>5, <2>1
<1>7. /\ V.mem[kernel_pd] \in [Word -> Frame \cup {0}] /\ V.free \subseteq Frame
  BY <1>2, <1>5, Fields
<1>8. Blank \in [Word -> Frame \cup {0}] /\ \A i \in Word : Blank[i] = 0
  BY DEF Blank
<1>. HIDE DEF V, L
(* The page at 0xE0000000 ...                                                           *)
<1>9. /\ q \in MemState /\ q.st = "ok"
      /\ \E f, t \in V.free : NewTable(V, q, ModSlot, f, t)
  <2>1. L + 2 \in V.free /\ L + 3 \in V.free /\ L + 2 # L + 3
    BY <1>3, <1>4
  <2>. DEFINE a == L + 2
              b == L + 3
  <2>2. a \in V.free /\ b \in V.free /\ a # b
    BY <2>1
  <2>. HIDE DEF a, b, q
  <2> QED BY <1>2, <1>4, <1>5, <1>6, <2>2, KernelPage DEF q
<1>10. PICK f \in V.free, t \in V.free :
           /\ f # t
           /\ q.free = V.free \ {f, t}
           /\ q.mem[kernel_pd] = [V.mem[kernel_pd] EXCEPT ![ModSlot] = t]
           /\ q.mem[t] = [Blank EXCEPT ![0] = f]
           /\ \A x \in Frame \ {f, t, kernel_pd} : q.mem[x] = V.mem[x]
  BY <1>9 DEF NewTable
<1>. HIDE DEF q
<1>11. T = t /\ t \in Frame /\ f \in Frame /\ t # kernel_pd
  BY <1>4, <1>5, <1>7, <1>10
<1>12. g = f
  <2>1. g = q.mem[t][0]
    BY <1>11
  <2>2. [Blank EXCEPT ![0] = f][0] = f
    BY <1>5, <1>8
  <2> QED BY <1>10, <2>1, <2>2
(* ... which is unmapped again, ...                                                       *)
<1>13. /\ N \in [Frame -> [Word -> Frame \cup {0}]]
       /\ N[t] = Blank
       /\ N[kernel_pd] = q.mem[kernel_pd]
  <2>1. q.mem \in [Frame -> [Word -> Frame \cup {0}]]
    BY <1>9, Fields
  <2>2. N = [q.mem EXCEPT ![t][0] = 0]
    BY <1>11
  <2>3. N \in [Frame -> [Word -> Frame \cup {0}]] /\ N[kernel_pd] = q.mem[kernel_pd]
        /\ N[t] = [q.mem[t] EXCEPT ![0] = 0]
    BY <1>5, <1>11, <2>1, <2>2
  <2>4. [[Blank EXCEPT ![0] = f] EXCEPT ![0] = 0] = Blank
    BY <1>5 DEF Blank
  <2> QED BY <1>10, <2>3, <2>4
<1>14. /\ u \in MemState /\ u.st = "ok" /\ u.free = V.free \ {t} /\ u.mem = N
  <2>. DEFINE G == q.free \cup {f}
  <2>1. Store(q, N) = [free |-> q.free, mem |-> N, st |-> q.st]
    <3>. HIDE DEF N
    <3> QED BY <1>9, Ops
  <2>2. u = [free |-> q.free \cup {g}, mem |-> N, st |-> q.st]
    <3>. HIDE DEF N, g
    <3> QED BY <2>1
  <2>3. G = V.free \ {t} /\ G \in SUBSET Frame
    BY <1>7, <1>10
  <2>4. u = [free |-> G, mem |-> N, st |-> "ok"]
    <3>. HIDE DEF N, u, g
    <3> QED BY <1>9, <1>12, <2>2
  <2>. HIDE DEF N, G, u
  <2> QED BY <1>13, <2>3, <2>4 DEF MemState
<1>. HIDE DEF u, N, T, g
<1>15. /\ \A i \in Word \ {ModSlot} : u.mem[kernel_pd][i] = V.mem[kernel_pd][i]
       /\ u.mem[kernel_pd][ModSlot] = t
       /\ u.mem[kernel_pd] \in [Word -> Frame \cup {0}]
       /\ u.mem[t] = Blank
  BY <1>5, <1>7, <1>10, <1>11, <1>13, <1>14
(* ... and the page of the heap.                                                          *)
<1>16. /\ A \in MemState /\ A.st = "ok"
       /\ \E h, s \in u.free : NewTable(u, A, HeapSlot, h, s)
  <2>1. \E a, b \in u.free : a # b
    <3>1. L + 2 # L + 3 /\ L + 3 # L + 4 /\ L + 2 # L + 4
      BY <1>3
    <3> QED BY <1>4, <1>14, <3>1
  <2>2. u.mem[kernel_pd][HeapSlot] = 0 /\ kernel_pd \notin u.free
    BY <1>4, <1>5, <1>6, <1>14, <1>15
  <2>. HIDE DEF A
  <2> QED BY <1>5, <1>14, <2>1, <2>2, KernelPage DEF A
<1>17. PICK h \in u.free, s \in u.free :
            /\ h # s
            /\ A.free = u.free \ {h, s}
            /\ A.mem[kernel_pd] = [u.mem[kernel_pd] EXCEPT ![HeapSlot] = s]
            /\ A.mem[s] = [Blank EXCEPT ![0] = h]
            /\ \A x \in Frame \ {h, s, kernel_pd} : A.mem[x] = u.mem[x]
  BY <1>16 DEF NewTable
<1>. HIDE DEF A
<1>18. /\ h \in V.free /\ s \in V.free /\ h # t /\ s # t /\ h # s /\ h # 0 /\ s # 0 /\ t # 0
       /\ A.free = V.free \ {t, h, s}
       /\ h \in Frame /\ s \in Frame
  BY <1>5, <1>7, <1>10, <1>14, <1>17
<1>19. /\ A.mem[kernel_pd][HeapSlot] = s /\ A.mem[kernel_pd][ModSlot] = t
       /\ \A i \in Word \ {HeapSlot, ModSlot} : A.mem[kernel_pd][i] = V.mem[kernel_pd][i]
       /\ A.mem[t] = Blank
  BY <1>5, <1>11, <1>15, <1>17, <1>18
<1>20. Present(A, s) = {h}
  <2>1. \A j \in Word : A.mem[s][j] = IF j = 0 THEN h ELSE 0
    BY <1>5, <1>8, <1>17
  <2> QED BY <1>5, <1>18, <2>1 DEF Present
<1>21. Present(A, kernel_pd) = (2..(L + 1)) \cup {t, s}
  <2>1. ASSUME NEW i \in Word PROVE A.mem[kernel_pd][i] \in (2..(L + 1)) \cup {t, s, 0}
    <3>1. CASE i \in {HeapSlot, ModSlot}
      BY <1>19, <3>1
    <3>2. CASE i \notin {HeapSlot, ModSlot}
      <4>1. A.mem[kernel_pd][i] = IF i < L THEN i + 2 ELSE 0
        BY <1>2, <1>19, <3>2
      <4>2. i \in Nat
        BY <1>3 DEF Word
      <4> QED BY <1>3, <4>1, <4>2
    <3> QED BY <3>1, <3>2
  <2>2. ASSUME NEW x \in 2..(L + 1) PROVE \E i \in Word : A.mem[kernel_pd][i] = x
    <3>1. x - 2 \in Word \ {HeapSlot, ModSlot} /\ x - 2 < L /\ x - 2 + 2 = x
      BY <1>3 DEF Word, ModSlot
    <3> QED BY <1>2, <1>19, <3>1
  <2>3. \A x \in 2..(L + 1) : x # 0
    BY <1>3
  <2>4. \E i \in Word : A.mem[kernel_pd][i] = t
    BY <1>5, <1>19
  <2>5. \E i \in Word : A.mem[kernel_pd][i] = s
    BY <1>5, <1>19
  <2> QED BY <1>18, <2>1, <2>2, <2>3, <2>4, <2>5 DEF Present
<1>22. KernelFrames(A) = {kernel_pd} \cup (2..(L + 1)) \cup {t, s, h}
  BY <1>19, <1>20, <1>21 DEF KernelFrames
<1>23. KernelOK(A)
  <2>1. A.free \cap KernelFrames(A) = {}
    <3>1. \A x \in V.free : x # kernel_pd /\ x \notin 2..(L + 1)
      BY <1>2, <1>3, <1>4
    <3> QED BY <1>18, <1>22, <3>1
  <2> QED BY <1>5, <1>6, <1>18, <1>19, <2>1 DEF KernelOK
<1>24. Frame = A.free \cup KernelFrames(A)
  <2>1. Frame = {kernel_pd} \cup (2..(L + 1)) \cup V.free
    BY <1>2, <1>3 DEF Frame, kernel_pd
  <2> QED BY <1>10, <1>18, <1>22, <2>1
<1>25. WellFormed(A, {}, {})
  <2>1. UNION {FramesOf(A, pd) : pd \in {}} = {}
    OBVIOUS
  <2> QED BY <1>23, <1>24, <2>1 DEF WellFormed
<1>26. A.free # {}
  <2>1. /\ L + 2 # L + 3 /\ L + 3 # L + 4 /\ L + 2 # L + 4
        /\ L + 2 # L + 5 /\ L + 3 # L + 5 /\ L + 4 # L + 5
    BY <1>3
  <2> QED BY <1>4, <1>18, <2>1
<1> QED BY <1>1, <1>16, <1>25, <1>26

(* kernel_main: the first task's space, in a machine that has the frames for it.           *)
LEMMA FirstTask ==
  ASSUME FirstSpace.m.st = "ok"
  PROVE  SpaceMade(AfterHeapInit, FirstSpace.m, {}, {}, FirstSpace.pd)
<1>. DEFINE A == AfterHeapInit
            n == Min(ProgPages)
            pd == NextFrame(A)
            d == vmm_create_address_space(A)
            e == elf_load(d, pd, n)
            r == vmm_alloc_page(e, pd, ModSlot, 1)
<1>1. FirstSpace.pd = pd /\ FirstSpace.m = r
  BY DEF FirstSpace
<1>2. A \in MemState /\ A.st = "ok" /\ A.free # {} /\ WellFormed(A, {}, {}) /\ KernelOK(A)
  BY Booted DEF WellFormed
<1>3. n \in 0..Entries /\ 1 \in Word /\ ModSlot \in Word /\ ModSlot \notin LowSlots \cup {HeapSlot}
  BY LeastProgram, Slots DEF HeapSlot
<1>. HIDE DEF n, A
<1>4. NewDirectory(A, d, pd)
  <2>. HIDE DEF pd
  <2> QED BY <1>2, CreateSpace DEF pd
<1>. HIDE DEF d, pd
<1>5. d \in MemState /\ pd \in Frame /\ KernelOK(d) /\ SpaceOK(d, pd) /\ d.st = "ok"
  BY <1>4 DEF NewDirectory
<1>6. \A h \in Word : /\ Vacant(d, pd, UserSlot, h)
                      /\ Vacant(d, pd, StackSlot, h)
                      /\ Vacant(d, pd, ModSlot, h)
  BY <1>2, <1>4, NewVacant
<1>7. r.st = "ok" /\ e.st = "ok"
  <2>1. r.st = "ok"
    BY <1>1
  <2>2. e.st # "ok" => r = e
    BY DEF vmm_alloc_page
  <2> QED BY <2>1, <2>2
<1>8. e = elf_load(d, pd, n)
  OBVIOUS
<1>. HIDE DEF e
<1>9. Grown(d, e, pd) /\ \A h \in Word : Vacant(e, pd, ModSlot, h)
  BY <1>3, <1>5, <1>6, <1>7, <1>8, ElfGrows
<1>10. e \in MemState /\ KernelOK(e) /\ SpaceOK(e, pd)
  BY <1>7, <1>9 DEF Grown
<1>11. r = vmm_alloc_page(e, pd, ModSlot, 1)
  OBVIOUS
<1>. HIDE DEF r
<1>12. Grown(e, r, pd)
  BY <1>3, <1>5, <1>7, <1>9, <1>10, <1>11, AllocGrows
<1>13. Grown(d, r, pd)
  BY <1>5, <1>7, <1>9, <1>12, GrownTwice
<1>14. {} \in SUBSET Frame
  OBVIOUS
<1>15. SpaceMade(A, r, {}, {}, pd)
  BY <1>2, <1>4, <1>13, <1>14, NewSpace
<1> QED BY <1>1, <1>15 DEF A

-----------------------------------------------------------------------------
(* The machine boots into the invariant.                                              *)
LEMMA VmmInit == Init => VmmInv
<1>. SUFFICES ASSUME Init PROVE VmmInv
  OBVIOUS
<1>. DEFINE r == FirstSpace.m
            pd == FirstSpace.pd
<1>1. /\ free = r.free /\ mem = r.mem /\ spaces = {pd} /\ own = pd /\ cr3 = pd /\ lost = {}
      /\ last = Did("boot", "ok", pd) /\ r.st = "ok"
  BY DEF Init
<1>2. SpaceMade(AfterHeapInit, r, {}, {}, pd)
  BY <1>1, FirstTask
<1>. HIDE DEF r, pd
<1>3. r \in MemState /\ pd \in Frame /\ WellFormed(r, {pd}, {})
  <2>1. {} \cup {pd} = {pd}
    OBVIOUS
  <2> QED BY <1>1, <1>2, <2>1 DEF SpaceMade
<1>4. last.st = "ok"
  BY <1>1 DEF Did
<1>5. TypeOK
  BY <1>1, <1>3, <1>4, Fields DEF TypeOK
<1>6. Memory.free = r.free /\ Memory.mem = r.mem
  BY <1>1 DEF Memory
<1>7. WellFormed(Memory, spaces, lost)
  BY <1>1, <1>3, <1>6, WellFormedState
<1> QED BY <1>5, <1>7 DEF VmmInv

(* Every step keeps it.                                                               *)
LEMMA VmmStep == VmmInv /\ [Next]_vars => VmmInv'
<1>. SUFFICES ASSUME VmmInv, [Next]_vars PROVE VmmInv'
  OBVIOUS
<1>1. CASE fork
  BY <1>1, ForkStep
<1>2. CASE \E n \in ProgPages : sched_exec(n)
  BY <1>2, ExecStep
<1>3. CASE sched_wait
  BY <1>3, WaitStep
<1>4. CASE vmm_switch_address_space \/ ExecNoDirectory
  <2>. DEFINE m == Memory
  <2>1. /\ free' = free /\ mem' = mem /\ spaces' = spaces /\ lost' = lost /\ Running
        /\ own' \in spaces /\ cr3' \in Frame
    BY <1>4 DEF vmm_switch_address_space, ExecNoDirectory, InUser, VmmInv, TypeOK
  <2>2. last'.st \in {"ok", "oom"}
    BY <1>4 DEF vmm_switch_address_space, ExecNoDirectory, Did
  <2>3. /\ m \in MemState /\ m.free = free /\ m.mem = mem
        /\ spaces \in SUBSET Frame /\ lost \in SUBSET Frame /\ WellFormed(m, spaces, lost)
    BY <2>1, MemoryFields DEF VmmInv
  <2>. HIDE DEF m
  <2> QED BY <2>1, <2>2, <2>3, Again
<1>5. CASE Stopped \/ UNCHANGED vars
  <2>1. UNCHANGED vars
    BY <1>5 DEF Stopped
  <2> QED BY <2>1 DEF vars, VmmInv, TypeOK, Running, Memory
<1> QED BY <1>1, <1>2, <1>3, <1>4, <1>5 DEF Next

(* Hence it holds in every behaviour.                                                 *)
LEMMA VmmInvariant == Spec => []VmmInv
<1> QED BY VmmInit, VmmStep, PTL DEF Spec

(* Page directories and tables hold frames, and the space of the task that runs exists.      *)
THEOREM VmmTypes == Spec => []TypeOK
<1>1. VmmInv => TypeOK
  BY DEF VmmInv
<1> QED BY <1>1, VmmInvariant, PTL

(* Whatever forks, execs and waits there have been, those that ran out of frames             *)
(* included, every frame has exactly one owner: apart from the stack frames that elf_load     *)
(* takes and does not map, nothing is leaked; nothing is freed while in use, or shared by      *)
(* two tasks.  So it is until the machine stops.                                  *)
THEOREM FramesHaveOneOwner == Spec => []FramesExact
<1>1. VmmInv => FramesExact
  <2>. SUFFICES ASSUME VmmInv, Running PROVE FramesExact
    BY DEF FramesExact
  <2>1. WellFormed(Memory, spaces, lost) /\ Memory.free = free
    BY DEF VmmInv, Memory
  <2>2. /\ Frame = free \cup KernelFrames(Memory) \cup lost
                     \cup UNION {FramesOf(Memory, pd) : pd \in spaces}
        /\ lost \cap (free \cup KernelFrames(Memory)) = {}
        /\ \A p, q \in spaces : p # q => FramesOf(Memory, p) \cap FramesOf(Memory, q) = {}
    BY <2>1 DEF WellFormed
  <2>3. free \cap KernelFrames(Memory) = {}
    BY <2>1 DEF WellFormed, KernelOK
  <2>4. \A pd \in spaces : FramesOf(Memory, pd) \cap (free \cup lost \cup KernelFrames(Memory)) = {}
    BY <2>1 DEF WellFormed, SpaceOK
  <2> QED BY <2>2, <2>3, <2>4 DEF FramesExact
<1> QED BY <1>1, VmmInvariant, PTL

(* A fork's child has a page wherever its parent has one, and nowhere else, and               *)
(* vmm_clone_address_space writes to no frame of the parent.                               *)
THEOREM ForksCopy == Spec => ForkCopies
<1>1. VmmInv /\ [Next]_vars =>
        [last'.call = "fork" /\ last'.st = "ok" =>
           /\ Mapped(mem', last'.pd) = Mapped(mem, own)
           /\ \A f \in FramesOf(Memory, own) : mem'[f] = mem[f]]_vars
  <2>. SUFFICES ASSUME VmmInv, Next, last'.call = "fork", last'.st = "ok", vars' # vars
                PROVE  /\ Mapped(mem', last'.pd) = Mapped(mem, own)
                       /\ \A f \in FramesOf(Memory, own) : mem'[f] = mem[f]
    OBVIOUS
  <2>1. CASE fork
    BY <2>1, ForkStep
  <2>2. CASE \E n \in ProgPages : sched_exec(n)
    BY <2>2, ExecStep
  <2>3. CASE sched_wait
    BY <2>3, WaitStep
  <2>4. CASE vmm_switch_address_space \/ ExecNoDirectory
    BY <2>4 DEF vmm_switch_address_space, ExecNoDirectory, Did
  <2>5. CASE Stopped
    BY <2>5 DEF Stopped
  <2> QED BY <2>1, <2>2, <2>3, <2>4, <2>5 DEF Next
<1> QED BY <1>1, VmmInvariant, PTL DEF Spec, ForkCopies

(* An exec or a fork that returns an error for want of a frame gives back exactly the          *)
(* frames it took, and has written to none that was in use.                             *)
THEOREM FailuresAreUndone == Spec => FailureUndone
<1>1. VmmInv /\ [Next]_vars =>
        [last'.st = "oom" => free' = free /\ \A f \in Frame \ free : mem'[f] = mem[f]]_vars
  <2>. SUFFICES ASSUME VmmInv, Next, last'.st = "oom", vars' # vars
                PROVE  free' = free /\ \A f \in Frame \ free : mem'[f] = mem[f]
    OBVIOUS
  <2>1. CASE fork
    BY <2>1, ForkStep
  <2>2. CASE \E n \in ProgPages : sched_exec(n)
    BY <2>2, ExecStep
  <2>3. CASE sched_wait
    BY <2>3, WaitStep
  <2>4. CASE vmm_switch_address_space \/ ExecNoDirectory
    BY <2>4 DEF vmm_switch_address_space, ExecNoDirectory
  <2>5. CASE Stopped
    BY <2>5 DEF Stopped
  <2> QED BY <2>1, <2>2, <2>3, <2>4, <2>5 DEF Next
<1> QED BY <1>1, VmmInvariant, PTL DEF Spec, FailureUndone

=============================================================================
