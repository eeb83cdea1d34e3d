------------------------------ MODULE HeapProof ------------------------------
(***************************************************************************)
(* Theorems about module Heap, for every page, header and block size that     *)
(* fit together, every sequence of requests and every amount of memory.      *)
(***************************************************************************)
EXTENDS Heap, NumberLemmas, SequenceTheorems, TLAPS

(* A block.                                                              *)
Rec == [addr : Nat, size : Nat \ {0}]

(* The list s without its i+1st to kth blocks, and m in their place.            *)
Splice(s, i, k, m) == SubSeq(s, 1, i) \o m \o SubSeq(s, k + 1, Len(s))

(* What a concatenation holds.                                           *)
LEMMA ConcatFacts ==
  ASSUME NEW S, NEW p \in Seq(S), NEW q \in Seq(S)
  PROVE  /\ p \o q \in Seq(S) /\ Len(p \o q) = Len(p) + Len(q)
         /\ \A j \in 1..(Len(p) + Len(q)) :
              (p \o q)[j] = IF j <= Len(p) THEN p[j] ELSE q[j - Len(p)]
OBVIOUS

(* t is that list, place by place.                                            *)
IsSplice(t, s, i, k, m) ==
  /\ Len(t) = i + Len(m) + (Len(s) - k)
  /\ \A j \in 1..i : t[j] = s[j]
  /\ \A j \in 1..Len(m) : t[i + j] = m[j]
  /\ \A j \in (k + 1)..Len(s) : t[j - k + i + Len(m)] = s[j]

(* Splice makes that list.                                               *)
LEMMA SpliceFacts ==
  ASSUME NEW s \in Seq(Rec), NEW m \in Seq(Rec), NEW i \in Nat, NEW k \in Nat,
         i <= k, k <= Len(s)
  PROVE  /\ Splice(s, i, k, m) \in Seq(Rec)
         /\ IsSplice(Splice(s, i, k, m), s, i, k, m)
<1>. DEFINE S == Rec
<1>. HIDE DEF S
<1>0. s \in Seq(S) /\ m \in Seq(S)
  BY DEF S
<1>. DEFINE p == SubSeq(s, 1, i)
            q == SubSeq(s, k + 1, Len(s))
<1>1. p \in Seq(S) /\ Len(p) = i /\ \A j \in 1..i : p[j] = s[j]
  BY <1>0
<1>2. q \in Seq(S) /\ Len(q) = Len(s) - k /\ \A j \in 1..(Len(s) - k) : q[j] = s[k + j]
  BY <1>0
<1>. HIDE DEF p, q
<1>3. /\ p \o m \in Seq(S) /\ Len(p \o m) = i + Len(m)
      /\ \A j \in 1..(i + Len(m)) : (p \o m)[j] = IF j <= i THEN p[j] ELSE m[j - i]
  BY <1>0, <1>1, ConcatFacts
<1>. DEFINE pm == p \o m
<1>. HIDE DEF pm
<1>4. /\ pm \o q \in Seq(S) /\ Len(pm \o q) = i + Len(m) + (Len(s) - k)
      /\ \A j \in 1..(i + Len(m) + (Len(s) - k)) :
           (pm \o q)[j] = IF j <= i + Len(m) THEN pm[j] ELSE q[j - (i + Len(m))]
  <2>1. pm \in Seq(S) /\ Len(pm) = i + Len(m)
    BY <1>3 DEF pm
  <2>2. /\ pm \o q \in Seq(S) /\ Len(pm \o q) = Len(pm) + Len(q)
        /\ \A j \in 1..(Len(pm) + Len(q)) :
             (pm \o q)[j] = IF j <= Len(pm) THEN pm[j] ELSE q[j - Len(pm)]
    <3>1. pm \in Seq(S) /\ q \in Seq(S)
      BY <1>2, <2>1
    <3> QED BY ONLY <3>1, ConcatFacts, Zenon
  <2>3. Len(pm) + Len(q) = i + Len(m) + (Len(s) - k)
    BY <1>2, <2>1
  <2>4. Len(pm \o q) = i + Len(m) + (Len(s) - k)
    BY <2>2, <2>3
  <2>5. ASSUME NEW j \in 1..(i + Len(m) + (Len(s) - k))
        PROVE  (pm \o q)[j] = IF j <= i + Len(m) THEN pm[j] ELSE q[j - (i + Len(m))]
    <3>1. j \in 1..(Len(pm) + Len(q))
      BY <2>3
    <3>2. (pm \o q)[j] = IF j <= Len(pm) THEN pm[j] ELSE q[j - Len(pm)]
      BY <2>2, <3>1, Zenon
    <3> QED BY <2>1, <3>2, Zenon
  <2> QED BY <2>2, <2>4, <2>5
<1>5. Splice(s, i, k, m) = pm \o q
  BY DEF Splice, pm, p, q
<1>. DEFINE t == Splice(s, i, k, m)
            l == i + Len(m) + (Len(s) - k)
<1>6. t = pm \o q
  BY <1>5
<1>. HIDE DEF t
<1>7. t \in Seq(S) /\ Len(t) = l
  BY <1>4, <1>6
<1>8. ASSUME NEW j \in 1..i PROVE t[j] = s[j]
  BY <1>1, <1>3, <1>4, <1>6 DEF pm
<1>9. ASSUME NEW j \in 1..Len(m) PROVE t[i + j] = m[j]
  <2>1. i + j \in 1..(i + Len(m)) /\ i + j \in 1..l /\ ~(i + j <= i) /\ (i + j) - i = j
    OBVIOUS
  <2>2. t[i + j] = pm[i + j]
    BY <1>4, <1>6, <2>1
  <2>3. pm[i + j] = m[(i + j) - i]
    BY <1>3, <2>1 DEF pm
  <2> QED BY <2>1, <2>2, <2>3
<1>10. ASSUME NEW j \in (k + 1)..Len(s) PROVE t[j - k + i + Len(m)] = s[j]
  <2>1. /\ j - k \in 1..(Len(s) - k) /\ k + (j - k) = j
        /\ (j - k + i + Len(m)) - (i + Len(m)) = j - k
        /\ j - k + i + Len(m) \in 1..l /\ ~(j - k + i + Len(m) <= i + Len(m))
    OBVIOUS
  <2>2. t[j - k + i + Len(m)] = q[(j - k + i + Len(m)) - (i + Len(m))]
    BY <1>4, <1>6, <2>1
  <2>3. q[j - k] = s[k + (j - k)]
    BY <1>2, <2>1
  <2> QED BY <2>1, <2>2, <2>3
<1> QED BY <1>7, <1>8, <1>9, <1>10 DEF t, l, S, IsSplice

(* Where the walk to address a ends.                                          *)
LEMMA PassedFacts ==
  ASSUME heap_free \in Seq(Rec), NEW a \in Nat
  PROVE  /\ Passed(a) \in 0..Len(heap_free)
         /\ \A j \in 1..Passed(a) : heap_free[j].addr < a
         /\ Passed(a) < Len(heap_free) => heap_free[Passed(a) + 1].addr >= a
<1>. DEFINE I == {i \in 1..Len(heap_free) : heap_free[i].addr >= a}
<1>1. Passed(a) = IF I # {} THEN (IF Min(I) = 0 THEN Len(heap_free) ELSE Min(I) - 1) ELSE Len(heap_free)
  BY DEF Passed, SelectInSeq
<1>a. \A j \in 1..Len(heap_free) : heap_free[j].addr \in Nat
  <2>1. \A j \in 1..Len(heap_free) : heap_free[j] \in Rec
    OBVIOUS
  <2> QED BY <2>1 DEF Rec
<1>2. CASE I = {}
  <2>1. Passed(a) = Len(heap_free)
    BY <1>1, <1>2
  <2>2. \A j \in 1..Len(heap_free) : ~(heap_free[j].addr >= a)
    BY <1>2
  <2> QED BY <1>a, <2>1, <2>2
<1>3. CASE I # {}
  <2>1. I \in SUBSET Nat
    OBVIOUS
  <2>2. \A i \in 1..Len(heap_free) : i \in I <=> heap_free[i].addr >= a
    OBVIOUS
  <2>3. I \subseteq 1..Len(heap_free)
    OBVIOUS
  <2>. HIDE DEF I
  <2>4. Min(I) \in I /\ \A i \in I : Min(I) <= i
    BY <1>3, <2>1, Least DEF Min
  <2>5. Passed(a) = Min(I) - 1
    BY <1>1, <1>3, <2>3, <2>4
  <2>6. Min(I) \in 1..Len(heap_free) /\ Passed(a) + 1 = Min(I)
    <3>1. Min(I) \in 1..Len(heap_free)
      BY <2>3, <2>4
    <3> QED BY <2>5, <3>1
  <2>7. ASSUME NEW j \in 1..Passed(a) PROVE heap_free[j].addr < a
    <3>1. j \in 1..Len(heap_free) /\ ~(Min(I) <= j)
      BY <2>5, <2>6
    <3>2. j \notin I
      BY <2>4, <3>1
    <3>3. ~(heap_free[j].addr >= a) /\ heap_free[j].addr \in Nat
      BY <1>a, <2>2, <3>1, <3>2
    <3> QED BY <3>3
  <2> QED BY <2>2, <2>4, <2>5, <2>6, <2>7
<1> QED BY <1>2, <1>3

(* The list is in address order and no two of its blocks touch.          *)
Sorted(s) == \A i, j \in 1..Len(s) : i < j => Limit(s[i]) < s[j].addr

(* What a place of the new list holds.                                        *)
LEMMA SplicePlace ==
  ASSUME NEW t, NEW s \in Seq(Rec), NEW m \in Seq(Rec), NEW i \in Nat, NEW k \in Nat,
         i <= k, k <= Len(s), IsSplice(t, s, i, k, m), NEW j \in 1..Len(t)
  PROVE  \/ j \in 1..i /\ t[j] = s[j]
         \/ \E h \in 1..Len(m) : j = i + h /\ t[j] = m[h]
         \/ \E h \in (k + 1)..Len(s) : j = h - k + i + Len(m) /\ t[j] = s[h]
<1>1. /\ Len(t) = i + Len(m) + (Len(s) - k)
      /\ \A h \in 1..i : t[h] = s[h]
      /\ \A h \in 1..Len(m) : t[i + h] = m[h]
      /\ \A h \in (k + 1)..Len(s) : t[h - k + i + Len(m)] = s[h]
  BY DEF IsSplice
<1>2. Len(m) \in Nat /\ Len(s) \in Nat
  OBVIOUS
<1>3. CASE j <= i
  <2>1. j \in 1..i
    BY <1>2, <1>3
  <2> QED BY <1>1, <2>1
<1>4. CASE i < j /\ j <= i + Len(m)
  <2>. DEFINE h == j - i
  <2>1. h \in 1..Len(m) /\ j = i + h
    BY <1>2, <1>4
  <2>. HIDE DEF h
  <2> QED BY <1>1, <2>1
<1>5. CASE j > i + Len(m)
  <2>. DEFINE h == j - i - Len(m) + k
  <2>1. h \in (k + 1)..Len(s) /\ j = h - k + i + Len(m)
    BY <1>1, <1>2, <1>5
  <2>. HIDE DEF h
  <2> QED BY <1>1, <2>1
<1> QED BY <1>1, <1>2, <1>3, <1>4, <1>5

(* One block or none in place of others keeps the list in order.                *)
LEMMA SpliceSorted ==
  ASSUME NEW t, NEW s \in Seq(Rec), Sorted(s), NEW m \in Seq(Rec), Len(m) <= 1,
         NEW i \in Nat, NEW k \in Nat, i <= k, k <= Len(s), IsSplice(t, s, i, k, m),
         \A h \in 1..Len(m) : /\ \A j \in 1..i : Limit(s[j]) < m[h].addr
                              /\ \A j \in (k + 1)..Len(s) : Limit(m[h]) < s[j].addr
  PROVE  Sorted(t)
<1>. SUFFICES ASSUME NEW x \in 1..Len(t), NEW y \in 1..Len(t), x < y
              PROVE  Limit(t[x]) < t[y].addr
  BY DEF Sorted
<1>1. \/ x \in 1..i /\ t[x] = s[x]
      \/ \E h \in 1..Len(m) : x = i + h /\ t[x] = m[h]
      \/ \E h \in (k + 1)..Len(s) : x = h - k + i + Len(m) /\ t[x] = s[h]
  BY SplicePlace
<1>2. \/ y \in 1..i /\ t[y] = s[y]
      \/ \E h \in 1..Len(m) : y = i + h /\ t[y] = m[h]
      \/ \E h \in (k + 1)..Len(s) : y = h - k + i + Len(m) /\ t[y] = s[h]
  BY SplicePlace
<1>3. Len(m) \in Nat /\ Len(s) \in Nat
  OBVIOUS
<1>4. \A a, b \in 1..Len(s) : a < b => Limit(s[a]) < s[b].addr
  BY DEF Sorted
<1>5. CASE x \in 1..i /\ t[x] = s[x]
  BY <1>2, <1>3, <1>4, <1>5, SMTT(30)
<1>6. CASE \E h \in 1..Len(m) : x = i + h /\ t[x] = m[h]
  <2>1. PICK h \in 1..Len(m) : x = i + h /\ t[x] = m[h]
    BY <1>6
  <2>2. PICK g \in (k + 1)..Len(s) : t[y] = s[g]
    BY <1>2, <1>3, <2>1
  <2> QED BY <2>1, <2>2
<1>7. CASE \E h \in (k + 1)..Len(s) : x = h - k + i + Len(m) /\ t[x] = s[h]
  <2>1. PICK h \in (k + 1)..Len(s) : x = h - k + i + Len(m) /\ t[x] = s[h]
    BY <1>7
  <2>a. x > i + Len(m) /\ y > i + Len(m)
    BY <1>3, <2>1
  <2>2. PICK g \in (k + 1)..Len(s) : y = g - k + i + Len(m) /\ t[y] = s[g]
    BY <1>2, <1>3, <2>a
  <2>3. h \in 1..Len(s) /\ g \in 1..Len(s) /\ h < g
    BY <1>3, <2>1, <2>2, SMTT(30)
  <2> QED BY <1>4, <2>1, <2>2, <2>3
<1> QED BY <1>1, <1>5, <1>6, <1>7

(* The blocks of a list.                                                 *)
Elements(s) == {s[i] : i \in 1..Len(s)}

(* The blocks of the new list.                                                *)
LEMMA SpliceElements ==
  ASSUME NEW t, NEW s \in Seq(Rec), Sorted(s), NEW m \in Seq(Rec),
         NEW i \in Nat, NEW k \in Nat, i <= k, k <= Len(s), IsSplice(t, s, i, k, m)
  PROVE  Elements(t) = (Elements(s) \ {s[j] : j \in (i + 1)..k}) \cup Elements(m)
<1>0. /\ Len(t) = i + Len(m) + (Len(s) - k)
      /\ \A j \in 1..i : t[j] = s[j]
      /\ \A j \in 1..Len(m) : t[i + j] = m[j]
      /\ \A j \in (k + 1)..Len(s) : t[j - k + i + Len(m)] = s[j]
  BY DEF IsSplice
<1>l. Len(m) \in Nat /\ Len(s) \in Nat
  OBVIOUS
<1>1. \A a, b \in 1..Len(s) : s[a] = s[b] => a = b
  <2>. SUFFICES ASSUME NEW a \in 1..Len(s), NEW b \in 1..Len(s), s[a] = s[b], a # b PROVE FALSE
    OBVIOUS
  <2>1. /\ s[a].addr \in Nat /\ s[a].size \in Nat /\ s[b].addr \in Nat /\ s[b].size \in Nat
    <3>1. s[a] \in Rec /\ s[b] \in Rec
      OBVIOUS
    <3> QED BY <3>1 DEF Rec
  <2>2. a < b \/ b < a
    BY <1>l
  <2>3. Limit(s[a]) < s[b].addr \/ Limit(s[b]) < s[a].addr
    BY <2>2 DEF Sorted
  <2> QED BY <2>1, <2>3 DEF Limit
<1>2. ASSUME NEW j \in 1..Len(t)
      PROVE  t[j] \in (Elements(s) \ {s[h] : h \in (i + 1)..k}) \cup Elements(m)
  <2>1. \/ j \in 1..i /\ t[j] = s[j]
        \/ \E h \in 1..Len(m) : j = i + h /\ t[j] = m[h]
        \/ \E h \in (k + 1)..Len(s) : j = h - k + i + Len(m) /\ t[j] = s[h]
    BY SplicePlace
  <2>2. ASSUME NEW h \in 1..Len(s), h \notin (i + 1)..k
        PROVE  s[h] \in Elements(s) \ {s[g] : g \in (i + 1)..k}
    <3>1. ASSUME NEW g \in (i + 1)..k PROVE s[h] # s[g]
      <4>1. g \in 1..Len(s)
        BY <1>l
      <4> QED BY <1>1, <2>2, <4>1
    <3> QED BY <3>1 DEF Elements
  <2>3. CASE j \in 1..i /\ t[j] = s[j]
    <3>1. j \in 1..Len(s) /\ j \notin (i + 1)..k
      BY <1>l, <2>3
    <3> QED BY <2>2, <2>3, <3>1
  <2>4. CASE \E h \in 1..Len(m) : j = i + h /\ t[j] = m[h]
    BY <2>4 DEF Elements
  <2>5. CASE \E h \in (k + 1)..Len(s) : j = h - k + i + Len(m) /\ t[j] = s[h]
    <3>1. PICK h \in (k + 1)..Len(s) : t[j] = s[h]
      BY <2>5
    <3>2. h \in 1..Len(s) /\ h \notin (i + 1)..k
      BY <1>l
    <3> QED BY <2>2, <3>1, <3>2
  <2> QED BY <2>1, <2>3, <2>4, <2>5
<1>3. ASSUME NEW j \in 1..Len(m) PROVE m[j] \in Elements(t)
  <2>1. i + j \in 1..Len(t) /\ t[i + j] = m[j]
    BY <1>0, <1>l
  <2> QED BY <2>1 DEF Elements
<1>4. ASSUME NEW j \in 1..Len(s), s[j] \notin {s[h] : h \in (i + 1)..k}
      PROVE  s[j] \in Elements(t)
  <2>1. j \notin (i + 1)..k
    BY <1>4
  <2>2. CASE j \in 1..i
    <3>1. j \in 1..Len(t) /\ t[j] = s[j]
      BY <1>0, <1>l, <2>2
    <3> QED BY <3>1 DEF Elements
  <2>3. CASE j \in (k + 1)..Len(s)
    <3>. DEFINE g == j - k + i + Len(m)
    <3>1. g \in 1..Len(t) /\ t[g] = s[j]
      BY <1>0, <1>l, <2>3
    <3>. HIDE DEF g
    <3> QED BY <3>1 DEF Elements
  <2> QED BY <1>l, <2>1, <2>2, <2>3
<1>5. Elements(t) \subseteq (Elements(s) \ {s[h] : h \in (i + 1)..k}) \cup Elements(m)
  BY <1>2 DEF Elements
<1>6. (Elements(s) \ {s[h] : h \in (i + 1)..k}) \cup Elements(m) \subseteq Elements(t)
  BY <1>3, <1>4 DEF Elements
<1> QED BY <1>5, <1>6

-----------------------------------------------------------------------------
(* What two multiples of d make.                                            *)
LEMMA ModSums ==
  ASSUME NEW x \in Nat, NEW y \in Nat, NEW d \in Nat \ {0}, x % d = 0, y % d = 0
  PROVE  (x + y) % d = 0 /\ (y <= x => (x - y) % d = 0)
<1>1. x = d * (x \div d) /\ y = d * (y \div d)
  OBVIOUS
<1>. DEFINE p == x \div d  q == y \div d
<1>2. p \in Nat /\ q \in Nat
  BY DivBounds
<1>. HIDE DEF p, q
<1>3. \A z \in Int : (d * z) % d = 0
  OBVIOUS
<1>4. x + y = d * (p + q) /\ x - y = d * (p - q)
  BY <1>1, <1>2 DEF p, q
<1>5. p + q \in Int /\ p - q \in Int
  BY <1>2
<1> QED BY <1>3, <1>4, <1>5

(* A multiple of a multiple.                                                *)
LEMMA ModProduct ==
  ASSUME NEW x \in Nat, NEW y \in Nat, NEW d \in Nat \ {0}, x % d = 0
  PROVE  (y * x) % d = 0
<1>1. x = d * (x \div d)
  OBVIOUS
<1>. DEFINE p == x \div d
<1>2. p \in Nat
  BY DivBounds
<1>. HIDE DEF p
<1>3. y * x = d * (y * p)
  BY <1>1, <1>2 DEF p
<1>4. \A z \in Int : (d * z) % d = 0
  OBVIOUS
<1>5. y * p \in Int
  BY <1>2
<1> QED BY <1>3, <1>4, <1>5

(* What RoundUp promises.                                                   *)
LEMMA RoundUpFacts ==
  ASSUME NEW x \in Nat, NEW d \in Nat \ {0}
  PROVE  /\ RoundUp(x, d) \in Nat
         /\ x <= RoundUp(x, d) /\ RoundUp(x, d) < x + d
         /\ RoundUp(x, d) % d = 0
<1>. DEFINE k == (x + d - 1) \div d
<1>1. x + d - 1 \in Nat
  OBVIOUS
<1>2. k \in Nat /\ d * k <= x + d - 1 /\ x + d - 1 < d * k + d
  BY <1>1, DivBounds
<1>3. RoundUp(x, d) = k * d
  BY DEF RoundUp
<1>. HIDE DEF k
<1>4. k * d = d * k /\ d * k \in Nat
  BY <1>2
<1>5. (d * k) % d = 0
  BY <1>2
<1> QED BY <1>2, <1>3, <1>4, <1>5

-----------------------------------------------------------------------------
(* Blocks that are fit to be in the heap.                                     *)
Fit(B) ==
  /\ B \subseteq Rec
  /\ \A b \in B : b.addr % HeapAlign = 0 /\ b.size % HeapAlign = 0 /\ b.size >= MinBlock

(* The free blocks F and the blocks in use U divide the heap from lo to hi.     *)
Divides(F, U, lo, hi) ==
  /\ F \cap U = {}
  /\ Fit(F \cup U)
  /\ Tiles(F \cup U, lo, hi)

(* What a block is.                                                      *)
LEMMA RecFacts ==
  ASSUME NEW b \in Rec
  PROVE  b.addr \in Nat /\ b.size \in Nat \ {0} /\ b = Block(b.addr, b.size)
         /\ Limit(b) = b.addr + b.size
BY DEF Rec, Block, Limit

(* What Block makes.                                                     *)
LEMMA BlockFacts ==
  ASSUME NEW a \in Nat, NEW z \in Nat \ {0}
  PROVE  Block(a, z) \in Rec /\ Block(a, z).addr = a /\ Block(a, z).size = z
         /\ Limit(Block(a, z)) = a + z
BY DEF Rec, Block, Limit

(* A block cut in two.                                                       *)
LEMMA SplitTiles ==
  ASSUME NEW B \in SUBSET Rec, NEW b \in B, NEW lo \in Nat, NEW hi \in Nat,
         Tiles(B, lo, hi), NEW c \in Rec, NEW d \in Rec,
         c.addr = b.addr, Limit(c) = d.addr, Limit(d) = Limit(b)
  PROVE  Tiles((B \ {b}) \cup {c, d}, lo, hi)
<1>. DEFINE C == (B \ {b}) \cup {c, d}
<1>0. \A x \in Rec : x.addr \in Nat /\ x.size \in Nat \ {0} /\ Limit(x) = x.addr + x.size
  BY RecFacts
<1>t. /\ \A x, y \in B : x # y => Limit(x) <= y.addr \/ Limit(y) <= x.addr
      /\ \A x \in B : lo <= x.addr /\ Limit(x) <= hi
      /\ \A x \in B : Limit(x) = hi \/ \E y \in B : y.addr = Limit(x)
      /\ lo < hi => \E x \in B : x.addr = lo
  BY DEF Tiles
<1>1. ASSUME NEW x \in C, NEW y \in C, x # y PROVE Limit(x) <= y.addr \/ Limit(y) <= x.addr
  <2>1. CASE x \in B /\ y \in B
    BY <1>t, <1>1, <2>1
  <2>2. CASE x \in B \ {b} /\ y \in {c, d}
    <3>1. Limit(x) <= b.addr \/ Limit(b) <= x.addr
      BY <1>t, <2>2
    <3> QED BY <1>0, <2>2, <3>1
  <2>3. CASE y \in B \ {b} /\ x \in {c, d}
    <3>1. Limit(y) <= b.addr \/ Limit(b) <= y.addr
      BY <1>t, <2>3
    <3> QED BY <1>0, <2>3, <3>1
  <2>4. CASE x \in {c, d} /\ y \in {c, d}
    BY <1>0, <1>1, <2>4
  <2> QED BY <2>1, <2>2, <2>3, <2>4
<1>2. ASSUME NEW x \in C PROVE lo <= x.addr /\ Limit(x) <= hi
  <2>1. lo <= b.addr /\ Limit(b) <= hi
    BY <1>t
  <2> QED BY <1>0, <1>t, <2>1
<1>3. ASSUME NEW y \in B PROVE \E z \in C : z.addr = y.addr
  BY DEF C
<1>4. ASSUME NEW x \in C PROVE Limit(x) = hi \/ \E y \in C : y.addr = Limit(x)
  <2>1. CASE x \in B
    BY <1>t, <1>3, <2>1
  <2>2. CASE x = c
    BY <2>2
  <2>3. CASE x = d
    BY <1>t, <1>3, <2>3
  <2> QED BY <2>1, <2>2, <2>3
<1>5. lo < hi => \E x \in C : x.addr = lo
  BY <1>t, <1>3
<1>. HIDE DEF C
<1>6. Tiles(C, lo, hi)
  BY <1>1, <1>2, <1>4, <1>5 DEF Tiles
<1> QED BY <1>6 DEF C

(* Two blocks that touch made one.                                           *)
LEMMA JoinTiles ==
  ASSUME NEW B \in SUBSET Rec, NEW c \in B, NEW d \in B, NEW lo \in Nat, NEW hi \in Nat,
         Tiles(B, lo, hi), NEW b \in Rec,
         b.addr = c.addr, Limit(c) = d.addr, Limit(b) = Limit(d)
  PROVE  Tiles((B \ {c, d}) \cup {b}, lo, hi)
<1>. DEFINE C == (B \ {c, d}) \cup {b}
<1>0. \A x \in Rec : x.addr \in Nat /\ x.size \in Nat \ {0} /\ Limit(x) = x.addr + x.size
  BY RecFacts
<1>t. /\ \A x, y \in B : x # y => Limit(x) <= y.addr \/ Limit(y) <= x.addr
      /\ \A x \in B : lo <= x.addr /\ Limit(x) <= hi
      /\ \A x \in B : Limit(x) = hi \/ \E y \in B : y.addr = Limit(x)
      /\ lo < hi => \E x \in B : x.addr = lo
  BY DEF Tiles
<1>a. ASSUME NEW x \in B \ {c, d} PROVE Limit(x) <= b.addr \/ Limit(b) <= x.addr
  <2>1. /\ Limit(x) <= c.addr \/ Limit(c) <= x.addr
        /\ Limit(x) <= d.addr \/ Limit(d) <= x.addr
    BY <1>t
  <2> QED BY <1>0, <2>1
<1>1. ASSUME NEW x \in C, NEW y \in C, x # y PROVE Limit(x) <= y.addr \/ Limit(y) <= x.addr
  <2>1. CASE x \in B \ {c, d} /\ y \in B \ {c, d}
    BY <1>t, <1>1, <2>1
  <2>2. CASE x \in B \ {c, d} /\ y = b
    BY <1>a, <2>2
  <2>3. CASE y \in B \ {c, d} /\ x = b
    BY <1>a, <2>3
  <2> QED BY <1>1, <2>1, <2>2, <2>3
<1>2. ASSUME NEW x \in C PROVE lo <= x.addr /\ Limit(x) <= hi
  <2>1. lo <= c.addr /\ Limit(d) <= hi
    BY <1>t
  <2> QED BY <1>0, <1>t, <2>1
<1>3. ASSUME NEW x \in C, NEW y \in B, y.addr = Limit(x) PROVE \E z \in C : z.addr = Limit(x)
  <2>1. CASE y # c /\ y # d
    BY <1>3, <2>1
  <2>2. CASE y = c
    BY <1>3, <2>2
  <2>3. CASE y = d
    <3>1. x # b /\ x \in B \ {c, d}
      BY <1>0, <1>3, <2>3
    <3>2. Limit(x) <= c.addr \/ Limit(c) <= x.addr
      BY <1>t, <3>1
    <3> QED BY <1>0, <1>3, <2>3, <3>1, <3>2
  <2> QED BY <2>1, <2>2, <2>3
<1>4. ASSUME NEW x \in C PROVE Limit(x) = hi \/ \E y \in C : y.addr = Limit(x)
  <2>1. CASE x \in B \ {c, d}
    BY <1>t, <1>3, <2>1
  <2>2. CASE x = b
    <3>1. Limit(d) = hi \/ \E y \in B : y.addr = Limit(d)
      BY <1>t
    <3> QED BY <1>3, <2>2, <3>1
  <2> QED BY <2>1, <2>2
<1>5. lo < hi => \E x \in C : x.addr = lo
  <2>. SUFFICES ASSUME lo < hi PROVE \E x \in C : x.addr = lo
    OBVIOUS
  <2>1. PICK x \in B : x.addr = lo
    BY <1>t
  <2>2. x # d
    BY <1>0, <1>t, <2>1
  <2> QED BY <2>1, <2>2
<1>. HIDE DEF C
<1>6. Tiles(C, lo, hi)
  BY <1>1, <1>2, <1>4, <1>5 DEF Tiles
<1> QED BY <1>6 DEF C

(* A block added at the top.                                                 *)
LEMMA GrowTiles ==
  ASSUME NEW B \in SUBSET Rec, NEW lo \in Nat, NEW hi \in Nat, lo <= hi,
         Tiles(B, lo, hi), NEW b \in Rec, b.addr = hi
  PROVE  Tiles(B \cup {b}, lo, Limit(b))
<1>. DEFINE C == B \cup {b}
<1>0. \A x \in Rec : x.addr \in Nat /\ x.size \in Nat \ {0} /\ Limit(x) = x.addr + x.size
  BY RecFacts
<1>t. /\ \A x, y \in B : x # y => Limit(x) <= y.addr \/ Limit(y) <= x.addr
      /\ \A x \in B : lo <= x.addr /\ Limit(x) <= hi
      /\ \A x \in B : Limit(x) = hi \/ \E y \in B : y.addr = Limit(x)
      /\ lo < hi => \E x \in B : x.addr = lo
  BY DEF Tiles
<1>1. \A x, y \in C : x # y => Limit(x) <= y.addr \/ Limit(y) <= x.addr
  BY <1>0, <1>t
<1>2. \A x \in C : lo <= x.addr /\ Limit(x) <= Limit(b)
  BY <1>0, <1>t
<1>3. \A x \in C : Limit(x) = Limit(b) \/ \E y \in C : y.addr = Limit(x)
  BY <1>0, <1>t
<1>4. \E x \in C : x.addr = lo
  BY <1>t
<1>. HIDE DEF C
<1>5. Tiles(C, lo, Limit(b))
  BY <1>1, <1>2, <1>3, <1>4 DEF Tiles
<1> QED BY <1>5 DEF C

(* Two blocks of one heap that share an address are one.                      *)
LEMMA OneBlock ==
  ASSUME NEW B \in SUBSET Rec, NEW lo \in Nat, NEW hi \in Nat, Tiles(B, lo, hi),
         NEW b \in B, NEW c \in B, b.addr < Limit(c), c.addr < Limit(b)
  PROVE  b = c
<1>1. b # c => Limit(b) <= c.addr \/ Limit(c) <= b.addr
  BY DEF Tiles
<1>2. b \in Rec /\ c \in Rec
  OBVIOUS
<1> QED BY <1>1, <1>2, RecFacts

(* A request needs a multiple of the alignment that holds it and its header.*)
LEMMA NeededFacts ==
  ASSUME NEW n \in Nat
  PROVE  /\ Needed(n) \in Nat \ {0} /\ Header + n <= Needed(n)
         /\ MinBlock <= Needed(n) /\ Needed(n) % HeapAlign = 0
<1>. DEFINE r == RoundUp(Header + n, HeapAlign)
<1>1. /\ Header \in Nat \ {0} /\ HeapAlign \in Nat \ {0} /\ MinBlock \in Nat \ {0}
      /\ MinBlock % HeapAlign = 0
  BY HeapAssumption
<1>2. Header + n \in Nat
  BY <1>1
<1>3. r \in Nat /\ Header + n <= r /\ r % HeapAlign = 0
  BY <1>1, <1>2, RoundUpFacts
<1>4. Needed(n) = IF r < MinBlock THEN MinBlock ELSE r
  BY DEF Needed
<1>. HIDE DEF r
<1> QED BY <1>1, <1>3, <1>4

(* The pages that a growth adds hold what is needed and are whole.              *)
LEMMA GrowthFacts ==
  ASSUME NEW n \in Nat
  PROVE  /\ Growth(n) \in Nat \ {0} /\ Needed(n) <= Growth(n) /\ Growth(n) % HeapAlign = 0
         /\ Growth(n) \div PageSize \in Nat
         /\ (Growth(n) \div PageSize) * PageSize = Growth(n)
         /\ Growth(n) < Needed(n) + PageSize
<1>1. PageSize \in Nat \ {0} /\ HeapAlign \in Nat \ {0} /\ PageSize % HeapAlign = 0
  BY HeapAssumption
<1>2. Needed(n) \in Nat \ {0}
  BY NeededFacts
<1>. DEFINE N == Needed(n)  k == (N + PageSize - 1) \div PageSize
<1>3. N \in Nat \ {0}
  BY <1>2
<1>4. Growth(n) = k * PageSize /\ Growth(n) = RoundUp(N, PageSize)
  BY DEF Growth, RoundUp
<1>. HIDE DEF N
<1>5. /\ Growth(n) \in Nat /\ N <= Growth(n) /\ Growth(n) < N + PageSize
      /\ Growth(n) % PageSize = 0
  <2>1. PageSize \in Nat \ {0} /\ N \in Nat
    BY <1>1, <1>3
  <2>2. /\ RoundUp(N, PageSize) \in Nat
        /\ N <= RoundUp(N, PageSize) /\ RoundUp(N, PageSize) < N + PageSize
        /\ RoundUp(N, PageSize) % PageSize = 0
    BY ONLY <2>1, RoundUpFacts, Zenon
  <2> QED BY <1>4, <2>2, Zenon
<1>6. N + PageSize - 1 \in Nat
  BY <1>1, <1>3
<1>7. k \in Nat
  BY <1>1, <1>6, DivBounds
<1>. HIDE DEF k
<1>8. (k * PageSize) % HeapAlign = 0
  BY <1>1, <1>7, ModProduct
<1>9. (k * PageSize) \div PageSize = k
  BY <1>1, <1>7
<1> QED BY <1>3, <1>4, <1>5, <1>7, <1>8, <1>9 DEF N

(* A block taken from the free ones and cut for a request.                      *)
LEMMA CarveDivides ==
  ASSUME NEW F, NEW U, NEW lo \in Nat, NEW hi \in Nat, Divides(F, U, lo, hi),
         NEW b \in F, NEW n \in Nat, Needed(n) <= b.size, NEW G, NEW V,
         G = (F \ {b}) \cup Elements(Carve(b, n).rest), V = U \cup {Carve(b, n).got}
  PROVE  /\ Divides(G, V, lo, hi)
         /\ Carve(b, n).got.addr = b.addr
         /\ Needed(n) <= Carve(b, n).got.size
         /\ Limit(Carve(b, n).got) <= Limit(b)
         /\ Carve(b, n).got \in Rec /\ Carve(b, n).got \notin U
<1>n. Needed(n) \in Nat \ {0} /\ MinBlock <= Needed(n) /\ Needed(n) % HeapAlign = 0
  BY NeededFacts
<1>m. MinBlock \in Nat \ {0} /\ HeapAlign \in Nat \ {0}
  BY HeapAssumption
<1>d. /\ F \cap U = {} /\ F \cup U \in SUBSET Rec /\ Tiles(F \cup U, lo, hi)
      /\ \A x \in F \cup U : x.addr % HeapAlign = 0 /\ x.size % HeapAlign = 0 /\ x.size >= MinBlock
  BY DEF Divides, Fit
<1>0. \A x \in Rec : x.addr \in Nat /\ x.size \in Nat \ {0} /\ Limit(x) = x.addr + x.size
  BY RecFacts
<1>b. b \in Rec /\ b \notin U
  BY <1>d
<1>1. CASE b.size - Needed(n) >= MinBlock
  <2>. DEFINE c == Block(b.addr, Needed(n))
              d == Block(b.addr + Needed(n), b.size - Needed(n))
  <2>1. Carve(b, n).got = c /\ Carve(b, n).rest = <<d>>
    BY <1>1 DEF Carve
  <2>2. Elements(<<d>>) = {d}
    <3>. HIDE DEF d
    <3>1. Len(<<d>>) = 1 /\ <<d>>[1] = d
      OBVIOUS
    <3>2. 1..1 = {1}
      OBVIOUS
    <3> QED BY <3>1, <3>2 DEF Elements
  <2>3. b.size - Needed(n) \in Nat \ {0} /\ b.addr + Needed(n) \in Nat
    BY <1>0, <1>1, <1>b, <1>m, <1>n
  <2>4. /\ c \in Rec /\ c.addr = b.addr /\ c.size = Needed(n) /\ Limit(c) = b.addr + Needed(n)
        /\ d \in Rec /\ d.addr = b.addr + Needed(n) /\ d.size = b.size - Needed(n)
        /\ Limit(d) = b.addr + Needed(n) + (b.size - Needed(n))
    BY <1>0, <1>b, <1>n, <2>3, BlockFacts
  <2>. HIDE DEF c, d
  <2>5. Limit(d) = Limit(b) /\ Limit(c) = d.addr /\ c # d
    BY <1>0, <1>b, <1>n, <2>4
  <2>6. G = (F \ {b}) \cup {d} /\ V = U \cup {c}
    BY <2>1, <2>2
  <2>7. G \cup V = ((F \cup U) \ {b}) \cup {c, d}
    BY <1>b, <2>6
  <2>8. Tiles(G \cup V, lo, hi)
    BY <1>d, <2>4, <2>5, <2>7, SplitTiles
  <2>9. \A x \in (F \cup U) : x # b => x # c /\ x # d
    <3>. SUFFICES ASSUME NEW x \in F \cup U, x # b, x = c \/ x = d PROVE FALSE
      OBVIOUS
    <3>1. x.addr < Limit(b) /\ b.addr < Limit(x)
      BY <1>0, <1>b, <1>n, <2>3, <2>4, <2>5
    <3> QED BY <1>d, <3>1, OneBlock
  <2>10. G \cap V = {}
    BY <1>d, <2>5, <2>6, <2>9
  <2>11. Fit(G \cup V)
    <3>1. d.addr % HeapAlign = 0 /\ d.size % HeapAlign = 0
      <4>1. b.addr \in Nat /\ b.size \in Nat /\ b.addr % HeapAlign = 0 /\ b.size % HeapAlign = 0
        BY <1>0, <1>b, <1>d
      <4> QED BY <1>m, <1>n, <2>4, <4>1, ModSums, SMTT(30)
    <3>2. c.addr % HeapAlign = 0 /\ c.size % HeapAlign = 0 /\ c.size >= MinBlock /\ d.size >= MinBlock
      BY <1>1, <1>d, <1>n, <1>m, <2>4
    <3> QED BY <1>d, <2>4, <2>7, <3>1, <3>2 DEF Fit
  <2>12. Limit(c) <= Limit(b)
    BY <1>0, <1>b, <1>n, <1>1, <1>m, <2>4
  <2>13. c \notin U
    BY <1>b, <2>9
  <2>14. Divides(G, V, lo, hi)
    BY <2>8, <2>10, <2>11 DEF Divides
  <2>15. Needed(n) <= c.size
    BY <1>n, <2>4
  <2> QED BY <2>1, <2>4, <2>12, <2>13, <2>14, <2>15
<1>2. CASE ~(b.size - Needed(n) >= MinBlock)
  <2>1. Carve(b, n).got = b /\ Carve(b, n).rest = <<>>
    BY <1>2 DEF Carve
  <2>2. Elements(<<>>) = {}
    BY DEF Elements
  <2>3. G = F \ {b} /\ V = U \cup {b} /\ G \cup V = F \cup U /\ G \cap V = {}
    BY <1>d, <1>b, <2>1, <2>2
  <2>4. Limit(b) <= Limit(b)
    BY <1>0, <1>b
  <2>5. Fit(F \cup U) /\ Tiles(F \cup U, lo, hi)
    BY DEF Divides
  <2>6. Divides(G, V, lo, hi)
    BY <2>3, <2>5 DEF Divides
  <2> QED BY <1>b, <2>1, <2>4, <2>6
<1> QED BY <1>1, <1>2

(* Two free blocks that touch are made one.                                    *)
Touch(F, U, lo, hi, c, d, b) ==
  /\ lo \in Nat /\ hi \in Nat
  /\ Divides(F, U, lo, hi)
  /\ c \in F /\ d \in F /\ Limit(c) = d.addr
  /\ b = Block(c.addr, c.size + d.size)

Joined(F, U, lo, hi, c, d, b) ==
  /\ Divides((F \ {c, d}) \cup {b}, U, lo, hi)
  /\ b \in Rec /\ b.addr = c.addr /\ Limit(b) = Limit(d)

(* Joining keeps the heap divided.                                            *)
LEMMA JoinDivides ==
  ASSUME NEW F, NEW U, NEW lo, NEW hi, NEW c, NEW d, NEW b, Touch(F, U, lo, hi, c, d, b)
  PROVE  Joined(F, U, lo, hi, c, d, b)
<1>h. /\ lo \in Nat /\ hi \in Nat /\ Divides(F, U, lo, hi)
      /\ c \in F /\ d \in F /\ Limit(c) = d.addr /\ b = Block(c.addr, c.size + d.size)
  BY DEF Touch
<1>d. /\ F \cap U = {} /\ F \cup U \in SUBSET Rec /\ Tiles(F \cup U, lo, hi)
      /\ \A x \in F \cup U : x.addr % HeapAlign = 0 /\ x.size % HeapAlign = 0 /\ x.size >= MinBlock
  BY <1>h DEF Divides, Fit
<1>m. MinBlock \in Nat \ {0} /\ HeapAlign \in Nat \ {0}
  BY HeapAssumption
<1>0. \A x \in Rec : x.addr \in Nat /\ x.size \in Nat \ {0} /\ Limit(x) = x.addr + x.size
  BY RecFacts
<1>1. c \in Rec /\ d \in Rec
  BY <1>d, <1>h
<1>2. c.addr \in Nat /\ c.size \in Nat \ {0} /\ d.addr \in Nat /\ d.size \in Nat \ {0}
  BY <1>0, <1>1
<1>3. c.size + d.size \in Nat \ {0}
  BY <1>2
<1>4. b \in Rec /\ b.addr = c.addr /\ b.size = c.size + d.size /\ Limit(b) = c.addr + (c.size + d.size)
  BY <1>h, <1>2, <1>3, BlockFacts
<1>5. Limit(b) = Limit(d)
  BY <1>h, <1>0, <1>1, <1>2, <1>4
<1>. DEFINE G == (F \ {c, d}) \cup {b}
<1>6. G \cup U = ((F \cup U) \ {c, d}) \cup {b}
  BY <1>d, <1>h
<1>7. Tiles(G \cup U, lo, hi)
  <2>1. c \in F \cup U /\ d \in F \cup U
    BY <1>h
  <2> QED BY <1>h, <1>d, <1>4, <1>5, <1>6, <2>1, JoinTiles
<1>8. ASSUME b \in U PROVE FALSE
  <2>1. b.addr < Limit(c) /\ c.addr < Limit(b)
    BY <1>0, <1>1, <1>2, <1>4
  <2>2. b = c
    BY <1>h, <1>8, <1>d, <2>1, OneBlock
  <2> QED BY <1>h, <1>8, <1>d, <2>2
<1>9. G \cap U = {}
  BY <1>d, <1>8
<1>10. Fit(G \cup U)
  <2>1. c.addr % HeapAlign = 0 /\ c.size % HeapAlign = 0 /\ d.size % HeapAlign = 0 /\ c.size >= MinBlock
    BY <1>d, <1>h
  <2>a. (c.size + d.size) % HeapAlign = 0
    <3>1. c.size \in Nat /\ d.size \in Nat
      BY <1>2
    <3> QED BY <1>m, <2>1, <3>1, ModSums
  <2>b. c.size + d.size >= MinBlock
    BY <1>m, <1>2, <2>1
  <2>2. b.addr % HeapAlign = 0 /\ b.size % HeapAlign = 0 /\ b.size >= MinBlock
    BY <1>4, <2>1, <2>a, <2>b, Zenon
  <2> QED BY <1>d, <1>4, <1>6, <2>2 DEF Fit
<1>. HIDE DEF G
<1>11. Divides(G, U, lo, hi)
  BY <1>7, <1>9, <1>10 DEF Divides
<1> QED BY <1>4, <1>5, <1>11 DEF G, Joined

(* What Carve leaves of a block is its upper end.                             *)
LEMMA RestFacts ==
  ASSUME NEW b \in Rec, NEW n \in Nat, Needed(n) <= b.size
  PROVE  /\ Carve(b, n).rest \in Seq(Rec) /\ Len(Carve(b, n).rest) <= 1
         /\ \A h \in 1..Len(Carve(b, n).rest) :
              /\ b.addr < Carve(b, n).rest[h].addr
              /\ Limit(Carve(b, n).rest[h]) = Limit(b)
<1>n. Needed(n) \in Nat \ {0}
  BY NeededFacts
<1>m. MinBlock \in Nat \ {0}
  BY HeapAssumption
<1>0. b.addr \in Nat /\ b.size \in Nat \ {0} /\ Limit(b) = b.addr + b.size
  BY RecFacts
<1>1. CASE b.size - Needed(n) >= MinBlock
  <2>. DEFINE d == Block(b.addr + Needed(n), b.size - Needed(n))
  <2>1. Carve(b, n).rest = <<d>>
    BY <1>1 DEF Carve
  <2>2. b.size - Needed(n) \in Nat \ {0} /\ b.addr + Needed(n) \in Nat
    BY <1>0, <1>1, <1>m, <1>n
  <2>3. /\ d \in Rec /\ d.addr = b.addr + Needed(n)
        /\ Limit(d) = b.addr + Needed(n) + (b.size - Needed(n))
    BY <2>2, BlockFacts
  <2>. HIDE DEF d
  <2>4. b.addr < d.addr /\ Limit(d) = Limit(b)
    BY <1>0, <1>n, <2>3
  <2>5. <<d>> \in Seq(Rec) /\ Len(<<d>>) = 1 /\ <<d>>[1] = d
    BY <2>3
  <2> QED BY <2>1, <2>4, <2>5
<1>2. CASE ~(b.size - Needed(n) >= MinBlock)
  <2>1. Carve(b, n).rest = <<>>
    BY <1>2 DEF Carve
  <2> QED BY <2>1
<1> QED BY <1>1, <1>2

-----------------------------------------------------------------------------
(* The inductive invariant: the free blocks, in order and apart, and the       *)
(* blocks in use divide the heap between them.                              *)
HeapInv ==
  /\ heap_free \in Seq(Rec)
  /\ heap_top \in Nat /\ frames \in Nat /\ base \in Nat
  /\ base <= heap_top
  /\ heap_top % HeapAlign = 0
  /\ Sorted(heap_free)
  /\ Divides(Elements(heap_free), used, base, heap_top)

(* heap_init, with frames enough or not.                                 *)
LEMMA HeapInit == Init => HeapInv
<1>. SUFFICES ASSUME Init PROVE HeapInv
  OBVIOUS
<1>a. /\ PageSize \in Nat \ {0} /\ InitPages \in Nat \ {0} /\ HeapAlign \in Nat \ {0}
      /\ MinBlock \in Nat \ {0} /\ PageSize % HeapAlign = 0 /\ MinBlock <= PageSize
      /\ FrameCounts \subseteq Nat
  BY HeapAssumption
<1>1. PICK n \in FrameCounts :
       IF n >= InitPages
         THEN /\ heap_top = InitPages * PageSize
              /\ heap_free = <<Block(0, InitPages * PageSize)>>
              /\ base = 0
              /\ frames = n - InitPages
         ELSE /\ heap_top = n * PageSize
              /\ heap_free = <<>>
              /\ base = heap_top
              /\ frames = 0
  BY DEF Init
<1>2. n \in Nat /\ used = {}
  BY <1>a DEF Init
<1>3. CASE n >= InitPages
  <2>. DEFINE z == InitPages * PageSize  b == Block(0, z)
  <2>1. z \in Nat \ {0} /\ PageSize <= z
    BY <1>a
  <2>2. z % HeapAlign = 0 /\ 0 % HeapAlign = 0
    <3>1. PageSize \in Nat /\ InitPages \in Nat
      BY <1>a
    <3>2. z % HeapAlign = 0
      BY <1>a, <3>1, ModProduct
    <3>3. 0 % HeapAlign = 0
      BY <1>a
    <3> QED BY <3>2, <3>3
  <2>3. heap_top = z /\ heap_free = <<b>> /\ base = 0 /\ frames \in Nat
    BY <1>a, <1>1, <1>2, <1>3
  <2>. HIDE DEF z
  <2>4. b \in Rec /\ b.addr = 0 /\ b.size = z /\ Limit(b) = z
    <3>1. b \in Rec /\ b.addr = 0 /\ b.size = z /\ Limit(b) = 0 + z
      BY <2>1, BlockFacts
    <3> QED BY <2>1, <3>1
  <2>. HIDE DEF b
  <2>5. heap_free \in Seq(Rec) /\ Len(heap_free) = 1 /\ heap_free[1] = b
    BY <2>3, <2>4
  <2>6. Sorted(heap_free)
    BY <2>5 DEF Sorted
  <2>7. Elements(heap_free) = {b}
    <3>1. 1..1 = {1}
      OBVIOUS
    <3> QED BY <2>5, <3>1 DEF Elements
  <2>8. Tiles({b} \cup {}, 0, z)
    BY <2>1, <2>4 DEF Tiles
  <2>9. z >= MinBlock
    BY <1>a, <2>1
  <2>10. Fit({b} \cup {})
    BY <2>2, <2>4, <2>9 DEF Fit
  <2>11. Divides(Elements(heap_free), used, base, heap_top)
    BY <1>2, <2>3, <2>7, <2>8, <2>10 DEF Divides
  <2>12. base <= heap_top /\ base \in Nat /\ heap_top \in Nat /\ heap_top % HeapAlign = 0
    BY <2>1, <2>2, <2>3
  <2> QED BY <2>3, <2>5, <2>6, <2>11, <2>12 DEF HeapInv
<1>4. CASE ~(n >= InitPages)
  <2>1. heap_top = n * PageSize /\ heap_free = <<>> /\ base = heap_top /\ frames = 0
    BY <1>1, <1>4
  <2>2. heap_top \in Nat /\ heap_top % HeapAlign = 0
    <3>1. PageSize \in Nat
      BY <1>a
    <3>2. (n * PageSize) % HeapAlign = 0
      BY <1>a, <1>2, <3>1, ModProduct
    <3> QED BY <1>2, <2>1, <3>1, <3>2
  <2>3. heap_free \in Seq(Rec) /\ Len(heap_free) = 0
    BY <2>1
  <2>4. Elements(heap_free) = {} /\ Sorted(heap_free)
    BY <2>3 DEF Elements, Sorted
  <2>5. Divides(Elements(heap_free), used, base, heap_top)
    BY <1>2, <2>1, <2>2, <2>4 DEF Divides, Fit, Tiles
  <2> QED BY <2>1, <2>2, <2>3, <2>4, <2>5 DEF HeapInv
<1> QED BY <1>3, <1>4

(* What a call of malloc that returns a block has done.                         *)
Gave(n) ==
  \E b \in Rec : /\ last' = Called("malloc", n, b)
                 /\ Header + n <= b.size /\ Limit(b) <= heap_top'
                 /\ \A u \in used : Limit(u) <= b.addr \/ Limit(b) <= u.addr

(* malloc from a block of the list.                                      *)
LEMMA FitStep ==
  ASSUME HeapInv, NEW n \in Nat, MallocFit(n)
  PROVE  HeapInv' /\ Gave(n)
<1>i. /\ heap_free \in Seq(Rec) /\ Sorted(heap_free)
      /\ heap_top \in Nat /\ frames \in Nat /\ base \in Nat
      /\ base <= heap_top /\ heap_top % HeapAlign = 0
      /\ Divides(Elements(heap_free), used, base, heap_top)
  BY DEF HeapInv
<1>1. PICK i \in DOMAIN heap_free :
       /\ FirstFit(i, n)
       /\ HandOut(SubSeq(heap_free, 1, i - 1), heap_free[i],
                  SubSeq(heap_free, i + 1, Len(heap_free)), n)
  BY DEF MallocFit
<1>2. heap_top' = heap_top /\ frames' = frames /\ base' = base
  BY DEF MallocFit
<1>. DEFINE s == heap_free  b == s[i]  m == Carve(b, n).rest  k == i - 1  g == Carve(b, n).got
<1>3. i \in 1..Len(s) /\ k \in Nat /\ i \in Nat /\ k <= i /\ k + 1 = i /\ b \in Rec /\ Len(s) \in Nat
  BY <1>i
<1>4. Needed(n) <= b.size
  <2>1. b.size >= Needed(n)
    BY <1>1 DEF FirstFit
  <2> QED BY <1>3, <2>1, RecFacts, NeededFacts
<1>5. /\ m \in Seq(Rec) /\ Len(m) <= 1
      /\ \A h \in 1..Len(m) : b.addr < m[h].addr /\ Limit(m[h]) = Limit(b)
  BY <1>3, <1>4, RestFacts
<1>6. heap_free' = Splice(s, k, i, m) /\ used' = used \cup {g} /\ last' = Called("malloc", n, g)
  BY <1>1 DEF HandOut, Splice
<1>7. heap_free' \in Seq(Rec) /\ IsSplice(heap_free', s, k, i, m)
  <2>. HIDE DEF m
  <2> QED BY <1>i, <1>3, <1>5, <1>6, SpliceFacts
<1>8. Sorted(heap_free')
  <2>1. ASSUME NEW h \in 1..Len(m)
        PROVE  /\ \A j \in 1..k : Limit(s[j]) < m[h].addr
               /\ \A j \in (i + 1)..Len(s) : Limit(m[h]) < s[j].addr
    <3>a. m[h] \in Rec /\ b.addr < m[h].addr /\ Limit(m[h]) = Limit(b)
      BY <1>5
    <3>1. ASSUME NEW j \in 1..k PROVE Limit(s[j]) < m[h].addr
      <4>1. j \in 1..Len(s) /\ j < i
        BY <1>3
      <4>2. Limit(s[j]) < b.addr
        BY <1>i, <1>3, <4>1 DEF Sorted
      <4>3. s[j] \in Rec
        BY <1>i, <4>1
      <4>4. Limit(s[j]) \in Nat /\ b.addr \in Nat /\ m[h].addr \in Nat
        <5>. HIDE DEF b, m
        <5>1. s[j].addr \in Nat /\ s[j].size \in Nat \ {0} /\ Limit(s[j]) = s[j].addr + s[j].size
          BY <4>3, RecFacts
        <5>2. b.addr \in Nat /\ m[h].addr \in Nat
          BY <1>3, <3>a, RecFacts
        <5> QED BY <5>1, <5>2, SMTT(30)
      <4> QED BY <3>a, <4>2, <4>4
    <3>2. ASSUME NEW j \in (i + 1)..Len(s) PROVE Limit(m[h]) < s[j].addr
      <4>1. j \in 1..Len(s) /\ i < j
        BY <1>3
      <4>2. Limit(b) < s[j].addr
        BY <1>i, <1>3, <4>1 DEF Sorted
      <4> QED BY <3>a, <4>2
    <3> QED BY <3>1, <3>2
  <2>2. i <= Len(s)
    BY <1>3
  <2>. HIDE DEF m, k, b
  <2> QED BY <1>i, <1>3, <1>5, <1>7, <2>1, <2>2, SpliceSorted
<1>9. Elements(heap_free') = (Elements(s) \ {b}) \cup Elements(m)
  <2>1. {s[j] : j \in (k + 1)..i} = {b}
    <3>1. (k + 1)..i = {i}
      BY <1>3
    <3> QED BY <3>1
  <2>2. Elements(heap_free') = (Elements(s) \ {s[j] : j \in (k + 1)..i}) \cup Elements(m)
    <3>. HIDE DEF m, k
    <3> QED BY <1>i, <1>3, <1>5, <1>7, SpliceElements
  <2> QED BY <2>1, <2>2
<1>10. b \in Elements(s)
  BY <1>3 DEF Elements
<1>11. /\ Divides(Elements(heap_free'), used', base, heap_top)
       /\ Needed(n) <= g.size /\ Limit(g) <= Limit(b) /\ g \in Rec /\ g \notin used
  <2>. HIDE DEF b
  <2>1. b \in Elements(s)
    BY <1>10
  <2>2. base \in Nat /\ heap_top \in Nat /\ Divides(Elements(s), used, base, heap_top)
    BY <1>i
  <2>. DEFINE G == Elements(heap_free')  V == used'
  <2>3. G = (Elements(s) \ {b}) \cup Elements(Carve(b, n).rest) /\ V = used \cup {Carve(b, n).got}
    BY <1>6, <1>9
  <2>. HIDE DEF G, V
  <2>4. /\ Divides(G, V, base, heap_top)
        /\ Needed(n) <= g.size /\ Limit(g) <= Limit(b) /\ g \in Rec /\ g \notin used
    BY <1>4, <2>1, <2>2, <2>3, CarveDivides, SMT
  <2> QED BY <2>4 DEF G, V
<1>12. HeapInv'
  BY <1>i, <1>2, <1>7, <1>8, <1>11 DEF HeapInv
<1>13. Header + n <= g.size
  <2>1. g.size \in Nat
    BY <1>11, RecFacts
  <2> QED BY <1>11, <2>1, NeededFacts, HeapAssumption
<1>14. Tiles(Elements(heap_free') \cup used', base, heap_top)
  BY <1>11 DEF Divides
<1>15. Limit(g) <= heap_top' /\ \A u \in used : Limit(u) <= g.addr \/ Limit(g) <= u.addr
  <2>. HIDE DEF g
  <2> QED BY <1>2, <1>6, <1>11, <1>14 DEF Tiles
<1> QED BY <1>6, <1>11, <1>12, <1>13, <1>15 DEF Gave

(* malloc from new pages.                                                *)
LEMMA GrowStep ==
  ASSUME HeapInv, NEW n \in Nat, MallocGrow(n), frames >= Growth(n) \div PageSize
  PROVE  HeapInv' /\ Gave(n)
<1>i. /\ heap_free \in Seq(Rec) /\ Sorted(heap_free)
      /\ heap_top \in Nat /\ frames \in Nat /\ base \in Nat
      /\ base <= heap_top /\ heap_top % HeapAlign = 0
      /\ Divides(Elements(heap_free), used, base, heap_top)
  BY DEF HeapInv
<1>. DEFINE s == heap_free  b == Block(heap_top, Growth(n))  m == Carve(b, n).rest
            g == Carve(b, n).got  l == Len(s)
<1>1. /\ frames' = frames - Growth(n) \div PageSize
      /\ heap_top' = heap_top + Growth(n)
      /\ HandOut(Below(heap_top), b, Above(heap_top), n)
      /\ base' = base
  BY DEF MallocGrow
<1>2. /\ Growth(n) \in Nat \ {0} /\ Needed(n) <= Growth(n) /\ Growth(n) % HeapAlign = 0
      /\ Growth(n) \div PageSize \in Nat
  BY GrowthFacts
<1>n. Needed(n) \in Nat /\ MinBlock <= Needed(n) /\ MinBlock \in Nat /\ HeapAlign \in Nat \ {0}
  BY NeededFacts, HeapAssumption
<1>3. b \in Rec /\ b.addr = heap_top /\ b.size = Growth(n) /\ Limit(b) = heap_top + Growth(n)
  BY <1>i, <1>2, BlockFacts
<1>4. ASSUME NEW j \in 1..l PROVE s[j] \in Rec /\ Limit(s[j]) <= heap_top /\ s[j].addr < heap_top
  <2>1. s[j] \in Elements(s)
    BY DEF Elements
  <2>2. Limit(s[j]) <= heap_top
    BY <1>i, <2>1 DEF Divides, Tiles
  <2>3. s[j] \in Rec
    BY <1>i
  <2> QED BY <1>i, <2>2, <2>3, RecFacts
<1>5. Passed(heap_top) = l
  <2>1. /\ Passed(heap_top) \in 0..l
        /\ Passed(heap_top) < l => s[Passed(heap_top) + 1].addr >= heap_top
    BY <1>i, PassedFacts
  <2>2. ASSUME Passed(heap_top) < l PROVE FALSE
    <3>. DEFINE j == Passed(heap_top) + 1
    <3>1. j \in 1..l
      BY <2>1, <2>2
    <3>2. s[j].addr >= heap_top
      BY <2>1, <2>2
    <3>. HIDE DEF j
    <3>3. s[j].addr < heap_top /\ s[j].addr \in Nat
      BY <1>4, <3>1, RecFacts
    <3> QED BY <1>i, <3>2, <3>3
  <2>3. l \in Nat
    BY <1>i
  <2> QED BY <2>1, <2>2, <2>3
<1>6. heap_free' = Splice(s, l, l, m) /\ used' = used \cup {g} /\ last' = Called("malloc", n, g)
  BY <1>1, <1>5 DEF HandOut, Splice, Below, Above
<1>c. Needed(n) <= b.size
  BY <1>2, <1>3
<1>7. /\ m \in Seq(Rec) /\ Len(m) <= 1
      /\ \A h \in 1..Len(m) : b.addr < m[h].addr /\ Limit(m[h]) = Limit(b)
  <2>. HIDE DEF b
  <2> QED BY <1>3, <1>c, RestFacts
<1>l. l \in Nat /\ l <= Len(s)
  BY <1>i
<1>8. heap_free' \in Seq(Rec) /\ IsSplice(heap_free', s, l, l, m)
  <2>. HIDE DEF m
  <2> QED BY <1>i, <1>l, <1>6, <1>7, SpliceFacts
<1>9. Sorted(heap_free')
  <2>1. ASSUME NEW h \in 1..Len(m)
        PROVE  /\ \A j \in 1..l : Limit(s[j]) < m[h].addr
               /\ \A j \in (l + 1)..Len(s) : Limit(m[h]) < s[j].addr
    <3>. HIDE DEF m, b
    <3>a. m[h] \in Rec /\ b.addr < m[h].addr
      BY <1>7
    <3>1. ASSUME NEW j \in 1..l PROVE Limit(s[j]) < m[h].addr
      <4>1. Limit(s[j]) \in Nat /\ m[h].addr \in Nat /\ Limit(s[j]) <= heap_top
        BY <1>4, <3>a, RecFacts
      <4> QED BY <1>i, <1>3, <3>a, <4>1
    <3>2. (l + 1)..Len(s) = {}
      BY <1>l
    <3> QED BY <3>1, <3>2
  <2>. HIDE DEF m
  <2> QED BY <1>i, <1>l, <1>7, <1>8, <2>1, SpliceSorted
<1>10. b \notin Elements(s) \cup used
  <2>1. ASSUME b \in Elements(s) \cup used PROVE FALSE
    <3>1. Limit(b) <= heap_top
      BY <1>i, <2>1 DEF Divides, Tiles
    <3> QED BY <1>i, <1>2, <1>3, <3>1
  <2> QED BY <2>1
<1>. DEFINE F == Elements(s) \cup {b}
<1>11. Elements(heap_free') = (F \ {b}) \cup Elements(m)
  <2>1. {s[j] : j \in (l + 1)..l} = {}
    <3>1. (l + 1)..l = {}
      BY <1>l
    <3> QED BY <3>1
  <2>2. Elements(heap_free') = (Elements(s) \ {s[j] : j \in (l + 1)..l}) \cup Elements(m)
    <3>. HIDE DEF m
    <3> QED BY <1>i, <1>l, <1>7, <1>8, SpliceElements
  <2>. HIDE DEF m, b
  <2> QED BY <1>10, <2>1, <2>2
<1>12. Divides(F, used, base, heap_top')
  <2>. HIDE DEF b
  <2>d. /\ Elements(s) \cap used = {} /\ Fit(Elements(s) \cup used)
        /\ Tiles(Elements(s) \cup used, base, heap_top)
    BY <1>i DEF Divides
  <2>1. F \cap used = {}
    BY <1>10, <2>d
  <2>2. F \cup used = (Elements(s) \cup used) \cup {b}
    OBVIOUS
  <2>3. b.size >= MinBlock
    BY <1>2, <1>3, <1>n
  <2>4. Fit(F \cup used)
    BY <1>i, <1>2, <1>3, <2>2, <2>3, <2>d DEF Fit
  <2>5. Elements(s) \cup used \in SUBSET Rec
    BY <2>d DEF Fit
  <2>6. Tiles((Elements(s) \cup used) \cup {b}, base, Limit(b))
    BY <1>i, <1>3, <2>5, <2>d, GrowTiles
  <2>7. Tiles(F \cup used, base, heap_top')
    BY <1>1, <1>3, <2>2, <2>6
  <2>. HIDE DEF F
  <2> QED BY <2>1, <2>4, <2>7 DEF Divides
<1>t. heap_top' \in Nat /\ frames' \in Nat /\ base' \in Nat /\ base' <= heap_top'
  BY <1>i, <1>1, <1>2
<1>u. heap_top' % HeapAlign = 0
  BY <1>i, <1>1, <1>2, <1>n, ModSums
<1>13. /\ Divides(Elements(heap_free'), used', base, heap_top')
       /\ Needed(n) <= g.size /\ Limit(g) <= Limit(b) /\ g \in Rec /\ g \notin used
  <2>1. b \in F
    OBVIOUS
  <2>. HIDE DEF b, F
  <2>. DEFINE G == Elements(heap_free')  V == used'  t == heap_top'
  <2>2. base \in Nat /\ t \in Nat /\ Divides(F, used, base, t)
    BY <1>i, <1>t, <1>12
  <2>3. G = (F \ {b}) \cup Elements(Carve(b, n).rest) /\ V = used \cup {Carve(b, n).got}
    BY <1>6, <1>11
  <2>. HIDE DEF G, V, t
  <2>4. /\ Divides(G, V, base, t)
        /\ Needed(n) <= g.size /\ Limit(g) <= Limit(b) /\ g \in Rec /\ g \notin used
    <3>1. n \in Nat /\ base \in Nat /\ t \in Nat
      BY <2>2
    <3>. HIDE DEF m, g
    <3>2. \A X, Y : X = (F \ {b}) \cup Elements(Carve(b, n).rest) /\ Y = used \cup {Carve(b, n).got} =>
          /\ Divides(X, Y, base, t) /\ Needed(n) <= Carve(b, n).got.size
          /\ Limit(Carve(b, n).got) <= Limit(b)
          /\ Carve(b, n).got \in Rec /\ Carve(b, n).got \notin used
      BY ONLY <1>c, <2>1, <2>2, <3>1, CarveDivides, SMTT(30)
    <3> QED BY <2>3, <3>2, Zenon DEF g
  <2> QED BY <2>4 DEF G, V, t
<1>14. HeapInv'
  BY <1>1, <1>8, <1>9, <1>13, <1>t, <1>u DEF HeapInv
<1>15. Header + n <= g.size
  <2>1. g.size \in Nat
    BY <1>13, RecFacts
  <2> QED BY <1>13, <2>1, NeededFacts, HeapAssumption
<1>16. Tiles(Elements(heap_free') \cup used', base, heap_top')
  BY <1>13 DEF Divides
<1>17. Limit(g) <= heap_top' /\ \A u \in used : Limit(u) <= g.addr \/ Limit(g) <= u.addr
  <2>. HIDE DEF g
  <2> QED BY <1>6, <1>13, <1>16 DEF Tiles
<1> QED BY <1>6, <1>13, <1>14, <1>15, <1>17 DEF Gave

(* The cut parts of a list: whether they are empty, and their ends.              *)
LEMMA CutFacts ==
  ASSUME NEW s \in Seq(Rec), NEW c \in 0..Len(s)
  PROVE  /\ SubSeq(s, 1, c) # <<>> <=> c > 0
         /\ c > 0 => /\ Last(SubSeq(s, 1, c)) = s[c]
                     /\ Front(SubSeq(s, 1, c)) = SubSeq(s, 1, c - 1)
         /\ SubSeq(s, c + 1, Len(s)) # <<>> <=> c < Len(s)
         /\ c < Len(s) => /\ Head(SubSeq(s, c + 1, Len(s))) = s[c + 1]
                          /\ Tail(SubSeq(s, c + 1, Len(s))) = SubSeq(s, c + 2, Len(s))
<1>. DEFINE S == Rec
<1>. HIDE DEF S
<1>0. s \in Seq(S) /\ Len(s) \in Nat
  BY DEF S
<1>. DEFINE p == SubSeq(s, 1, c)  q == SubSeq(s, c + 1, Len(s))
<1>1. p \in Seq(S) /\ Len(p) = c /\ \A j \in 1..c : p[j] = s[j]
  BY <1>0
<1>2. q \in Seq(S) /\ Len(q) = Len(s) - c
  BY <1>0
<1>3. p # <<>> <=> c > 0
  <2>. HIDE DEF p
  <2> QED BY <1>1
<1>4. q # <<>> <=> c < Len(s)
  <2>. HIDE DEF q
  <2>1. q = <<>> <=> Len(q) = 0
    BY <1>2
  <2> QED BY <1>0, <1>2, <2>1
<1>5. ASSUME c < Len(s)
      PROVE  Head(q) = s[c + 1] /\ Tail(q) = SubSeq(s, c + 2, Len(s))
  <2>1. c + 1 \in 1..Len(s) /\ Len(s) \in (c + 1)..Len(s) /\ (c + 1) + 1 = c + 2
    BY <1>0, <1>5
  <2>2. Head(q) = s[c + 1] /\ Tail(q) = SubSeq(s, (c + 1) + 1, Len(s))
    BY <1>0, <2>1, HeadTailOfSubSeq
  <2> QED BY <2>1, <2>2
<1>6. ASSUME c > 0
      PROVE  Last(p) = s[c] /\ Front(p) = SubSeq(s, 1, c - 1)
  <2>1. Last(p) = s[c]
    <3>. HIDE DEF p
    <3>1. c \in 1..c
      BY <1>6
    <3> QED BY <1>1, <3>1 DEF Last
  <2>. DEFINE f == SubSeq(p, 1, c - 1)  g == SubSeq(s, 1, c - 1)
  <2>2. g \in Seq(S) /\ Len(g) = c - 1 /\ \A j \in 1..(c - 1) : g[j] = s[j]
    BY <1>0, <1>6
  <2>3. f \in Seq(S) /\ Len(f) = c - 1 /\ \A j \in 1..(c - 1) : f[j] = p[j]
    <3>. HIDE DEF p
    <3> QED BY <1>1, <1>6
  <2>4. Front(p) = f
    BY <1>1 DEF Front
  <2>. HIDE DEF f, g, p
  <2>5. \A j \in 1..Len(f) : f[j] = g[j]
    BY <1>1, <1>6, <2>2, <2>3, SMTT(30)
  <2>6. f = g
    BY <2>2, <2>3, <2>5, SeqEqual
  <2> QED BY <2>1, <2>4, <2>6 DEF g
<1> QED BY <1>3, <1>4, <1>5, <1>6

(* What Join makes of the parts is a splice: one block in the place of the      *)
(* neighbours it was joined to.                                             *)
LEMMA JoinSplice ==
  ASSUME NEW s \in Seq(Rec), NEW c \in 0..Len(s), NEW b,
         NEW touches, touches = (c < Len(s) /\ Limit(b) = s[c + 1].addr),
         NEW k, k = (IF touches THEN c + 1 ELSE c),
         NEW up, up = (IF touches THEN Block(b.addr, b.size + s[c + 1].size) ELSE b)
  PROVE  Join(SubSeq(s, 1, c), b, SubSeq(s, c + 1, Len(s)))
           = IF c > 0 /\ Limit(s[c]) = up.addr
               THEN Splice(s, c - 1, k, <<Block(s[c].addr, s[c].size + up.size)>>)
               ELSE Splice(s, c, k, <<up>>)
<1>. DEFINE p == SubSeq(s, 1, c)  q == SubSeq(s, c + 1, Len(s))
<1>1. /\ p # <<>> <=> c > 0
      /\ c > 0 => Last(p) = s[c] /\ Front(p) = SubSeq(s, 1, c - 1)
      /\ q # <<>> <=> c < Len(s)
      /\ c < Len(s) => Head(q) = s[c + 1] /\ Tail(q) = SubSeq(s, c + 2, Len(s))
  BY CutFacts
<1>. DEFINE r == SubSeq(s, k + 1, Len(s))
<1>2. (q # <<>> /\ Limit(b) = Head(q).addr) = touches
  BY <1>1
<1>3. touches \in BOOLEAN
  OBVIOUS
<1>4. (IF touches THEN Block(b.addr, b.size + Head(q).size) ELSE b) = up
  BY <1>1, <1>2
<1>5. (IF touches THEN Tail(q) ELSE q) = r
  <2>1. CASE touches
    <3>a. k = c + 1 /\ c < Len(s)
      BY <2>1, Zenon
    <3>b. c \in Nat
      OBVIOUS
    <3>1. c + 2 = k + 1 /\ c < Len(s)
      BY ONLY <3>a, <3>b
    <3> QED BY <1>1, <2>1, <3>1
  <2>2. CASE ~touches
    BY <2>2
  <2> QED BY <1>3, <2>1, <2>2
<1>. HIDE DEF p, q, r
<1>6. Join(p, b, q) = IF p # <<>> /\ Limit(Last(p)) = up.addr
        THEN Front(p) \o <<Block(Last(p).addr, Last(p).size + up.size)>> \o r
        ELSE p \o <<up>> \o r
  BY <1>2, <1>4, <1>5 DEF Join
<1>7. CASE c > 0 /\ Limit(s[c]) = up.addr
  <2>1. Join(p, b, q) = SubSeq(s, 1, c - 1) \o <<Block(s[c].addr, s[c].size + up.size)>> \o r
    BY <1>1, <1>6, <1>7
  <2> QED BY <1>7, <2>1 DEF Splice, r, p, q
<1>8. CASE ~(c > 0 /\ Limit(s[c]) = up.addr)
  <2>1. Join(p, b, q) = p \o <<up>> \o r
    BY <1>1, <1>6, <1>8
  <2> QED BY <1>8, <2>1 DEF Splice, r, p, q
<1> QED BY <1>7, <1>8

(* free, with the neighbours that it joins.                              *)
LEMMA FreeStep ==
  ASSUME HeapInv, NEW b \in used, free(b)
  PROVE  HeapInv'
<1>i. /\ heap_free \in Seq(Rec) /\ Sorted(heap_free)
      /\ heap_top \in Nat /\ frames \in Nat /\ base \in Nat
      /\ base <= heap_top /\ heap_top % HeapAlign = 0
      /\ Divides(Elements(heap_free), used, base, heap_top)
  BY DEF HeapInv
<1>. DEFINE s == heap_free  c == Passed(b.addr)  E == Elements(s)
            touches == c < Len(s) /\ Limit(b) = s[c + 1].addr
            k == IF touches THEN c + 1 ELSE c
            up == IF touches THEN Block(b.addr, b.size + s[c + 1].size) ELSE b
            U == used \ {b}
<1>1. /\ heap_free' = Join(SubSeq(s, 1, c), b, SubSeq(s, c + 1, Len(s))) /\ used' = U
      /\ heap_top' = heap_top /\ frames' = frames /\ base' = base
  BY DEF free, Below, Above
<1>d. /\ E \cap used = {} /\ E \cup used \in SUBSET Rec /\ Fit(E \cup used)
      /\ Tiles(E \cup used, base, heap_top)
  BY <1>i DEF Divides, Fit
<1>r. \A x \in Rec : x.addr \in Nat /\ x.size \in Nat \ {0} /\ Limit(x) = x.addr + x.size
  BY RecFacts
<1>b. b \in Rec /\ b \notin E /\ b.addr \in Nat
  BY <1>d, <1>r
<1>2. /\ c \in 0..Len(s) /\ Len(s) \in Nat
      /\ \A j \in 1..c : s[j].addr < b.addr
      /\ c < Len(s) => s[c + 1].addr >= b.addr
  <2>1. heap_free \in Seq(Rec) /\ b.addr \in Nat
    BY <1>i, <1>b
  <2>2. /\ Passed(b.addr) \in 0..Len(heap_free)
        /\ \A j \in 1..Passed(b.addr) : heap_free[j].addr < b.addr
        /\ Passed(b.addr) < Len(heap_free) => heap_free[Passed(b.addr) + 1].addr >= b.addr
    BY ONLY <2>1, PassedFacts, Zenon
  <2>3. Len(s) \in Nat
    BY <1>i
  <2> QED BY <2>2, <2>3, Zenon
<1>. HIDE DEF c
<1>3. ASSUME NEW j \in 1..Len(s)
      PROVE  s[j] \in E /\ s[j] \in Rec /\ (Limit(s[j]) <= b.addr \/ Limit(b) <= s[j].addr)
  <2>1. s[j] \in E
    BY DEF Elements
  <2>2. s[j] # b
    BY <1>b, <2>1
  <2>3. Limit(s[j]) <= b.addr \/ Limit(b) <= s[j].addr
    BY <1>d, <2>1, <2>2 DEF Tiles
  <2> QED BY <1>d, <2>1, <2>3
<1>4. ASSUME NEW j \in 1..c PROVE Limit(s[j]) <= b.addr
  <2>1. j \in 1..Len(s) /\ s[j].addr < b.addr
    BY <1>2
  <2>2. s[j] \in Rec /\ (Limit(s[j]) <= b.addr \/ Limit(b) <= s[j].addr)
    BY <1>3, <2>1
  <2>. DEFINE z == s[j]
  <2>3. z \in Rec /\ (Limit(z) <= b.addr \/ Limit(b) <= z.addr) /\ z.addr < b.addr
    BY <2>1, <2>2
  <2>. HIDE DEF z
  <2>4. Limit(z) <= b.addr
    BY <1>b, <1>r, <2>3
  <2> QED BY <2>4 DEF z
<1>5. ASSUME c < Len(s) PROVE Limit(b) <= s[c + 1].addr
  <2>. DEFINE z == s[c + 1]
  <2>1. c + 1 \in 1..Len(s)
    BY <1>2, <1>5
  <2>2. z \in Rec /\ (Limit(z) <= b.addr \/ Limit(b) <= z.addr) /\ z.addr >= b.addr
    BY <1>2, <1>3, <1>5, <2>1
  <2>. HIDE DEF z
  <2>3. Limit(b) <= z.addr
    BY <1>b, <1>r, <2>2
  <2> QED BY <2>3 DEF z
<1>6. ASSUME NEW j \in 1..Len(s), NEW h \in 1..Len(s), j < h PROVE Limit(s[j]) < s[h].addr
  BY <1>i, <1>6 DEF Sorted
(* b joins the free blocks.                                                  *)
<1>7. Divides(E \cup {b}, U, base, heap_top)
  <2>1. (E \cup {b}) \cup U = E \cup used /\ (E \cup {b}) \cap U = {}
    BY <1>d
  <2> QED BY <1>d, <2>1 DEF Divides
(* It is joined to the block above it.                                         *)
<1>8. /\ k \in Nat /\ c <= k /\ k <= Len(s) /\ up \in Rec /\ up.addr = b.addr
      /\ Divides((E \ {s[j] : j \in (c + 1)..k}) \cup {up}, U, base, heap_top)
      /\ \A j \in (k + 1)..Len(s) : Limit(up) < s[j].addr
  <2>1. CASE touches
    <3>. DEFINE d == s[c + 1]
    <3>1. k = c + 1 /\ up = Block(b.addr, b.size + d.size) /\ Limit(b) = d.addr /\ c < Len(s)
      BY <2>1
    <3>2. c + 1 \in 1..Len(s) /\ c \in Nat
      BY <1>2, <3>1
    <3>3. d \in E
      BY <1>3, <3>2
    <3>4. {s[j] : j \in (c + 1)..k} = {d}
      <4>1. (c + 1)..k = {c + 1}
        BY <3>1, <3>2
      <4> QED BY <4>1
    <3>a. ASSUME NEW j \in (k + 1)..Len(s) PROVE Limit(d) < s[j].addr
      <4>1. j \in 1..Len(s) /\ c + 1 < j
        BY <1>2, <3>1, <3>2
      <4> QED BY <1>6, <3>2, <4>1
    <3>k. k \in Nat /\ c <= k /\ k <= Len(s)
      BY <1>2, <3>1, <3>2
    <3>. HIDE DEF d, k, up
    <3>5. /\ Divides(((E \cup {b}) \ {b, d}) \cup {up}, U, base, heap_top)
          /\ up \in Rec /\ up.addr = b.addr /\ Limit(up) = Limit(d)
      <4>. DEFINE F == E \cup {b}
      <4>1. b \in F /\ d \in F /\ Divides(F, U, base, heap_top)
        BY <1>7, <3>3
      <4>2. base \in Nat /\ heap_top \in Nat
        BY <1>i
      <4>. HIDE DEF F, U
      <4>3. /\ Divides((F \ {b, d}) \cup {up}, U, base, heap_top)
            /\ up \in Rec /\ up.addr = b.addr /\ Limit(up) = Limit(d)
        <5>1. Touch(F, U, base, heap_top, b, d, up)
          BY <3>1, <4>1, <4>2 DEF Touch
        <5>2. Joined(F, U, base, heap_top, b, d, up)
          BY <5>1, JoinDivides, Zenon
        <5> QED BY <5>2 DEF Joined
      <4> QED BY <4>3 DEF F
    <3>6. (E \cup {b}) \ {b, d} = E \ {d}
      BY <1>b
    <3> QED BY <3>4, <3>5, <3>6, <3>a, <3>k
  <2>2. CASE ~touches
    <3>1. k = c /\ up = b
      BY <2>2
    <3>2. (c + 1)..k = {} /\ k \in Nat /\ c <= k /\ k <= Len(s)
      BY <1>2, <3>1
    <3>a. ASSUME NEW j \in (k + 1)..Len(s) PROVE Limit(b) < s[j].addr
      <4>1. c < Len(s) /\ c + 1 \in 1..Len(s) /\ j \in 1..Len(s) /\ (j = c + 1 \/ c + 1 < j)
        BY <1>2, <3>1
      <4>. DEFINE d == s[c + 1]  e == s[j]
      <4>2. Limit(b) <= d.addr /\ Limit(b) # d.addr
        BY <1>5, <2>2, <4>1
      <4>3. d \in Rec /\ e \in Rec
        BY <1>3, <4>1
      <4>4. j = c + 1 \/ Limit(d) < e.addr
        BY <1>6, <4>1
      <4>5. j = c + 1 => d = e
        OBVIOUS
      <4>. HIDE DEF d, e
      <4>6. Limit(b) < e.addr
        <5>1. /\ d.addr \in Nat /\ d.size \in Nat \ {0} /\ Limit(d) = d.addr + d.size
              /\ e.addr \in Nat /\ e.size \in Nat \ {0} /\ Limit(e) = e.addr + e.size
          BY <1>r, <4>3
        <5>2. b.addr \in Nat /\ b.size \in Nat \ {0} /\ Limit(b) = b.addr + b.size
          BY <1>b, <1>r
        <5> QED BY ONLY <4>2, <4>4, <4>5, <5>1, <5>2
      <4> QED BY <4>6 DEF e
    <3>3. {s[j] : j \in (c + 1)..k} = {}
      BY <3>2
    <3>4. (E \ {}) \cup {b} = E \cup {b}
      OBVIOUS
    <3>. HIDE DEF k, up
    <3> QED BY <1>7, <1>b, <3>1, <3>2, <3>3, <3>4, <3>a
  <2> QED BY <2>1, <2>2
<1>9. up \notin E
  <2>1. ASSUME up \in E PROVE FALSE
    <3>. HIDE DEF up
    <3>1. up.addr < Limit(b) /\ b.addr < Limit(up)
      BY <1>8, <1>b, <1>r
    <3>2. up = b
      BY <1>d, <1>i, <2>1, <3>1, OneBlock
    <3> QED BY <1>b, <2>1, <3>2
  <2> QED BY <2>1
(* And to the block below it.                                                *)
<1>. DEFINE down == c > 0 /\ Limit(s[c]) = up.addr
            x == IF down THEN Block(s[c].addr, s[c].size + up.size) ELSE up
            i == IF down THEN c - 1 ELSE c
<1>10. heap_free' = Splice(s, i, k, <<x>>)
  <2>1. Join(SubSeq(s, 1, c), b, SubSeq(s, c + 1, Len(s)))
          = IF down THEN Splice(s, c - 1, k, <<Block(s[c].addr, s[c].size + up.size)>>)
                    ELSE Splice(s, c, k, <<up>>)
    <3>. DEFINE tt == touches  kk == k  uu == up
    <3>1. /\ tt = (c < Len(s) /\ Limit(b) = s[c + 1].addr)
          /\ kk = (IF tt THEN c + 1 ELSE c)
          /\ uu = (IF tt THEN Block(b.addr, b.size + s[c + 1].size) ELSE b)
      OBVIOUS
    <3>2. s \in Seq(Rec) /\ c \in 0..Len(s)
      BY <1>i, <1>2
    <3>. HIDE DEF tt, kk, uu
    <3>3. Join(SubSeq(s, 1, c), b, SubSeq(s, c + 1, Len(s)))
          = IF c > 0 /\ Limit(s[c]) = uu.addr
               THEN Splice(s, c - 1, kk, <<Block(s[c].addr, s[c].size + uu.size)>>)
               ELSE Splice(s, c, kk, <<uu>>)
      BY <3>1, <3>2, JoinSplice
    <3> QED BY <3>3 DEF kk, uu
  <2>. HIDE DEF k, up
  <2> QED BY <1>1, <2>1
<1>. HIDE DEF k, up, touches
<1>11. /\ i \in Nat /\ i <= c /\ x \in Rec
       /\ Divides((E \ {s[j] : j \in (i + 1)..k}) \cup {x}, U, base, heap_top)
       /\ Limit(x) = Limit(up)
       /\ \A j \in 1..i : Limit(s[j]) < x.addr
  <2>1. CASE down
    <3>. DEFINE d == s[c]  Q == {s[j] : j \in (c + 1)..k}  F == (E \ Q) \cup {up}
    <3>1. i = c - 1 /\ x = Block(d.addr, d.size + up.size) /\ Limit(d) = up.addr /\ c > 0
      BY <2>1
    <3>2. c \in 1..Len(s) /\ i \in Nat /\ i <= c /\ c \in Nat
      BY <1>2, <3>1
    <3>3. d \in E /\ d \in Rec
      BY <1>3, <3>2
    <3>4. d \notin Q
      <4>1. ASSUME NEW j \in (c + 1)..k PROVE d # s[j]
        <5>1. j \in 1..Len(s) /\ c < j
          BY <1>2, <1>8, <3>2
        <5>2. Limit(d) < s[j].addr
          BY <1>6, <3>2, <5>1
        <5>. HIDE DEF d
        <5>3. ASSUME d = s[j] PROVE FALSE
          <6>1. Limit(d) < d.addr
            BY <5>2, <5>3
          <6> QED BY <1>r, <3>3, <6>1
        <5> QED BY <5>3
      <4> QED BY <4>1
    <3>5. {s[j] : j \in (i + 1)..k} = Q \cup {d}
      <4>1. (i + 1)..k = {c} \cup ((c + 1)..k)
        BY <1>8, <3>1, <3>2
      <4> QED BY <4>1
    <3>a. ASSUME NEW j \in 1..i PROVE Limit(s[j]) < d.addr
      <4>1. j \in 1..Len(s) /\ j < c
        BY <1>2, <3>1, <3>2
      <4> QED BY <1>6, <3>2, <4>1
    <3>. HIDE DEF d, Q, x, i, down
    <3>6. d \in F /\ up \in F /\ Divides(F, U, base, heap_top)
      BY <1>8, <3>3, <3>4 DEF Q
    <3>7. base \in Nat /\ heap_top \in Nat
      BY <1>i
    <3>8. (F \ {d, up}) \cup {x} = (E \ (Q \cup {d})) \cup {x}
      BY <1>9
    <3>. HIDE DEF F, U
    <3>9. /\ Divides((F \ {d, up}) \cup {x}, U, base, heap_top)
          /\ x \in Rec /\ x.addr = d.addr /\ Limit(x) = Limit(up)
      <4>1. Touch(F, U, base, heap_top, d, up, x)
        BY <3>1, <3>6, <3>7 DEF Touch
      <4>2. Joined(F, U, base, heap_top, d, up, x)
        BY <4>1, JoinDivides, Zenon
      <4> QED BY <4>2 DEF Joined
    <3> QED BY <3>2, <3>5, <3>8, <3>9, <3>a
  <2>2. CASE ~down
    <3>1. i = c /\ x = up /\ ~(c > 0 /\ Limit(s[c]) = up.addr)
      BY <2>2
    <3>2. c \in Nat /\ c <= c
      BY <1>2
    <3>a. ASSUME NEW j \in 1..c PROVE Limit(s[j]) < up.addr
      <4>1. c > 0 /\ c \in 1..Len(s) /\ j \in 1..Len(s) /\ (j = c \/ j < c)
        BY <1>2
      <4>. DEFINE d == s[c]  e == s[j]
      <4>2. Limit(d) <= b.addr /\ Limit(d) # up.addr
        BY <1>4, <3>1, <4>1
      <4>3. d \in Rec /\ e \in Rec
        BY <1>3, <4>1
      <4>4. j = c \/ Limit(e) < d.addr
        BY <1>6, <4>1
      <4>5. j = c => d = e
        OBVIOUS
      <4>. HIDE DEF d, e
      <4>6. Limit(e) < up.addr
        <5>1. /\ d.addr \in Nat /\ d.size \in Nat \ {0} /\ Limit(d) = d.addr + d.size
              /\ e.addr \in Nat /\ e.size \in Nat \ {0} /\ Limit(e) = e.addr + e.size
          BY <1>r, <4>3
        <5>2. up.addr = b.addr /\ b.addr \in Nat
          BY <1>8, <1>b
        <5> QED BY ONLY <4>2, <4>4, <4>5, <5>1, <5>2
      <4> QED BY <4>6 DEF e
    <3>. HIDE DEF x, i, down
    <3> QED BY <1>8, <3>1, <3>2, <3>a
  <2> QED BY <2>1, <2>2
<1>. HIDE DEF x, i, down
<1>. DEFINE m == <<x>>
<1>12. m \in Seq(Rec) /\ Len(m) = 1 /\ m[1] = x
  BY <1>11
<1>13. heap_free' = Splice(s, i, k, m)
  BY <1>10
<1>. HIDE DEF m
<1>14. i <= k
  BY <1>2, <1>8, <1>11
<1>15. heap_free' \in Seq(Rec) /\ IsSplice(heap_free', s, i, k, m)
  BY <1>i, <1>8, <1>11, <1>12, <1>13, <1>14, SpliceFacts
<1>16. Elements(m) = {x}
  <2>1. 1..1 = {1}
    OBVIOUS
  <2> QED BY <1>12, <2>1 DEF Elements
<1>17. Elements(heap_free') = (E \ {s[j] : j \in (i + 1)..k}) \cup {x}
  <2>1. Elements(heap_free') = (E \ {s[j] : j \in (i + 1)..k}) \cup Elements(m)
    BY <1>i, <1>8, <1>11, <1>12, <1>14, <1>15, SpliceElements
  <2> QED BY <1>16, <2>1
<1>18. Sorted(heap_free')
  <2>1. ASSUME NEW h \in 1..Len(m)
        PROVE  /\ \A j \in 1..i : Limit(s[j]) < m[h].addr
               /\ \A j \in (k + 1)..Len(s) : Limit(m[h]) < s[j].addr
    <3>1. m[h] = x
      BY <1>12
    <3> QED BY <1>8, <1>11, <3>1
  <2>2. Len(m) <= 1
    BY <1>12
  <2> QED BY <1>i, <1>8, <1>11, <1>12, <1>14, <1>15, <2>1, <2>2, SpliceSorted
<1>19. Divides(Elements(heap_free'), used', base, heap_top)
  BY <1>1, <1>11, <1>17
<1> QED BY <1>i, <1>1, <1>15, <1>18, <1>19 DEF HeapInv

-----------------------------------------------------------------------------
(* A multiple of the alignment that is less than what a request needs is less   *)
(* than the request with its header.                                        *)
LEMMA TooSmall ==
  ASSUME NEW n \in Nat, NEW x \in Nat, x % HeapAlign = 0, x = 0 \/ x >= MinBlock,
         x < Needed(n)
  PROVE  x < Header + n
<1>. DEFINE r == RoundUp(Header + n, HeapAlign)
<1>1. /\ Header \in Nat \ {0} /\ HeapAlign \in Nat \ {0} /\ MinBlock \in Nat \ {0}
  BY HeapAssumption
<1>2. Header + n \in Nat
  BY <1>1
<1>3. r \in Nat /\ Header + n <= r /\ r % HeapAlign = 0 /\ r < Header + n + HeapAlign
  BY <1>1, <1>2, RoundUpFacts
<1>4. Needed(n) = IF r < MinBlock THEN MinBlock ELSE r
  BY DEF Needed
<1>. HIDE DEF r
<1>5. CASE x = 0
  BY <1>1, <1>5
<1>6. CASE x >= MinBlock
  <2>1. x < r
    BY <1>1, <1>3, <1>4, <1>6
  <2>2. (r - x) % HeapAlign = 0 /\ r - x \in Nat \ {0}
    <3>1. x <= r /\ r - x \in Nat \ {0}
      BY <1>3, <2>1
    <3>2. (r - x) % HeapAlign = 0
      BY <1>1, <1>3, <3>1, ModSums
    <3> QED BY <3>1, <3>2
  <2>. DEFINE d == r - x
  <2>3. d \in Nat \ {0} /\ d % HeapAlign = 0
    BY <2>2
  <2>. HIDE DEF d
  <2>4. d >= HeapAlign
    BY <1>1, <2>3
  <2>5. r - x >= HeapAlign
    BY <2>4 DEF d
  <2> QED BY <1>1, <1>2, <1>3, <2>5
<1> QED BY <1>5, <1>6

(* malloc when the frames run out.                                       *)
LEMMA RefuseStep ==
  ASSUME HeapInv, NEW n \in Nat, MallocGrow(n), ~(frames >= Growth(n) \div PageSize)
  PROVE  /\ HeapInv'
         /\ last' = Called("malloc", n, NullBlock)
         /\ \A b \in FreeBlocks : b.size < Header + n
         /\ frames * PageSize < Header + n
         /\ heap_free' = heap_free /\ used' = used
<1>1. /\ frames' = 0 /\ last' = Called("malloc", n, NullBlock) /\ heap_free' = heap_free
      /\ heap_top' = heap_top /\ used' = used /\ base' = base
  BY DEF MallocGrow, ReturnNull
<1>2. \A i \in DOMAIN heap_free : heap_free[i].size < Needed(n)
  BY DEF MallocGrow
<1>3. HeapInv'
  BY <1>1 DEF HeapInv
<1>a. /\ PageSize \in Nat \ {0} /\ HeapAlign \in Nat \ {0} /\ PageSize % HeapAlign = 0
      /\ MinBlock \in Nat /\ MinBlock <= PageSize
  BY HeapAssumption
<1>n. Needed(n) \in Nat
  BY NeededFacts
<1>4. ASSUME NEW b \in FreeBlocks PROVE b.size < Header + n
  <2>1. PICK i \in DOMAIN heap_free : b = heap_free[i]
    BY DEF FreeBlocks
  <2>2. b \in Elements(heap_free) /\ b \in Rec
    BY <2>1 DEF HeapInv, Elements
  <2>3. b.size % HeapAlign = 0 /\ b.size >= MinBlock
    BY <2>2 DEF HeapInv, Divides, Fit
  <2>4. b.size < Needed(n) /\ b.size \in Nat
    BY <1>2, <2>1, <2>2, RecFacts
  <2> QED BY <2>3, <2>4, TooSmall
<1>5. frames * PageSize < Header + n
  <2>. DEFINE p == Growth(n) \div PageSize  y == frames * PageSize
  <2>1. /\ p \in Nat /\ p * PageSize = Growth(n) /\ Growth(n) \in Nat
        /\ Growth(n) < Needed(n) + PageSize
    BY GrowthFacts
  <2>2. frames \in Nat /\ ~(frames >= p)
    BY DEF HeapInv
  <2>. HIDE DEF p
  <2>3. (frames + 1) * PageSize <= p * PageSize
    <3>1. frames + 1 <= p
      BY <2>1, <2>2
    <3>2. frames + 1 \in Int /\ p \in Int
      BY <2>1, <2>2
    <3>3. /\ PageSize * (frames + 1) <= PageSize * p
          /\ (frames + 1) * PageSize = PageSize * (frames + 1) /\ p * PageSize = PageSize * p
      BY <1>a, <3>1, <3>2, Multiples
    <3> QED BY <3>3
  <2>4. (frames + 1) * PageSize = y + PageSize /\ y \in Nat /\ (y = 0 \/ y >= PageSize)
    BY <1>a, <2>2
  <2>5. y % HeapAlign = 0
    <3>1. PageSize \in Nat
      BY <1>a
    <3> QED BY <1>a, <2>2, <3>1, ModProduct
  <2>. HIDE DEF y
  <2>6. y < Needed(n) /\ (y = 0 \/ y >= MinBlock)
    BY <1>a, <1>n, <2>1, <2>3, <2>4
  <2>7. y < Header + n
    BY <2>4, <2>5, <2>6, TooSmall
  <2> QED BY <2>7 DEF y
<1> QED BY <1>1, <1>3, <1>4, <1>5

(* Every step keeps the invariant.                                            *)
LEMMA HeapStep == HeapInv /\ [Next]_vars => HeapInv'
<1>. SUFFICES ASSUME HeapInv, [Next]_vars PROVE HeapInv'
  OBVIOUS
<1>1. ASSUME NEW n \in Sizes, malloc(n) PROVE HeapInv'
  <2>1. n \in Nat
    BY HeapAssumption
  <2>2. CASE MallocFit(n)
    BY <2>1, <2>2, FitStep
  <2>3. CASE MallocGrow(n)
    BY <2>1, <2>3, GrowStep, RefuseStep
  <2> QED BY <1>1, <2>2, <2>3 DEF malloc
<1>2. CASE MallocZero
  BY <1>2 DEF MallocZero, ReturnNull, HeapInv
<1>3. ASSUME NEW b \in used, free(b) PROVE HeapInv'
  BY <1>3, FreeStep
<1>4. CASE UNCHANGED vars
  BY <1>4 DEF vars, HeapInv
<1> QED BY <1>1, <1>2, <1>3, <1>4 DEF Next

(* The invariant holds in every state.                                   *)
LEMMA HeapInvariant == Spec => []HeapInv
<1> QED BY HeapInit, HeapStep, PTL DEF Spec

(* What the invariant says of the properties the runs check.                    *)
LEMMA HeapMeans == HeapInv => TypeOK /\ Tiled /\ Coalesced /\ Aligned
<1>. SUFFICES ASSUME HeapInv PROVE TypeOK /\ Tiled /\ Coalesced /\ Aligned
  OBVIOUS
<1>1. heap_free \in Seq(Rec)
  BY DEF HeapInv
<1>2. FreeBlocks = Elements(heap_free)
  BY <1>1 DEF FreeBlocks, Elements
<1>3. /\ FreeBlocks \cap used = {} /\ Fit(FreeBlocks \cup used)
      /\ Tiles(FreeBlocks \cup used, base, heap_top)
  BY <1>2 DEF HeapInv, Divides
<1>4. TypeOK
  BY <1>1, <1>3 DEF HeapInv, TypeOK, Fit, Rec
<1>5. Tiled
  BY <1>3 DEF Tiled, Blocks
<1>6. Coalesced
  <2>. SUFFICES ASSUME NEW i \in 1..(Len(heap_free) - 1)
                PROVE  Limit(heap_free[i]) < heap_free[i + 1].addr
    BY DEF Coalesced
  <2>1. i \in 1..Len(heap_free) /\ i + 1 \in 1..Len(heap_free) /\ i < i + 1
    BY <1>1
  <2> QED BY <2>1 DEF HeapInv, Sorted
<1>7. Aligned
  BY <1>3 DEF Aligned, Blocks, Fit
<1> QED BY <1>4, <1>5, <1>6, <1>7

(* Whatever is allocated and freed, the free list and the blocks in use are     *)
(* disjoint lists of well-formed headers: malloc takes off the list all that   *)
(* it hands out, free puts it back once.                                    *)
THEOREM HeapTypes == Spec => []TypeOK
<1> QED BY HeapInvariant, HeapMeans, PTL

(* Splitting in malloc, growing at heap_top and joining in free lose no byte    *)
(* of the heap and let no two blocks overlap, for every sequence of calls.     *)
THEOREM NothingIsLost == Spec => []Tiled
<1> QED BY HeapInvariant, HeapMeans, PTL

(* free() leaves the list in address order with no two neighbours touching,     *)
(* although it looks at one block above and one below only.                 *)
THEOREM FreeJoinsAll == Spec => []Coalesced
<1> QED BY HeapInvariant, HeapMeans, PTL

(* Every header that malloc or free writes is on HEAP_ALIGN and every block can *)
(* hold a list node.                                                       *)
THEOREM HeadersAligned == Spec => []Aligned
<1> QED BY HeapInvariant, HeapMeans, PTL

(* A block from malloc has room for the request, lies in the heap and shares    *)
(* no byte with a block that is in use.                                      *)
THEOREM MallocIsFresh == Spec => MallocFresh
<1>. DEFINE A == last'.op = "malloc" /\ last'.block # NullBlock =>
                   /\ Header + last'.n <= last'.block.size
                   /\ Limit(last'.block) <= heap_top'
                   /\ \A b \in used : Bytes(b) \cap Bytes(last'.block) = {}
<1>g. ASSUME HeapInv, NEW n \in Nat, Gave(n) PROVE A
  <2>1. PICK b \in Rec : /\ last' = Called("malloc", n, b)
                         /\ Header + n <= b.size /\ Limit(b) <= heap_top'
                         /\ \A u \in used : Limit(u) <= b.addr \/ Limit(b) <= u.addr
    BY <1>g DEF Gave
  <2>2. last'.op = "malloc" /\ last'.n = n /\ last'.block = b
    BY <2>1 DEF Called
  <2>3. ASSUME NEW u \in used PROVE Bytes(u) \cap Bytes(b) = {}
    <3>1. u \in Rec
      BY <1>g DEF HeapInv, Divides, Fit
    <3>2. Limit(u) <= b.addr \/ Limit(b) <= u.addr
      BY <2>1
    <3> QED BY <3>1, <3>2, RecFacts DEF Bytes
  <2> QED BY <2>1, <2>2, <2>3
<1>1. HeapInv /\ [Next]_vars => [A]_vars
  <2>. SUFFICES ASSUME HeapInv, Next PROVE A
    OBVIOUS
  <2>1. ASSUME NEW n \in Sizes, malloc(n) PROVE A
    <3>1. n \in Nat
      BY HeapAssumption
    <3>2. CASE MallocFit(n)
      BY <1>g, <3>1, <3>2, FitStep
    <3>3. CASE MallocGrow(n) /\ frames >= Growth(n) \div PageSize
      BY <1>g, <3>1, <3>3, GrowStep
    <3>4. CASE MallocGrow(n) /\ ~(frames >= Growth(n) \div PageSize)
      <4>1. last' = Called("malloc", n, NullBlock)
        BY <3>4 DEF MallocGrow, ReturnNull
      <4> QED BY <4>1 DEF Called
    <3> QED BY <2>1, <3>2, <3>3, <3>4 DEF malloc
  <2>2. CASE MallocZero
    BY <2>2 DEF MallocZero, ReturnNull, Called
  <2>3. ASSUME NEW b \in used, free(b) PROVE A
    BY <2>3 DEF free, Called
  <2> QED BY <2>1, <2>2, <2>3 DEF Next
<1> QED BY <1>1, HeapInvariant, PTL DEF Spec, MallocFresh

(* malloc returns null only when no free block is large enough and the frames   *)
(* that are left would not hold the request, and it leaves the blocks alone.   *)
THEOREM MallocRefusesRightly == Spec => MallocRefuses
<1>. DEFINE A == last'.op = "malloc" /\ last'.n # 0 /\ last'.block = NullBlock =>
                   /\ \A b \in FreeBlocks : b.size < Header + last'.n
                   /\ frames * PageSize < Header + last'.n
                   /\ heap_free' = heap_free /\ used' = used
<1>g. ASSUME NEW n \in Nat, Gave(n) PROVE A
  <2>1. PICK b \in Rec : last' = Called("malloc", n, b)
    BY <1>g DEF Gave
  <2>2. b # NullBlock
    BY DEF NullBlock, Rec, Block
  <2> QED BY <2>1, <2>2 DEF Called
<1>1. HeapInv /\ [Next]_vars => [A]_vars
  <2>. SUFFICES ASSUME HeapInv, Next PROVE A
    OBVIOUS
  <2>1. ASSUME NEW n \in Sizes, malloc(n) PROVE A
    <3>1. n \in Nat
      BY HeapAssumption
    <3>2. CASE MallocFit(n)
      BY <1>g, <3>1, <3>2, FitStep
    <3>3. CASE MallocGrow(n) /\ frames >= Growth(n) \div PageSize
      BY <1>g, <3>1, <3>3, GrowStep
    <3>4. CASE MallocGrow(n) /\ ~(frames >= Growth(n) \div PageSize)
      <4>1. /\ last' = Called("malloc", n, NullBlock)
            /\ \A b \in FreeBlocks : b.size < Header + n
            /\ frames * PageSize < Header + n
            /\ heap_free' = heap_free /\ used' = used
        BY <3>1, <3>4, RefuseStep
      <4>2. last'.n = n
        BY <4>1 DEF Called
      <4> QED BY <4>1, <4>2
    <3> QED BY <2>1, <3>2, <3>3, <3>4 DEF malloc
  <2>2. CASE MallocZero
    BY <2>2 DEF MallocZero, ReturnNull, Called
  <2>3. ASSUME NEW b \in used, free(b) PROVE A
    BY <2>3 DEF free, Called
  <2> QED BY <2>1, <2>2, <2>3 DEF Next
<1> QED BY <1>1, HeapInvariant, PTL DEF Spec, MallocRefuses

=============================================================================
