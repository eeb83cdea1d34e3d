---------------------------- MODULE NumberLemmas ----------------------------
(***************************************************************************)
(* Facts about numbers that the proofs of several components use: rounding   *)
(* with \div, least and greatest elements, and loops.  Least is also how the   *)
(* proofs do induction: a property of naturals that fails somewhere fails    *)
(* first somewhere.                                                        *)
(***************************************************************************)
EXTENDS Integers, FiniteSetsExt, WellFoundedInduction, TLAPS

(* Division rounds down.                                                    *)
LEMMA DivBounds ==
  ASSUME NEW x \in Nat, NEW d \in Nat \ {0}
  PROVE  /\ x \div d \in Nat
         /\ d * (x \div d) <= x
         /\ x < d * (x \div d) + d
OBVIOUS

(* Multiples of d, in order.                                                *)
LEMMA Multiples ==
  ASSUME NEW a \in Int, NEW b \in Int, NEW d \in Nat \ {0}
  PROVE  /\ a * d = d * a
         /\ d * (a + 1) = d * a + d
         /\ d * a \in Int
         /\ a <= b => d * a <= d * b
         /\ d * a < d * b => a < b
<1>1. a <= b => d * a <= d * b
  OBVIOUS
<1>2. b <= a => d * b <= d * a
  OBVIOUS
<1> QED BY <1>1, <1>2

(* The least number of a set of naturals.                                    *)
LEMMA Least ==
  ASSUME NEW S \in SUBSET Nat, S # {}
  PROVE  \E x \in S : \A y \in S : x <= y
<1>. DEFINE R == {ss \in Nat \X Nat : ss[1] < ss[2]}
<1>1. OpToRel(<, Nat) = R
  BY DEF OpToRel
<1>2. IsWellFoundedOn(R, Nat)
  BY <1>1, NatLessThanWellFounded
<1>3. ASSUME NEW x \in Nat, NEW y \in Nat, y < x PROVE <<y, x>> \in R
  BY <1>3
<1>. HIDE DEF R
<1>4. PICK x \in S : \A y \in S : ~(<<y, x>> \in R)
  BY <1>2, WFMin
<1>5. ASSUME NEW y \in S PROVE x <= y
  <2>1. ~(<<y, x>> \in R)
    BY <1>4
  <2>2. ~(y < x)
    BY <1>3, <2>1
  <2> QED BY <2>2
<1> QED BY <1>5

(* The greatest number of a bounded set of naturals is the least of its       *)
(* bounds.                                                                 *)
LEMMA MaxBounded ==
  ASSUME NEW n \in Nat, NEW S \in SUBSET (0..n), S # {}
  PROVE  Max(S) \in S /\ \A y \in S : y <= Max(S)
<1>. DEFINE U == {x \in 0..n : \A y \in S : y <= x}
<1>1. U \in SUBSET Nat /\ n \in U
  OBVIOUS
<1>2. PICK c \in U : \A d \in U : c <= d
  <2> HIDE DEF U
  <2> QED BY <1>1, Least
<1>3. c \in S
  <2>. SUFFICES ASSUME c \notin S PROVE FALSE
    OBVIOUS
  <2>1. PICK s \in S : TRUE
    OBVIOUS
  <2>2. \A y \in S : y <= c - 1
    BY <1>2
  <2>3. c - 1 \in 0..n
    BY <1>2, <2>1, <2>2
  <2> QED BY <1>2, <2>2, <2>3
<1>4. \A y \in S : c >= y
  BY <1>2
<1> QED BY <1>3, <1>4 DEF Max

(* The smaller of two numbers.                                               *)
LEMMA MinOfTwo ==
  ASSUME NEW a \in Int, NEW b \in Int
  PROVE  Min({a, b}) = IF a <= b THEN a ELSE b
<1>1. \E x \in {a, b} : \A y \in {a, b} : x =< y
  OBVIOUS
<1>2. Min({a, b}) \in {a, b} /\ \A y \in {a, b} : Min({a, b}) =< y
  BY <1>1 DEF Min
<1> QED BY <1>2

(* Induction up to n: a set of numbers that holds 0, and holds each one that     *)
(* comes after one it holds, holds them all.                                 *)
LEMMA UpTo ==
  ASSUME NEW n \in Nat, NEW B, 0 \in B,
         \A k \in 1..n : k - 1 \in B => k \in B
  PROVE  \A k \in 0..n : k \in B
<1>. DEFINE Bad == {k \in 0..n : k \notin B}
<1>. SUFFICES ASSUME Bad # {} PROVE FALSE
  OBVIOUS
<1>1. PICK k \in Bad : \A y \in Bad : k <= y
  <2>1. Bad \in SUBSET Nat
    OBVIOUS
  <2>. HIDE DEF Bad
  <2> QED BY <2>1, Least
<1>2. k \in 0..n /\ k \notin B /\ k # 0
  OBVIOUS
<1>3. k - 1 \in 0..n /\ k - 1 \notin Bad
  <2>. HIDE DEF Bad
  <2> QED BY <1>1, <1>2
<1> QED BY <1>2, <1>3

(* A loop of n rounds from s: w holds the states that the rounds lead through,      *)
(* round k being the function F[k].                                         *)
IsRun(w, n, s, F) == w[0] = s /\ \A k \in 1..n : w[k] = F[k][w[k - 1]]

(* There is such a sequence of states.                                        *)
LEMMA Rounds ==
  ASSUME NEW n \in Nat, NEW S, NEW s \in S, NEW F \in [1..n -> [S -> S]]
  PROVE  \E w \in [0..n -> S] : IsRun(w, n, s, F)
<1>. DEFINE Run(w, m) == IsRun(w, m, s, F)
            Good == {m \in 0..n : \E w \in [0..m -> S] : Run(w, m)}
<1>1. 0 \in Good
  <2>. DEFINE w == [k \in 0..0 |-> s]
  <2>1. 1..0 = {} /\ 0 \in 0..n
    OBVIOUS
  <2>2. w \in [0..0 -> S] /\ w[0] = s
    OBVIOUS
  <2>. HIDE DEF w
  <2>3. Run(w, 0)
    BY <2>1, <2>2 DEF IsRun
  <2>. HIDE DEF Run
  <2> QED BY <2>1, <2>2, <2>3
<1>2. ASSUME NEW m \in 1..n, m - 1 \in Good PROVE m \in Good
  <2>1. PICK g \in [0..(m - 1) -> S] : Run(g, m - 1)
    BY <1>2
  <2>. DEFINE h == [k \in 0..m |-> IF k = m THEN F[m][g[m - 1]] ELSE g[k]]
  <2>2. m \in 0..n /\ m \in Nat /\ m - 1 \in 0..(m - 1)
    OBVIOUS
  <2>3. F[m] \in [S -> S] /\ g[m - 1] \in S
    BY <2>2
  <2>4. h \in [0..m -> S]
    BY <2>2, <2>3
  <2>5. h[0] = s
    BY <2>1, <2>2 DEF IsRun
  <2>6. ASSUME NEW k \in 1..m PROVE h[k] = F[k][h[k - 1]]
    <3>1. k \in 0..m /\ k - 1 \in 0..m /\ k - 1 # m
      OBVIOUS
    <3>2. h[k - 1] = g[k - 1]
      BY <3>1
    <3>3. CASE k = m
      BY <3>1, <3>2, <3>3
    <3>4. CASE k # m
      <4>1. k \in 1..(m - 1)
        BY <3>4
      <4>2. g[k] = F[k][g[k - 1]]
        BY <2>1, <4>1 DEF IsRun
      <4> QED BY <3>1, <3>2, <3>4, <4>2
    <3> QED BY <3>3, <3>4
  <2>. HIDE DEF h
  <2>7. Run(h, m)
    BY <2>5, <2>6 DEF IsRun
  <2>. HIDE DEF Run
  <2> QED BY <2>2, <2>4, <2>7
<1>3. \A m \in 0..n : m \in Good
  <2>. HIDE DEF Good
  <2> QED BY <1>1, <1>2, UpTo
<1>4. n \in Good
  <2>. HIDE DEF Good
  <2> QED BY <1>3
<1> QED BY <1>4

=============================================================================
