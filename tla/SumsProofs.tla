----------------------------- MODULE SumsProofs -----------------------------
(***************************************************************************)
(* Facts about the sums and queue walks of module Sums.  Induction is by   *)
(* least counterexample: the naturals are well-founded (WFMin), so a set   *)
(* of naturals that contains 0 and is closed under successor is Nat.       *)
(***************************************************************************)
EXTENDS Sums, WellFoundedInduction, TLAPS

Less == {ss \in Nat \X Nat : ss[1] < ss[2]}

(* Every non-empty set of naturals has a least element.                    *)
LEMMA LeastNat ==
  ASSUME NEW T \in SUBSET Nat, T # {}
  PROVE  \E n \in T : \A m \in T : n <= m
<1>1. Less = OpToRel(<, Nat)
  BY Zenon DEF Less, OpToRel
<1>2. IsWellFoundedOn(Less, Nat)
  BY ONLY <1>1, NatLessThanWellFounded, Zenon
<1>3. \E x \in T : \A y \in T : ~ (<<y, x>> \in Less)
  BY ONLY <1>2, T \subseteq Nat, T # {}, WFMin, Zenon
<1>4. PICK x \in T : \A y \in T : ~ (<<y, x>> \in Less)
  BY <1>3
<1>5. ASSUME NEW y \in T PROVE x <= y
  <2>1. <<y, x>> \in Nat \X Nat
    BY Zenon
  <2>2. ~ (<<y, x>>[1] < <<y, x>>[2])
    BY <1>4, <2>1, Zenon DEF Less
  <2> QED BY <2>2
<1> QED BY <1>5

(* Induction over the naturals, for sets.                                  *)
LEMMA SetInduction ==
  ASSUME NEW S \in SUBSET Nat, 0 \in S, \A n \in S : n + 1 \in S
  PROVE  S = Nat
<1> SUFFICES ASSUME S # Nat PROVE FALSE
  OBVIOUS
<1>1. PICK n \in Nat \ S : \A m \in Nat \ S : n <= m
  BY LeastNat, S # Nat
<1>2. n # 0 /\ n - 1 \in Nat /\ n - 1 \in S
  BY <1>1
<1> QED BY <1>2
-----------------------------------------------------------------------------
(* The recursive function of SumTo exists and is unique.                   *)
Partial(f, n, g) ==
    g = [i \in 0 .. n |-> IF i = 0 THEN 0 ELSE g[i - 1] + f[i]]

LEMMA PartialExists ==
  ASSUME NEW f, NEW N \in Nat, \A i \in 1 .. N : f[i] \in Int
  PROVE  \A n \in 0 .. N : \E g \in [0 .. n -> Int] : Partial(f, n, g)
<1> DEFINE S == {n \in Nat :
                   n <= N => \E g \in [0 .. n -> Int] : Partial(f, n, g)}
<1>1. 0 \in S
  <2> DEFINE g == [i \in 0 .. 0 |-> 0]
  <2>1. g \in [0 .. 0 -> Int]
    OBVIOUS
  <2>2. Partial(f, 0, g)
    BY DEF Partial
  <2> QED BY <2>1, <2>2
<1>2. ASSUME NEW n \in S PROVE n + 1 \in S
  <2>0. n \in Nat /\ n + 1 \in Nat
    OBVIOUS
  <2> SUFFICES ASSUME n + 1 <= N
               PROVE  \E g \in [0 .. (n + 1) -> Int] : Partial(f, n + 1, g)
    BY <2>0
  <2>1. PICK g \in [0 .. n -> Int] : Partial(f, n, g)
    BY <2>0
  <2> DEFINE h == [i \in 0 .. (n + 1) |->
                     IF i = n + 1 THEN g[n] + f[n + 1] ELSE g[i]]
  <2>2. h \in [0 .. (n + 1) -> Int]
    BY <2>0
  <2>3. ASSUME NEW i \in 0 .. (n + 1)
        PROVE  h[i] = IF i = 0 THEN 0 ELSE h[i - 1] + f[i]
    <3>1. CASE i = n + 1
      BY <3>1, <2>0
    <3>2. CASE i # n + 1
      <4>1. i \in 0 .. n /\ (i # 0 => i - 1 \in 0 .. n)
        BY <3>2, <2>0
      <4>2. g[i] = IF i = 0 THEN 0 ELSE g[i - 1] + f[i]
        BY <2>1, <4>1 DEF Partial
      <4> QED BY <4>1, <4>2, <2>0, <3>2
    <3> QED BY <3>1, <3>2
  <2>4. Partial(f, n + 1, h)
    BY <2>2, <2>3 DEF Partial
  <2> QED BY <2>2, <2>4
<1>3. S = Nat
  <2> HIDE DEF S
  <2>1. S \in SUBSET Nat
    BY DEF S
  <2> QED BY <1>1, <1>2, <2>1, SetInduction
<1>4. ASSUME NEW n \in 0 .. N
      PROVE  \E g \in [0 .. n -> Int] : Partial(f, n, g)
  <2>1. n \in Nat /\ n <= N
    OBVIOUS
  <2>2. n \in S
    <3> HIDE DEF S
    <3> QED BY <1>3, <2>1
  <2> QED BY <2>1, <2>2
<1> QED BY <1>4

LEMMA PartialUnique ==
  ASSUME NEW f, NEW n \in Nat, NEW g, NEW h, Partial(f, n, g), Partial(f, n, h)
  PROVE  g = h
<1> DEFINE S == {i \in Nat : i <= n => g[i] = h[i]}
<1>1. 0 \in S
  BY DEF Partial
<1>2. ASSUME NEW i \in S PROVE i + 1 \in S
  <2>1. CASE i + 1 <= n
    <3>1. i \in 0 .. n /\ i + 1 \in 0 .. n /\ i + 1 # 0
      BY <2>1
    <3>2. g[i + 1] = g[i] + f[i + 1]
      BY <3>1 DEF Partial
    <3>3. h[i + 1] = h[i] + f[i + 1]
      BY <3>1 DEF Partial
    <3> QED BY <3>1, <3>2, <3>3
  <2> QED BY <2>1
<1>3. S = Nat
  <2> HIDE DEF S
  <2>1. S \in SUBSET Nat
    BY DEF S
  <2> QED BY <1>1, <1>2, <2>1, SetInduction
<1>4. \A i \in 0 .. n : g[i] = h[i]
  BY <1>3
<1>5. g = [i \in 0 .. n |-> g[i]] /\ h = [i \in 0 .. n |-> h[i]]
  BY DEF Partial
<1> QED BY <1>4, <1>5

LEMMA SumIsPartial ==
  ASSUME NEW f, NEW n \in Nat, \A i \in 1 .. n : f[i] \in Int
  PROVE  \E g \in [0 .. n -> Int] : Partial(f, n, g) /\ SumTo(f, n) = g[n]
<1> DEFINE s == CHOOSE g : g = [i \in 0 .. n |->
                                  IF i = 0 THEN 0 ELSE g[i - 1] + f[i]]
<1>1. PICK g \in [0 .. n -> Int] : Partial(f, n, g)
  BY PartialExists
<1>2. s = [i \in 0 .. n |-> IF i = 0 THEN 0 ELSE s[i - 1] + f[i]]
  BY <1>1 DEF Partial
<1>3. SumTo(f, n) = s[n]
  BY DEF SumTo
<1>4. Partial(f, n, s)
  BY <1>2 DEF Partial
<1>5. s = g
  BY <1>1, <1>4, PartialUnique
<1> QED BY <1>1, <1>3, <1>5
-----------------------------------------------------------------------------
(* The laws of SumTo.                                                      *)
LEMMA SumInt ==
  ASSUME NEW f, NEW n \in Nat, \A i \in 1 .. n : f[i] \in Int
  PROVE  SumTo(f, n) \in Int
BY SumIsPartial

LEMMA SumNone ==
  ASSUME NEW f
  PROVE  SumTo(f, 0) = 0
<1>1. PICK g \in [0 .. 0 -> Int] : Partial(f, 0, g) /\ SumTo(f, 0) = g[0]
  BY SumIsPartial
<1> QED BY <1>1 DEF Partial

LEMMA SumNext ==
  ASSUME NEW f, NEW n \in Nat, \A i \in 1 .. (n + 1) : f[i] \in Int
  PROVE  SumTo(f, n + 1) = SumTo(f, n) + f[n + 1]
<1>0. n + 1 \in Nat /\ \A i \in 1 .. n : f[i] \in Int
  OBVIOUS
<1>1. PICK g \in [0 .. (n + 1) -> Int] :
          Partial(f, n + 1, g) /\ SumTo(f, n + 1) = g[n + 1]
  BY <1>0, SumIsPartial
<1>2. PICK h \in [0 .. n -> Int] : Partial(f, n, h) /\ SumTo(f, n) = h[n]
  BY <1>0, SumIsPartial
<1> DEFINE k == [i \in 0 .. n |-> g[i]]
<1>3. Partial(f, n, k)
  <2>1. \A i \in 0 .. n : g[i] = IF i = 0 THEN 0 ELSE g[i - 1] + f[i]
    BY <1>1 DEF Partial
  <2>2. \A i \in 0 .. n : k[i] = IF i = 0 THEN 0 ELSE k[i - 1] + f[i]
    BY <2>1
  <2> QED BY <2>2 DEF Partial
<1>4. k = h
  BY <1>2, <1>3, PartialUnique
<1>5. g[n] = h[n]
  BY <1>4
<1>6. g[n + 1] = g[n] + f[n + 1]
  BY <1>1 DEF Partial
<1> QED BY <1>1, <1>2, <1>5, <1>6

(* Induction up to a bound.                                                *)
LEMMA BoundedInduction ==
  ASSUME NEW N \in Nat, NEW S \in SUBSET (0 .. N),
         0 \in S, \A n \in S : n < N => n + 1 \in S
  PROVE  S = 0 .. N
<1> DEFINE T == {n \in Nat : n <= N => n \in S}
<1>1. 0 \in T
  OBVIOUS
<1>2. ASSUME NEW n \in T PROVE n + 1 \in T
  OBVIOUS
<1>3. T = Nat
  <2> HIDE DEF T
  <2>1. T \in SUBSET Nat
    BY DEF T
  <2> QED BY <1>1, <1>2, <2>1, SetInduction
<1>4. ASSUME NEW n \in 0 .. N PROVE n \in S
  <2>1. n \in Nat /\ n <= N
    OBVIOUS
  <2>2. n \in T
    <3> HIDE DEF T
    <3> QED BY <1>3, <2>1
  <2> QED BY <2>1, <2>2
<1> QED BY <1>4

LEMMA SumPlus ==
  ASSUME NEW N \in Nat, NEW f, NEW g, NEW h,
         \A i \in 1 .. N : f[i] \in Int /\ g[i] \in Int /\ h[i] = f[i] + g[i]
  PROVE  SumTo(h, N) = SumTo(f, N) + SumTo(g, N)
<1> DEFINE S == {n \in 0 .. N : SumTo(h, n) = SumTo(f, n) + SumTo(g, n)}
<1>1. 0 \in S
  BY SumNone
<1>2. ASSUME NEW n \in S, n < N PROVE n + 1 \in S
  <2>1. n \in Nat /\ n + 1 \in 1 .. N
    BY <1>2
  <2>2. \A i \in 1 .. (n + 1) : f[i] \in Int /\ g[i] \in Int /\ h[i] \in Int
    BY <2>1
  <2>3. /\ SumTo(f, n + 1) = SumTo(f, n) + f[n + 1]
        /\ SumTo(g, n + 1) = SumTo(g, n) + g[n + 1]
        /\ SumTo(h, n + 1) = SumTo(h, n) + h[n + 1]
    BY <2>1, <2>2, SumNext
  <2>4. SumTo(f, n) \in Int /\ SumTo(g, n) \in Int
    BY <2>1, <2>2, SumInt
  <2>5. SumTo(h, n) = SumTo(f, n) + SumTo(g, n)
    OBVIOUS
  <2>6. h[n + 1] = f[n + 1] + g[n + 1] /\ f[n + 1] \in Int /\ g[n + 1] \in Int
    BY <2>1
  <2>7. SumTo(h, n + 1) = SumTo(f, n + 1) + SumTo(g, n + 1)
    BY <2>3, <2>4, <2>5, <2>6
  <2> QED BY <2>1, <2>7
<1>3. S = 0 .. N
  <2> HIDE DEF S
  <2>1. S \in SUBSET (0 .. N)
    BY DEF S
  <2> QED BY <1>1, <1>2, <2>1, BoundedInduction
<1>4. N \in S
  <2> HIDE DEF S
  <2> QED BY <1>3
<1> QED BY <1>4

LEMMA SumMono ==
  ASSUME NEW N \in Nat, NEW f, NEW g,
         \A i \in 1 .. N : f[i] \in Int /\ g[i] \in Int /\ f[i] <= g[i]
  PROVE  SumTo(f, N) <= SumTo(g, N)
<1> DEFINE S == {n \in 0 .. N : SumTo(f, n) <= SumTo(g, n)}
<1>1. 0 \in S
  BY SumNone
<1>2. ASSUME NEW n \in S, n < N PROVE n + 1 \in S
  <2>1. n \in Nat /\ n + 1 \in 1 .. N
    BY <1>2
  <2>2. \A i \in 1 .. (n + 1) : f[i] \in Int /\ g[i] \in Int
    BY <2>1
  <2>3. /\ SumTo(f, n + 1) = SumTo(f, n) + f[n + 1]
        /\ SumTo(g, n + 1) = SumTo(g, n) + g[n + 1]
    BY <2>1, <2>2, SumNext
  <2>4. SumTo(f, n) \in Int /\ SumTo(g, n) \in Int
    BY <2>1, <2>2, SumInt
  <2>5. SumTo(f, n) <= SumTo(g, n)
    OBVIOUS
  <2>6. f[n + 1] <= g[n + 1] /\ f[n + 1] \in Int /\ g[n + 1] \in Int
    BY <2>1
  <2>7. SumTo(f, n + 1) <= SumTo(g, n + 1)
    BY <2>3, <2>4, <2>5, <2>6
  <2> QED BY <2>1, <2>7
<1>3. S = 0 .. N
  <2> HIDE DEF S
  <2>1. S \in SUBSET (0 .. N)
    BY DEF S
  <2> QED BY <1>1, <1>2, <2>1, BoundedInduction
<1>4. N \in S
  <2> HIDE DEF S
  <2> QED BY <1>3
<1> QED BY <1>4

LEMMA SumEqual ==
  ASSUME NEW N \in Nat, NEW f, NEW g,
         \A i \in 1 .. N : f[i] \in Int /\ g[i] = f[i]
  PROVE  SumTo(f, N) = SumTo(g, N)
<1>1. SumTo(f, N) <= SumTo(g, N) /\ SumTo(g, N) <= SumTo(f, N)
  BY SumMono
<1>2. SumTo(f, N) \in Int /\ SumTo(g, N) \in Int
  BY SumInt
<1> QED BY <1>1, <1>2

LEMMA DoubleIsZero == \A x \in Int : x = x + x => x = 0
OBVIOUS

LEMMA SumZeros ==
  ASSUME NEW N \in Nat, NEW f, \A i \in 1 .. N : f[i] = 0
  PROVE  SumTo(f, N) = 0
<1>1. \A i \in 1 .. N : f[i] \in Int /\ f[i] = f[i] + f[i]
  OBVIOUS
<1>2. SumTo(f, N) = SumTo(f, N) + SumTo(f, N)
  BY <1>1, SumPlus
<1>3. SumTo(f, N) \in Int
  BY <1>1, SumInt
<1>4. PICK x \in Int : x = SumTo(f, N)
  BY <1>3, Zenon
<1>5. x = x + x
  BY <1>2, <1>4, Zenon
<1>6. x = 0
  BY <1>5, DoubleIsZero, Zenon
<1> QED BY <1>4, <1>6, Zenon

LEMMA SumNegate ==
  ASSUME NEW N \in Nat, NEW f, NEW g,
         \A i \in 1 .. N : f[i] \in Int /\ g[i] = -f[i]
  PROVE  SumTo(g, N) = -SumTo(f, N)
<1> DEFINE z == [i \in 1 .. N |-> 0]
<1>1. \A i \in 1 .. N : f[i] \in Int /\ g[i] \in Int /\ z[i] = f[i] + g[i] /\ z[i] = 0
  OBVIOUS
<1> HIDE DEF z
<1>2. SumTo(z, N) = SumTo(f, N) + SumTo(g, N) /\ SumTo(z, N) = 0
  BY <1>1, SumPlus, SumZeros
<1>3. SumTo(f, N) \in Int /\ SumTo(g, N) \in Int
  BY <1>1, SumInt
<1> QED BY <1>2, <1>3

LEMMA SumNonneg ==
  ASSUME NEW N \in Nat, NEW f, \A i \in 1 .. N : f[i] \in Nat
  PROVE  SumTo(f, N) \in Nat
<1> DEFINE z == [i \in 1 .. N |-> 0]
<1>1. \A i \in 1 .. N : z[i] \in Int /\ f[i] \in Int /\ z[i] <= f[i] /\ z[i] = 0
  OBVIOUS
<1>2. SumTo(z, N) <= SumTo(f, N) /\ SumTo(z, N) = 0
  <2> HIDE DEF z
  <2> QED BY <1>1, SumMono, SumZeros
<1>3. SumTo(f, N) \in Int
  BY <1>1, SumInt
<1> QED BY <1>2, <1>3

(* With non-negative terms the sum grows with the number of terms.         *)
LEMMA SumGrows ==
  ASSUME NEW N \in Nat, NEW f, \A i \in 1 .. N : f[i] \in Nat,
         NEW m \in 0 .. N
  PROVE  SumTo(f, m) <= SumTo(f, N)
<1> DEFINE S == {n \in 0 .. N : m <= n => SumTo(f, m) <= SumTo(f, n)}
<1>0. \A n \in 0 .. N : SumTo(f, n) \in Nat
  <2> SUFFICES ASSUME NEW n \in 0 .. N PROVE SumTo(f, n) \in Nat
    OBVIOUS
  <2>1. n \in Nat /\ \A i \in 1 .. n : f[i] \in Nat
    OBVIOUS
  <2> QED BY <2>1, SumNonneg
<1>1. 0 \in S
  BY <1>0
<1>2. ASSUME NEW n \in S, n < N PROVE n + 1 \in S
  <2>1. n \in Nat /\ n + 1 \in 1 .. N /\ n \in 0 .. N /\ n + 1 \in 0 .. N
    BY <1>2
  <2>2. \A i \in 1 .. (n + 1) : f[i] \in Int
    BY <2>1
  <2>3. SumTo(f, n + 1) = SumTo(f, n) + f[n + 1]
    BY <2>1, <2>2, SumNext
  <2>4. /\ SumTo(f, n) \in Nat /\ f[n + 1] \in Nat
        /\ SumTo(f, m) \in Nat /\ SumTo(f, n + 1) \in Nat
    BY <2>1, <1>0
  <2>5. SumTo(f, n) <= SumTo(f, n + 1)
    BY <2>3, <2>4
  <2>6. CASE m <= n
    <3>1. SumTo(f, m) <= SumTo(f, n)
      BY <2>6
    <3>2. SumTo(f, m) <= SumTo(f, n + 1)
      BY <3>1, <2>4, <2>5
    <3> QED BY <2>1, <3>2
  <2>7. CASE m = n + 1
    BY <2>1, <2>4, <2>7
  <2>8. CASE m > n + 1
    BY <2>1, <2>8
  <2> QED BY <2>1, <2>6, <2>7, <2>8
<1>3. S = 0 .. N
  <2> HIDE DEF S
  <2>1. S \in SUBSET (0 .. N)
    BY DEF S
  <2> QED BY <1>1, <1>2, <2>1, BoundedInduction
<1>4. N \in S
  <2> HIDE DEF S
  <2> QED BY <1>3
<1> QED BY <1>4

(* A sum with one non-zero term.                                           *)
LEMMA SumSingle ==
  ASSUME NEW N \in Nat, NEW k \in 1 .. N, NEW f, f[k] \in Int,
         \A i \in 1 .. N : i # k => f[i] = 0
  PROVE  SumTo(f, N) = f[k]
<1> DEFINE S == {n \in 0 .. N : SumTo(f, n) = IF k <= n THEN f[k] ELSE 0}
<1>1. 0 \in S
  BY SumNone
<1>2. ASSUME NEW n \in S, n < N PROVE n + 1 \in S
  <2>1. n \in Nat /\ n + 1 \in 1 .. N /\ n + 1 \in 0 .. N
    BY <1>2
  <2>2. \A i \in 1 .. (n + 1) : f[i] \in Int
    <3> SUFFICES ASSUME NEW i \in 1 .. (n + 1) PROVE f[i] \in Int
      OBVIOUS
    <3>1. i \in 1 .. N
      BY <2>1
    <3> QED BY <3>1
  <2>3. SumTo(f, n + 1) = SumTo(f, n) + f[n + 1]
    BY <2>1, <2>2, SumNext
  <2>4. SumTo(f, n) = IF k <= n THEN f[k] ELSE 0
    OBVIOUS
  <2>5. CASE n + 1 = k
    BY <2>1, <2>3, <2>4, <2>5
  <2>6. CASE n + 1 # k
    <3>1. f[n + 1] = 0
      BY <2>1, <2>6
    <3> QED BY <2>1, <2>3, <2>4, <2>6, <3>1
  <2> QED BY <2>5, <2>6
<1>3. S = 0 .. N
  <2> HIDE DEF S
  <2>1. S \in SUBSET (0 .. N)
    BY DEF S
  <2> QED BY <1>1, <1>2, <2>1, BoundedInduction
<1>4. N \in S
  <2> HIDE DEF S
  <2> QED BY <1>3
<1> QED BY <1>4

(* Changing one term.                                                      *)
LEMMA SumUpdate ==
  ASSUME NEW N \in Nat, NEW k \in 1 .. N, NEW f, NEW g,
         \A i \in 1 .. N : f[i] \in Int /\ g[i] \in Int,
         \A i \in 1 .. N : i # k => g[i] = f[i]
  PROVE  SumTo(g, N) = SumTo(f, N) + g[k] - f[k]
<1> DEFINE d == [i \in 1 .. N |-> IF i = k THEN g[k] - f[k] ELSE 0]
<1>1. d[k] \in Int /\ \A i \in 1 .. N : i # k => d[i] = 0
  OBVIOUS
<1>2. \A i \in 1 .. N : f[i] \in Int /\ d[i] \in Int /\ g[i] = f[i] + d[i]
  OBVIOUS
<1>3. d[k] = g[k] - f[k]
  OBVIOUS
<1> HIDE DEF d
<1>4. SumTo(d, N) = d[k]
  BY <1>1, SumSingle
<1>5. SumTo(g, N) = SumTo(f, N) + SumTo(d, N)
  BY <1>2, SumPlus
<1>6. SumTo(f, N) \in Int /\ f[k] \in Int /\ g[k] \in Int
  BY <1>2, SumInt
<1> QED BY <1>3, <1>4, <1>5, <1>6

(* No term of a non-negative sum exceeds the sum.                          *)
LEMMA SumTerm ==
  ASSUME NEW N \in Nat, NEW k \in 1 .. N, NEW f,
         \A i \in 1 .. N : f[i] \in Nat
  PROVE  f[k] <= SumTo(f, N)
<1> DEFINE d == [i \in 1 .. N |-> IF i = k THEN f[k] ELSE 0]
<1>1. d[k] = f[k] /\ d[k] \in Int /\ \A i \in 1 .. N : i # k => d[i] = 0
  OBVIOUS
<1>2. \A i \in 1 .. N : d[i] \in Int /\ f[i] \in Int /\ d[i] <= f[i]
  OBVIOUS
<1> HIDE DEF d
<1>3. SumTo(d, N) = d[k]
  BY <1>1, SumSingle
<1>4. SumTo(d, N) <= SumTo(f, N)
  BY <1>2, SumMono
<1> QED BY <1>1, <1>3, <1>4

(* A sum over a table may be taken row by row or column by column.         *)
LEMMA SumSwap ==
  ASSUME NEW N \in Nat, NEW M \in Nat, NEW t,
         \A i \in 1 .. N, j \in 1 .. M : t[i][j] \in Int
  PROVE  SumTo([i \in 1 .. N |-> SumTo([j \in 1 .. M |-> t[i][j]], M)], N)
           = SumTo([j \in 1 .. M |-> SumTo([i \in 1 .. N |-> t[i][j]], N)], M)
<1> DEFINE row == [i \in 1 .. N |-> SumTo([j \in 1 .. M |-> t[i][j]], M)]
           col(n) == [j \in 1 .. M |-> SumTo([i \in 1 .. N |-> t[i][j]], n)]
           cell(n) == [j \in 1 .. M |-> t[n][j]]
           S == {n \in 0 .. N : SumTo(row, n) = SumTo(col(n), M)}
<1>1. 0 \in S
  <2>1. \A j \in 1 .. M : col(0)[j] = 0
    BY SumNone
  <2>2. SumTo(col(0), M) = 0
    <3> HIDE DEF col
    <3> QED BY <2>1, SumZeros
  <2>3. SumTo(row, 0) = 0
    <3> HIDE DEF row
    <3> QED BY SumNone
  <2> QED BY <2>2, <2>3
<1>2. ASSUME NEW n \in S, n < N PROVE n + 1 \in S
  <2>1. n \in Nat /\ n + 1 \in 1 .. N /\ n + 1 \in 0 .. N
    BY <1>2
  <2>2. \A i \in 1 .. N : row[i] \in Int
    <3> SUFFICES ASSUME NEW i \in 1 .. N PROVE row[i] \in Int
      OBVIOUS
    <3> DEFINE f == [j \in 1 .. M |-> t[i][j]]
    <3>1. \A j \in 1 .. M : f[j] \in Int
      OBVIOUS
    <3>2. SumTo(f, M) \in Int
      <4> HIDE DEF f
      <4> QED BY <3>1, SumInt
    <3> QED BY <3>2
  <2>3. SumTo(row, n + 1) = SumTo(row, n) + row[n + 1]
    <3>1. \A i \in 1 .. (n + 1) : row[i] \in Int
      BY <2>1, <2>2
    <3> HIDE DEF row
    <3> QED BY <2>1, <3>1, SumNext
  <2>4. \A j \in 1 .. M :
            /\ col(n)[j] \in Int
            /\ cell(n + 1)[j] \in Int
            /\ col(n + 1)[j] = col(n)[j] + cell(n + 1)[j]
    <3> SUFFICES ASSUME NEW j \in 1 .. M
                 PROVE  /\ col(n)[j] \in Int
                        /\ cell(n + 1)[j] \in Int
                        /\ col(n + 1)[j] = col(n)[j] + cell(n + 1)[j]
      OBVIOUS
    <3> DEFINE f == [i \in 1 .. N |-> t[i][j]]
    <3>1. \A i \in 1 .. (n + 1) : f[i] \in Int
      BY <2>1
    <3>2. f[n + 1] = t[n + 1][j]
      BY <2>1
    <3>3. SumTo(f, n + 1) = SumTo(f, n) + f[n + 1] /\ SumTo(f, n) \in Int
      <4> HIDE DEF f
      <4>1. \A i \in 1 .. n : f[i] \in Int
        BY <2>1, <3>1
      <4> QED BY <2>1, <3>1, <4>1, SumNext, SumInt
    <3> QED BY <2>1, <3>2, <3>3
  <2>5. SumTo(col(n + 1), M) = SumTo(col(n), M) + SumTo(cell(n + 1), M)
    <3> HIDE DEF col, cell
    <3> QED BY <2>4, SumPlus
  <2>6. row[n + 1] = SumTo(cell(n + 1), M)
    BY <2>1
  <2>7. SumTo(row, n) = SumTo(col(n), M)
    OBVIOUS
  <2>8. SumTo(row, n + 1) = SumTo(col(n + 1), M)
    <3> HIDE DEF row, col, cell
    <3> QED BY <2>3, <2>5, <2>6, <2>7
  <2> QED BY <2>1, <2>8
<1>3. S = 0 .. N
  <2> HIDE DEF S
  <2>1. S \in SUBSET (0 .. N)
    BY DEF S
  <2> QED BY <1>1, <1>2, <2>1, BoundedInduction
<1>4. N \in S
  <2> HIDE DEF S
  <2> QED BY <1>3
<1> QED BY <1>4
-----------------------------------------------------------------------------
(* The queue walks.                                                        *)
LEMMA OverlapSplit ==
  ASSUME NEW a \in Int, NEW b \in Int, NEW x \in Int, NEW y \in Int,
         0 <= a, a <= b, 0 <= x, x <= y
  PROVE  Overlap(a, b, 0, y) = Overlap(a, b, 0, x) + Overlap(a, b, x, y)
BY DEF Overlap

LEMMA OverlapSymmetric ==
  ASSUME NEW a \in Int, NEW b \in Int, NEW c \in Int, NEW d \in Int
  PROVE  Overlap(a, b, c, d) = Overlap(c, d, a, b)
BY DEF Overlap

(* Position i of a queue covers the stretch between two partial sums.      *)
LEMMA Stretch ==
  ASSUME NEW N \in Nat, NEW f, \A i \in 1 .. N : f[i] \in Nat,
         NEW i \in 1 .. N
  PROVE  /\ SumTo(f, i - 1) \in Nat /\ SumTo(f, i) \in Nat
         /\ SumTo(f, i) = SumTo(f, i - 1) + f[i]
<1>1. i - 1 \in Nat /\ i \in Nat /\ (i - 1) + 1 = i
  OBVIOUS
<1>2. /\ \A k \in 1 .. (i - 1) : f[k] \in Nat
      /\ \A k \in 1 .. i : f[k] \in Nat /\ f[k] \in Int
  OBVIOUS
<1>3. SumTo(f, i - 1) \in Nat /\ SumTo(f, i) \in Nat
  BY <1>1, <1>2, SumNonneg
<1>4. SumTo(f, (i - 1) + 1) = SumTo(f, i - 1) + f[(i - 1) + 1]
  BY <1>1, <1>2, SumNext
<1> QED BY <1>1, <1>3, <1>4

(* Stretches laid end to end cover what their sum covers.                  *)
LEMMA StretchesCover ==
  ASSUME NEW N \in Nat, NEW f, \A j \in 1 .. N : f[j] \in Nat,
         NEW a \in Nat, NEW b \in Nat, a <= b,
         NEW g, \A j \in 1 .. N : g[j] = Overlap(a, b, SumTo(f, j - 1), SumTo(f, j))
  PROVE  SumTo(g, N) = Overlap(a, b, 0, SumTo(f, N))
<1> DEFINE S == {n \in 0 .. N : SumTo(g, n) = Overlap(a, b, 0, SumTo(f, n))}
<1>1. 0 \in S
  <2>1. Overlap(a, b, 0, 0) = 0
    BY DEF Overlap
  <2> QED BY <2>1, SumNone
<1>2. \A j \in 1 .. N : g[j] \in Int
  <2> SUFFICES ASSUME NEW j \in 1 .. N PROVE g[j] \in Int
    OBVIOUS
  <2>1. /\ SumTo(f, j - 1) \in Nat /\ SumTo(f, j) \in Nat
        /\ SumTo(f, j) = SumTo(f, j - 1) + f[j]
    BY Stretch
  <2>2. Overlap(a, b, SumTo(f, j - 1), SumTo(f, j)) \in Nat
    BY <2>1 DEF Overlap
  <2>3. g[j] = Overlap(a, b, SumTo(f, j - 1), SumTo(f, j))
    OBVIOUS
  <2> QED BY <2>2, <2>3
<1>3. ASSUME NEW n \in S, n < N PROVE n + 1 \in S
  <2>1. n \in Nat /\ n + 1 \in 1 .. N /\ n + 1 \in 0 .. N /\ (n + 1) - 1 = n
    BY <1>3
  <2>2. SumTo(g, n + 1) = SumTo(g, n) + g[n + 1]
    <3>1. \A j \in 1 .. (n + 1) : g[j] \in Int
      BY <1>2, <2>1
    <3> QED BY <2>1, <3>1, SumNext
  <2>3. /\ SumTo(f, n) \in Int /\ SumTo(f, n + 1) \in Int
        /\ 0 <= SumTo(f, n) /\ SumTo(f, n) <= SumTo(f, n + 1)
    <3>1. /\ SumTo(f, (n + 1) - 1) \in Nat /\ SumTo(f, n + 1) \in Nat
          /\ SumTo(f, n + 1) = SumTo(f, (n + 1) - 1) + f[n + 1]
          /\ f[n + 1] \in Nat
      BY <2>1, Stretch
    <3> QED BY <2>1, <3>1
  <2>4. g[n + 1] = Overlap(a, b, SumTo(f, n), SumTo(f, n + 1))
    BY <2>1
  <2>5. Overlap(a, b, 0, SumTo(f, n + 1))
          = Overlap(a, b, 0, SumTo(f, n)) + Overlap(a, b, SumTo(f, n), SumTo(f, n + 1))
    BY <2>3, OverlapSplit
  <2>6. SumTo(g, n) = Overlap(a, b, 0, SumTo(f, n))
    OBVIOUS
  <2> QED BY <2>1, <2>2, <2>4, <2>5, <2>6
<1>4. S = 0 .. N
  <2> HIDE DEF S
  <2>1. S \in SUBSET (0 .. N)
    BY DEF S
  <2> QED BY <1>1, <1>3, <2>1, BoundedInduction
<1>5. N \in S
  <2> HIDE DEF S
  <2> QED BY <1>4
<1> QED BY <1>5
(* What the positions of a queue receive from one amount: nobody receives  *)
(* more than it needs, and all together exactly what there is or is needed.*)
LEMMA ServedBounds ==
  ASSUME NEW N \in Nat, NEW need, \A i \in 1 .. N : need[i] \in Nat,
         NEW amount \in Nat, NEW i \in 1 .. N
  PROVE  /\ Served(need, i, amount) \in Nat
         /\ Served(need, i, amount) <= need[i]
<1>1. /\ SumTo(need, i - 1) \in Nat /\ SumTo(need, i) \in Nat
      /\ SumTo(need, i) = SumTo(need, i - 1) + need[i]
      /\ need[i] \in Nat
  BY Stretch
<1>2. /\ Overlap(SumTo(need, i - 1), SumTo(need, i), 0, amount) \in Nat
      /\ Overlap(SumTo(need, i - 1), SumTo(need, i), 0, amount)
           <= SumTo(need, i) - SumTo(need, i - 1)
  BY <1>1 DEF Overlap
<1> QED BY <1>1, <1>2 DEF Served

LEMMA ServedTotal ==
  ASSUME NEW N \in Nat, NEW need, \A i \in 1 .. N : need[i] \in Nat,
         NEW amount \in Nat,
         NEW a, \A i \in 1 .. N : a[i] = Served(need, i, amount)
  PROVE  SumTo(a, N) = IF amount < SumTo(need, N) THEN amount ELSE SumTo(need, N)
<1>1. ASSUME NEW i \in 1 .. N
      PROVE  a[i] = Overlap(0, amount, SumTo(need, i - 1), SumTo(need, i))
  <2>1. SumTo(need, i - 1) \in Nat /\ SumTo(need, i) \in Nat
    BY Stretch
  <2>2. a[i] = Overlap(SumTo(need, i - 1), SumTo(need, i), 0, amount)
    BY DEF Served
  <2> QED BY <2>1, <2>2, OverlapSymmetric
<1>2. SumTo(a, N) = Overlap(0, amount, 0, SumTo(need, N))
  BY <1>1, StretchesCover
<1>3. SumTo(need, N) \in Nat
  BY SumNonneg
<1> QED BY <1>2, <1>3 DEF Overlap

(* Whatever the amounts are, a walk hands out naturals.                    *)
LEMMA PartialSumInt ==
  ASSUME NEW N \in Nat, NEW f, \A i \in 1 .. N : f[i] \in Int,
         NEW i \in 1 .. N
  PROVE  SumTo(f, i - 1) \in Int /\ SumTo(f, i) \in Int
<1>1. /\ i - 1 \in Nat /\ \A k \in 1 .. (i - 1) : f[k] \in Int
      /\ i \in Nat /\ \A k \in 1 .. i : f[k] \in Int
  OBVIOUS
<1> QED BY <1>1, SumInt

LEMMA ServedNat ==
  ASSUME NEW N \in Nat, NEW need, \A i \in 1 .. N : need[i] \in Int,
         NEW amount \in Int, NEW i \in 1 .. N
  PROVE  Served(need, i, amount) \in Nat
<1>1. SumTo(need, i - 1) \in Int /\ SumTo(need, i) \in Int
  BY PartialSumInt
<1> QED BY <1>1 DEF Served, Overlap

LEMMA ServedFromNat ==
  ASSUME NEW N \in Nat, NEW need, \A i \in 1 .. N : need[i] \in Int,
         NEW M \in Nat, NEW purse, \A j \in 1 .. M : purse[j] \in Int,
         NEW i \in 1 .. N, NEW j \in 1 .. M
  PROVE  ServedFrom(need, i, purse, j) \in Nat
<1>1. SumTo(need, i - 1) \in Int /\ SumTo(need, i) \in Int
  BY PartialSumInt
<1>2. SumTo(purse, j - 1) \in Int /\ SumTo(purse, j) \in Int
  BY PartialSumInt
<1> QED BY <1>1, <1>2 DEF ServedFrom, Overlap

(* With several purses: a position receives no more than it needs from all *)
(* of them, and a purse gives no more than it holds.                       *)
LEMMA ServedFromRow ==
  ASSUME NEW N \in Nat, NEW need, \A i \in 1 .. N : need[i] \in Nat,
         NEW M \in Nat, NEW purse, \A j \in 1 .. M : purse[j] \in Nat,
         NEW i \in 1 .. N,
         NEW g, \A j \in 1 .. M : g[j] = ServedFrom(need, i, purse, j)
  PROVE  SumTo(g, M) <= need[i]
<1>1. /\ SumTo(need, i - 1) \in Nat /\ SumTo(need, i) \in Nat
      /\ SumTo(need, i) = SumTo(need, i - 1) + need[i]
      /\ need[i] \in Nat
  BY Stretch
<1>2. \A j \in 1 .. M : g[j] = Overlap(SumTo(need, i - 1), SumTo(need, i),
                                      SumTo(purse, j - 1), SumTo(purse, j))
  BY DEF ServedFrom
<1>3. SumTo(need, i - 1) <= SumTo(need, i)
  BY <1>1
<1>4. SumTo(g, M) = Overlap(SumTo(need, i - 1), SumTo(need, i),
                            0, SumTo(purse, M))
  BY <1>1, <1>2, <1>3, StretchesCover
<1>5. SumTo(purse, M) \in Nat
  BY SumNonneg
<1>6. Overlap(SumTo(need, i - 1), SumTo(need, i), 0, SumTo(purse, M))
        <= SumTo(need, i) - SumTo(need, i - 1)
  BY <1>1, <1>3, <1>5 DEF Overlap
<1> QED BY <1>1, <1>4, <1>6

LEMMA ServedFromColumn ==
  ASSUME NEW N \in Nat, NEW need, \A i \in 1 .. N : need[i] \in Nat,
         NEW M \in Nat, NEW purse, \A j \in 1 .. M : purse[j] \in Nat,
         NEW j \in 1 .. M,
         NEW g, \A i \in 1 .. N : g[i] = ServedFrom(need, i, purse, j)
  PROVE  SumTo(g, N) <= purse[j]
<1>1. ASSUME NEW i \in 1 .. N PROVE g[i] = ServedFrom(purse, j, need, i)
  <2>1. /\ SumTo(need, i - 1) \in Nat /\ SumTo(need, i) \in Nat
        /\ SumTo(purse, j - 1) \in Nat /\ SumTo(purse, j) \in Nat
    BY Stretch
  <2>2. ServedFrom(need, i, purse, j) = ServedFrom(purse, j, need, i)
    BY <2>1, OverlapSymmetric DEF ServedFrom
  <2> QED BY <2>2
<1> QED BY <1>1, ServedFromRow
=============================================================================
