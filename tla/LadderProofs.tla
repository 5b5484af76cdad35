----------------------------- MODULE LadderProofs -----------------------------
(***************************************************************************)
(* What an account is billed is the ladder price of what it used, for any  *)
(* ladder, number of months, usage, and any corrections in the order of    *)
(* the periods.                                                            *)
(*                                                                         *)
(* The walk over the tiers that prices a bill is a sum over the tiers      *)
(* (TieredIsCost) that can be cut anywhere: the price of the cubic metres  *)
(* c + 1 .. e is that of c + 1 .. d and that of d + 1 .. e.  Summed over   *)
(* single ones it is the price of LadderExact.  The percentage of a sum is *)
(* that of its parts but for a rounding of each (NearSum).                 *)
(*                                                                         *)
(* The invariant is about every month c at which the corrections can be    *)
(* cut (Within): the bills and adjustments issued up to c add up to bills  *)
(* for what the months up to c used, each after those before it            *)
(* (CutExact).  That for the last month alone is not inductive: a          *)
(* reconciliation of the months a + 1 .. m takes the bills up to a for     *)
(* right and charges the rest anew.  It rests on the cursor being the      *)
(* usage of the months before (CursorIsUsed), hence on corrected months    *)
(* never being taken back (CorrectedStand).                                *)
(***************************************************************************)
EXTENDS AnnualLadder, SumsProofs

(* Tiers as the code requires them: ascending, and open at the end only.   *)
GoodTiers(T) ==
    /\ Len(T) \in Nat \ {0} /\ DOMAIN T = 1 .. Len(T)
    /\ \A i \in 1 .. Len(T) : /\ T[i].price \in Nat
                              /\ T[i].to = Unbounded <=> i = Len(T)
                              /\ i # Len(T) => T[i].to \in Nat
    /\ \A i, j \in 1 .. Len(T) - 1 : i < j => T[i].to < T[j].to

LEMMA TierCount ==
  ASSUME NEW T, GoodTiers(T)
  PROVE  Len(T) \in Nat /\ 1 <= Len(T)
<1>1. Len(T) \in Nat \ {0}
  BY DEF GoodTiers
<1> QED BY <1>1

(* A tier, and the one before it.                                          *)
LEMMA TierIs ==
  ASSUME NEW T, GoodTiers(T), NEW i \in 1 .. Len(T)
  PROVE  /\ T[i].price \in Nat
         /\ T[i].to = Unbounded <=> i = Len(T)
         /\ i # Len(T) => T[i].to \in Nat
BY DEF GoodTiers
LEMMA TierBefore ==
  ASSUME NEW T, GoodTiers(T), NEW i \in 1 .. Len(T), NEW j \in 1 .. Len(T),
         i < j, j # Len(T)
  PROVE  /\ T[i].to \in Nat /\ T[i].to # Unbounded
         /\ T[j].to \in Nat /\ T[j].to # Unbounded /\ T[i].to < T[j].to
<1>1. i \in 1 .. Len(T) - 1 /\ j \in 1 .. Len(T) - 1 /\ i # Len(T)
  BY TierCount
<1>2. T[i].to < T[j].to
  BY <1>1 DEF GoodTiers
<1> QED BY <1>1, <1>2, TierIs

LEMMA LadderIsGood ==
  ASSUME NEW h \in Habits
  PROVE  GoodTiers(ScaledTiers(h.shift))
<1> DEFINE T == ScaledTiers(h.shift)
<1>0. h.shift \in Nat
  BY LadderAssumption
<1>1. Len(Ladder) \in Nat \ {0} /\ DOMAIN Ladder = 1 .. Len(Ladder)
  BY LadderAssumption
<1>a. /\ \A i \in 1 .. Len(Ladder) : Ladder[i] \in [to : Nat \cup {Unbounded}, price : Nat]
      /\ \A i \in 1 .. Len(Ladder) : Ladder[i].to = Unbounded <=> i = Len(Ladder)
      /\ \A i, j \in 1 .. Len(Ladder) - 1 : i < j => Ladder[i].to < Ladder[j].to
      /\ Unbounded \notin Nat
  <2>1. Ladder \in Seq([to : Nat \cup {Unbounded}, price : Nat])
    BY LadderAssumption
  <2>2. \A i \in 1 .. Len(Ladder) : Ladder[i] \in [to : Nat \cup {Unbounded}, price : Nat]
    <3> DEFINE S == [to : Nat \cup {Unbounded}, price : Nat]
    <3>1. Ladder \in Seq(S)
      BY <2>1
    <3> HIDE DEF S
    <3>2. \A i \in 1 .. Len(Ladder) : Ladder[i] \in S
      BY <3>1
    <3> QED BY <3>2 DEF S
  <2>3. \A i \in 1 .. Len(Ladder) : Ladder[i].to = Unbounded <=> i = Len(Ladder)
    BY ONLY <1>1, LadderAssumption
  <2>4. \A i, j \in 1 .. Len(Ladder) - 1 : i < j => Ladder[i].to < Ladder[j].to
    BY ONLY LadderAssumption
  <2> QED BY <2>2, <2>3, <2>4, LadderAssumption
<1>2. T = [i \in 1 .. Len(Ladder) |->
             IF Ladder[i].to = Unbounded THEN Ladder[i]
             ELSE [Ladder[i] EXCEPT !.to = @ + h.shift]]
  BY <1>1 DEF ScaledTiers
<1>3. Len(T) = Len(Ladder) /\ DOMAIN T = 1 .. Len(T)
  BY <1>1, <1>2
<1>4. ASSUME NEW i \in 1 .. Len(Ladder)
      PROVE  /\ T[i].price \in Nat
             /\ T[i].to = Unbounded <=> i = Len(Ladder)
             /\ i # Len(Ladder) => T[i].to = Ladder[i].to + h.shift /\ Ladder[i].to \in Nat
  <2>1. Ladder[i] \in [to : Nat \cup {Unbounded}, price : Nat]
    BY <1>a
  <2>2. Ladder[i].to = Unbounded <=> i = Len(Ladder)
    BY <1>a
  <2>3. CASE i = Len(Ladder)
    BY <1>2, <2>1, <2>2, <2>3
  <2>4. CASE i # Len(Ladder)
    <3>1. T[i] = [Ladder[i] EXCEPT !.to = @ + h.shift]
      BY <1>2, <2>2, <2>4
    <3>2. Ladder[i].to \in Nat /\ T[i].to = Ladder[i].to + h.shift
          /\ T[i].price = Ladder[i].price
      BY <2>1, <2>2, <2>4, <3>1
    <3>3. T[i].to \in Nat
      BY <1>0, <3>2
    <3>4. T[i].to # Unbounded
      BY <1>a, <3>3
    <3> QED BY <2>1, <2>4, <3>2, <3>3, <3>4
  <2> QED BY <2>3, <2>4
<1>5. \A i, j \in 1 .. Len(Ladder) - 1 : i < j => T[i].to < T[j].to
  <2> SUFFICES ASSUME NEW i \in 1 .. Len(Ladder) - 1, NEW j \in 1 .. Len(Ladder) - 1, i < j
               PROVE  T[i].to < T[j].to
    OBVIOUS
  <2>1. /\ i \in 1 .. Len(Ladder) /\ j \in 1 .. Len(Ladder)
        /\ i # Len(Ladder) /\ j # Len(Ladder)
    <3>1. PICK n \in Nat : n = Len(Ladder)
      BY <1>1
    <3>2. i \in 1 .. n - 1 /\ j \in 1 .. n - 1
      BY <3>1
    <3> QED BY ONLY <3>1, <3>2
  <2> HIDE DEF T
  <2>2. /\ T[i].to = Ladder[i].to + h.shift /\ Ladder[i].to \in Nat
        /\ T[j].to = Ladder[j].to + h.shift /\ Ladder[j].to \in Nat
    BY <1>4, <2>1
  <2>3. Ladder[i].to < Ladder[j].to
    BY <1>a
  <2> QED BY <1>0, <2>2, <2>3
<1>6. \A i \in 1 .. Len(T) : i # Len(T) => T[i].to \in Nat
  <2> SUFFICES ASSUME NEW i \in 1 .. Len(T), i # Len(T) PROVE T[i].to \in Nat
    OBVIOUS
  <2>1. T[i].to = Ladder[i].to + h.shift /\ Ladder[i].to \in Nat
    BY <1>3, <1>4
  <2> QED BY <1>0, <2>1
<1> HIDE DEF T
<1> QED BY <1>1, <1>3, <1>4, <1>5, <1>6 DEF GoodTiers, T
-----------------------------------------------------------------------------
(* Where the walk that prices the cubic metres c + 1 .. e stands after     *)
(* tier i, and what it has come to.                                        *)
Reach(T, c, e, i) ==
    IF i = 0 THEN c
    ELSE IF T[i].to = Unbounded THEN e
    ELSE IF T[i].to <= c THEN c ELSE AtMost(e, T[i].to)

Slices(T, c, e) ==
    [i \in 1 .. Len(T) |-> (Reach(T, c, e, i) - Reach(T, c, e, i - 1)) * T[i].price]
Cost(T, c, e) == SumTo(Slices(T, c, e), Len(T))

LEMMA ReachFacts ==
  ASSUME NEW T, GoodTiers(T), NEW c \in Nat, NEW e \in Nat, c <= e
  PROVE  /\ \A i \in 0 .. Len(T) : /\ Reach(T, c, e, i) \in Nat
                                   /\ c <= Reach(T, c, e, i) /\ Reach(T, c, e, i) <= e
         /\ Reach(T, c, e, 0) = c /\ Reach(T, c, e, Len(T)) = e
         /\ \A i \in 1 .. Len(T) : Reach(T, c, e, i - 1) <= Reach(T, c, e, i)
<1>0. Len(T) \in Nat /\ 1 <= Len(T)
  BY TierCount
<1>2. Reach(T, c, e, 0) = c /\ Reach(T, c, e, Len(T)) = e
  <2>1. T[Len(T)].to = Unbounded
    BY <1>0, TierIs
  <2> QED BY <1>0, <2>1 DEF Reach
<1>1. ASSUME NEW i \in 0 .. Len(T)
      PROVE  /\ Reach(T, c, e, i) \in Nat
             /\ c <= Reach(T, c, e, i) /\ Reach(T, c, e, i) <= e
  <2>1. CASE i = 0 \/ i = Len(T)
    BY <1>2, <2>1
  <2>2. CASE i # 0 /\ i # Len(T)
    <3>1. i \in 1 .. Len(T) /\ i # Len(T)
      BY <1>0, <2>2
    <3>2. T[i].to \in Nat /\ T[i].to # Unbounded
      BY <3>1, TierIs
    <3> QED BY <2>2, <3>2 DEF Reach, AtMost
  <2> QED BY <2>1, <2>2
<1>3. ASSUME NEW i \in 1 .. Len(T) PROVE Reach(T, c, e, i - 1) <= Reach(T, c, e, i)
  <2>0. i \in Nat /\ i - 1 \in 0 .. Len(T) /\ i \in 0 .. Len(T) /\ Len(T) \in Nat
    BY <1>0
  <2>1. CASE i = 1 \/ i = Len(T)
    BY <1>1, <1>2, <2>0, <2>1
  <2>2. CASE i # 1 /\ i # Len(T)
    <3>1. i - 1 \in 1 .. Len(T) /\ i - 1 < i /\ i # 0 /\ i - 1 # 0
      BY <2>0, <2>2
    <3>2. /\ T[i].to \in Nat /\ T[i - 1].to \in Nat /\ T[i - 1].to < T[i].to
          /\ T[i].to # Unbounded /\ T[i - 1].to # Unbounded
      BY <2>2, <3>1, TierBefore
    <3> QED BY <3>1, <3>2 DEF Reach, AtMost
  <2> QED BY <2>1, <2>2
<1> QED BY <1>1, <1>2, <1>3

LEMMA SlicesAreNat ==
  ASSUME NEW T, GoodTiers(T), NEW c \in Nat, NEW e \in Nat, c <= e
  PROVE  \A i \in 1 .. Len(T) : Slices(T, c, e)[i] \in Nat
<1> SUFFICES ASSUME NEW i \in 1 .. Len(T) PROVE Slices(T, c, e)[i] \in Nat
  OBVIOUS
<1>1. Len(T) \in Nat /\ i - 1 \in 0 .. Len(T) /\ i \in 0 .. Len(T) /\ T[i].price \in Nat
  BY TierCount, TierIs
<1>2. PICK x \in Nat : x = Reach(T, c, e, i) - Reach(T, c, e, i - 1)
  <2>1. /\ Reach(T, c, e, i) \in Nat /\ Reach(T, c, e, i - 1) \in Nat
        /\ Reach(T, c, e, i - 1) <= Reach(T, c, e, i)
    BY <1>1, ReachFacts
  <2> QED BY <2>1
<1>3. PICK p \in Nat : p = T[i].price
  BY <1>1
<1>4. x * p \in Nat
  OBVIOUS
<1> QED BY <1>2, <1>3, <1>4 DEF Slices

LEMMA CostIsNat ==
  ASSUME NEW T, GoodTiers(T), NEW c \in Nat, NEW e \in Nat, c <= e
  PROVE  Cost(T, c, e) \in Nat
BY TierCount, SlicesAreNat, SumNonneg DEF Cost

(* One step of tieredAmount.                                               *)
LEMMA TakeStep ==
  ASSUME NEW T, GoodTiers(T), NEW c \in Nat, NEW e \in Nat, c <= e,
         NEW i \in 1 .. Len(T), NEW s \in Nat
  PROVE  Take([left |-> e - Reach(T, c, e, i - 1), cursor |-> Reach(T, c, e, i - 1),
               cent |-> s], T[i])
           = [left |-> e - Reach(T, c, e, i), cursor |-> Reach(T, c, e, i),
              cent |-> s + Slices(T, c, e)[i]]
<1>0. i \in Nat /\ i - 1 \in 0 .. Len(T) /\ i \in 0 .. Len(T) /\ Len(T) \in Nat
  BY TierCount
<1>1. PICK x \in Nat, y \in Nat : /\ x = Reach(T, c, e, i - 1) /\ y = Reach(T, c, e, i)
                                  /\ c <= x /\ x <= y /\ y <= e
  <2>1. /\ Reach(T, c, e, i - 1) \in Nat /\ Reach(T, c, e, i) \in Nat
        /\ c <= Reach(T, c, e, i - 1) /\ Reach(T, c, e, i) <= e
        /\ Reach(T, c, e, i - 1) <= Reach(T, c, e, i)
    BY <1>0, ReachFacts
  <2> QED BY <2>1
<1>p. PICK z : z = Slices(T, c, e)[i]
  OBVIOUS
<1>q. z = (y - x) * T[i].price
  BY <1>1, <1>p DEF Slices
<1>2. CASE T[i].to = Unbounded
  <2>1. y = e
    BY <1>0, <1>1, <1>2 DEF Reach
  <2>2. AtMost(e - x, e - x) = y - x
    BY <2>1 DEF AtMost
  <2> QED BY <1>1, <1>2, <1>p, <1>q, <2>1, <2>2 DEF Take
<1>3. CASE T[i].to # Unbounded
  <2>1. PICK t \in Nat : t = T[i].to /\ i # Len(T)
    BY <1>3, TierIs
  <2>2. y = IF t <= c THEN c ELSE AtMost(e, t)
    BY <1>0, <1>1, <1>3, <2>1 DEF Reach
  <2>3. x = c \/ x = e \/ x < t
    <3>1. CASE i = 1
      BY <1>1, <3>1 DEF Reach
    <3>2. CASE i # 1
      <4>1. i - 1 \in 1 .. Len(T) /\ i - 1 < i /\ i - 1 # 0
        BY <1>0, <3>2
      <4>2. T[i - 1].to \in Nat /\ T[i - 1].to < t /\ T[i - 1].to # Unbounded
        BY <2>1, <4>1, TierBefore
      <4> QED BY <1>1, <4>1, <4>2 DEF Reach, AtMost
    <3> QED BY <3>1, <3>2
  <2>4. AtMost(e - x, IF t > x THEN t - x ELSE 0) = y - x
    BY <1>1, <2>2, <2>3 DEF AtMost
  <2>5. x + (y - x) = y /\ (e - x) - (y - x) = e - y
    OBVIOUS
  <2> QED BY <1>1, <1>3, <1>p, <1>q, <2>1, <2>4, <2>5 DEF Take
<1> QED BY <1>2, <1>3

(* Hence what tieredAmount returns.                                        *)
Walked(T, q, c, g) ==
    g = [i \in 0 .. Len(T) |-> IF i = 0 THEN [left |-> q, cursor |-> c, cent |-> 0]
                                        ELSE Take(g[i - 1], T[i])]

LEMMA WalkUnique ==
  ASSUME NEW T, Len(T) \in Nat, NEW q, NEW c, NEW g, NEW h,
         Walked(T, q, c, g), Walked(T, q, c, h)
  PROVE  g = h
<1> DEFINE S == {i \in 0 .. Len(T) : g[i] = h[i]}
<1>1. 0 \in S
  BY DEF Walked
<1>2. ASSUME NEW i \in S, i < Len(T) PROVE i + 1 \in S
  <2>1. i \in 0 .. Len(T) /\ i + 1 \in 0 .. Len(T) /\ i + 1 # 0 /\ (i + 1) - 1 = i
    BY <1>2
  <2>2. g[i + 1] = Take(g[i], T[i + 1])
    BY <2>1 DEF Walked
  <2>3. h[i + 1] = Take(h[i], T[i + 1])
    BY <2>1 DEF Walked
  <2>4. g[i] = h[i]
    OBVIOUS
  <2> QED BY <2>1, <2>2, <2>3, <2>4
<1>3. S = 0 .. Len(T)
  <2> HIDE DEF S
  <2>1. S \in SUBSET (0 .. Len(T))
    BY DEF S
  <2> QED BY <1>1, <1>2, <2>1, BoundedInduction
<1>4. \A i \in 0 .. Len(T) : g[i] = h[i]
  BY <1>3
<1>5. g = [i \in 0 .. Len(T) |-> g[i]] /\ h = [i \in 0 .. Len(T) |-> h[i]]
  BY DEF Walked
<1> QED BY <1>4, <1>5

LEMMA TieredIsCost ==
  ASSUME NEW T, GoodTiers(T), NEW q \in Nat, NEW c \in Nat
  PROVE  TieredAmount(q, c, T) = Cost(T, c, c + q)
<1> DEFINE e == c + q
           f == Slices(T, c, e)
           w == [i \in 0 .. Len(T) |-> [left |-> e - Reach(T, c, e, i),
                                        cursor |-> Reach(T, c, e, i),
                                        cent |-> SumTo(f, i)]]
           walk == CHOOSE g : g = [i \in 0 .. Len(T) |->
                      IF i = 0 THEN [left |-> q, cursor |-> c, cent |-> 0]
                               ELSE Take(g[i - 1], T[i])]
<1>0. Len(T) \in Nat /\ Len(T) \in 0 .. Len(T) /\ 0 \in 0 .. Len(T)
  BY TierCount
<1>1. e \in Nat /\ c <= e /\ e - c = q
  OBVIOUS
<1>2. \A i \in 1 .. Len(T) : f[i] \in Nat
  <2> HIDE DEF e
  <2> QED BY <1>1, SlicesAreNat
<1>3. \A i \in 0 .. Len(T) : SumTo(f, i) \in Nat
  <2> HIDE DEF f
  <2> SUFFICES ASSUME NEW i \in 0 .. Len(T) PROVE SumTo(f, i) \in Nat
    OBVIOUS
  <2>1. i \in Nat /\ \A j \in 1 .. i : f[j] \in Nat
    BY <1>0, <1>2
  <2> QED BY <2>1, SumNonneg
<1>4. w[0] = [left |-> q, cursor |-> c, cent |-> 0]
  <2>1. SumTo(f, 0) = 0
    BY SumNone
  <2>2. Reach(T, c, e, 0) = c
    BY DEF Reach
  <2> HIDE DEF f, e
  <2> QED BY <1>0, <1>1, <2>1, <2>2
<1>5. ASSUME NEW i \in 1 .. Len(T) PROVE w[i] = Take(w[i - 1], T[i])
  <2> HIDE DEF f, e
  <2>1. i \in Nat /\ i \in 0 .. Len(T) /\ i - 1 \in 0 .. Len(T) /\ i - 1 \in Nat /\ (i - 1) + 1 = i
    BY <1>0
  <2>2. \A j \in 1 .. ((i - 1) + 1) : f[j] \in Int
    BY <1>0, <1>2, <2>1
  <2>3. SumTo(f, i) = SumTo(f, i - 1) + f[i]
    BY <2>1, <2>2, SumNext
  <2>4. SumTo(f, i - 1) \in Nat
    BY <1>3, <2>1
  <2>5. Take(w[i - 1], T[i]) = [left |-> e - Reach(T, c, e, i), cursor |-> Reach(T, c, e, i),
                                cent |-> SumTo(f, i - 1) + Slices(T, c, e)[i]]
    BY <1>1, <2>1, <2>4, TakeStep
  <2>6. Slices(T, c, e)[i] = f[i]
    BY DEF f
  <2> QED BY <2>1, <2>3, <2>5, <2>6
<1>6. Walked(T, q, c, w)
  <2>1. \A i \in 0 .. Len(T) : w[i] = IF i = 0 THEN [left |-> q, cursor |-> c, cent |-> 0]
                                              ELSE Take(w[i - 1], T[i])
    <3> HIDE DEF w
    <3> SUFFICES ASSUME NEW i \in 0 .. Len(T), i # 0 PROVE w[i] = Take(w[i - 1], T[i])
      BY <1>4
    <3>1. i \in 1 .. Len(T)
      BY <1>0
    <3> QED BY <1>5, <3>1
  <2>2. w = [i \in 0 .. Len(T) |-> w[i]]
    OBVIOUS
  <2> HIDE DEF w
  <2> QED BY <2>1, <2>2 DEF Walked
<1>7. Walked(T, q, c, walk)
  <2> HIDE DEF w
  <2> QED BY <1>6 DEF Walked
<1>8. walk = w
  <2> HIDE DEF w, walk
  <2> QED BY <1>0, <1>6, <1>7, WalkUnique
<1>9. TieredAmount(q, c, T) = walk[Len(T)].cent
  BY DEF TieredAmount
<1>10. w[Len(T)].cent = SumTo(f, Len(T))
  BY <1>0
<1> HIDE DEF w, walk
<1> QED BY <1>8, <1>9, <1>10 DEF Cost

(* The price of a stretch is that of its parts.                            *)
LEMMA ReachMeets ==
  ASSUME NEW T, GoodTiers(T), NEW c \in Nat, NEW d \in Nat, NEW e \in Nat, c <= d, d <= e,
         NEW i \in 0 .. Len(T)
  PROVE  Reach(T, c, e, i) + d = Reach(T, c, d, i) + Reach(T, d, e, i)
<1>0. Len(T) \in Nat
  BY TierCount
<1>1. CASE i = 0
  BY <1>1 DEF Reach
<1>2. CASE i # 0 /\ T[i].to = Unbounded
  BY <1>2 DEF Reach
<1>3. CASE i # 0 /\ T[i].to # Unbounded
  <2>1. i \in 1 .. Len(T)
    BY <1>0, <1>3
  <2>2. T[i].to \in Nat
    BY <1>3, <2>1, TierIs
  <2> QED BY <1>3, <2>2 DEF Reach, AtMost
<1> QED BY <1>1, <1>2, <1>3

LEMMA Distributes == \A x, y, p \in Int : (x + y) * p = x * p + y * p
OBVIOUS

LEMMA CostAdds ==
  ASSUME NEW T, GoodTiers(T), NEW c \in Nat, NEW d \in Nat, NEW e \in Nat, c <= d, d <= e
  PROVE  Cost(T, c, e) = Cost(T, c, d) + Cost(T, d, e)
<1>0. Len(T) \in Nat /\ c <= e
  BY TierCount
<1>1. ASSUME NEW i \in 1 .. Len(T)
      PROVE  Slices(T, c, e)[i] = Slices(T, c, d)[i] + Slices(T, d, e)[i]
  <2>1. i \in 0 .. Len(T) /\ i - 1 \in 0 .. Len(T) /\ T[i].price \in Nat
    BY <1>0, TierIs
  <2>2. /\ Reach(T, c, e, i) + d = Reach(T, c, d, i) + Reach(T, d, e, i)
        /\ Reach(T, c, e, i - 1) + d = Reach(T, c, d, i - 1) + Reach(T, d, e, i - 1)
    BY <2>1, ReachMeets
  <2>3. PICK w \in Nat : w = Reach(T, c, d, i - 1)
    BY <2>1, ReachFacts
  <2>4. PICK x \in Nat : x = Reach(T, c, d, i)
    BY <2>1, ReachFacts
  <2>5. PICK y \in Nat : y = Reach(T, d, e, i - 1)
    BY <2>1, ReachFacts
  <2>6. PICK z \in Nat : z = Reach(T, d, e, i)
    BY <2>1, ReachFacts
  <2>7. PICK u \in Nat : u = Reach(T, c, e, i - 1)
    BY <1>0, <2>1, ReachFacts
  <2>8. PICK v \in Nat : v = Reach(T, c, e, i)
    BY <1>0, <2>1, ReachFacts
  <2>9. PICK p \in Int : p = T[i].price
    BY <2>1
  <2>10. v + d = x + z /\ u + d = w + y
    BY <2>2, <2>3, <2>4, <2>5, <2>6, <2>7, <2>8
  <2>11. v - u = (x - w) + (z - y)
    BY <2>10
  <2>12. /\ Slices(T, c, e)[i] = (v - u) * p
         /\ Slices(T, c, d)[i] = (x - w) * p /\ Slices(T, d, e)[i] = (z - y) * p
    BY <2>3, <2>4, <2>5, <2>6, <2>7, <2>8, <2>9 DEF Slices
  <2>13. x - w \in Int /\ z - y \in Int /\ v - u \in Int
    OBVIOUS
  <2>14. ((x - w) + (z - y)) * p = (x - w) * p + (z - y) * p
    BY <2>13, Distributes
  <2> QED BY <2>11, <2>12, <2>14
<1>2. \A i \in 1 .. Len(T) : Slices(T, c, d)[i] \in Int /\ Slices(T, d, e)[i] \in Int
  <2>1. \A x \in Nat : x \in Int
    OBVIOUS
  <2>2. \A i \in 1 .. Len(T) : Slices(T, c, d)[i] \in Nat /\ Slices(T, d, e)[i] \in Nat
    BY SlicesAreNat
  <2> QED BY <2>1, <2>2
<1> QED BY <1>0, <1>1, <1>2, SumPlus DEF Cost

(* One cubic metre costs the price of the first tier that reaches it.      *)
Reaches(T, k, i) == T[i].to = Unbounded \/ k <= T[i].to
UnitPrice(T, k) ==
    T[CHOOSE i \in DOMAIN T : Reaches(T, k, i) /\ \A j \in 1 .. i - 1 : ~ Reaches(T, k, j)].price

LEMMA UnitCost ==
  ASSUME NEW T, GoodTiers(T), NEW k \in Nat, k # 0
  PROVE  UnitPrice(T, k) \in Nat /\ Cost(T, k - 1, k) = UnitPrice(T, k)
<1> DEFINE S == {i \in 1 .. Len(T) : Reaches(T, k, i)}
           f == Slices(T, k - 1, k)
<1>0. Len(T) \in Nat /\ 1 <= Len(T) /\ DOMAIN T = 1 .. Len(T) /\ k - 1 \in Nat /\ k - 1 <= k
  <2>1. DOMAIN T = 1 .. Len(T)
    BY DEF GoodTiers
  <2> QED BY <2>1, TierCount
<1>1. Len(T) \in S
  BY <1>0, TierIs DEF Reaches
<1>2. PICK n \in S : \A m \in S : n <= m
  <2>1. S \in SUBSET Nat /\ S # {}
    BY <1>0, <1>1
  <2> HIDE DEF S
  <2> QED BY <2>1, LeastNat
<1>3. n \in 1 .. Len(T) /\ Reaches(T, k, n)
  OBVIOUS
<1>4. \A j \in 1 .. n - 1 : ~ Reaches(T, k, j)
  BY <1>0, <1>2, <1>3
<1>5. UnitPrice(T, k) = T[n].price
  <2>1. \A i \in DOMAIN T :
          Reaches(T, k, i) /\ (\A j \in 1 .. i - 1 : ~ Reaches(T, k, j)) => i = n
    <3> SUFFICES ASSUME NEW i \in DOMAIN T, Reaches(T, k, i),
                        \A j \in 1 .. i - 1 : ~ Reaches(T, k, j)
                 PROVE  i = n
      OBVIOUS
    <3>1. i \in 1 .. Len(T) /\ i \in S
      BY <1>0
    <3>2. n <= i
      BY <1>2, <3>1
    <3>3. ~ (n < i)
      <4> SUFFICES ASSUME n < i PROVE FALSE
        OBVIOUS
      <4>1. n \in 1 .. i - 1
        BY <1>0, <1>3, <3>1
      <4> QED BY <1>3, <4>1
    <3> QED BY <1>0, <1>3, <3>1, <3>2, <3>3
  <2>2. (CHOOSE i \in DOMAIN T :
           Reaches(T, k, i) /\ \A j \in 1 .. i - 1 : ~ Reaches(T, k, j)) = n
    BY <1>0, <1>3, <1>4, <2>1
  <2> QED BY <2>2 DEF UnitPrice
<1> HIDE DEF S, f
<1>6. ASSUME NEW i \in 0 .. Len(T)
      PROVE  Reach(T, k - 1, k, i) = IF n <= i THEN k ELSE k - 1
  <2>1. CASE i = 0
    BY <1>0, <1>3, <2>1 DEF Reach
  <2>2. CASE i # 0 /\ i < n
    <3>0. PICK l \in Nat : l = Len(T)
      BY <1>0
    <3>1. i \in 1 .. n - 1 /\ i \in 1 .. Len(T) /\ i # Len(T)
      <4>1. n \in 1 .. l /\ i \in 0 .. l
        BY <1>3, <3>0
      <4>2. i \in 1 .. n - 1 /\ i \in 1 .. l /\ i # l
        BY <2>2, <4>1
      <4> QED BY <3>0, <4>2
    <3>2. T[i].to \in Nat /\ T[i].to # Unbounded /\ ~ (k <= T[i].to)
      BY <1>4, <3>1, TierIs DEF Reaches
    <3> QED BY <1>0, <1>3, <2>2, <3>1, <3>2 DEF Reach
  <2>3. CASE n <= i
    <3>1. i \in 1 .. Len(T) /\ i # 0
      BY <1>0, <1>3, <2>3
    <3>2. CASE i = Len(T)
      <4>1. T[i].to = Unbounded
        BY <3>1, <3>2, TierIs
      <4> QED BY <2>3, <3>1, <4>1 DEF Reach
    <3>3. CASE i # Len(T)
      <4>0. n # Len(T) /\ T[n].to \in Nat /\ T[n].to # Unbounded /\ k <= T[n].to
        <5>0. PICK l \in Nat : l = Len(T)
          BY <1>0
        <5>1. n # Len(T)
          <6>1. n \in 1 .. l /\ i \in 1 .. l /\ i # l
            BY <1>3, <3>1, <3>3, <5>0
          <6> QED BY <2>3, <5>0, <6>1
        <5>2. T[n].to \in Nat /\ T[n].to # Unbounded
          BY <1>3, <5>1, TierIs
        <5> QED BY <1>3, <5>1, <5>2 DEF Reaches
      <4>1. T[i].to \in Nat /\ T[i].to # Unbounded /\ T[n].to <= T[i].to
        <5>1. CASE i = n
          BY <4>0, <5>1
        <5>2. CASE i # n
          <6>1. n < i
            BY <1>3, <2>3, <3>1, <5>2
          <6>2. T[n].to \in Nat /\ T[i].to \in Nat /\ T[i].to # Unbounded /\ T[n].to < T[i].to
            BY <1>3, <3>1, <3>3, <6>1, TierBefore
          <6> QED BY <6>2
        <5> QED BY <5>1, <5>2
      <4>2. ~ (T[i].to <= k - 1) /\ AtMost(k, T[i].to) = k
        BY <4>0, <4>1 DEF AtMost
      <4> QED BY <2>3, <3>1, <4>1, <4>2 DEF Reach
    <3> QED BY <3>2, <3>3
  <2> QED BY <1>0, <1>3, <2>1, <2>2, <2>3
<1>7. T[n].price \in Nat
  BY <1>3, TierIs
<1>8. ASSUME NEW i \in 1 .. Len(T) PROVE f[i] = IF i = n THEN T[n].price ELSE 0
  <2>1. i \in 0 .. Len(T) /\ i - 1 \in 0 .. Len(T) /\ T[i].price \in Nat /\ n \in Nat
    BY <1>0, <1>3, TierIs
  <2>2. PICK x : x = Reach(T, k - 1, k, i) - Reach(T, k - 1, k, i - 1)
    OBVIOUS
  <2>3. x = IF i = n THEN 1 ELSE 0
    BY <1>0, <1>6, <2>1, <2>2
  <2>4. f[i] = x * T[i].price
    BY <2>2 DEF Slices, f
  <2> QED BY <2>1, <2>3, <2>4
<1>9. SumTo(f, Len(T)) = f[n]
  <2>1. f[n] \in Int /\ \A i \in 1 .. Len(T) : i # n => f[i] = 0
    BY <1>3, <1>7, <1>8
  <2> QED BY <1>0, <1>3, <2>1, SumSingle
<1>10. f[n] = T[n].price
  BY <1>3, <1>8
<1> QED BY <1>5, <1>7, <1>9, <1>10 DEF Cost, f

LEMMA CostNone ==
  ASSUME NEW T, GoodTiers(T)
  PROVE  Cost(T, 0, 0) = 0
<1>1. 0 \in Nat /\ 0 <= 0
  OBVIOUS
<1>2. Cost(T, 0, 0) \in Nat
  BY <1>1, CostIsNat
<1>3. Cost(T, 0, 0) = Cost(T, 0, 0) + Cost(T, 0, 0)
  BY <1>1, CostAdds
<1>4. PICK x \in Int : x = Cost(T, 0, 0)
  BY <1>2
<1>5. x = x + x
  BY <1>3, <1>4
<1> QED BY <1>4, <1>5, DoubleIsZero

(* So the price of a year in one piece is the price of its cubic metres.   *)
LEMMA UnitsCost ==
  ASSUME NEW T, GoodTiers(T), NEW n \in Nat
  PROVE  SumTo([k \in 1 .. n |-> UnitPrice(T, k)], n) = Cost(T, 0, n)
<1> DEFINE f == [k \in 1 .. n |-> UnitPrice(T, k)]
           S == {m \in 0 .. n : SumTo(f, m) = Cost(T, 0, m)}
<1>0. \A k \in 1 .. n : f[k] = UnitPrice(T, k) /\ f[k] \in Nat /\ Cost(T, k - 1, k) = f[k]
  <2> SUFFICES ASSUME NEW k \in 1 .. n
               PROVE f[k] = UnitPrice(T, k) /\ f[k] \in Nat /\ Cost(T, k - 1, k) = f[k]
    OBVIOUS
  <2>1. k \in Nat /\ k # 0
    OBVIOUS
  <2> QED BY <2>1, UnitCost
<1> HIDE DEF f
<1>1. 0 \in S
  <2>1. Cost(T, 0, 0) = 0
    BY CostNone
  <2> QED BY <2>1, SumNone
<1>2. ASSUME NEW m \in S, m < n PROVE m + 1 \in S
  <2>1. m \in 0 .. n /\ m + 1 \in 1 .. n /\ m + 1 \in 0 .. n /\ m \in Nat /\ (m + 1) - 1 = m
    BY <1>2
  <2>2. \A i \in 1 .. (m + 1) : f[i] \in Int
    BY <1>0, <2>1
  <2>3. SumTo(f, m + 1) = SumTo(f, m) + f[m + 1]
    BY <2>1, <2>2, SumNext
  <2>4. f[m + 1] = Cost(T, m, m + 1)
    BY <1>0, <2>1
  <2>5. Cost(T, 0, m + 1) = Cost(T, 0, m) + Cost(T, m, m + 1)
    BY <2>1, CostAdds
  <2>6. SumTo(f, m) = Cost(T, 0, m)
    OBVIOUS
  <2> QED BY <2>1, <2>3, <2>4, <2>5, <2>6
<1>3. S = 0 .. n
  <2> HIDE DEF S
  <2>1. S \in SUBSET (0 .. n)
    BY DEF S
  <2> QED BY <1>1, <1>2, <2>1, BoundedInduction
<1>4. n \in S
  <2> HIDE DEF S
  <2> QED BY <1>3
<1> QED BY <1>4 DEF f
-----------------------------------------------------------------------------
(* Amounts whose percentage is a whole number of cents.                    *)
ExactCents(x) == x \in Int /\ \E z \in Int : x * Percent = 100 * z
WithShare(x) == x + RoundHalfUp(x * Percent, 100)

LEMMA RoundsNothing == \A z \in Int : RoundHalfUp(100 * z, 100) = z
<1> SUFFICES ASSUME NEW z \in Int PROVE RoundHalfUp(100 * z, 100) = z
  OBVIOUS
<1>1. (2 * (100 * z) + 100) \div (2 * 100) = z
  OBVIOUS
<1> QED BY <1>1 DEF RoundHalfUp

LEMMA WholeIsExact == \A x \in Int : Whole(x) => ExactCents(x)
<1> SUFFICES ASSUME NEW x \in Int, Whole(x) PROVE ExactCents(x)
  OBVIOUS
<1>1. PICK n \in Int : n = x * Percent
  BY LadderAssumption
<1>2. n % 100 = 0
  BY <1>1 DEF Whole
<1>3. n = 100 * (n \div 100) /\ n \div 100 \in Int
  BY <1>2
<1> QED BY <1>1, <1>3 DEF ExactCents

LEMMA ExactShare ==
  ASSUME NEW x, NEW z \in Int, x * Percent = 100 * z
  PROVE  WithShare(x) = x + z
BY RoundsNothing DEF WithShare

LEMMA ExactPlus ==
  ASSUME NEW x, NEW y, ExactCents(x), ExactCents(y)
  PROVE  /\ ExactCents(x + y) /\ WithShare(x + y) = WithShare(x) + WithShare(y)
         /\ WithShare(x) \in Int /\ WithShare(y) \in Int
<1>0. x \in Int /\ y \in Int /\ Percent \in Int
  BY LadderAssumption DEF ExactCents
<1>1. PICK a \in Int : x * Percent = 100 * a
  BY DEF ExactCents
<1>2. PICK b \in Int : y * Percent = 100 * b
  BY DEF ExactCents
<1>3. (x + y) * Percent = x * Percent + y * Percent
  BY <1>0, Distributes
<1>4. 100 * a + 100 * b = 100 * (a + b) /\ a + b \in Int /\ x + y \in Int
  BY <1>0
<1>5. (x + y) * Percent = 100 * (a + b)
  BY <1>1, <1>2, <1>3, <1>4
<1>6. WithShare(x) = x + a /\ WithShare(y) = y + b /\ WithShare(x + y) = (x + y) + (a + b)
  BY <1>1, <1>2, <1>4, <1>5, ExactShare
<1>7. ExactCents(x + y)
  BY <1>4, <1>5 DEF ExactCents
<1> QED BY <1>0, <1>6, <1>7

LEMMA Associates == \A k, x, p \in Int : (k * x) * p = k * (x * p)
OBVIOUS

LEMMA ExactTimes ==
  ASSUME NEW x, ExactCents(x), NEW k \in Int
  PROVE  ExactCents(k * x)
<1>0. x \in Int /\ Percent \in Int
  BY LadderAssumption DEF ExactCents
<1>1. PICK z \in Int : x * Percent = 100 * z
  BY DEF ExactCents
<1>2. PICK y \in Int : y = k * x
  BY <1>0
<1>3. y * Percent = k * (100 * z)
  BY <1>0, <1>1, <1>2, Associates
<1>4. k * (100 * z) = 100 * (k * z) /\ k * z \in Int
  <2>1. (100 * k) * z = 100 * (k * z) /\ (k * 100) * z = k * (100 * z)
    BY Associates
  <2>2. 100 * k = k * 100
    OBVIOUS
  <2> QED BY <2>1, <2>2
<1> QED BY <1>2, <1>3, <1>4 DEF ExactCents

LEMMA ExactZero == ExactCents(0)
<1>1. 0 * Percent = 100 * 0
  BY LadderAssumption
<1> QED BY <1>1 DEF ExactCents

LEMMA ExactSum ==
  ASSUME NEW n \in Nat, NEW f, \A i \in 1 .. n : ExactCents(f[i])
  PROVE  ExactCents(SumTo(f, n))
<1> DEFINE S == {m \in 0 .. n : ExactCents(SumTo(f, m))}
<1>0. \A i \in 1 .. n : f[i] \in Int
  BY DEF ExactCents
<1>1. 0 \in S
  BY SumNone, ExactZero
<1>2. ASSUME NEW m \in S, m < n PROVE m + 1 \in S
  <2>1. m \in Nat /\ m + 1 \in 1 .. n /\ m + 1 \in 0 .. n
    BY <1>2
  <2>2. \A i \in 1 .. (m + 1) : f[i] \in Int
    BY <1>0, <2>1
  <2>3. SumTo(f, m + 1) = SumTo(f, m) + f[m + 1]
    BY <2>1, <2>2, SumNext
  <2>4. ExactCents(SumTo(f, m)) /\ ExactCents(f[m + 1])
    BY <2>1
  <2> QED BY <2>1, <2>3, <2>4, ExactPlus
<1>3. S = 0 .. n
  <2> HIDE DEF S
  <2>1. S \in SUBSET (0 .. n)
    BY DEF S
  <2> QED BY <1>1, <1>2, <2>1, BoundedInduction
<1>4. n \in S
  <2> HIDE DEF S
  <2> QED BY <1>3
<1> QED BY <1>4

LEMMA CostExact ==
  ASSUME PricesExact, NEW h \in Habits, NEW c \in Nat, NEW e \in Nat, c <= e
  PROVE  ExactCents(Cost(ScaledTiers(h.shift), c, e))
<1> DEFINE T == ScaledTiers(h.shift)
<1>0. GoodTiers(T)
  BY LadderIsGood
<1>1. ASSUME NEW i \in 1 .. Len(T) PROVE T[i].price \in Int /\ ExactCents(T[i].price)
  <2>1. T[i].price \in Nat
    BY <1>0, TierIs
  <2>2. i \in DOMAIN T
    BY <1>0 DEF GoodTiers
  <2>3. i \in DOMAIN Ladder /\ T[i].price = Ladder[i].price
    BY <2>2 DEF ScaledTiers
  <2>4. Whole(T[i].price)
    BY <2>3 DEF PricesExact
  <2> QED BY <2>1, <2>4, WholeIsExact
<1> HIDE DEF T
<1>2. ASSUME NEW i \in 1 .. Len(T) PROVE ExactCents(Slices(T, c, e)[i])
  <2>1. Len(T) \in Nat /\ i \in 0 .. Len(T) /\ i - 1 \in 0 .. Len(T)
    BY <1>0, TierCount
  <2>2. Reach(T, c, e, i) \in Nat /\ Reach(T, c, e, i - 1) \in Nat
    BY <1>0, <2>1, ReachFacts
  <2>3. PICK x \in Int : x = Reach(T, c, e, i) - Reach(T, c, e, i - 1)
    BY <2>2
  <2>4. Slices(T, c, e)[i] = x * T[i].price
    BY <2>3 DEF Slices
  <2> QED BY <1>1, <2>4, ExactTimes
<1>3. Len(T) \in Nat
  BY <1>0, TierCount
<1>4. ExactCents(Cost(T, c, e))
  BY <1>2, <1>3, ExactSum DEF Cost
<1> QED BY <1>4 DEF T
-----------------------------------------------------------------------------
(* Sums over months.                                                       *)
LEMMA OverSame ==
  ASSUME NEW S, NEW R, NEW f, NEW g,
         \A q \in Months : q \in S <=> q \in R,
         \A q \in Months : q \in S => f[q] = g[q]
  PROVE  Over(S, f) = Over(R, g)
<1>1. [q \in Months |-> IF q \in S THEN f[q] ELSE 0]
        = [q \in Months |-> IF q \in R THEN g[q] ELSE 0]
  OBVIOUS
<1> QED BY <1>1 DEF Over

LEMMA OverInt ==
  ASSUME NEW S, NEW f, \A q \in Months : q \in S => f[q] \in Int
  PROVE  Over(S, f) \in Int
<1> DEFINE g == [q \in Months |-> IF q \in S THEN f[q] ELSE 0]
<1>1. LastMonth \in Nat /\ Months = 1 .. LastMonth
  BY LadderAssumption DEF Months
<1>2. \A q \in 1 .. LastMonth : g[q] \in Int
  BY <1>1
<1> HIDE DEF g
<1>3. SumTo(g, LastMonth) \in Int
  BY <1>1, <1>2, SumInt
<1> QED BY <1>3 DEF Over, g

LEMMA OverNat ==
  ASSUME NEW S, NEW f, \A q \in Months : q \in S => f[q] \in Nat
  PROVE  Over(S, f) \in Nat
<1> DEFINE g == [q \in Months |-> IF q \in S THEN f[q] ELSE 0]
<1>1. LastMonth \in Nat /\ Months = 1 .. LastMonth
  BY LadderAssumption DEF Months
<1>2. \A q \in 1 .. LastMonth : g[q] \in Nat
  BY <1>1
<1> HIDE DEF g
<1>3. SumTo(g, LastMonth) \in Nat
  BY <1>1, <1>2, SumNonneg
<1> QED BY <1>3 DEF Over, g

LEMMA OverNone == \A f : Over({}, f) = 0
<1> SUFFICES ASSUME NEW f PROVE Over({}, f) = 0
  OBVIOUS
<1> DEFINE g == [q \in Months |-> IF q \in {} THEN f[q] ELSE 0]
<1>1. LastMonth \in Nat /\ Months = 1 .. LastMonth
  BY LadderAssumption DEF Months
<1>2. \A q \in 1 .. LastMonth : g[q] = 0
  BY <1>1
<1> HIDE DEF g
<1>3. SumTo(g, LastMonth) = 0
  BY <1>1, <1>2, SumZeros
<1> QED BY <1>3 DEF Over, g

LEMMA ZerosOver ==
  ASSUME NEW S, NEW f, \A q \in Months : q \in S => f[q] = 0
  PROVE  Over(S, f) = Over({}, f)
<1>1. [q \in Months |-> IF q \in S THEN f[q] ELSE 0]
        = [q \in Months |-> IF q \in {} THEN f[q] ELSE 0]
  OBVIOUS
<1> QED BY <1>1 DEF Over

(* R is S and the month m, and f numbers its months.                       *)
OneMore(S, R, f, m) ==
    /\ m \in Months /\ m \notin S
    /\ \A q \in Months : q \in R <=> q \in S \/ q = m
    /\ \A q \in Months : q \in R => f[q] \in Int

LEMMA OverAdd ==
  ASSUME NEW S, NEW R, NEW f, NEW m, OneMore(S, R, f, m)
  PROVE  Over(R, f) = Over(S, f) + f[m]
<1>0. /\ m \in Months /\ m \notin S
      /\ \A q \in Months : q \in R <=> q \in S \/ q = m
      /\ \A q \in Months : q \in R => f[q] \in Int
  BY DEF OneMore
<1> DEFINE g == [q \in Months |-> IF q \in S THEN f[q] ELSE 0]
           h == [q \in Months |-> IF q \in R THEN f[q] ELSE 0]
<1>1. LastMonth \in Nat /\ Months = 1 .. LastMonth
  BY LadderAssumption DEF Months
<1>2. \A q \in 1 .. LastMonth : g[q] \in Int /\ h[q] \in Int
  BY <1>0, <1>1
<1>3. \A q \in 1 .. LastMonth : q # m => h[q] = g[q]
  BY <1>0, <1>1
<1>4. g[m] = 0 /\ h[m] = f[m] /\ f[m] \in Int /\ m \in 1 .. LastMonth
  BY <1>0, <1>1
<1> HIDE DEF g, h
<1>5. SumTo(h, LastMonth) = SumTo(g, LastMonth) + h[m] - g[m]
  <2>1. PICK n \in Nat : n = LastMonth
    BY <1>1
  <2>2. /\ m \in 1 .. n
        /\ \A q \in 1 .. n : g[q] \in Int /\ h[q] \in Int
        /\ \A q \in 1 .. n : q # m => h[q] = g[q]
    BY ONLY <1>2, <1>3, <1>4, <2>1
  <2>3. SumTo(h, n) = SumTo(g, n) + h[m] - g[m]
    BY ONLY n \in Nat, <2>2, SumUpdate
  <2> QED BY <2>1, <2>3
<1>6. SumTo(g, LastMonth) \in Int
  BY <1>1, <1>2, SumInt
<1>7. SumTo(h, LastMonth) = SumTo(g, LastMonth) + f[m]
  BY <1>4, <1>5, <1>6
<1> QED BY <1>7 DEF Over, g, h

LEMMA OverExact ==
  ASSUME NEW S, NEW f, \A q \in Months : q \in S => ExactCents(f[q])
  PROVE  ExactCents(Over(S, f))
<1> DEFINE g == [q \in Months |-> IF q \in S THEN f[q] ELSE 0]
<1>1. LastMonth \in Nat /\ Months = 1 .. LastMonth
  BY LadderAssumption DEF Months
<1>2. \A q \in 1 .. LastMonth : ExactCents(g[q])
  BY <1>1, ExactZero
<1> HIDE DEF g
<1>3. ExactCents(SumTo(g, LastMonth))
  BY <1>1, <1>2, ExactSum
<1> QED BY <1>3 DEF Over, g
-----------------------------------------------------------------------------
(* computeBill for the cubic metres c + 1 .. e of a year.                  *)
FlatOf(h) == IF h.items = 2 THEN FlatPrice ELSE 0
BillBase(h, c, e) == Cost(ScaledTiers(h.shift), c, e) + FlatOf(h) * (e - c) + Fixed
Bill(h, c, e) == WithShare(BillBase(h, c, e))

LEMMA BillIs ==
  ASSUME habit \in Habits, NEW q \in Nat, NEW c \in Nat
  PROVE  ComputeBill(q, c) = Bill(habit, c, c + q)
<1>1. TieredAmount(q, c, ScaledTiers(habit.shift)) = Cost(ScaledTiers(habit.shift), c, c + q)
  BY LadderIsGood, TieredIsCost
<1>2. (IF habit.items = 2 THEN FlatPrice * q ELSE 0) = FlatOf(habit) * ((c + q) - c)
  <2>1. (c + q) - c = q /\ 0 * q = 0
    OBVIOUS
  <2> QED BY <2>1 DEF FlatOf
<1> QED BY <1>1, <1>2 DEF ComputeBill, Bill, BillBase, WithShare

LEMMA BillExact ==
  ASSUME PricesExact, NEW h \in Habits, NEW c \in Nat, NEW e \in Nat, c <= e
  PROVE  ExactCents(BillBase(h, c, e)) /\ Bill(h, c, e) \in Int
<1>1. ExactCents(Cost(ScaledTiers(h.shift), c, e))
  BY CostExact
<1>2. ExactCents(FlatOf(h)) /\ ExactCents(Fixed) /\ e - c \in Int
  BY WholeIsExact, ExactZero, LadderAssumption DEF PricesExact, FlatOf
<1>3. ExactCents((e - c) * FlatOf(h))
  BY <1>2, ExactTimes
<1>4. (e - c) * FlatOf(h) = FlatOf(h) * (e - c)
  BY <1>2 DEF ExactCents
<1>5. ExactCents(BillBase(h, c, e))
  BY <1>1, <1>2, <1>3, <1>4, ExactPlus DEF BillBase
<1> QED BY <1>5, ExactPlus DEF Bill

(* A bill is a whole number of cents, exact or not.                        *)
LEMMA BillInt ==
  ASSUME NEW h \in Habits, NEW c \in Nat, NEW e \in Nat, c <= e
  PROVE  BillBase(h, c, e) \in Int /\ Bill(h, c, e) \in Int
<1>1. Cost(ScaledTiers(h.shift), c, e) \in Nat
  BY LadderIsGood, CostIsNat
<1>2. FlatOf(h) \in Int /\ Fixed \in Int /\ Percent \in Int
  BY LadderAssumption DEF FlatOf
<1>3. FlatOf(h) * (e - c) \in Int
  BY <1>2
<1>4. BillBase(h, c, e) \in Int
  BY <1>1, <1>2, <1>3 DEF BillBase
<1>5. \A n \in Int : RoundHalfUp(n, 100) \in Int
  BY DEF RoundHalfUp
<1>6. BillBase(h, c, e) * Percent \in Int
  BY <1>2, <1>4
<1> QED BY <1>4, <1>5, <1>6 DEF Bill, WithShare

(* The months of S up to month c, and those of one year; what they used    *)
(* when month m used u[m]; their bills as each follows on those before in  *)
(* its year, without and with the percentage; and what all these bills add *)
(* up to.                                                                  *)
UpTo(S, c) == {q \in S : q <= c}
InYear(S, y, c) == {q \in S : YearOf(q) = y /\ q <= c}
Used(S, u, y, c) == Over(InYear(S, y, c), u)
Before(S, u, m) == Used(S, u, YearOf(m), m - 1)
BasesOf(h, S, u) == [m \in Months |-> BillBase(h, Before(S, u, m), Before(S, u, m) + u[m])]
BillsOf(h, S, u) == [m \in Months |-> Bill(h, Before(S, u, m), Before(S, u, m) + u[m])]
PriceTo(h, S, u, c) == Over(UpTo(S, c), BillsOf(h, S, u))

(* What the usage of the months of a year costs in one piece.              *)
Fixeds == [q \in Months |-> Fixed]
Base(h, S, u, y, c) ==
    Cost(ScaledTiers(h.shift), 0, Used(S, u, y, c)) + FlatOf(h) * Used(S, u, y, c)
      + Over(InYear(S, y, c), Fixeds)

LEMMA UsedNat ==
  ASSUME NEW S, NEW u, \A q \in Months : q \in S => u[q] \in Nat, NEW y, NEW c
  PROVE  Used(S, u, y, c) \in Nat
<1>1. \A q \in Months : q \in InYear(S, y, c) => u[q] \in Nat
  BY DEF InYear
<1> QED BY <1>1, OverNat DEF Used

LEMMA BillsInt ==
  ASSUME NEW h \in Habits, NEW S, NEW u, \A q \in Months : q \in S => u[q] \in Nat,
         NEW m \in Months, m \in S
  PROVE  BasesOf(h, S, u)[m] \in Int /\ BillsOf(h, S, u)[m] \in Int
<1>1. PICK n \in Nat : n = Before(S, u, m)
  BY UsedNat DEF Before
<1>2. PICK x \in Nat : x = u[m]
  OBVIOUS
<1>3. n + x \in Nat /\ n <= n + x
  OBVIOUS
<1>4. BillBase(h, n, n + x) \in Int /\ Bill(h, n, n + x) \in Int
  BY <1>3, BillInt
<1> QED BY <1>1, <1>2, <1>4 DEF BasesOf, BillsOf

LEMMA PriceInt ==
  ASSUME NEW h \in Habits, NEW S, NEW u,
         \A q \in Months : q \in S => u[q] \in Nat, NEW c
  PROVE  PriceTo(h, S, u, c) \in Int
<1> DEFINE f == BillsOf(h, S, u)
           R == UpTo(S, c)
<1>1. \A q \in Months : q \in R => f[q] \in Int
  BY BillsInt DEF UpTo
<1> HIDE DEF f, R
<1>2. Over(R, f) \in Int
  BY <1>1, OverInt
<1> QED BY <1>2 DEF PriceTo, f, R

(* The price depends on the months up to the cut.                          *)
LEMMA PriceSame ==
  ASSUME NEW h, NEW S \in SUBSET Months, NEW R \in SUBSET Months, NEW u, NEW v,
         NEW c \in Int, NEW d \in Int,
         \A q \in Months : q \in S /\ q <= c <=> q \in R /\ q <= d,
         \A q \in Months : q \in S /\ q <= c => u[q] = v[q]
  PROVE  /\ PriceTo(h, S, u, c) = PriceTo(h, R, v, d)
         /\ \A y : Used(S, u, y, c) = Used(R, v, y, d)
<1>0. \A q \in Months : q \in Int
  BY LadderAssumption DEF Months
<1>1. ASSUME NEW y PROVE Used(S, u, y, c) = Used(R, v, y, d)
  <2>1. InYear(S, y, c) = InYear(R, y, d)
    BY DEF InYear
  <2>2. \A q \in Months : q \in InYear(S, y, c) => u[q] = v[q]
    BY DEF InYear
  <2> QED BY <2>1, <2>2, OverSame DEF Used
<1>2. ASSUME NEW m \in Months, m \in S, m <= c PROVE Before(S, u, m) = Before(R, v, m)
  <2>1. m \in R /\ m <= d
    BY <1>2
  <2>2. ASSUME NEW q \in Months
        PROVE  /\ q \in S /\ q <= m - 1 <=> q \in R /\ q <= m - 1
               /\ q \in S /\ q <= m - 1 => u[q] = v[q]
    <3>1. q <= m - 1 => q <= c /\ q <= d
      BY <1>0, <1>2, <2>1
    <3> QED BY <3>1
  <2>3. \A q \in Months : /\ q \in InYear(S, YearOf(m), m - 1) <=> q \in InYear(R, YearOf(m), m - 1)
                          /\ q \in InYear(S, YearOf(m), m - 1) => u[q] = v[q]
    BY <2>2 DEF InYear
  <2> QED BY <2>3, OverSame DEF Before, Used
<1>3. \A q \in Months : q \in UpTo(S, c) <=> q \in UpTo(R, d)
  BY DEF UpTo
<1>4. \A q \in Months : q \in UpTo(S, c) => BillsOf(h, S, u)[q] = BillsOf(h, R, v)[q]
  BY <1>2 DEF UpTo, BillsOf
<1>5. PriceTo(h, S, u, c) = PriceTo(h, R, v, d)
  BY <1>3, <1>4, OverSame DEF PriceTo
<1> QED BY <1>1, <1>5

(* A month more in the cut costs its bill, from the usage of its year on.  *)
LEMMA MonthBilled ==
  ASSUME NEW h \in Habits, NEW S \in SUBSET Months, NEW u,
         \A q \in Months : q \in S => u[q] \in Nat,
         NEW m \in S, NEW c \in Int, m <= c, \A q \in S : q <= c => q <= m
  PROVE  PriceTo(h, S, u, c)
           = PriceTo(h, S, u, m - 1) + Bill(h, Used(S, u, YearOf(m), m - 1),
                                            Used(S, u, YearOf(m), m - 1) + u[m])
<1> DEFINE f == BillsOf(h, S, u)
           R == UpTo(S, c)
           Q == UpTo(S, m - 1)
<1>1. m \in Months /\ m \in Int /\ \A q \in S : q \in Int /\ q \in Months
  BY LadderAssumption DEF Months
<1>2. \A q \in Months : q \in R <=> q \in Q \/ q = m
  <2> SUFFICES ASSUME NEW q \in S PROVE q <= c <=> q <= m - 1 \/ q = m
    BY DEF UpTo
  <2>1. q \in Int /\ (q <= c => q <= m)
    BY <1>1
  <2> QED BY <1>1, <2>1
<1>3. m \notin Q
  BY <1>1 DEF UpTo
<1>4. \A q \in Months : q \in R => f[q] \in Int
  BY BillsInt DEF UpTo
<1>5. f[m] = Bill(h, Used(S, u, YearOf(m), m - 1), Used(S, u, YearOf(m), m - 1) + u[m])
  BY <1>1 DEF BillsOf, Before
<1> HIDE DEF f, R, Q
<1>6. m \in Months
  BY <1>1
<1>7. Over(R, f) = Over(Q, f) + f[m]
  <2>1. OneMore(Q, R, f, m)
    BY ONLY <1>2, <1>3, <1>4, <1>6 DEF OneMore
  <2> QED BY ONLY <2>1, OverAdd
<1> QED BY <1>5, <1>7 DEF PriceTo, f, R, Q
-----------------------------------------------------------------------------
(* The types.  A correction names months that have a settlement, of which  *)
(* its own is one, and takes none below zero.                              *)
Charges == [kind : {"NORMAL", "REPLACEMENT"}, status : {"NONE", "DRAFT", "POSTED", "REVERSED"},
            qty : Nat, amount : Int, ytd : Nat]
Adjustments == [at : Months, amount : Int, delta : UNION {[S -> Int] : S \in SUBSET Months}]
Usages == {NoUsage} \cup 0 .. MostUsage

CorrectionGood(x) ==
    /\ x.at \in DOMAIN x.delta
    /\ \A q \in DOMAIN x.delta : /\ q \in Months /\ q <= x.at /\ x.delta[q] \in Int
                                 /\ metered[q] # NoUsage /\ metered[q] + x.delta[q] >= 0

LadderTypes ==
    /\ habit \in Habits /\ recons \in Nat /\ replaced \in Nat /\ calm \in BOOLEAN
    /\ metered \in [Months -> Usages]
    /\ charge \in [Months -> Charges]
    /\ adjusts \in Seq(Adjustments)
    /\ \A m \in Months : charge[m].status # "NONE" => metered[m] # NoUsage
    /\ \A i \in DOMAIN adjusts : CorrectionGood(adjusts[i])

LEMMA MonthFacts ==
  /\ LastMonth \in Nat /\ 1 <= LastMonth /\ Months = 1 .. LastMonth
  /\ \A m \in Months : m \in Nat /\ 1 <= m /\ m <= LastMonth
  /\ \A m, k \in Int : 1 <= m /\ m <= k /\ k <= LastMonth => m \in Months
BY LadderAssumption DEF Months

LEMMA MeteredNat ==
  ASSUME LadderTypes, NEW m \in Months, metered[m] # NoUsage
  PROVE  metered[m] \in Nat
<1>1. metered[m] \in 0 .. MostUsage
  BY DEF LadderTypes, Usages
<1> QED BY <1>1, LadderAssumption

LEMMA AdjustsAre ==
  ASSUME LadderTypes
  PROVE  /\ Len(adjusts) \in Nat /\ DOMAIN adjusts = 1 .. Len(adjusts)
         /\ \A i \in 1 .. Len(adjusts) :
               /\ adjusts[i] \in Adjustments /\ CorrectionGood(adjusts[i])
               /\ adjusts[i].at \in Months /\ adjusts[i].amount \in Int
<1>1. adjusts \in Seq(Adjustments)
  BY DEF LadderTypes
<1>2. Len(adjusts) \in Nat /\ DOMAIN adjusts = 1 .. Len(adjusts)
  BY <1>1
<1>3. \A i \in 1 .. Len(adjusts) : adjusts[i] \in Adjustments
  <2> HIDE DEF Adjustments
  <2> QED BY <1>1
<1>4. \A x \in Adjustments : x.at \in Months /\ x.amount \in Int
  BY DEF Adjustments
<1>5. \A i \in 1 .. Len(adjusts) : CorrectionGood(adjusts[i])
  BY <1>2 DEF LadderTypes
<1> QED BY <1>2, <1>3, <1>4, <1>5

(* The latest of some corrections.                                         *)
LEMMA LatestIs ==
  ASSUME LadderTypes, NEW C \in SUBSET (DOMAIN adjusts), C # {}
  PROVE  Max(C) \in C /\ \A i \in C : i <= Max(C)
<1>1. C \in SUBSET (1 .. Len(adjusts)) /\ Len(adjusts) \in Nat
  BY AdjustsAre
<1> DEFINE N == Len(adjusts)
           D == {N - i : i \in C}
<1>2. D \in SUBSET Nat /\ D # {}
  <2>1. \A i \in C : N - i \in Nat
    BY <1>1
  <2>2. PICK i \in C : TRUE
    OBVIOUS
  <2>3. N - i \in D
    OBVIOUS
  <2> QED BY <2>1, <2>3
<1>3. PICK n \in D : \A k \in D : n <= k
  <2> HIDE DEF D
  <2> QED BY <1>2, LeastNat
<1>4. PICK i \in C : n = N - i
  BY <1>3
<1>5. \A j \in C : i >= j
  <2> SUFFICES ASSUME NEW j \in C PROVE i >= j
    OBVIOUS
  <2>1. N - i <= N - j
    BY <1>3, <1>4
  <2>2. i \in Int /\ j \in Int /\ N \in Int
    BY <1>1
  <2> HIDE DEF N, D
  <2> QED BY <2>1, <2>2
<1>6. Max(C) \in C /\ \A j \in C : Max(C) >= j
  BY <1>5 DEF Max
<1>7. \A j \in C : j \in Int
  BY <1>1
<1> QED BY <1>6, <1>7

LEMMA LatestGood ==
  ASSUME LadderTypes, NEW q \in Months, NEW c, Corrections(q, c) # {}
  PROVE  metered[q] + LastDelta(q, c) \in Nat
<1> DEFINE i == Max(Corrections(q, c))
<1>1. i \in Corrections(q, c)
  <2>1. Corrections(q, c) \in SUBSET (DOMAIN adjusts)
    BY DEF Corrections
  <2> QED BY <2>1, LatestIs
<1>2. i \in 1 .. Len(adjusts) /\ q \in DOMAIN adjusts[i].delta
  BY <1>1, AdjustsAre DEF Corrections
<1>3. /\ adjusts[i].delta[q] \in Int /\ metered[q] # NoUsage
      /\ metered[q] + adjusts[i].delta[q] >= 0
  <2> HIDE DEF i
  <2> QED BY <1>2, AdjustsAre DEF CorrectionGood
<1>4. metered[q] \in Nat
  BY <1>3, MeteredNat
<1>5. metered[q] + adjusts[i].delta[q] \in Nat
  <2> HIDE DEF i
  <2> QED BY <1>3, <1>4
<1> QED BY <1>5 DEF LastDelta

LEMMA UsageNat ==
  ASSUME LadderTypes, NEW q \in Months, charge[q].status # "NONE"
  PROVE  /\ FinalUsage(q) \in Nat /\ BilledUsage(q) \in Nat
         /\ \A c : UsageAt(q, c) \in Nat
<1>1. metered[q] \in Nat
  BY MeteredNat DEF LadderTypes
<1>2. charge[q].qty \in Nat /\ habit.items \in Nat
  <2>1. charge[q] \in Charges /\ habit \in Habits
    BY DEF LadderTypes
  <2>2. charge[q].qty \in Nat
    BY <2>1 DEF Charges
  <2>3. habit.items \in 1 .. 2
    BY <2>1, LadderAssumption
  <2> QED BY <2>2, <2>3
<1>3. BilledUsage(q) \in Nat
  BY <1>1, <1>2 DEF BilledUsage, RowsQty
<1>4. FinalUsage(q) \in Nat
  BY <1>1, <1>2, LatestGood DEF FinalUsage
<1> QED BY <1>3, <1>4, LatestGood DEF UsageAt

LEMMA CursorNat == LadderTypes => \A m \in Months : YtdBefore(m) \in Nat
<1> SUFFICES ASSUME LadderTypes, NEW m \in Months PROVE YtdBefore(m) \in Nat
  OBVIOUS
<1> DEFINE f == [q \in Months |-> UsageAt(q, m)]
<1>1. \A q \in Months : q \in EarlierInYear(m) => f[q] \in Nat
  BY UsageNat DEF EarlierInYear, Posted
<1> HIDE DEF f
<1>2. Over(EarlierInYear(m), f) \in Nat
  BY <1>1, OverNat
<1> QED BY <1>2 DEF YtdBefore, f

LEMMA ComputedInt ==
  ASSUME LadderTypes, NEW q \in Nat, NEW c \in Nat
  PROVE  ComputeBill(q, c) \in Int
<1>1. c + q \in Nat /\ c <= c + q /\ habit \in Habits
  BY DEF LadderTypes
<1> QED BY <1>1, BillIs, BillInt

LEMMA LadderInitTypes == LadderInit => LadderTypes
<1> SUFFICES ASSUME LadderInit PROVE LadderTypes
  OBVIOUS
<1>1. NoCharge \in Charges /\ NoUsage \in Usages
  BY DEF NoCharge, Charges, Usages
<1>2. charge \in [Months -> Charges] /\ metered \in [Months -> Usages]
  BY <1>1 DEF LadderInit
<1>3. adjusts \in Seq(Adjustments) /\ DOMAIN adjusts = {}
  BY DEF LadderInit
<1>4. \A m \in Months : charge[m].status = "NONE"
  BY DEF LadderInit, NoCharge
<1> QED BY <1>2, <1>3, <1>4 DEF LadderTypes, LadderInit

-----------------------------------------------------------------------------
(* The parts of a reconciliation.                                          *)
LEMMA AllocationInt ==
  ASSUME LadderTypes, NEW m \in Months, NEW a \in 0 .. m - 1, NEW t \in Nat,
         \A q \in a + 1 .. m : metered[q] \in Nat
  PROVE  Allocate(a, m, t) \in [a + 1 .. m -> Int]
<1> DEFINE S == Over(a + 1 .. m, metered)
           Share(q) == IF habit.policy = "ALL_TO_CURRENT" THEN metered[q]
                       ELSE IF S = 0 THEN 0 ELSE RoundHalfUp(t * metered[q], S)
           before == Over(a + 1 .. m - 1, [q \in Months |-> Share(q)])
<1>0. m \in Nat /\ a \in Nat
  BY MonthFacts
<1>1. S \in Nat
  BY OverNat
<1>2. ASSUME NEW q \in a + 1 .. m PROVE Share(q) \in Int
  <2>1. metered[q] \in Nat
    OBVIOUS
  <2> HIDE DEF S
  <2>2. t * metered[q] \in Int
    BY <2>1
  <2>3. \A x \in Int, y \in Nat \ {0} : RoundHalfUp(x, y) \in Int
    BY DEF RoundHalfUp
  <2> QED BY <1>1, <2>1, <2>2, <2>3
<1> HIDE DEF S
<1>3. before \in Int
  <2> DEFINE f == [q \in Months |-> Share(q)]
  <2>1. \A q \in Months : q \in a + 1 .. m - 1 => q \in a + 1 .. m
    BY <1>0
  <2>2. \A q \in Months : q \in a + 1 .. m - 1 => f[q] \in Int
    BY <1>2, <2>1
  <2> HIDE DEF f
  <2>3. Over(a + 1 .. m - 1, f) \in Int
    BY <2>2, OverInt
  <2> QED BY <2>3 DEF f
<1>4. Allocate(a, m, t) = [q \in a + 1 .. m |-> IF q < m THEN Share(q) ELSE t - before]
  BY DEF Allocate, S
<1> HIDE DEF Share, before
<1>5. \A q \in a + 1 .. m : (IF q < m THEN Share(q) ELSE t - before) \in Int
  BY <1>2, <1>3
<1> QED BY <1>4, <1>5

LEMMA RepriceNat ==
  ASSUME LadderTypes, NEW m \in Months, NEW a \in 0 .. m - 1,
         NEW alloc, \A q \in a + 1 .. m : alloc[q] \in Nat,
         NEW q \in a + 1 .. m + 1
  PROVE  RepriceCursor(a, alloc, q) \in Nat
<1> DEFINE R == {r \in a + 1 .. q - 1 : YearOf(r) = YearOf(q)}
<1>0. m \in Nat /\ a \in Nat /\ a + 1 \in Months
  BY MonthFacts
<1>1. \A r \in Months : r \in R => alloc[r] \in Nat
  <2> SUFFICES ASSUME NEW r \in a + 1 .. q - 1 PROVE r \in a + 1 .. m
    OBVIOUS
  <2> QED BY <1>0
<1>2. Over(R, alloc) \in Nat
  <2> HIDE DEF R
  <2> QED BY <1>1, OverNat
<1>3. YtdBefore(a + 1) \in Nat
  BY <1>0, CursorNat
<1> QED BY <1>2, <1>3 DEF RepriceCursor

LEMMA CorrectInt ==
  ASSUME LadderTypes, NEW m \in Months, NEW a \in 0 .. m - 1,
         NEW alloc, \A q \in a + 1 .. m : alloc[q] \in Nat
  PROVE  CorrectCharge(a, m, alloc) \in Int
<1> DEFINE f == [q \in a + 1 .. m |-> ComputeBill(alloc[q], RepriceCursor(a, alloc, q))]
<1>1. \A q \in Months : q \in a + 1 .. m => f[q] \in Int
  <2> SUFFICES ASSUME NEW q \in a + 1 .. m
               PROVE  ComputeBill(alloc[q], RepriceCursor(a, alloc, q)) \in Int
    OBVIOUS
  <2>1. q \in a + 1 .. m + 1
    BY MonthFacts
  <2>2. RepriceCursor(a, alloc, q) \in Nat
    BY <2>1, RepriceNat
  <2> QED BY <2>2, ComputedInt
<1> HIDE DEF f
<1>2. Over(a + 1 .. m, f) \in Int
  BY <1>1, OverInt
<1> QED BY <1>2 DEF f, CorrectCharge

LEMMA AdjustedInt == LadderTypes => \A S : AdjustedAt(S) \in Int
<1> SUFFICES ASSUME LadderTypes, NEW S PROVE AdjustedAt(S) \in Int
  OBVIOUS
<1> DEFINE f == [i \in DOMAIN adjusts |-> IF adjusts[i].at \in S THEN adjusts[i].amount ELSE 0]
<1>1. Len(adjusts) \in Nat /\ \A i \in 1 .. Len(adjusts) : f[i] \in Int
  BY AdjustsAre
<1> HIDE DEF f
<1>2. SumTo(f, Len(adjusts)) \in Int
  BY <1>1, SumInt
<1> QED BY <1>2 DEF AdjustedAt, f

(* The bills as a function of their months.                                *)
Amounts == [q \in Months |-> charge[q].amount]

LEMMA AmountsInt == LadderTypes => \A q \in Months : Amounts[q] \in Int /\ Amounts[q] = charge[q].amount
<1> SUFFICES ASSUME LadderTypes, NEW q \in Months PROVE charge[q].amount \in Int
  BY DEF Amounts
<1>1. charge[q] \in Charges
  BY DEF LadderTypes
<1> QED BY <1>1 DEF Charges

LEMMA PostedChargeInt == LadderTypes => \A a, m : PostedCharge(a, m) \in Int
<1> SUFFICES ASSUME LadderTypes, NEW a, NEW m PROVE PostedCharge(a, m) \in Int
  OBVIOUS
<1>1. Over(a + 1 .. m, Amounts) \in Int
  BY AmountsInt, OverInt
<1>2. AdjustedAt(a + 1 .. m) \in Int
  BY AdjustedInt
<1> QED BY <1>1, <1>2 DEF PostedCharge, Amounts
-----------------------------------------------------------------------------
(* A charge written to a month keeps the types.                            *)
LEMMA WriteTypes ==
  ASSUME LadderTypes, NEW m \in Months, NEW x \in Charges,
         x.status # "NONE" => metered[m] # NoUsage,
         charge' = [charge EXCEPT ![m] = x], calm' \in BOOLEAN, replaced' \in Nat,
         UNCHANGED <<habit, metered, adjusts, recons>>
  PROVE  LadderTypes'
<1>1. charge' \in [Months -> Charges]
  BY DEF LadderTypes
<1>2. \A q \in Months : charge'[q].status # "NONE" => metered[q] # NoUsage
  <2> SUFFICES ASSUME NEW q \in Months, charge'[q].status # "NONE" PROVE metered[q] # NoUsage
    OBVIOUS
  <2>1. charge \in [Months -> Charges]
    BY DEF LadderTypes
  <2>2. CASE q = m
    BY <2>1, <2>2
  <2>3. CASE q # m
    BY <2>1, <2>3 DEF LadderTypes
  <2> QED BY <2>2, <2>3
<1>3. \A i \in DOMAIN adjusts' : CorrectionGood(adjusts[i])'
  BY DEF LadderTypes, CorrectionGood
<1>4. (habit \in Habits /\ recons \in Nat /\ metered \in [Months -> Usages] /\ adjusts \in Seq(Adjustments))'
  BY DEF LadderTypes
<1> QED BY <1>1, <1>2, <1>3, <1>4 DEF LadderTypes

LEMMA SettleTypes ==
  ASSUME LadderTypes, NEW m \in Months, NEW u \in 0 .. MostUsage, SettleMonth(m, u)
  PROVE  LadderTypes'
<1>1. metered \in [Months -> Usages] /\ u \in Usages /\ u # NoUsage /\ metered[m] = NoUsage
      /\ metered' = [metered EXCEPT ![m] = u]
  BY LadderAssumption DEF LadderTypes, Usages, SettleMonth, NoUsage
<1>2. metered' \in [Months -> Usages]
  BY <1>1
<1>3. \A q \in Months : metered[q] # NoUsage => metered'[q] = metered[q]
  BY <1>1
<1>4. \A q \in Months : charge'[q].status # "NONE" => metered'[q] # NoUsage
  BY <1>3 DEF LadderTypes, SettleMonth
<1>5. ASSUME NEW i \in DOMAIN adjusts PROVE CorrectionGood(adjusts[i])'
  <2>1. CorrectionGood(adjusts[i]) /\ adjusts' = adjusts
    BY DEF LadderTypes, SettleMonth
  <2> QED BY <1>3, <2>1 DEF CorrectionGood
<1>6. UNCHANGED <<habit, charge, adjusts, recons, replaced, calm>>
  BY DEF SettleMonth
<1>7. \A i \in DOMAIN adjusts' : CorrectionGood(adjusts[i])'
  BY <1>5, <1>6
<1> QED BY <1>2, <1>4, <1>6, <1>7 DEF LadderTypes

LEMMA ReplaceTypes ==
  ASSUME LadderTypes, NEW m \in Months, NEW u \in 0 .. MostUsage, ReplaceMonth(m, u)
  PROVE  LadderTypes'
<1> DEFINE x == [kind |-> "REPLACEMENT", status |-> "POSTED", qty |-> u,
                 amount |-> ComputeBill(u, YtdBefore(m)), ytd |-> YtdBefore(m)]
<1>1. u \in Nat /\ YtdBefore(m) \in Nat
  BY CursorNat, LadderAssumption
<1>2. x \in Charges
  BY <1>1, ComputedInt DEF Charges
<1>3. metered[m] # NoUsage
  BY DEF LadderTypes, ReplaceMonth, Posted
<1>4. charge' = [charge EXCEPT ![m] = x] /\ UNCHANGED <<habit, metered, adjusts, recons>>
  BY DEF ReplaceMonth
<1>5. calm' \in BOOLEAN /\ replaced' \in Nat
  BY DEF ReplaceMonth, LadderTypes
<1> HIDE DEF x
<1> QED BY <1>2, <1>3, <1>4, <1>5, WriteTypes

LEMMA PriceTypes ==
  ASSUME LadderTypes, NEW m \in Months, PriceMonth(m)
  PROVE  LadderTypes'
<1> DEFINE x == [kind |-> "NORMAL", status |-> "DRAFT", qty |-> metered[m],
                 amount |-> ComputeBill(metered[m], YtdBefore(m)), ytd |-> YtdBefore(m)]
<1>1. metered[m] \in Nat /\ YtdBefore(m) \in Nat
  BY CursorNat, MeteredNat DEF PriceMonth
<1>2. x \in Charges
  BY <1>1, ComputedInt DEF Charges
<1>3. metered[m] # NoUsage
  BY DEF PriceMonth
<1>4. charge' = [charge EXCEPT ![m] = x] /\ UNCHANGED <<habit, metered, adjusts, recons, replaced, calm>>
  BY DEF PriceMonth
<1>5. calm' \in BOOLEAN /\ replaced' \in Nat
  BY <1>4 DEF LadderTypes
<1> HIDE DEF x
<1> QED BY <1>2, <1>3, <1>4, <1>5, WriteTypes

(* Posting, dropping and reversing change the status.                      *)
LEMMA StatusTypes ==
  ASSUME LadderTypes, NEW m \in Months, Post(m) \/ DropDraft(m) \/ ReverseMonth(m)
  PROVE  LadderTypes'
<1>0. /\ charge[m] \in Charges /\ (charge[m].status # "NONE" => metered[m] # NoUsage)
      /\ charge \in [Months -> Charges]
  BY DEF LadderTypes
<1>1. /\ UNCHANGED <<habit, metered, adjusts, recons>> /\ replaced' \in Nat /\ calm' \in BOOLEAN
  BY DEF LadderTypes, Post, DropDraft, ReverseMonth
<1>2. CASE Post(m)
  <2> DEFINE x == [charge[m] EXCEPT !.status = "POSTED"]
  <2>1. x \in Charges /\ charge' = [charge EXCEPT ![m] = x] /\ metered[m] # NoUsage
    BY <1>0, <1>2 DEF Charges, Post
  <2> HIDE DEF x
  <2> QED BY <1>1, <2>1, WriteTypes
<1>3. CASE DropDraft(m)
  <2>1. NoCharge \in Charges /\ NoCharge.status = "NONE"
    BY DEF NoCharge, Charges
  <2>2. charge' = [charge EXCEPT ![m] = NoCharge]
    BY <1>3 DEF DropDraft
  <2> QED BY <1>1, <2>1, <2>2, WriteTypes
<1>4. CASE ReverseMonth(m)
  <2> DEFINE x == [charge[m] EXCEPT !.status = "REVERSED"]
  <2>1. x \in Charges /\ charge' = [charge EXCEPT ![m] = x] /\ metered[m] # NoUsage
    BY <1>0, <1>4 DEF Charges, ReverseMonth, Posted
  <2> HIDE DEF x
  <2> QED BY <1>1, <2>1, WriteTypes
<1> QED BY <1>2, <1>3, <1>4

(* What a reconciliation appends.                                          *)
Correction(a, m, t) ==
    [at |-> m, amount |-> CorrectCharge(a, m, Allocate(a, m, t)) - PostedCharge(a, m),
     delta |-> [q \in a + 1 .. m |-> Allocate(a, m, t)[q] - metered[q]]]

LEMMA SpanFacts ==
  ASSUME LadderTypes, NEW m \in Months, NEW a \in 0 .. m - 1,
         NEW t \in 0 .. (m - a) * MostUsage, Reconcile(a, m, t)
  PROVE  /\ m \in Nat /\ a \in Nat /\ t \in Nat /\ a + 1 <= m /\ a + 1 .. m \in SUBSET Months
         /\ \A q \in a + 1 .. m : /\ Posted(q) /\ metered[q] \in Nat /\ metered[q] # NoUsage
                                  /\ Allocate(a, m, t)[q] \in Nat
         /\ adjusts' \in {adjusts, Append(adjusts, Correction(a, m, t))}
         /\ adjusts' = adjusts =>
              CorrectCharge(a, m, Allocate(a, m, t)) = PostedCharge(a, m)
         /\ Correction(a, m, t) \in Adjustments
<1>1. m \in Nat /\ a \in Nat /\ a + 1 <= m /\ a + 1 .. m \in SUBSET Months
  BY MonthFacts
<1>2. t \in Nat
  <2>1. (m - a) * MostUsage \in Int
    BY <1>1, LadderAssumption
  <2> QED BY <2>1
<1>3. ASSUME NEW q \in a + 1 .. m
      PROVE  Posted(q) /\ metered[q] \in Nat /\ metered[q] # NoUsage
  <2>1. Posted(q) /\ q \in Months
    BY <1>1 DEF Reconcile
  <2>2. metered[q] # NoUsage
    BY <2>1 DEF LadderTypes, Posted
  <2> QED BY <2>1, <2>2, MeteredNat
<1>4. Allocate(a, m, t) \in [a + 1 .. m -> Int]
  BY <1>2, <1>3, AllocationInt
<1>5. \A q \in a + 1 .. m : Allocate(a, m, t)[q] >= 0
  BY DEF Reconcile
<1>6. \A q \in a + 1 .. m : Allocate(a, m, t)[q] \in Nat
  BY <1>4, <1>5
<1>7. CorrectCharge(a, m, Allocate(a, m, t)) \in Int /\ PostedCharge(a, m) \in Int
  BY <1>6, CorrectInt, PostedChargeInt
<1>8. \/ adjusts' = Append(adjusts, Correction(a, m, t))
      \/ adjusts' = adjusts /\ CorrectCharge(a, m, Allocate(a, m, t)) - PostedCharge(a, m) = 0
  BY DEF Reconcile, Correction
<1>9. Correction(a, m, t) \in Adjustments
  <2>1. [q \in a + 1 .. m |-> Allocate(a, m, t)[q] - metered[q]] \in [a + 1 .. m -> Int]
    BY <1>3, <1>6
  <2>2. [q \in a + 1 .. m |-> Allocate(a, m, t)[q] - metered[q]]
          \in UNION {[S -> Int] : S \in SUBSET Months}
    BY <1>1, <2>1
  <2> HIDE DEF Reconcile
  <2> DEFINE d == [q \in a + 1 .. m |-> Allocate(a, m, t)[q] - metered[q]]
             n == CorrectCharge(a, m, Allocate(a, m, t)) - PostedCharge(a, m)
  <2>3. n \in Int /\ d \in UNION {[S -> Int] : S \in SUBSET Months}
    BY <1>7, <2>2
  <2>4. Correction(a, m, t) = [at |-> m, amount |-> n, delta |-> d]
    BY DEF Correction
  <2> HIDE DEF d, n
  <2> QED BY <2>3, <2>4 DEF Adjustments
<1>10. adjusts # Append(adjusts, Correction(a, m, t))
  <2>1. Len(adjusts) \in Nat /\ adjusts \in Seq(Adjustments)
    BY AdjustsAre DEF LadderTypes
  <2> QED BY <1>9, <2>1
<1> QED BY <1>1, <1>2, <1>3, <1>6, <1>7, <1>8, <1>9, <1>10

LEMMA ReconcileTypes ==
  ASSUME LadderTypes, NEW m \in Months, NEW a \in 0 .. m - 1,
         NEW t \in 0 .. (m - a) * MostUsage, Reconcile(a, m, t)
  PROVE  LadderTypes'
<1> DEFINE x == Correction(a, m, t)
<1>1. UNCHANGED <<habit, metered, charge, replaced>> /\ recons' \in Nat /\ calm' \in BOOLEAN
  BY DEF Reconcile, LadderTypes
<1>2. CorrectionGood(x)
  <2>1. x.at = m /\ DOMAIN x.delta = a + 1 .. m
        /\ \A q \in a + 1 .. m : x.delta[q] = Allocate(a, m, t)[q] - metered[q]
    BY DEF Correction
  <2>2. m \in a + 1 .. m
    BY SpanFacts
  <2>3. ASSUME NEW q \in a + 1 .. m
        PROVE  /\ q \in Months /\ q <= m /\ x.delta[q] \in Int
               /\ metered[q] # NoUsage /\ metered[q] + x.delta[q] >= 0
    <3>1. q \in Months /\ metered[q] \in Nat /\ metered[q] # NoUsage /\ Allocate(a, m, t)[q] \in Nat
      BY SpanFacts
    <3>2. x.delta[q] = Allocate(a, m, t)[q] - metered[q]
      BY <2>1
    <3> HIDE DEF x
    <3> QED BY <3>1, <3>2
  <2> HIDE DEF x
  <2> QED BY <2>1, <2>2, <2>3 DEF CorrectionGood
<1>3. adjusts \in Seq(Adjustments) /\ Len(adjusts) \in Nat /\ x \in Adjustments
  BY SpanFacts, AdjustsAre DEF LadderTypes
<1> HIDE DEF x
<1>4. adjusts' = adjusts \/ adjusts' = Append(adjusts, x)
  BY SpanFacts DEF x
<1>5. adjusts' \in Seq(Adjustments) /\ \A i \in DOMAIN adjusts' : CorrectionGood(adjusts'[i])
  <2>1. CASE adjusts' = adjusts
    BY <1>3, <2>1 DEF LadderTypes
  <2>2. CASE adjusts' = Append(adjusts, x)
    <3> HIDE DEF Adjustments
    <3>1. /\ adjusts' \in Seq(Adjustments) /\ DOMAIN adjusts' = 1 .. Len(adjusts) + 1
          /\ \A i \in 1 .. Len(adjusts) : adjusts'[i] = adjusts[i]
          /\ adjusts'[Len(adjusts) + 1] = x
      BY <1>3, <2>2
    <3>2. \A i \in 1 .. Len(adjusts) : CorrectionGood(adjusts[i])
      BY AdjustsAre
    <3> QED BY <1>2, <1>3, <3>1, <3>2
  <2> QED BY <1>4, <2>1, <2>2
<1>7. \A i \in DOMAIN adjusts' : CorrectionGood(adjusts[i])'
  BY <1>1, <1>5 DEF CorrectionGood
<1> QED BY <1>1, <1>5, <1>7 DEF LadderTypes

LEMMA LadderTypesStep == LadderTypes /\ [LadderNext]_ladderVars => LadderTypes'
<1> SUFFICES ASSUME LadderTypes, [LadderNext]_ladderVars PROVE LadderTypes'
  OBVIOUS
<1>1. ASSUME NEW m \in Months, NEW u \in 0 .. MostUsage, SettleMonth(m, u) \/ ReplaceMonth(m, u)
      PROVE  LadderTypes'
  BY <1>1, SettleTypes, ReplaceTypes
<1>2. ASSUME NEW m \in Months, PriceMonth(m) \/ Post(m) \/ DropDraft(m) \/ ReverseMonth(m)
      PROVE  LadderTypes'
  BY <1>2, PriceTypes, StatusTypes
<1>3. ASSUME NEW m \in Months, NEW a \in 0 .. m - 1,
             NEW t \in 0 .. (m - a) * MostUsage, Reconcile(a, m, t)
      PROVE  LadderTypes'
  BY <1>3, ReconcileTypes
<1>4. CASE UNCHANGED ladderVars
  BY <1>4 DEF LadderTypes, ladderVars, CorrectionGood
<1> QED BY <1>1, <1>2, <1>3, <1>4 DEF LadderNext

LEMMA LadderTypesHold == LadderSpec => []LadderTypes
BY LadderInitTypes, LadderTypesStep, PTL DEF LadderSpec

LEMMA TypesAreOK == LadderTypes => LadderTypeOK
<1> SUFFICES ASSUME LadderTypes PROVE LadderTypeOK
  OBVIOUS
<1>1. ASSUME NEW m \in Months
      PROVE  /\ metered[m] \in {NoUsage} \cup 0 .. MostUsage
             /\ charge[m].kind \in {"NORMAL", "REPLACEMENT"}
             /\ charge[m].status \in {"NONE", "DRAFT", "POSTED", "REVERSED"}
             /\ charge[m].status # "NONE" => metered[m] # NoUsage
  <2>1. charge[m] \in Charges /\ metered[m] \in Usages
    BY DEF LadderTypes
  <2> QED BY <2>1 DEF LadderTypes, Charges, Usages
<1>2. ASSUME NEW i \in DOMAIN adjusts, NEW m \in DOMAIN adjusts[i].delta
      PROVE  m \in 1 .. adjusts[i].at /\ metered[m] + adjusts[i].delta[m] >= 0
  <2>1. i \in 1 .. Len(adjusts)
    BY AdjustsAre
  <2>2. CorrectionGood(adjusts[i]) /\ adjusts[i].at \in Months
    BY <2>1, AdjustsAre
  <2>3. m \in Months /\ m <= adjusts[i].at /\ metered[m] + adjusts[i].delta[m] >= 0
    BY <2>2 DEF CorrectionGood
  <2> QED BY <2>2, <2>3, MonthFacts
<1> QED BY <1>1, <1>2 DEF LadderTypeOK, LadderTypes

-----------------------------------------------------------------------------
(* More of sums over months.                                               *)
LEMMA OverUnion ==
  ASSUME NEW S, NEW R, NEW Q, NEW f,
         \A q \in Months : /\ q \in Q <=> q \in S \/ q \in R
                           /\ ~(q \in S /\ q \in R)
                           /\ q \in Q => f[q] \in Int
  PROVE  Over(Q, f) = Over(S, f) + Over(R, f)
<1> DEFINE x == [q \in Months |-> IF q \in S THEN f[q] ELSE 0]
           y == [q \in Months |-> IF q \in R THEN f[q] ELSE 0]
           z == [q \in Months |-> IF q \in Q THEN f[q] ELSE 0]
<1>1. LastMonth \in Nat /\ Months = 1 .. LastMonth
  BY MonthFacts
<1>2. \A q \in 1 .. LastMonth : x[q] \in Int /\ y[q] \in Int /\ z[q] = x[q] + y[q]
  <2> SUFFICES ASSUME NEW q \in Months PROVE x[q] \in Int /\ y[q] \in Int /\ z[q] = x[q] + y[q]
    BY <1>1
  <2>1. x[q] = (IF q \in S THEN f[q] ELSE 0) /\ y[q] = (IF q \in R THEN f[q] ELSE 0)
        /\ z[q] = (IF q \in Q THEN f[q] ELSE 0)
    OBVIOUS
  <2>2. (q \in Q <=> q \in S \/ q \in R) /\ ~(q \in S /\ q \in R) /\ (q \in Q => f[q] \in Int)
    OBVIOUS
  <2> HIDE DEF x, y, z
  <2> QED BY <2>1, <2>2
<1> HIDE DEF x, y, z
<1>3. SumTo(z, LastMonth) = SumTo(x, LastMonth) + SumTo(y, LastMonth)
  BY <1>1, <1>2, SumPlus
<1> QED BY <1>3 DEF Over, x, y, z

(* The adjustments A issued in some months.                                *)
Adjusted(A, S) == SumTo([i \in DOMAIN A |-> IF A[i].at \in S THEN A[i].amount ELSE 0], Len(A))
AdjustsGood(A) ==
    /\ Len(A) \in Nat /\ DOMAIN A = 1 .. Len(A)
    /\ \A i \in 1 .. Len(A) : A[i].at \in Months /\ A[i].amount \in Int

LEMMA AdjustedSame ==
  ASSUME NEW A, AdjustsGood(A), NEW S, NEW R,
         \A i \in 1 .. Len(A) : A[i].at \in S <=> A[i].at \in R
  PROVE  Adjusted(A, S) = Adjusted(A, R)
<1>1. [i \in DOMAIN A |-> IF A[i].at \in S THEN A[i].amount ELSE 0]
        = [i \in DOMAIN A |-> IF A[i].at \in R THEN A[i].amount ELSE 0]
  BY DEF AdjustsGood
<1> QED BY <1>1 DEF Adjusted

LEMMA AdjustedSplit ==
  ASSUME NEW A, AdjustsGood(A), NEW S, NEW R, NEW Q,
         \A q \in Months : (q \in Q <=> q \in S \/ q \in R) /\ ~(q \in S /\ q \in R)
  PROVE  Adjusted(A, Q) = Adjusted(A, S) + Adjusted(A, R)
<1> DEFINE x == [i \in DOMAIN A |-> IF A[i].at \in S THEN A[i].amount ELSE 0]
           y == [i \in DOMAIN A |-> IF A[i].at \in R THEN A[i].amount ELSE 0]
           z == [i \in DOMAIN A |-> IF A[i].at \in Q THEN A[i].amount ELSE 0]
<1>1. \A i \in 1 .. Len(A) : x[i] \in Int /\ y[i] \in Int /\ z[i] = x[i] + y[i]
  <2> SUFFICES ASSUME NEW i \in 1 .. Len(A)
               PROVE  x[i] \in Int /\ y[i] \in Int /\ z[i] = x[i] + y[i]
    OBVIOUS
  <2>1. A[i].at \in Months /\ A[i].amount \in Int /\ i \in DOMAIN A
    BY DEF AdjustsGood
  <2>2. (A[i].at \in Q <=> A[i].at \in S \/ A[i].at \in R) /\ ~(A[i].at \in S /\ A[i].at \in R)
    BY <2>1
  <2>3. x[i] = (IF A[i].at \in S THEN A[i].amount ELSE 0)
        /\ y[i] = (IF A[i].at \in R THEN A[i].amount ELSE 0)
        /\ z[i] = (IF A[i].at \in Q THEN A[i].amount ELSE 0)
    BY <2>1
  <2> HIDE DEF x, y, z
  <2> QED BY <2>1, <2>2, <2>3
<1>2. Len(A) \in Nat
  BY DEF AdjustsGood
<1> HIDE DEF x, y, z
<1>3. SumTo(z, Len(A)) = SumTo(x, Len(A)) + SumTo(y, Len(A))
  BY <1>1, <1>2, SumPlus
<1> QED BY <1>3 DEF Adjusted, x, y, z

LEMMA AdjustedMore ==
  ASSUME NEW A, AdjustsGood(A), NEW x, x.at \in Months, x.amount \in Int, NEW S,
         NEW B, Len(B) = Len(A) + 1, DOMAIN B = 1 .. Len(A) + 1, B[Len(A) + 1] = x,
         \A i \in 1 .. Len(A) : B[i] = A[i]
  PROVE  Adjusted(B, S) = Adjusted(A, S) + (IF x.at \in S THEN x.amount ELSE 0)
<1> DEFINE f == [i \in DOMAIN A |-> IF A[i].at \in S THEN A[i].amount ELSE 0]
           g == [i \in DOMAIN B |-> IF B[i].at \in S THEN B[i].amount ELSE 0]
           n == Len(A)
<1>1. n \in Nat /\ DOMAIN A = 1 .. n
  BY DEF AdjustsGood
<1>2. \A i \in 1 .. n : f[i] \in Int /\ g[i] = f[i]
  <2> SUFFICES ASSUME NEW i \in 1 .. n PROVE f[i] \in Int /\ g[i] = f[i]
    OBVIOUS
  <2>1. A[i].amount \in Int /\ i \in DOMAIN A /\ i \in DOMAIN B /\ B[i] = A[i]
    BY <1>1 DEF AdjustsGood
  <2>2. f[i] = (IF A[i].at \in S THEN A[i].amount ELSE 0)
        /\ g[i] = (IF A[i].at \in S THEN A[i].amount ELSE 0)
    BY <2>1
  <2> HIDE DEF f, g
  <2> QED BY <2>1, <2>2
<1>3. g[n + 1] = (IF x.at \in S THEN x.amount ELSE 0) /\ n + 1 \in DOMAIN B
  <2>1. n + 1 \in DOMAIN B
    BY <1>1
  <2> QED BY <2>1
<1>4. g[n + 1] \in Int
  <2> HIDE DEF g, n
  <2> QED BY <1>3
<1> HIDE DEF f, g
<1>5. \A i \in 1 .. n + 1 : g[i] \in Int
  <2> SUFFICES ASSUME NEW i \in 1 .. n + 1 PROVE g[i] \in Int
    OBVIOUS
  <2>1. i \in 1 .. n \/ i = n + 1
    BY <1>1
  <2> QED BY <1>2, <1>4, <2>1
<1>6. SumTo(g, n + 1) = SumTo(g, n) + g[n + 1]
  <2> HIDE DEF n
  <2> QED BY <1>1, <1>5, SumNext
<1>7. SumTo(g, n) = SumTo(f, n)
  <2> HIDE DEF n
  <2> QED BY <1>1, <1>2, SumEqual
<1>8. Adjusted(A, S) = SumTo(f, n) /\ Adjusted(B, S) = SumTo(g, n + 1)
  BY DEF Adjusted, f, g
<1> QED BY <1>3, <1>6, <1>7, <1>8
-----------------------------------------------------------------------------
(* The invariant.  What the posted months used and should have been        *)
(* billed, and what they were, up to month c.                              *)
PostedMonths == {m \in Months : Posted(m)}
Final == [m \in Months |-> FinalUsage(m)]
TruePrice(c) == PriceTo(habit, PostedMonths, Final, c)
PostedTo(c) == {m \in PostedMonths : m <= c}
BilledTo(c) == Over(PostedTo(c), Amounts) + Adjusted(adjusts, 1 .. c)

(* Where the corrections can be cut, the account is billed right so far.   *)
CutExact == \A c \in 0 .. LastMonth : Within(c) => BilledTo(c) = TruePrice(c)

(* A draft is priced from the cursor that it notes.                        *)
DraftsPriced == \A m \in Months :
    charge[m].status = "DRAFT" =>
        /\ charge[m].kind = "NORMAL"
        /\ charge[m].amount = Bill(habit, charge[m].ytd, charge[m].ytd + metered[m])

(* A replaced month counts once in the cursor.                             *)
OneRow == \A m \in Months : charge[m].kind = "REPLACEMENT" => habit.items = 1

(* Months that an adjustment corrected stay as they are.                   *)
CorrectedStand == \A i \in DOMAIN adjusts : \A q \in DOMAIN adjusts[i].delta :
    Posted(q) /\ HasUsage(q)

LadderInv == /\ LadderTypes /\ DraftsPriced /\ OneRow
             /\ calm => CorrectedStand /\ CutExact

LEMMA AdjustsAreGood == LadderTypes => AdjustsGood(adjusts)
BY AdjustsAre DEF AdjustsGood

(* The usage of the posted months.                                         *)
LEMMA FinalNat ==
  ASSUME LadderTypes
  PROVE  /\ PostedMonths \in SUBSET Months
         /\ \A q \in Months : q \in PostedMonths => Final[q] \in Nat
         /\ \A q \in Months : Final[q] = FinalUsage(q)
BY UsageNat DEF PostedMonths, Posted, Final

(* A step that leaves alone what the posted months up to c count.          *)
LEMMA KeepBelow ==
  ASSUME habit' = habit, adjusts' = adjusts, NEW c \in Int,
         \A q \in Months : q <= c =>
             /\ Posted(q)' <=> Posted(q)
             /\ Posted(q) => /\ charge'[q].amount = charge[q].amount
                             /\ charge'[q].kind = charge[q].kind
                             /\ charge'[q].qty = charge[q].qty /\ metered'[q] = metered[q]
  PROVE  /\ BilledTo(c)' = BilledTo(c) /\ TruePrice(c)' = TruePrice(c)
         /\ Within(c)' <=> Within(c)
         /\ \A y : Used(PostedMonths', Final', y, c) = Used(PostedMonths, Final, y, c)
         /\ \A q \in Months : q <= c => /\ q \in PostedMonths' <=> q \in PostedMonths
                                        /\ q \in PostedMonths' => Final'[q] = Final[q]
<1>1. \A q \in Months : q \in PostedTo(c)' <=> q \in PostedTo(c)
  BY DEF PostedTo, PostedMonths
<1>2. \A q \in Months : q \in PostedTo(c)' => Amounts'[q] = Amounts[q]
  BY DEF PostedTo, PostedMonths, Amounts
<1>3. BilledTo(c)' = BilledTo(c)
  BY <1>1, <1>2, OverSame DEF BilledTo
<1>4. \A q \in Months : q \in PostedMonths' /\ q <= c <=> q \in PostedMonths /\ q <= c
  BY DEF PostedMonths
<1>5. \A q \in Months : q \in PostedMonths' /\ q <= c => Final'[q] = Final[q]
  <2> SUFFICES ASSUME NEW q \in Months, q <= c, Posted(q)
               PROVE  FinalUsage(q)' = FinalUsage(q)
    BY <1>4 DEF PostedMonths, Final
  <2>1. charge'[q].kind = charge[q].kind /\ charge'[q].qty = charge[q].qty
        /\ metered'[q] = metered[q]
    OBVIOUS
  <2> QED BY <2>1 DEF FinalUsage, Corrections, LastDelta
<1>6. PostedMonths \in SUBSET Months /\ PostedMonths' \in SUBSET Months
  BY DEF PostedMonths
<1>7. /\ PriceTo(habit, PostedMonths', Final', c) = PriceTo(habit, PostedMonths, Final, c)
      /\ \A y : Used(PostedMonths', Final', y, c) = Used(PostedMonths, Final, y, c)
  BY <1>4, <1>5, <1>6, PriceSame
<1>8. Within(c)' <=> Within(c)
  BY DEF Within
<1> QED BY <1>3, <1>4, <1>5, <1>7, <1>8 DEF TruePrice

LEMMA OnlyMax ==
  ASSUME NEW n \in Nat, NEW C \in SUBSET (1 .. n + 1), n + 1 \in C
  PROVE  Max(C) = n + 1
<1>1. \A j \in C : n + 1 >= j
  OBVIOUS
<1>2. Max(C) \in C /\ \A j \in C : Max(C) >= j
  BY <1>1 DEF Max
<1>3. Max(C) \in 1 .. n + 1 /\ Max(C) >= n + 1
  BY <1>2
<1> QED BY <1>3

(* The cursor of a bill is the usage its year has been billed for.         *)
LEMMA CursorIsUsed ==
  ASSUME LadderTypes, OneRow, CorrectedStand, NEW m \in Months, Within(m - 1)
  PROVE  YtdBefore(m) = Used(PostedMonths, Final, YearOf(m), m - 1)
<1> DEFINE f == [q \in Months |-> UsageAt(q, m)]
<1>0. m \in Nat /\ Months = 1 .. LastMonth /\ LastMonth \in Nat /\ m <= LastMonth
  BY MonthFacts
<1>1. \A q \in Months : q \in EarlierInYear(m) <=> q \in InYear(PostedMonths, YearOf(m), m - 1)
  BY <1>0 DEF EarlierInYear, InYear, PostedMonths
<1>2. ASSUME NEW q \in Months, q \in EarlierInYear(m) PROVE f[q] = Final[q]
  <2>1. Posted(q) /\ q \in 1 .. m - 1
    BY <1>2 DEF EarlierInYear
  <2>2. ASSUME NEW i \in DOMAIN adjusts, q \in DOMAIN adjusts[i].delta
        PROVE  adjusts[i].at <= m /\ adjusts[i].at <= LastMonth
    <3>1. adjusts[i].at <= m - 1
      BY <1>0, <2>1, <2>2 DEF Within
    <3>2. adjusts[i].at \in Int
      BY AdjustsAre, MonthFacts
    <3> QED BY <1>0, <3>1, <3>2
  <2>3. Corrections(q, m) = Corrections(q, LastMonth)
    BY <2>2 DEF Corrections
  <2>4. ASSUME Corrections(q, m) # {} PROVE HasUsage(q)
    BY <2>4 DEF Corrections, CorrectedStand
  <2>5. CASE Corrections(q, m) # {}
    BY <2>3, <2>4, <2>5 DEF UsageAt, FinalUsage, LastDelta, Final
  <2>6. CASE Corrections(q, m) = {}
    <3>1. UsageAt(q, m) = BilledUsage(q)
      BY <2>6 DEF UsageAt
    <3>2. FinalUsage(q) = IF charge[q].kind = "REPLACEMENT" THEN charge[q].qty ELSE metered[q]
      BY <2>3, <2>6 DEF FinalUsage
    <3>3. charge[q] \in Charges
      BY DEF LadderTypes
    <3>4. charge[q].kind \in {"NORMAL", "REPLACEMENT"} /\ charge[q].qty \in Nat
      BY <3>3 DEF Charges
    <3>5. charge[q].kind = "REPLACEMENT" => RowsQty(charge[q].qty) = charge[q].qty
      BY <3>4 DEF OneRow, RowsQty
    <3> QED BY <3>1, <3>2, <3>4, <3>5 DEF BilledUsage, Final
  <2> QED BY <2>5, <2>6
<1> HIDE DEF f
<1>3. Over(EarlierInYear(m), f) = Over(InYear(PostedMonths, YearOf(m), m - 1), Final)
  BY <1>1, <1>2, OverSame
<1> QED BY <1>3 DEF YtdBefore, Used, f

-----------------------------------------------------------------------------
(* The posted bills keep what they count in a step that concerns drafts.   *)
LEMMA QuietCut ==
  ASSUME habit' = habit, adjusts' = adjusts, CutExact,
         \A q \in Months :
             /\ Posted(q)' <=> Posted(q)
             /\ Posted(q) => /\ charge'[q].amount = charge[q].amount
                             /\ charge'[q].kind = charge[q].kind
                             /\ charge'[q].qty = charge[q].qty /\ metered'[q] = metered[q]
  PROVE  CutExact'
<1> SUFFICES ASSUME NEW c \in 0 .. LastMonth, Within(c)'
             PROVE  BilledTo(c)' = TruePrice(c)'
  BY DEF CutExact
<1>1. BilledTo(c)' = BilledTo(c) /\ TruePrice(c)' = TruePrice(c) /\ Within(c)
  BY KeepBelow
<1> QED BY <1>1 DEF CutExact

(* Before the last month everything is settled.                            *)
LEMMA TopMonth ==
  ASSUME LadderInv, calm, NEW m \in Months, NothingAfter(m), Untouched(m)
  PROVE  /\ \A i \in 1 .. Len(adjusts) : adjusts[i].at <= m - 1
         /\ \A c \in Nat : m - 1 <= c => Adjusted(adjusts, 1 .. c) = Adjusted(adjusts, 1 .. m - 1)
         /\ BilledTo(m - 1) = TruePrice(m - 1)
         /\ YtdBefore(m) = Used(PostedMonths, Final, YearOf(m), m - 1)
<1>0. LadderTypes /\ OneRow /\ CorrectedStand /\ CutExact
  BY DEF LadderInv
<1>a. m \in Nat /\ 1 <= m /\ m <= LastMonth /\ LastMonth \in Nat
  BY MonthFacts
<1>1. ASSUME NEW i \in 1 .. Len(adjusts) PROVE adjusts[i].at <= m - 1
  <2> DEFINE k == adjusts[i].at
  <2>1. k \in Months /\ k \in DOMAIN adjusts[i].delta /\ i \in DOMAIN adjusts
    BY <1>0, AdjustsAre DEF CorrectionGood
  <2>2. Posted(k) /\ k # m
    BY <1>0, <2>1 DEF CorrectedStand, Untouched
  <2>3. ~(k \in m + 1 .. LastMonth)
    BY <2>2 DEF NothingAfter, Posted
  <2>4. k \in Nat /\ k <= LastMonth
    BY <2>1, MonthFacts
  <2> HIDE DEF k
  <2>5. k <= m - 1
    BY <1>a, <2>2, <2>3, <2>4
  <2> QED BY <2>5 DEF k
<1>2. ASSUME NEW c \in Nat, m - 1 <= c
      PROVE  Adjusted(adjusts, 1 .. c) = Adjusted(adjusts, 1 .. m - 1)
  <2>1. ASSUME NEW i \in 1 .. Len(adjusts)
        PROVE  adjusts[i].at \in 1 .. c <=> adjusts[i].at \in 1 .. m - 1
    <3>1. adjusts[i].at <= m - 1 /\ adjusts[i].at \in Months
      BY <1>0, <1>1, AdjustsAre
    <3>2. PICK k \in Nat : k = adjusts[i].at /\ 1 <= k
      BY <3>1, MonthFacts
    <3> QED BY <1>a, <1>2, <3>1, <3>2
  <2> QED BY <1>0, <2>1, AdjustsAreGood, AdjustedSame
<1>3. Within(m - 1)
  BY <1>0, <1>1, AdjustsAre DEF Within
<1>4. BilledTo(m - 1) = TruePrice(m - 1)
  <2>1. m - 1 \in 0 .. LastMonth
    BY <1>a
  <2> QED BY <1>0, <1>3, <2>1 DEF CutExact
<1>5. YtdBefore(m) = Used(PostedMonths, Final, YearOf(m), m - 1)
  BY <1>0, <1>3, CursorIsUsed
<1> QED BY <1>1, <1>2, <1>4, <1>5

(* A bill for u that enters, or takes the place of another, as the last.   *)
LEMMA Lands ==
  ASSUME LadderInv, calm, NEW m \in Months, NothingAfter(m), Untouched(m),
         habit' = habit, adjusts' = adjusts, metered' = metered, NEW u \in Nat,
         \A q \in Months : q # m => charge'[q] = charge[q],
         charge'[m].status = "POSTED", FinalUsage(m)' = u,
         charge'[m].amount = Bill(habit, YtdBefore(m), YtdBefore(m) + u)
  PROVE  CutExact'
<1> SUFFICES ASSUME NEW c \in 0 .. LastMonth, Within(c)'
             PROVE  BilledTo(c)' = TruePrice(c)'
  BY DEF CutExact
<1>0. LadderTypes /\ CutExact /\ habit \in Habits
  BY DEF LadderInv, LadderTypes
<1>a. m \in Nat /\ 1 <= m /\ m <= LastMonth /\ LastMonth \in Nat /\ c \in Nat
      /\ \A q \in Months : q \in Nat /\ q <= LastMonth
  BY MonthFacts
<1>1. CASE c < m
  <2>1. ASSUME NEW q \in Months, q <= c PROVE charge'[q] = charge[q] /\ metered'[q] = metered[q]
    <3>1. q # m
      BY <1>1, <1>a, <2>1
    <3> QED BY <3>1
  <2>2. BilledTo(c)' = BilledTo(c) /\ TruePrice(c)' = TruePrice(c) /\ (Within(c)' <=> Within(c))
    BY <2>1, KeepBelow DEF Posted
  <2> QED BY <1>0, <2>2 DEF CutExact
<1>2. CASE m <= c
  <2> DEFINE k == m - 1
             y == YearOf(m)
             S == PostedMonths'
             F == Final'
             n == Used(S, F, y, k)
  <2>1. ASSUME NEW q \in Months, q <= k PROVE charge'[q] = charge[q] /\ metered'[q] = metered[q]
    <3>1. q # m
      BY <1>a, <2>1
    <3> QED BY <3>1
  <2>a. \A q \in Months : q <= k =>
           /\ Posted(q)' <=> Posted(q)
           /\ Posted(q) => /\ charge'[q].amount = charge[q].amount
                           /\ charge'[q].kind = charge[q].kind
                           /\ charge'[q].qty = charge[q].qty /\ metered'[q] = metered[q]
    BY <2>1 DEF Posted
  <2>b. /\ BilledTo(k)' = BilledTo(k) /\ TruePrice(k)' = TruePrice(k)
        /\ Used(PostedMonths', Final', y, k) = Used(PostedMonths, Final, y, k)
        /\ \A q \in Months : q <= k => /\ q \in PostedMonths' <=> q \in PostedMonths
                                       /\ q \in PostedMonths' => Final'[q] = Final[q]
    <3>1. k \in Int
      BY <1>a
    <3> HIDE DEF k, y
    <3> QED BY <2>a, <3>1, KeepBelow
  <2>2. \A q \in Months : q <= k => /\ q \in S <=> q \in PostedMonths
                                    /\ q \in S => F[q] = Final[q]
    BY ONLY <2>b
  <2>3. BilledTo(k)' = TruePrice(k)' /\ n = YtdBefore(m)
    BY <2>b, TopMonth
  <2>4. m \in S /\ S \in SUBSET Months
    BY DEF PostedMonths, Posted
  <2>5. \A q \in S : q <= m
    <3> SUFFICES ASSUME NEW q \in S, q > m PROVE FALSE
      BY <1>a, <2>4
    <3>1. q \in m + 1 .. LastMonth /\ q \in Months /\ q # m
      BY <1>a, <2>4
    <3>2. charge'[q].status = "POSTED" /\ charge'[q] = charge[q]
      BY <3>1 DEF PostedMonths, Posted
    <3> QED BY <3>1, <3>2 DEF NothingAfter
  <2>6. F[m] = u
    BY DEF Final
  <2>7. ASSUME NEW q \in Months, q \in S PROVE F[q] \in Nat
    <3>1. CASE q = m
      BY <2>6, <3>1
    <3>2. CASE q # m
      <4>1. q <= k
        <5>1. q \in Nat /\ m \in Nat /\ q <= m
          BY <1>a, <2>5, <2>7
        <5> QED BY <3>2, <5>1
      <4>2. q \in PostedMonths /\ F[q] = Final[q]
        <5>1. q \in PostedMonths' /\ q \in Months
          BY <2>7
        <5>2. q \in PostedMonths /\ Final'[q] = Final[q]
          BY ONLY <2>b, <4>1, <5>1
        <5> QED BY <5>2
      <4>3. Final[q] \in Nat
        BY <1>0, <4>2, FinalNat
      <4> QED BY ONLY <4>2, <4>3
    <3> QED BY <3>1, <3>2
  <2>8. TruePrice(c)' = TruePrice(k)' + charge'[m].amount
    <3>1. m \in S /\ c \in Int /\ m <= c /\ \A q \in S : q <= c => q <= m
      BY <1>a, <1>2, <2>4, <2>5
    <3> HIDE DEF S, F
    <3>2. PriceTo(habit, S, F, c)
            = PriceTo(habit, S, F, m - 1) + Bill(habit, Used(S, F, y, m - 1), Used(S, F, y, m - 1) + F[m])
      BY <1>0, <2>4, <2>7, <3>1, MonthBilled
    <3>3. TruePrice(c)' = PriceTo(habit, S, F, c) /\ TruePrice(k)' = PriceTo(habit, S, F, m - 1)
      BY DEF TruePrice, S, F
    <3> QED BY <2>3, <2>6, <3>2, <3>3
  <2>9. Over(PostedTo(c)', Amounts') = Over(PostedTo(k)', Amounts') + charge'[m].amount
    <3>1. \A q \in Months : q \in PostedTo(c)' <=> q \in PostedTo(k)' \/ q = m
      <4> SUFFICES ASSUME NEW q \in Months
                   PROVE  q \in S /\ q <= c <=> (q \in S /\ q <= k) \/ q = m
        BY DEF PostedTo
      <4>1. q \in Nat /\ (q \in S => q <= m)
        BY <1>a, <2>5
      <4> QED BY <1>2, <1>a, <2>4, <4>1
    <3>2. m \notin PostedTo(k)'
      BY <1>a DEF PostedTo
    <3>3. ASSUME NEW q \in Months, q \in PostedTo(c)' PROVE Amounts'[q] \in Int
      <4>1. Amounts'[q] = charge'[q].amount
        BY DEF Amounts
      <4>2. CASE q # m
        BY <1>0, <4>1, <4>2, AmountsInt
      <4>3. CASE q = m
        <5>1. YtdBefore(m) \in Nat /\ YtdBefore(m) + u \in Nat /\ YtdBefore(m) <= YtdBefore(m) + u
          BY <1>0, CursorNat
        <5>2. Bill(habit, YtdBefore(m), YtdBefore(m) + u) \in Int
          BY <1>0, <5>1, BillInt
        <5> QED BY <4>1, <4>3, <5>2
      <4> QED BY <4>2, <4>3
    <3>4. Over(PostedTo(c)', Amounts') = Over(PostedTo(k)', Amounts') + Amounts'[m]
      <4> DEFINE R == PostedTo(c)'
                 Q == PostedTo(k)'
                 A == Amounts'
      <4>1. (\A q \in Months : q \in R <=> q \in Q \/ q = m) /\ m \notin Q
            /\ \A q \in Months : q \in R => A[q] \in Int
        BY <3>1, <3>2, <3>3
      <4> HIDE DEF R, Q, A
      <4>2. m \in Months
        OBVIOUS
      <4>3. OneMore(Q, R, A, m)
        BY ONLY <4>1, <4>2 DEF OneMore
      <4>4. Over(R, A) = Over(Q, A) + A[m]
        BY ONLY <4>3, OverAdd
      <4> QED BY <4>4 DEF R, Q, A
    <3> QED BY <3>4 DEF Amounts
  <2>10. Adjusted(adjusts, 1 .. c) = Adjusted(adjusts, 1 .. k)
    BY <1>2, <1>a, TopMonth
  <2>11. BilledTo(c)' = BilledTo(k)' + charge'[m].amount
    <3>1. /\ Over(PostedTo(k)', Amounts') \in Int /\ Adjusted(adjusts, 1 .. k) \in Int
          /\ charge'[m].amount \in Int
      <4>1. AdjustedAt(1 .. k) \in Int
        BY <1>0, AdjustedInt
      <4>2. \A q \in Months : q \in PostedTo(k)' => Amounts'[q] \in Int
        <5> SUFFICES ASSUME NEW q \in Months, q <= k PROVE Amounts'[q] \in Int
          BY DEF PostedTo
        <5>1. charge'[q] = charge[q] /\ Amounts'[q] = charge'[q].amount
          BY <2>1 DEF Amounts
        <5> QED BY <1>0, <5>1, AmountsInt
      <4>3. YtdBefore(m) \in Nat /\ YtdBefore(m) + u \in Nat /\ YtdBefore(m) <= YtdBefore(m) + u
        BY <1>0, CursorNat
      <4>4. charge'[m].amount \in Int
        BY <1>0, <4>3, BillInt
      <4> HIDE DEF k
      <4> QED BY <4>1, <4>2, <4>4, OverInt DEF AdjustedAt, Adjusted
    <3>2. BilledTo(c)' = Over(PostedTo(c)', Amounts') + Adjusted(adjusts, 1 .. c)
          /\ BilledTo(k)' = Over(PostedTo(k)', Amounts') + Adjusted(adjusts, 1 .. k)
      BY DEF BilledTo
    <3> QED BY <2>9, <2>10, <3>1, <3>2
  <2> QED BY <2>3, <2>8, <2>11
<1> QED BY <1>1, <1>2, <1>a

(* The last bill is reversed.                                              *)
LEMMA Leaves ==
  ASSUME LadderInv, calm, NEW m \in Months, NothingAfter(m), Untouched(m),
         habit' = habit, adjusts' = adjusts, metered' = metered,
         \A q \in Months : q # m => charge'[q] = charge[q],
         charge'[m].status = "REVERSED"
  PROVE  CutExact'
<1> SUFFICES ASSUME NEW c \in 0 .. LastMonth, Within(c)'
             PROVE  BilledTo(c)' = TruePrice(c)'
  BY DEF CutExact
<1>0. LadderTypes /\ CutExact /\ habit \in Habits
  BY DEF LadderInv, LadderTypes
<1>a. m \in Nat /\ 1 <= m /\ m <= LastMonth /\ LastMonth \in Nat /\ c \in Nat
      /\ \A q \in Months : q \in Nat /\ q <= LastMonth
  BY MonthFacts
<1>1. CASE c < m
  <2>1. ASSUME NEW q \in Months, q <= c PROVE charge'[q] = charge[q] /\ metered'[q] = metered[q]
    <3>1. q # m
      BY <1>1, <1>a, <2>1
    <3> QED BY <3>1
  <2>2. BilledTo(c)' = BilledTo(c) /\ TruePrice(c)' = TruePrice(c) /\ (Within(c)' <=> Within(c))
    BY <2>1, KeepBelow DEF Posted
  <2> QED BY <1>0, <2>2 DEF CutExact
<1>2. CASE m <= c
  <2> DEFINE k == m - 1
             S == PostedMonths'
  <2>1. ASSUME NEW q \in Months, q <= k PROVE charge'[q] = charge[q] /\ metered'[q] = metered[q]
    <3>1. q # m
      BY <1>a, <2>1
    <3> QED BY <3>1
  <2>2. \A q \in Months : q <= k =>
           /\ Posted(q)' <=> Posted(q)
           /\ Posted(q) => /\ charge'[q].amount = charge[q].amount
                           /\ charge'[q].kind = charge[q].kind
                           /\ charge'[q].qty = charge[q].qty /\ metered'[q] = metered[q]
    BY <2>1 DEF Posted
  <2>3. BilledTo(k)' = BilledTo(k) /\ TruePrice(k)' = TruePrice(k)
    <3>1. k \in Int
      BY <1>a
    <3> HIDE DEF k
    <3> QED BY <2>2, <3>1, KeepBelow
  <2>4. BilledTo(k)' = TruePrice(k)'
    BY <2>3, TopMonth
  <2>5. \A q \in S : q \in Months /\ q <= k
    <3> SUFFICES ASSUME NEW q \in S PROVE q \in Months /\ q <= k
      OBVIOUS
    <3>1. q \in Months /\ charge'[q].status = "POSTED"
      BY DEF PostedMonths, Posted
    <3>2. q # m /\ charge[q].status = "POSTED"
      BY <3>1
    <3>3. ~(q \in m + 1 .. LastMonth)
      BY <3>2 DEF NothingAfter
    <3> QED BY <1>a, <3>1, <3>2, <3>3
  <2>6. \A q \in Months : q \in S /\ q <= c <=> q \in S /\ q <= k
    <3> SUFFICES ASSUME NEW q \in Months, q \in S PROVE q <= c /\ q <= k
      OBVIOUS
    <3>1. q <= k /\ q \in Nat
      BY <1>a, <2>5
    <3> QED BY <1>a, <1>2, <3>1
  <2>7. TruePrice(c)' = TruePrice(k)'
    <3>1. S \in SUBSET Months
      BY DEF PostedMonths
    <3> DEFINE F == Final'
    <3>2. PriceTo(habit, S, F, c) = PriceTo(habit, S, F, k)
      <4>1. c \in Int /\ k \in Int
        BY <1>a
      <4> HIDE DEF S, F, k
      <4> QED BY <2>6, <3>1, <4>1, PriceSame
    <3> QED BY <3>2 DEF TruePrice
  <2>8. BilledTo(c)' = BilledTo(k)'
    <3>1. \A q \in Months : q \in PostedTo(c)' <=> q \in PostedTo(k)'
      BY <2>6 DEF PostedTo
    <3> DEFINE A == Amounts'
               R == PostedTo(c)'
               Q == PostedTo(k)'
    <3>2. Over(R, A) = Over(Q, A)
      <4>1. \A q \in Months : q \in R <=> q \in Q
        BY <3>1
      <4> HIDE DEF R, Q, A
      <4> QED BY <4>1, OverSame
    <3>3. Adjusted(adjusts, 1 .. c) = Adjusted(adjusts, 1 .. k)
      BY <1>2, <1>a, TopMonth
    <3> QED BY <3>2, <3>3 DEF BilledTo
  <2> QED BY <2>4, <2>7, <2>8
<1> QED BY <1>1, <1>2, <1>a
-----------------------------------------------------------------------------
(* A reconciliation that issues an adjustment.                             *)

(* What the months count then.                                             *)
LEMMA CorrectedUsage ==
  ASSUME LadderTypes, NEW m \in Months, NEW a \in 0 .. m - 1,
         NEW t \in 0 .. (m - a) * MostUsage, Reconcile(a, m, t),
         adjusts' = Append(adjusts, Correction(a, m, t))
  PROVE  /\ PostedMonths' = PostedMonths
         /\ \A q \in Months : Final'[q] = IF q \in a + 1 .. m THEN Allocate(a, m, t)[q]
                                          ELSE Final[q]
<1> DEFINE x == Correction(a, m, t)
           n == Len(adjusts)
<1>0. /\ UNCHANGED <<habit, metered, charge, replaced>>
      /\ x.at = m /\ DOMAIN x.delta = a + 1 .. m
      /\ \A q \in a + 1 .. m : x.delta[q] = Allocate(a, m, t)[q] - metered[q]
  BY DEF Reconcile, Correction
<1>1. PostedMonths' = PostedMonths
  BY <1>0 DEF PostedMonths, Posted
<1>2. n \in Nat /\ DOMAIN adjusts = 1 .. n /\ adjusts \in Seq(Adjustments) /\ m <= LastMonth
  BY AdjustsAre, MonthFacts DEF LadderTypes
<1> HIDE DEF x
<1>3. /\ DOMAIN adjusts' = 1 .. n + 1 /\ adjusts'[n + 1] = x
      /\ \A i \in 1 .. n : adjusts'[i] = adjusts[i]
  BY <1>2 DEF x
<1>4. ASSUME NEW q \in Months, q \in a + 1 .. m
      PROVE  FinalUsage(q)' = Allocate(a, m, t)[q]
  <2> DEFINE C == Corrections(q, LastMonth)'
  <2>1. C \in SUBSET (1 .. n + 1) /\ n + 1 \in C
    <3>1. C = {i \in DOMAIN adjusts' : adjusts'[i].at <= LastMonth /\ q \in DOMAIN adjusts'[i].delta}
      BY DEF Corrections
    <3>2. n + 1 \in DOMAIN adjusts' /\ adjusts'[n + 1].at <= LastMonth
          /\ q \in DOMAIN adjusts'[n + 1].delta
      BY <1>0, <1>2, <1>3, <1>4
    <3> QED BY <1>3, <3>1, <3>2
  <2>2. Max(C) = n + 1
    <3> HIDE DEF C, n
    <3> QED BY <1>2, <2>1, OnlyMax
  <2>3. LastDelta(q, LastMonth)' = x.delta[q]
    BY <1>3, <2>2 DEF LastDelta
  <2>4. FinalUsage(q)' = metered[q] + (Allocate(a, m, t)[q] - metered[q])
    BY <1>0, <1>4, <2>1, <2>3 DEF FinalUsage
  <2>5. metered[q] \in Nat /\ Allocate(a, m, t)[q] \in Nat
    BY <1>4, SpanFacts
  <2> QED BY <2>4, <2>5
<1>5. ASSUME NEW q \in Months, q \notin a + 1 .. m
      PROVE  FinalUsage(q)' = FinalUsage(q)
  <2>1. Corrections(q, LastMonth)' = Corrections(q, LastMonth)
    <3>1. ASSUME NEW i
          PROVE  i \in Corrections(q, LastMonth)' <=> i \in Corrections(q, LastMonth)
      <4>1. i \in 1 .. n + 1 <=> i \in 1 .. n \/ i = n + 1
        BY <1>2
      <4>2. n + 1 \notin Corrections(q, LastMonth)'
        BY <1>0, <1>3, <1>5 DEF Corrections
      <4>3. n + 1 \notin Corrections(q, LastMonth)
        BY <1>2 DEF Corrections
      <4>4. i \in 1 .. n => (i \in Corrections(q, LastMonth)' <=> i \in Corrections(q, LastMonth))
        BY <1>2, <1>3, <4>1 DEF Corrections
      <4>5. /\ i \in Corrections(q, LastMonth)' => i \in 1 .. n + 1
            /\ i \in Corrections(q, LastMonth) => i \in 1 .. n
        BY <1>2, <1>3 DEF Corrections
      <4> QED BY <4>1, <4>2, <4>3, <4>4, <4>5
    <3>2. /\ Corrections(q, LastMonth)' \in SUBSET (DOMAIN adjusts')
          /\ Corrections(q, LastMonth) \in SUBSET (DOMAIN adjusts)
      BY DEF Corrections
    <3> HIDE DEF n
    <3> QED BY <3>1, <3>2
  <2>2. CASE Corrections(q, LastMonth) = {}
    BY <1>0, <2>1, <2>2 DEF FinalUsage
  <2>3. CASE Corrections(q, LastMonth) # {}
    <3>1. Max(Corrections(q, LastMonth)) \in Corrections(q, LastMonth)
      <4>1. Corrections(q, LastMonth) \in SUBSET (DOMAIN adjusts)
        BY DEF Corrections
      <4> QED BY <2>3, <4>1, LatestIs
    <3>2. Max(Corrections(q, LastMonth)) \in 1 .. n
      BY <1>2, <3>1 DEF Corrections
    <3>3. LastDelta(q, LastMonth)' = LastDelta(q, LastMonth)
      BY <1>3, <2>1, <3>2 DEF LastDelta
    <3> QED BY <1>0, <2>1, <2>3, <3>3 DEF FinalUsage
  <2> QED BY <2>2, <2>3
<1> QED BY <1>1, <1>4, <1>5 DEF Final

(* reprice's cursor is the usage of the year before the month, with the    *)
(* quantities of the span in place of what it counted before.              *)
LEMMA SpanCursor ==
  ASSUME LadderTypes, OneRow, CorrectedStand, NEW m \in Months, NEW a \in 0 .. m - 1, Within(a),
         NEW alloc, \A q \in a + 1 .. m : alloc[q] \in Nat /\ Posted(q),
         NEW u, \A q \in Months : u[q] = IF q \in a + 1 .. m THEN alloc[q] ELSE Final[q],
         NEW b \in a .. m - 1
  PROVE  RepriceCursor(a, alloc, b + 1) = Used(PostedMonths, u, YearOf(b + 1), b)
<1> DEFINE y == YearOf(b + 1)
           R == {r \in a + 1 .. (b + 1) - 1 : YearOf(r) = y}
           L == InYear(PostedMonths, y, a)
           Q == InYear(PostedMonths, y, b)
<1>0. /\ m \in Nat /\ a \in Nat /\ b \in Nat /\ a <= b /\ b + 1 <= m /\ a + 1 \in Months
      /\ b + 1 - 1 = b /\ (a + 1) - 1 = a
      /\ \A q \in Months : q \in Nat /\ 1 <= q
      /\ \A q \in a + 1 .. m : q \in Months
  BY MonthFacts
<1>1. ASSUME NEW q \in Months, Posted(q) PROVE u[q] \in Nat
  BY <1>1, FinalNat DEF PostedMonths
<1>2. ASSUME NEW q \in Months
      PROVE  /\ q \in Q <=> q \in L \/ q \in R
             /\ ~(q \in L /\ q \in R)
             /\ q \in Q => u[q] \in Int
  <2>1. q \in Nat
    BY <1>0
  <2>2. q \in R <=> q \in a + 1 .. b /\ YearOf(q) = y
    BY <1>0
  <2>3. q \in a + 1 .. b => q \in PostedMonths
    <3> SUFFICES ASSUME q \in a + 1 .. b PROVE Posted(q)
      BY DEF PostedMonths
    <3>1. q \in a + 1 .. m
      BY <1>0
    <3> QED BY <3>1
  <2>4. q \in L <=> q \in PostedMonths /\ YearOf(q) = y /\ q <= a
    BY DEF InYear
  <2>5. q \in Q <=> q \in PostedMonths /\ YearOf(q) = y /\ q <= b
    BY DEF InYear
  <2>6. q \in a + 1 .. b <=> a < q /\ q <= b
    BY <1>0, <2>1
  <2>7. q \in Q => u[q] \in Int
    BY <1>1, <2>5 DEF PostedMonths
  <2> HIDE DEF Q, L, R, y
  <2> QED BY <1>0, <2>1, <2>2, <2>3, <2>4, <2>5, <2>6, <2>7
<1>3. Over(Q, u) = Over(L, u) + Over(R, u)
  <2> HIDE DEF Q, L, R
  <2> QED BY <1>2, OverUnion
<1>4. Over(R, u) = Over(R, alloc) /\ Over(R, alloc) \in Nat
  <2>1. ASSUME NEW q \in Months, q \in R PROVE u[q] = alloc[q] /\ alloc[q] \in Nat
    <3>1. q \in a + 1 .. m
      BY <1>0, <2>1
    <3> QED BY <3>1
  <2> HIDE DEF R
  <2> QED BY <2>1, OverSame, OverNat
<1>5. Over(L, u) = Used(PostedMonths, Final, y, a)
  <2>1. ASSUME NEW q \in Months, q \in L PROVE u[q] = Final[q]
    <3>1. q <= a /\ q \in Nat
      BY <1>0, <2>1 DEF InYear
    <3>2. q \notin a + 1 .. m
      BY <1>0, <3>1
    <3> QED BY <3>2
  <2> HIDE DEF L
  <2>2. Over(L, u) = Over(L, Final)
    BY <2>1, OverSame
  <2> QED BY <2>2 DEF Used, L
<1>6. Used(PostedMonths, Final, y, a) = IF y = YearOf(a + 1) THEN YtdBefore(a + 1) ELSE 0
  <2>1. CASE y = YearOf(a + 1)
    <3>1. Within((a + 1) - 1)
      BY <1>0
    <3>2. YtdBefore(a + 1) = Used(PostedMonths, Final, YearOf(a + 1), (a + 1) - 1)
      BY <1>0, <3>1, CursorIsUsed
    <3> HIDE DEF y
    <3> QED BY <1>0, <2>1, <3>2
  <2>2. CASE y # YearOf(a + 1)
    <3>1. YearEnd \in Nat
      BY MonthFacts, LadderAssumption
    <3>2. a + 1 <= YearEnd /\ y = 2
      BY <1>0, <2>2, <3>1 DEF YearOf
    <3>3. \A q \in Months : q \notin L
      <4> SUFFICES ASSUME NEW q \in Months, q <= a, YearOf(q) = y PROVE FALSE
        BY DEF InYear
      <4>1. q \in Nat /\ q <= YearEnd
        BY <1>0, <3>1, <3>2
      <4>2. YearOf(q) = 1
        BY <4>1 DEF YearOf
      <4> QED BY <3>2, <4>2
    <3>4. L = {}
      <4>1. L \in SUBSET Months
        BY DEF InYear, PostedMonths
      <4> QED BY <3>3, <4>1
    <3> QED BY <2>2, <3>4, OverNone DEF Used
  <2> QED BY <2>1, <2>2
<1>7. RepriceCursor(a, alloc, b + 1)
        = Over(R, alloc) + (IF y = YearOf(a + 1) THEN YtdBefore(a + 1) ELSE 0)
  BY DEF RepriceCursor
<1>8. Used(PostedMonths, Final, y, a) \in Nat
  BY FinalNat, UsedNat
<1>9. Used(PostedMonths, u, y, b) = Over(Q, u)
  BY DEF Used
<1> HIDE DEF R, L, Q, y
<1>10. RepriceCursor(a, alloc, b + 1) = Used(PostedMonths, u, y, b)
  BY <1>3, <1>4, <1>5, <1>6, <1>7, <1>8, <1>9
<1> QED BY <1>10 DEF y

(* The bills of the span price it as its months follow on each other.      *)
LEMMA SpanPrice ==
  ASSUME LadderTypes, OneRow, CorrectedStand,
         NEW m \in Months, NEW a \in 0 .. m - 1, Within(a),
         NEW alloc, \A q \in a + 1 .. m : alloc[q] \in Nat /\ Posted(q),
         NEW u, \A q \in Months : u[q] = IF q \in a + 1 .. m THEN alloc[q] ELSE Final[q]
  PROVE  PriceTo(habit, PostedMonths, u, m) = TruePrice(a) + CorrectCharge(a, m, alloc)
<1> DEFINE P == PostedMonths
           f == [q \in a + 1 .. m |-> ComputeBill(alloc[q], RepriceCursor(a, alloc, q))]
           N == m - a
           S == {j \in 0 .. N : PriceTo(habit, P, u, a + j) = TruePrice(a) + Over(a + 1 .. a + j, f)}
<1>0. /\ m \in Nat /\ a \in Nat /\ a + 1 <= m /\ N \in Nat /\ P \in SUBSET Months
      /\ \A q \in Months : q \in Nat /\ 1 <= q
      /\ \A q \in a + 1 .. m : q \in Months /\ q \in Nat
      /\ habit \in Habits
  BY MonthFacts DEF PostedMonths, LadderTypes
<1>1. \A q \in Months : q \in P => u[q] \in Nat
  <2> SUFFICES ASSUME NEW q \in Months, q \in P PROVE u[q] \in Nat
    OBVIOUS
  <2>1. Final[q] \in Nat
    BY FinalNat
  <2> QED BY <2>1
<1>2. \A c : PriceTo(habit, P, u, c) \in Int
  <2> HIDE DEF P
  <2> QED BY <1>0, <1>1, PriceInt
<1>3. TruePrice(a) = PriceTo(habit, P, u, a)
  <2>1. ASSUME NEW q \in Months, q \in P /\ q <= a PROVE u[q] = Final[q]
    <3>1. q \notin a + 1 .. m
      BY <1>0, <2>1
    <3> QED BY <3>1
  <2> HIDE DEF P
  <2>2. PriceTo(habit, P, u, a) = PriceTo(habit, P, Final, a)
    BY <1>0, <2>1, PriceSame
  <2> QED BY <2>2 DEF TruePrice, P
<1>4. \A q \in Months : q \in a + 1 .. m => f[q] \in Int /\ f[q] = ComputeBill(alloc[q], RepriceCursor(a, alloc, q))
  <2> SUFFICES ASSUME NEW q \in a + 1 .. m
               PROVE  ComputeBill(alloc[q], RepriceCursor(a, alloc, q)) \in Int
    OBVIOUS
  <2>1. q \in a + 1 .. m + 1
    BY <1>0
  <2>2. RepriceCursor(a, alloc, q) \in Nat
    BY <2>1, RepriceNat
  <2> QED BY <2>2, ComputedInt
<1> HIDE DEF f, P
<1>5. 0 \in S
  <2>1. a + 1 .. a + 0 = {} /\ a + 0 = a
    BY <1>0
  <2>2. Over(a + 1 .. a + 0, f) = 0
    BY <2>1, OverNone
  <2> QED BY <1>0, <1>2, <1>3, <2>1, <2>2
<1>6. ASSUME NEW j \in S, j < N PROVE j + 1 \in S
  <2> DEFINE b == a + j
             k == b + 1
  <2>1. /\ j \in Nat /\ b \in a .. m - 1 /\ b \in Nat /\ k \in a + 1 .. m /\ k \in Months /\ k \in Nat
        /\ k - 1 = b /\ a + (j + 1) = k /\ j + 1 \in 0 .. N
    BY <1>0, <1>6
  <2>2. PriceTo(habit, P, u, b) = TruePrice(a) + Over(a + 1 .. b, f)
    OBVIOUS
  <2> HIDE DEF b, S
  <2>3. RepriceCursor(a, alloc, k) = Used(P, u, YearOf(k), b)
    BY <2>1, SpanCursor DEF P
  <2>4. PriceTo(habit, P, u, k)
          = PriceTo(habit, P, u, b) + Bill(habit, Used(P, u, YearOf(k), b),
                                           Used(P, u, YearOf(k), b) + u[k])
    <3>1. k \in P
      BY <2>1 DEF P, PostedMonths
    <3> HIDE DEF k
    <3>2. PriceTo(habit, P, u, k)
          = PriceTo(habit, P, u, k - 1) + Bill(habit, Used(P, u, YearOf(k), k - 1),
                                               Used(P, u, YearOf(k), k - 1) + u[k])
      <4>1. k \in Int /\ k <= k /\ \A q \in P : q <= k => q <= k
        BY <2>1
      <4> QED BY <1>0, <1>1, <3>1, <4>1, MonthBilled
    <3> QED BY <2>1, <3>2
  <2>5. f[k] = Bill(habit, Used(P, u, YearOf(k), b), Used(P, u, YearOf(k), b) + u[k])
    <3>1. u[k] = alloc[k] /\ alloc[k] \in Nat
      BY <2>1
    <3>2. Used(P, u, YearOf(k), b) \in Nat
      BY <1>1, UsedNat
    <3>3. f[k] = ComputeBill(alloc[k], Used(P, u, YearOf(k), b))
      BY <1>4, <2>1, <2>3
    <3> HIDE DEF k
    <3> QED BY <1>0, <3>1, <3>2, <3>3, BillIs
  <2>6. Over(a + 1 .. k, f) = Over(a + 1 .. b, f) + f[k]
    <3>1. ASSUME NEW q \in Months
          PROVE  (q \in a + 1 .. k <=> q \in a + 1 .. b \/ q = k) /\ (q \in a + 1 .. k => f[q] \in Int)
      <4>1. q \in Nat
        BY <1>0
      <4>2. q \in a + 1 .. k <=> q \in a + 1 .. b \/ q = k
        BY <1>0, <2>1, <4>1
      <4>3. q \in a + 1 .. k => q \in a + 1 .. m
        BY <1>0, <2>1, <4>1
      <4> QED BY <1>4, <4>2, <4>3
    <3>2. k \notin a + 1 .. b
      BY <1>0, <2>1
    <3> DEFINE T == a + 1 .. k
               B == a + 1 .. b
    <3>3. /\ k \in Months /\ k \notin B /\ \A q \in Months : q \in T <=> q \in B \/ q = k
          /\ \A q \in Months : q \in T => f[q] \in Int
      BY <2>1, <3>1, <3>2
    <3> HIDE DEF k, T, B
    <3>4. OneMore(B, T, f, k)
      BY ONLY <3>3 DEF OneMore
    <3>5. Over(T, f) = Over(B, f) + f[k]
      BY ONLY <3>4, OverAdd
    <3> QED BY <3>5 DEF T, B
  <2>7. Over(a + 1 .. b, f) \in Int /\ f[k] \in Int
    <3>1. ASSUME NEW q \in Months, q \in a + 1 .. b PROVE f[q] \in Int
      <4>1. q \in a + 1 .. m
        BY <1>0, <2>1, <3>1
      <4> QED BY <1>4, <4>1
    <3> QED BY <1>4, <2>1, <3>1, OverInt
  <2>8. PriceTo(habit, P, u, k) = TruePrice(a) + Over(a + 1 .. k, f)
    <3>1. TruePrice(a) \in Int
      BY <1>2, <1>3
    <3> HIDE DEF k
    <3> QED BY <2>2, <2>4, <2>5, <2>6, <2>7, <3>1
  <2> QED BY <2>1, <2>8 DEF S
<1>7. S = 0 .. N
  <2> HIDE DEF N, S
  <2>1. S \in SUBSET (0 .. N)
    BY DEF S
  <2>2. \A j \in S : j < N => j + 1 \in S
    BY <1>6
  <2> QED BY <1>0, <1>5, <2>1, <2>2, BoundedInduction
<1>8. N \in S /\ a + N = m
  BY <1>0, <1>7
<1>9. PriceTo(habit, P, u, m) = TruePrice(a) + Over(a + 1 .. m, f)
  BY <1>8
<1> QED BY <1>9 DEF CorrectCharge, f, P

(* The adjustment makes up for what the bills of the span miss.            *)
LEMMA Adjusts ==
  ASSUME LadderInv, calm, NEW m \in Months, NEW a \in 0 .. m - 1,
         NEW t \in 0 .. (m - a) * MostUsage, Reconcile(a, m, t), calm',
         adjusts' = Append(adjusts, Correction(a, m, t))
  PROVE  CutExact'
<1> DEFINE x == Correction(a, m, t)
           alloc == Allocate(a, m, t)
           u == Final'
           n == Len(adjusts)
           P == PostedMonths
<1>0. LadderTypes /\ OneRow /\ CorrectedStand /\ CutExact /\ habit \in Habits
  BY DEF LadderInv, LadderTypes
<1>a. /\ UNCHANGED <<habit, metered, charge>> /\ NothingAfter(m) /\ Within(a)
      /\ x.at = m /\ DOMAIN x.delta = a + 1 .. m
      /\ x.amount = CorrectCharge(a, m, alloc) - PostedCharge(a, m)
  BY DEF Reconcile, Correction
<1>b. /\ m \in Nat /\ a \in Nat /\ a + 1 <= m /\ m <= LastMonth /\ LastMonth \in Nat
      /\ Months = 1 .. LastMonth /\ a \in 0 .. LastMonth
      /\ \A q \in Months : q \in Nat /\ 1 <= q /\ q <= LastMonth
      /\ \A q \in a + 1 .. m : q \in Months /\ q \in Nat
  BY MonthFacts
<1>c. /\ \A q \in a + 1 .. m : alloc[q] \in Nat /\ Posted(q)
      /\ CorrectCharge(a, m, alloc) \in Int /\ PostedCharge(a, m) \in Int
  BY <1>0, SpanFacts, CorrectInt, PostedChargeInt
<1>d. /\ PostedMonths' = P /\ Amounts' = Amounts /\ P \in SUBSET Months
      /\ \A q \in Months : u[q] = IF q \in a + 1 .. m THEN alloc[q] ELSE Final[q]
  <2>1. PostedMonths' = P /\ \A q \in Months : u[q] = IF q \in a + 1 .. m THEN alloc[q] ELSE Final[q]
    BY <1>0, CorrectedUsage
  <2>2. Amounts' = Amounts
    BY <1>a DEF Amounts
  <2> QED BY <2>1, <2>2 DEF PostedMonths
<1>e. /\ n \in Nat /\ DOMAIN adjusts = 1 .. n /\ DOMAIN adjusts' = 1 .. n + 1
      /\ Len(adjusts') = n + 1 /\ adjusts'[n + 1] = x
      /\ \A i \in 1 .. n : adjusts'[i] = adjusts[i]
  <2>1. n \in Nat /\ DOMAIN adjusts = 1 .. n /\ adjusts \in Seq(Adjustments)
    BY <1>0, AdjustsAre DEF LadderTypes
  <2> HIDE DEF x
  <2> QED BY <2>1 DEF x
<1>f. AdjustsGood(adjusts) /\ x.at \in Months /\ x.amount \in Int
  BY <1>0, <1>a, <1>c, AdjustsAreGood
<1>g. \A i \in 1 .. n : adjusts[i].at \in Months /\ adjusts[i].at <= m
  <2> SUFFICES ASSUME NEW i \in 1 .. n PROVE adjusts[i].at \in Months /\ adjusts[i].at <= m
    OBVIOUS
  <2>1. adjusts[i].at \in Months /\ adjusts[i].at \in DOMAIN adjusts[i].delta
    BY <1>0, AdjustsAre DEF CorrectionGood
  <2>2. Posted(adjusts[i].at)
    BY <1>0, <1>e, <2>1 DEF CorrectedStand
  <2>3. ~(adjusts[i].at \in m + 1 .. LastMonth)
    BY <1>a, <2>2 DEF NothingAfter, Posted
  <2> QED BY <1>b, <2>1, <2>3
<1>h. \A S : AdjustedAt(S) = Adjusted(adjusts, S) /\ Adjusted(adjusts, S) \in Int
  BY <1>0, AdjustedInt DEF AdjustedAt, Adjusted
<1>i. \A S : Adjusted(adjusts', S) = Adjusted(adjusts, S) + (IF m \in S THEN x.amount ELSE 0)
  <2> HIDE DEF x, n
  <2> SUFFICES ASSUME NEW S
               PROVE  Adjusted(adjusts', S) = Adjusted(adjusts, S) + (IF x.at \in S THEN x.amount ELSE 0)
    BY <1>a
  <2>1. /\ AdjustsGood(adjusts) /\ x.at \in Months /\ x.amount \in Int
        /\ Len(adjusts') = Len(adjusts) + 1 /\ DOMAIN adjusts' = 1 .. Len(adjusts) + 1
        /\ adjusts'[Len(adjusts) + 1] = x
        /\ \A i \in 1 .. Len(adjusts) : adjusts'[i] = adjusts[i]
    BY <1>e, <1>f DEF n
  <2> DEFINE B == adjusts'
  <2> HIDE DEF B
  <2>2. Adjusted(B, S) = Adjusted(adjusts, S) + (IF x.at \in S THEN x.amount ELSE 0)
    BY ONLY <2>1, AdjustedMore DEF B
  <2> QED BY <2>2 DEF B
<1>j. \A S : (\A q \in Months : q \in S => q \in P) => Over(S, Amounts) \in Int
  <2> SUFFICES ASSUME NEW S PROVE Over(S, Amounts) \in Int
    OBVIOUS
  <2> QED BY <1>0, AmountsInt, OverInt
<1>k. \A c : /\ BilledTo(c)' = Over(PostedTo(c), Amounts) + Adjusted(adjusts', 1 .. c)
             /\ TruePrice(c)' = PriceTo(habit, P, u, c)
             /\ BilledTo(c) = Over(PostedTo(c), Amounts) + Adjusted(adjusts, 1 .. c)
  <2> SUFFICES ASSUME NEW c
               PROVE  /\ BilledTo(c)' = Over(PostedTo(c), Amounts) + Adjusted(adjusts', 1 .. c)
                      /\ TruePrice(c)' = PriceTo(habit, P, u, c)
                      /\ BilledTo(c) = Over(PostedTo(c), Amounts) + Adjusted(adjusts, 1 .. c)
    OBVIOUS
  <2>1. PostedTo(c)' = PostedTo(c)
    BY <1>d DEF PostedTo
  <2>2. BilledTo(c)' = Over(PostedTo(c)', Amounts') + Adjusted(adjusts', 1 .. c)
    BY DEF BilledTo
  <2>3. TruePrice(c)' = PriceTo(habit', PostedMonths', Final', c)
    BY DEF TruePrice
  <2> QED BY <1>a, <1>d, <2>1, <2>2, <2>3 DEF BilledTo
<1> SUFFICES ASSUME NEW c \in 0 .. LastMonth, Within(c)'
             PROVE  BilledTo(c)' = TruePrice(c)'
  BY DEF CutExact
<1> HIDE DEF x, alloc, u, n, P
<1>1. Within(c)
  <2> SUFFICES ASSUME NEW i \in DOMAIN adjusts
               PROVE  adjusts[i].at <= c \/ \A q \in DOMAIN adjusts[i].delta : q > c
    BY DEF Within
  <2>1. i \in DOMAIN adjusts' /\ adjusts'[i] = adjusts[i]
    BY <1>e
  <2>2. adjusts'[i].at <= c \/ \A q \in DOMAIN adjusts'[i].delta : q > c
    BY <2>1 DEF Within
  <2> QED BY <2>1, <2>2
<1>2. c <= a \/ m <= c
  <2>1. n + 1 \in DOMAIN adjusts'
    BY <1>e
  <2>2. adjusts'[n + 1].at <= c \/ \A q \in DOMAIN adjusts'[n + 1].delta : q > c
    BY <2>1 DEF Within
  <2>3. m <= c \/ a + 1 > c
    <3>1. a + 1 \in a + 1 .. m
      BY <1>b
    <3> QED BY <1>a, <1>e, <2>2, <3>1
  <2> QED BY <1>b, <2>3
<1>3. CASE c <= a
  <2>1. m \notin 1 .. c
    BY <1>b, <1>3
  <2>2. BilledTo(c)' = BilledTo(c)
    <3>1. Adjusted(adjusts', 1 .. c) = Adjusted(adjusts, 1 .. c) + 0
      BY <1>i, <2>1
    <3>2. Adjusted(adjusts, 1 .. c) \in Int
      BY <1>h
    <3>3. Adjusted(adjusts', 1 .. c) = Adjusted(adjusts, 1 .. c)
      BY <3>1, <3>2
    <3> QED BY <1>k, <3>3
  <2>3. \A q \in Months : q \in P /\ q <= c => u[q] = Final[q]
    <3> SUFFICES ASSUME NEW q \in Months, q <= c PROVE u[q] = Final[q]
      OBVIOUS
    <3>1. q \notin a + 1 .. m
      BY <1>b, <1>3
    <3> QED BY <1>d, <3>1
  <2>4. PriceTo(habit, P, u, c) = PriceTo(habit, P, Final, c)
    <3>1. P \in SUBSET Months /\ c \in Int
      BY <1>d
    <3> QED BY ONLY <2>3, <3>1, PriceSame
  <2>5. TruePrice(c) = PriceTo(habit, P, Final, c)
    BY DEF TruePrice, P
  <2>6. BilledTo(c) = TruePrice(c)
    BY <1>0, <1>1 DEF CutExact
  <2> QED BY <1>k, <2>2, <2>4, <2>5, <2>6
<1>4. CASE m <= c
  <2>1. PriceTo(habit, P, u, m) = TruePrice(a) + CorrectCharge(a, m, alloc)
    BY <1>0, <1>a, <1>c, <1>d, SpanPrice DEF P
  <2>2. \A q \in P : q \in Months /\ q <= m
    <3> SUFFICES ASSUME NEW q \in P PROVE q \in Months /\ q <= m
      OBVIOUS
    <3>1. q \in Months /\ Posted(q)
      BY DEF P, PostedMonths
    <3>2. ~(q \in m + 1 .. LastMonth)
      BY <1>a, <3>1 DEF NothingAfter, Posted
    <3> QED BY <1>b, <3>1, <3>2
  <2>3. PriceTo(habit, P, u, c) = PriceTo(habit, P, u, m)
    <3>1. \A q \in Months : q \in P /\ q <= c <=> q \in P /\ q <= m
      <4> SUFFICES ASSUME NEW q \in P PROVE q <= c /\ q <= m
        OBVIOUS
      <4> QED BY <1>b, <1>4, <2>2
    <3>2. P \in SUBSET Months
      BY <1>d
    <3>3. c \in Int /\ m \in Int
      BY <1>b
    <3> QED BY ONLY <3>1, <3>2, <3>3, PriceSame
  <2>4. Over(PostedTo(c), Amounts) = Over(PostedTo(a), Amounts) + Over(a + 1 .. m, Amounts)
    <3> DEFINE S == PostedTo(a)
               R == a + 1 .. m
               Q == PostedTo(c)
    <3>1. ASSUME NEW q \in Months
          PROVE  /\ q \in Q <=> q \in S \/ q \in R
                 /\ ~(q \in S /\ q \in R)
                 /\ q \in Q => Amounts[q] \in Int
      <4>1. /\ q \in Q <=> q \in P /\ q <= c
            /\ q \in S <=> q \in P /\ q <= a
            /\ q \in R <=> q >= a + 1 /\ q <= m
        BY <1>b DEF PostedTo, P
      <4>2. q \in R => q \in P
        BY <1>c DEF P, PostedMonths
      <4>3. q \in P => q <= m
        BY <2>2
      <4>4. Amounts[q] \in Int /\ q \in Nat /\ c \in Nat
        BY <1>0, <1>b, AmountsInt
      <4> HIDE DEF Q, S, R
      <4> QED BY <1>b, <1>4, <4>1, <4>2, <4>3, <4>4
    <3> HIDE DEF Q, S, R
    <3>2. Over(Q, Amounts) = Over(S, Amounts) + Over(R, Amounts)
      BY <3>1, OverUnion
    <3> QED BY <3>2 DEF Q, S, R
  <2>5. Adjusted(adjusts, 1 .. c) = Adjusted(adjusts, 1 .. a) + Adjusted(adjusts, a + 1 .. m)
    <3>1. Adjusted(adjusts, 1 .. c) = Adjusted(adjusts, 1 .. m)
      <4>1. \A i \in 1 .. Len(adjusts) : adjusts[i].at \in 1 .. c <=> adjusts[i].at \in 1 .. m
        <5> SUFFICES ASSUME NEW i \in 1 .. Len(adjusts)
                     PROVE  adjusts[i].at \in 1 .. c <=> adjusts[i].at \in 1 .. m
          OBVIOUS
        <5>1. adjusts[i].at \in Months /\ adjusts[i].at <= m
          BY <1>g DEF n
        <5>2. PICK k \in Nat : k = adjusts[i].at /\ 1 <= k /\ k <= m
          BY <1>b, <5>1
        <5> QED BY <1>b, <1>4, <5>2
      <4> QED BY <1>f, <4>1, AdjustedSame
    <3>2. Adjusted(adjusts, 1 .. m) = Adjusted(adjusts, 1 .. a) + Adjusted(adjusts, a + 1 .. m)
      <4>1. \A q \in Months : /\ q \in 1 .. m <=> q \in 1 .. a \/ q \in a + 1 .. m
                              /\ ~(q \in 1 .. a /\ q \in a + 1 .. m)
        BY <1>b
      <4> QED BY <1>f, <4>1, AdjustedSplit
    <3> QED BY <3>1, <3>2
  <2>6. BilledTo(a) = TruePrice(a)
    BY <1>0, <1>a, <1>b DEF CutExact
  <2>7. PostedCharge(a, m) = Over(a + 1 .. m, Amounts) + Adjusted(adjusts, a + 1 .. m)
    BY <1>h DEF PostedCharge, Amounts
  <2>8. /\ Over(PostedTo(a), Amounts) \in Int /\ Over(a + 1 .. m, Amounts) \in Int
    <3>1. \A q \in Months : q \in PostedTo(a) => q \in P
      BY DEF PostedTo, P
    <3>2. \A q \in Months : q \in a + 1 .. m => q \in P
      BY <1>c DEF P, PostedMonths
    <3> QED BY <1>j, <3>1, <3>2
  <2>9. m \in 1 .. c
    BY <1>b, <1>4
  <2>10. BilledTo(c)' = TruePrice(a) + CorrectCharge(a, m, alloc)
    <3>1. BilledTo(c)' = Over(PostedTo(c), Amounts) + (Adjusted(adjusts, 1 .. c) + x.amount)
      BY <1>i, <1>k, <2>9
    <3>2. BilledTo(a) = Over(PostedTo(a), Amounts) + Adjusted(adjusts, 1 .. a)
      BY <1>k
    <3>3. Adjusted(adjusts, 1 .. a) \in Int /\ Adjusted(adjusts, a + 1 .. m) \in Int
      BY <1>h
    <3> QED BY <1>a, <1>c, <2>4, <2>5, <2>6, <2>7, <2>8, <3>1, <3>2, <3>3
  <2> QED BY <1>k, <2>1, <2>3, <2>10
<1> QED BY <1>2, <1>3, <1>4

-----------------------------------------------------------------------------
(* The other parts of the invariant.                                       *)
LEMMA StandKept ==
  ASSUME LadderTypes, CorrectedStand, adjusts' = adjusts,
         \A q \in Months : Posted(q) /\ ~Untouched(q)
             => charge'[q].status = "POSTED" /\ charge'[q].kind = charge[q].kind
                  /\ charge'[q].qty = charge[q].qty
  PROVE  CorrectedStand'
<1> SUFFICES ASSUME NEW i \in DOMAIN adjusts, NEW q \in DOMAIN adjusts[i].delta
             PROVE  Posted(q)' /\ HasUsage(q)'
  BY DEF CorrectedStand
<1>1. Posted(q) /\ HasUsage(q) /\ ~Untouched(q)
  BY DEF CorrectedStand, Untouched
<1>2. q \in Months
  BY AdjustsAre DEF CorrectionGood
<1> QED BY <1>1, <1>2 DEF Posted, HasUsage

LEMMA QuietStep ==
  ASSUME LadderInv, habit' = habit, adjusts' = adjusts, calm' => calm,
         \A q \in Months :
             /\ Posted(q)' <=> Posted(q)
             /\ Posted(q) => charge'[q] = charge[q] /\ metered'[q] = metered[q]
  PROVE  calm' => CorrectedStand' /\ CutExact'
<1> SUFFICES ASSUME calm' PROVE CorrectedStand' /\ CutExact'
  OBVIOUS
<1>1. LadderTypes /\ CorrectedStand /\ CutExact
  BY DEF LadderInv
<1>2. CorrectedStand'
  BY <1>1, StandKept DEF Posted
<1>3. CutExact'
  BY <1>1, QuietCut
<1> QED BY <1>2, <1>3

LEMMA SettleKeeps ==
  ASSUME LadderInv, NEW m \in Months, NEW u \in 0 .. MostUsage, SettleMonth(m, u)
  PROVE  LadderInv'
<1>0. LadderTypes /\ DraftsPriced /\ OneRow
  BY DEF LadderInv
<1>1. UNCHANGED <<habit, charge, adjusts, recons, replaced, calm>>
  BY DEF SettleMonth
<1>2. \A q \in Months : charge[q].status # "NONE" => metered'[q] = metered[q]
  <2> SUFFICES ASSUME NEW q \in Months, charge[q].status # "NONE"
               PROVE  metered'[q] = metered[q]
    OBVIOUS
  <2>1. metered[q] # NoUsage /\ metered[m] = NoUsage /\ metered \in [Months -> Usages]
    BY <1>0 DEF LadderTypes, SettleMonth
  <2> QED BY <2>1 DEF SettleMonth
<1>3. DraftsPriced'
  BY <1>0, <1>1, <1>2 DEF DraftsPriced
<1>4. OneRow'
  BY <1>0, <1>1 DEF OneRow
<1>5. calm' => CorrectedStand' /\ CutExact'
  BY <1>1, <1>2, QuietStep DEF Posted
<1> QED BY <1>0, <1>3, <1>4, <1>5, SettleTypes DEF LadderInv

(* A step that writes one month's charge.                                  *)
LEMMA WriteKeeps ==
  ASSUME LadderInv, NEW m \in Months, NEW x, charge' = [charge EXCEPT ![m] = x],
         habit' = habit, metered' = metered,
         x.status = "DRAFT" => /\ x.kind = "NORMAL"
                               /\ x.amount = Bill(habit, x.ytd, x.ytd + metered[m]),
         x.kind = "REPLACEMENT" => habit.items = 1
  PROVE  /\ DraftsPriced' /\ OneRow' /\ charge'[m] = x
         /\ \A q \in Months : q # m => charge'[q] = charge[q]
<1>0. DraftsPriced /\ OneRow /\ charge \in [Months -> Charges]
  BY DEF LadderInv, LadderTypes
<1>1. charge'[m] = x /\ \A q \in Months : q # m => charge'[q] = charge[q]
  BY <1>0
<1>2. ASSUME NEW q \in Months, charge'[q].status = "DRAFT"
      PROVE  /\ charge'[q].kind = "NORMAL"
             /\ charge'[q].amount = Bill(habit, charge'[q].ytd, charge'[q].ytd + metered[q])
  <2>1. CASE q = m
    BY <1>1, <1>2, <2>1
  <2>2. CASE q # m
    <3>1. charge'[q] = charge[q]
      BY <1>1, <2>2
    <3>2. charge[q].status = "DRAFT"
      BY <1>2, <3>1
    <3>3. /\ charge[q].kind = "NORMAL"
          /\ charge[q].amount = Bill(habit, charge[q].ytd, charge[q].ytd + metered[q])
      BY <1>0, <3>2 DEF DraftsPriced
    <3> QED BY <3>1, <3>3
  <2> QED BY <2>1, <2>2
<1>3. ASSUME NEW q \in Months, charge'[q].kind = "REPLACEMENT" PROVE habit.items = 1
  <2>1. CASE q = m
    BY <1>1, <1>3, <2>1
  <2>2. CASE q # m
    BY <1>0, <1>1, <1>3, <2>2 DEF OneRow
  <2> QED BY <2>1, <2>2
<1> QED BY <1>1, <1>2, <1>3 DEF DraftsPriced, OneRow

LEMMA PriceKeeps ==
  ASSUME LadderInv, NEW m \in Months, PriceMonth(m)
  PROVE  LadderInv'
<1> DEFINE y == YtdBefore(m)
           x == [kind |-> "NORMAL", status |-> "DRAFT", qty |-> metered[m],
                 amount |-> ComputeBill(metered[m], y), ytd |-> y]
<1>0. LadderTypes /\ OneRow /\ habit \in Habits
  BY DEF LadderInv, LadderTypes
<1>1. /\ UNCHANGED <<habit, metered, adjusts, recons, replaced, calm>>
      /\ charge' = [charge EXCEPT ![m] = x] /\ charge[m].status = "NONE"
  BY DEF PriceMonth
<1>2. y \in Nat /\ metered[m] \in Nat
  BY <1>0, CursorNat, MeteredNat DEF PriceMonth
<1>3. x.status = "DRAFT" /\ x.kind = "NORMAL" /\ x.ytd = y /\ x.amount = ComputeBill(metered[m], y)
  OBVIOUS
<1> HIDE DEF x, y
<1>4. x.amount = Bill(habit, x.ytd, x.ytd + metered[m])
  BY <1>0, <1>2, <1>3, BillIs
<1>5. /\ DraftsPriced' /\ OneRow' /\ charge'[m] = x
      /\ \A q \in Months : q # m => charge'[q] = charge[q]
  BY <1>1, <1>3, <1>4, WriteKeeps
<1>6. \A q \in Months : /\ Posted(q)' <=> Posted(q)
                        /\ Posted(q) => charge'[q] = charge[q] /\ metered'[q] = metered[q]
  BY <1>1, <1>3, <1>5 DEF Posted
<1>7. calm' => CorrectedStand' /\ CutExact'
  BY <1>1, <1>6, QuietStep
<1> QED BY <1>0, <1>5, <1>7, PriceTypes DEF LadderInv

LEMMA DropKeeps ==
  ASSUME LadderInv, NEW m \in Months, DropDraft(m)
  PROVE  LadderInv'
<1>0. LadderTypes
  BY DEF LadderInv
<1>1. /\ UNCHANGED <<habit, metered, adjusts, recons, replaced, calm>>
      /\ charge' = [charge EXCEPT ![m] = NoCharge] /\ charge[m].status = "DRAFT"
  BY DEF DropDraft
<1>2. NoCharge.status = "NONE" /\ NoCharge.kind = "NORMAL"
  BY DEF NoCharge
<1>3. /\ DraftsPriced' /\ OneRow' /\ charge'[m] = NoCharge
      /\ \A q \in Months : q # m => charge'[q] = charge[q]
  BY <1>1, <1>2, WriteKeeps
<1>4. \A q \in Months : /\ Posted(q)' <=> Posted(q)
                        /\ Posted(q) => charge'[q] = charge[q] /\ metered'[q] = metered[q]
  BY <1>1, <1>2, <1>3 DEF Posted
<1>5. calm' => CorrectedStand' /\ CutExact'
  BY <1>1, <1>4, QuietStep
<1> QED BY <1>0, <1>3, <1>5, StatusTypes DEF LadderInv

LEMMA PostKeeps ==
  ASSUME LadderInv, NEW m \in Months, Post(m)
  PROVE  LadderInv'
<1> DEFINE x == [charge[m] EXCEPT !.status = "POSTED"]
<1>0. LadderTypes /\ charge[m] \in Charges /\ charge[m].status = "DRAFT"
      /\ charge[m].kind = "NORMAL"
      /\ charge[m].amount = Bill(habit, charge[m].ytd, charge[m].ytd + metered[m])
  BY DEF LadderInv, LadderTypes, Post, DraftsPriced
<1>1. /\ UNCHANGED <<habit, metered, adjusts, recons, replaced>>
      /\ charge' = [charge EXCEPT ![m] = x]
      /\ calm' => calm /\ NothingAfter(m) /\ charge[m].ytd = YtdBefore(m)
  <2>1. charge \in [Months -> Charges]
    BY <1>0 DEF LadderTypes
  <2> QED BY <2>1 DEF Post
<1>2. x.status = "POSTED" /\ x.kind = "NORMAL" /\ x.amount = charge[m].amount
  BY <1>0 DEF Charges
<1> HIDE DEF x
<1>3. /\ DraftsPriced' /\ OneRow' /\ charge'[m] = x
      /\ \A q \in Months : q # m => charge'[q] = charge[q]
  BY <1>1, <1>2, WriteKeeps
<1>4. ASSUME calm' PROVE CorrectedStand' /\ CutExact'
  <2>1. calm /\ NothingAfter(m) /\ charge[m].ytd = YtdBefore(m) /\ CorrectedStand
    BY <1>1, <1>4 DEF LadderInv
  <2>2. Untouched(m)
    BY <1>0, <2>1 DEF CorrectedStand, Untouched, Posted
  <2>3. metered[m] \in Nat
    BY <1>0, MeteredNat DEF LadderTypes
  <2>4. FinalUsage(m)' = metered[m]
    <3>1. Corrections(m, LastMonth)' = {}
      BY <1>1, <2>2 DEF Corrections, Untouched
    <3> QED BY <1>1, <1>2, <1>3, <3>1 DEF FinalUsage
  <2>5. charge'[m].amount = Bill(habit, YtdBefore(m), YtdBefore(m) + metered[m])
    BY <1>0, <1>2, <1>3, <2>1
  <2>6. charge'[m].status = "POSTED"
    BY <1>2, <1>3
  <2>7. CutExact'
    BY <1>1, <1>3, <2>1, <2>2, <2>3, <2>4, <2>5, <2>6, Lands
  <2>8. CorrectedStand'
    BY <1>0, <1>1, <1>3, <2>1, <2>2, StandKept DEF Posted
  <2> QED BY <2>7, <2>8
<1> QED BY <1>0, <1>3, <1>4, StatusTypes DEF LadderInv

LEMMA ReverseKeeps ==
  ASSUME LadderInv, NEW m \in Months, ReverseMonth(m)
  PROVE  LadderInv'
<1> DEFINE x == [charge[m] EXCEPT !.status = "REVERSED"]
<1>0. LadderTypes /\ charge[m] \in Charges /\ OneRow
  BY DEF LadderInv, LadderTypes
<1>1. /\ UNCHANGED <<habit, metered, adjusts, recons, replaced>>
      /\ charge' = [charge EXCEPT ![m] = x]
      /\ calm' => calm /\ NothingAfter(m) /\ Untouched(m)
  <2>1. charge \in [Months -> Charges]
    BY <1>0 DEF LadderTypes
  <2> QED BY <2>1 DEF ReverseMonth
<1>2. x.status = "REVERSED" /\ (x.kind = "REPLACEMENT" => habit.items = 1)
  BY <1>0 DEF Charges, OneRow
<1> HIDE DEF x
<1>3. /\ DraftsPriced' /\ OneRow' /\ charge'[m] = x
      /\ \A q \in Months : q # m => charge'[q] = charge[q]
  BY <1>1, <1>2, WriteKeeps
<1>4. ASSUME calm' PROVE CorrectedStand' /\ CutExact'
  <2>1. calm /\ NothingAfter(m) /\ Untouched(m) /\ CorrectedStand
    BY <1>1, <1>4 DEF LadderInv
  <2>2. CutExact'
    BY <1>1, <1>2, <1>3, <2>1, Leaves
  <2>3. CorrectedStand'
    BY <1>0, <1>1, <1>3, <2>1, StandKept DEF Posted
  <2> QED BY <2>2, <2>3
<1> QED BY <1>0, <1>3, <1>4, StatusTypes DEF LadderInv

LEMMA ReplaceKeeps ==
  ASSUME CountedOnce, LadderInv, NEW m \in Months, NEW u \in 0 .. MostUsage,
         ReplaceMonth(m, u)
  PROVE  LadderInv'
<1> DEFINE y == YtdBefore(m)
           x == [kind |-> "REPLACEMENT", status |-> "POSTED", qty |-> u,
                 amount |-> ComputeBill(u, y), ytd |-> y]
<1>0. LadderTypes /\ habit \in Habits /\ u \in Nat /\ replaced \in Nat
  BY LadderAssumption DEF LadderInv, LadderTypes
<1>1. /\ UNCHANGED <<habit, metered, adjusts, recons>>
      /\ charge' = [charge EXCEPT ![m] = x]
      /\ calm' => calm /\ NothingAfter(m) /\ Untouched(m)
      /\ replaced < habit.replaces
  BY DEF ReplaceMonth
<1>2. y \in Nat
  BY <1>0, CursorNat
<1>3. x.status = "POSTED" /\ x.kind = "REPLACEMENT" /\ x.qty = u /\ x.amount = ComputeBill(u, y)
  OBVIOUS
<1>4. habit.items = 1
  <2>1. habit.replaces \in Nat
    BY <1>0, LadderAssumption
  <2> QED BY <1>0, <1>1, <2>1 DEF CountedOnce
<1> HIDE DEF x, y
<1>5. /\ DraftsPriced' /\ OneRow' /\ charge'[m] = x
      /\ \A q \in Months : q # m => charge'[q] = charge[q]
  BY <1>1, <1>3, <1>4, WriteKeeps
<1>6. ASSUME calm' PROVE CorrectedStand' /\ CutExact'
  <2>1. calm /\ NothingAfter(m) /\ Untouched(m) /\ CorrectedStand
    BY <1>1, <1>6 DEF LadderInv
  <2>2. FinalUsage(m)' = u
    <3>1. Corrections(m, LastMonth)' = {}
      BY <1>1, <2>1 DEF Corrections, Untouched
    <3> QED BY <1>3, <1>5, <3>1 DEF FinalUsage
  <2>3. charge'[m].status = "POSTED" /\ charge'[m].amount = Bill(habit, y, y + u)
    BY <1>0, <1>2, <1>3, <1>5, BillIs
  <2>4. CutExact'
    BY <1>0, <1>1, <1>5, <2>1, <2>2, <2>3, Lands DEF y
  <2>5. CorrectedStand'
    BY <1>0, <1>1, <1>5, <2>1, StandKept DEF Posted
  <2> QED BY <2>4, <2>5
<1> QED BY <1>0, <1>5, <1>6, ReplaceTypes DEF LadderInv

LEMMA ReconcileKeeps ==
  ASSUME LadderInv, NEW m \in Months, NEW a \in 0 .. m - 1,
         NEW t \in 0 .. (m - a) * MostUsage, Reconcile(a, m, t)
  PROVE  LadderInv'
<1> DEFINE x == Correction(a, m, t)
<1>0. LadderTypes /\ DraftsPriced /\ OneRow
  BY DEF LadderInv
<1>1. /\ UNCHANGED <<habit, metered, charge, replaced>>
      /\ calm' => calm /\ \A q \in a + 1 .. m : HasUsage(q)
  BY DEF Reconcile
<1>2. DraftsPriced' /\ OneRow'
  BY <1>0, <1>1 DEF DraftsPriced, OneRow
<1>3. CASE adjusts' = adjusts
  <2>1. calm' => CorrectedStand' /\ CutExact'
    BY <1>1, <1>3, QuietStep DEF Posted
  <2> QED BY <1>0, <1>2, <2>1, ReconcileTypes DEF LadderInv
<1>4. CASE adjusts' = Append(adjusts, x)
  <2>1. ASSUME calm' PROVE CorrectedStand' /\ CutExact'
    <3>1. calm /\ CorrectedStand
      BY <1>1, <2>1 DEF LadderInv
    <3>2. CutExact'
      BY <1>4, <2>1, <3>1, Adjusts
    <3>3. CorrectedStand'
      <4> SUFFICES ASSUME NEW i \in DOMAIN adjusts', NEW q \in DOMAIN adjusts'[i].delta
                   PROVE  Posted(q)' /\ HasUsage(q)'
        BY DEF CorrectedStand
      <4>1. Len(adjusts) \in Nat /\ DOMAIN adjusts = 1 .. Len(adjusts)
            /\ adjusts \in Seq(Adjustments)
        BY <1>0, AdjustsAre DEF LadderTypes
      <4> HIDE DEF x
      <4>2. i \in 1 .. Len(adjusts) + 1
        BY <1>4, <4>1
      <4>3. CASE i \in 1 .. Len(adjusts)
        <5>1. adjusts'[i] = adjusts[i] /\ i \in DOMAIN adjusts
          BY <1>4, <4>1, <4>3
        <5>2. Posted(q) /\ HasUsage(q)
          BY <3>1, <5>1 DEF CorrectedStand
        <5> QED BY <1>1, <5>2 DEF Posted, HasUsage
      <4>4. CASE i = Len(adjusts) + 1
        <5>1. adjusts'[i] = x
          BY <1>4, <4>1, <4>4
        <5>2. q \in a + 1 .. m
          BY <5>1 DEF x, Correction
        <5>3. Posted(q) /\ HasUsage(q)
          BY <1>0, <1>1, <2>1, <5>2, SpanFacts
        <5> QED BY <1>1, <5>3 DEF Posted, HasUsage
      <4> QED BY <4>1, <4>2, <4>3, <4>4
    <3> QED BY <3>2, <3>3
  <2> QED BY <1>0, <1>2, <2>1, ReconcileTypes DEF LadderInv
<1> QED BY <1>0, <1>3, <1>4, SpanFacts

LEMMA LadderInitInv == LadderInit => LadderInv
<1> SUFFICES ASSUME LadderInit PROVE LadderInv
  OBVIOUS
<1>1. LadderTypes /\ habit \in Habits
  BY LadderInitTypes DEF LadderTypes
<1>2. /\ \A m \in Months : charge[m] = NoCharge
      /\ DOMAIN adjusts = {} /\ Len(adjusts) = 0
  BY DEF LadderInit
<1>3. DraftsPriced /\ OneRow /\ CorrectedStand
  BY <1>2 DEF DraftsPriced, OneRow, CorrectedStand, NoCharge
<1>4. PostedMonths = {}
  BY <1>2 DEF PostedMonths, Posted, NoCharge
<1>5. ASSUME NEW c \in 0 .. LastMonth PROVE BilledTo(c) = TruePrice(c)
  <2>1. PostedTo(c) = {} /\ UpTo(PostedMonths, c) = {}
    BY <1>4 DEF PostedTo, UpTo
  <2>2. Over(PostedTo(c), Amounts) = 0 /\ TruePrice(c) = 0
    BY <2>1, OverNone DEF TruePrice, PriceTo
  <2>3. Adjusted(adjusts, 1 .. c) = 0
    BY <1>2, SumNone DEF Adjusted
  <2> QED BY <2>2, <2>3 DEF BilledTo
<1> QED BY <1>1, <1>3, <1>5 DEF LadderInv, CutExact

LEMMA LadderInvStep ==
  ASSUME CountedOnce
  PROVE  LadderInv /\ [LadderNext]_ladderVars => LadderInv'
<1> SUFFICES ASSUME LadderInv, [LadderNext]_ladderVars PROVE LadderInv'
  OBVIOUS
<1>1. ASSUME NEW m \in Months, NEW u \in 0 .. MostUsage, SettleMonth(m, u) \/ ReplaceMonth(m, u)
      PROVE  LadderInv'
  BY <1>1, SettleKeeps, ReplaceKeeps
<1>2. ASSUME NEW m \in Months, PriceMonth(m) \/ Post(m) \/ DropDraft(m) \/ ReverseMonth(m)
      PROVE  LadderInv'
  BY <1>2, PriceKeeps, PostKeeps, DropKeeps, ReverseKeeps
<1>3. ASSUME NEW m \in Months, NEW a \in 0 .. m - 1,
             NEW t \in 0 .. (m - a) * MostUsage, Reconcile(a, m, t)
      PROVE  LadderInv'
  BY <1>3, ReconcileKeeps
<1>4. CASE UNCHANGED ladderVars
  <2>1. LadderTypes /\ UNCHANGED <<habit, metered, charge, adjusts, recons, replaced, calm>>
    BY <1>4 DEF LadderInv, ladderVars
  <2>2. LadderTypes'
    BY <2>1, LadderTypesStep DEF ladderVars
  <2>3. DraftsPriced' /\ OneRow'
    BY <2>1 DEF LadderInv, DraftsPriced, OneRow
  <2>4. calm' => CorrectedStand' /\ CutExact'
    BY <2>1, QuietStep DEF Posted
  <2> QED BY <2>2, <2>3, <2>4 DEF LadderInv
<1> QED BY <1>1, <1>2, <1>3, <1>4 DEF LadderNext

-----------------------------------------------------------------------------
(* The price of a year in one piece.                                       *)

(* Before the percentage, the bills of a year add up to it.                *)
LEMMA BaseStep ==
  ASSUME NEW h \in Habits, NEW S \in SUBSET Months, NEW u,
         \A q \in Months : q \in S => u[q] \in Nat,
         NEW m \in S, NEW c \in Int, m <= c, \A q \in S : q <= c => q <= m
  PROVE  /\ Base(h, S, u, YearOf(m), c) = Base(h, S, u, YearOf(m), m - 1) + BasesOf(h, S, u)[m]
         /\ \A q \in Months :
               q \in InYear(S, YearOf(m), c) <=> q \in InYear(S, YearOf(m), m - 1) \/ q = m
<1> DEFINE T == ScaledTiers(h.shift)
           y == YearOf(m)
           n == Used(S, u, y, m - 1)
           x == u[m]
           w == FlatOf(h)
           B == Over(InYear(S, y, m - 1), Fixeds)
<1>0. m \in Months /\ m \in Int /\ y \in {1, 2} /\ x \in Nat /\ n \in Nat /\ w \in Nat /\ Fixed \in Nat
  <2>1. m \in Months /\ x \in Nat
    OBVIOUS
  <2>2. m \in Int
    BY <2>1, LadderAssumption DEF Months
  <2>3. y \in {1, 2}
    BY DEF YearOf
  <2>4. w \in Nat /\ Fixed \in Nat
    BY LadderAssumption DEF FlatOf
  <2> QED BY <2>1, <2>2, <2>3, <2>4, UsedNat
<1>1. \A q \in S : q \in Int
  BY LadderAssumption DEF Months
<1>2. \A z : z # y => InYear(S, z, c) = InYear(S, z, m - 1)
  <2> SUFFICES ASSUME NEW z, z # y, NEW q \in S, YearOf(q) = z
               PROVE  q <= c <=> q <= m - 1
    BY DEF InYear
  <2>1. q # m /\ q \in Int
    BY <1>1
  <2> QED BY <1>0, <2>1
<1>3. \A q \in Months : q \in InYear(S, y, c) <=> q \in InYear(S, y, m - 1) \/ q = m
  <2> SUFFICES ASSUME NEW q \in Months
               PROVE  q \in InYear(S, y, c) <=> q \in InYear(S, y, m - 1) \/ q = m
    OBVIOUS
  <2>1. q \in S => (q <= c <=> q <= m - 1 \/ q = m)
    BY <1>0, <1>1
  <2> QED BY <2>1 DEF InYear
<1>4. m \notin InYear(S, y, m - 1)
  BY <1>0 DEF InYear
<1>5. Used(S, u, y, c) = n + x
  <2>1. \A q \in Months : q \in InYear(S, y, c) => u[q] \in Int
    BY DEF InYear
  <2>2. Over(InYear(S, y, c), u) = Over(InYear(S, y, m - 1), u) + u[m]
    <3> DEFINE R == InYear(S, y, c)
               Q == InYear(S, y, m - 1)
    <3>1. m \in Months /\ m \notin Q
      BY <1>0, <1>4
    <3>2. \A q \in Months : q \in R <=> q \in Q \/ q = m
      BY <1>3
    <3>3. \A q \in Months : q \in R => u[q] \in Int
      BY <2>1
    <3> HIDE DEF R, Q, y
    <3>4. OneMore(Q, R, u, m)
      BY ONLY <3>1, <3>2, <3>3 DEF OneMore
    <3>5. Over(R, u) = Over(Q, u) + u[m]
      BY ONLY <3>4, OverAdd
    <3> QED BY <3>5 DEF R, Q
  <2> QED BY <2>2 DEF Used
<1>6. B \in Int /\ Over(InYear(S, y, c), Fixeds) = B + Fixed
  <2>1. \A q \in Months : Fixeds[q] = Fixed /\ Fixeds[q] \in Int
    BY <1>0 DEF Fixeds
  <2>2. B \in Int
    BY <2>1, OverInt
  <2>3. Over(InYear(S, y, c), Fixeds) = B + Fixeds[m]
    <3> DEFINE R == InYear(S, y, c)
               Q == InYear(S, y, m - 1)
    <3>1. m \in Months /\ m \notin Q
      BY <1>0, <1>4
    <3>2. \A q \in Months : q \in R <=> q \in Q \/ q = m
      BY <1>3
    <3>3. \A q \in Months : q \in R => Fixeds[q] \in Int
      BY <2>1
    <3> HIDE DEF R, Q, y
    <3>4. OneMore(Q, R, Fixeds, m)
      BY ONLY <3>1, <3>2, <3>3 DEF OneMore
    <3>5. Over(R, Fixeds) = Over(Q, Fixeds) + Fixeds[m]
      BY ONLY <3>4, OverAdd
    <3> QED BY <3>5 DEF R, Q
  <2> QED BY <1>0, <2>1, <2>2, <2>3
<1>7. Base(h, S, u, y, c) = Base(h, S, u, y, m - 1) + BillBase(h, n, n + x)
  <2>1. PICK k \in Int : k = Cost(T, 0, n)
    BY <1>0, LadderIsGood, CostIsNat
  <2>2. PICK l \in Int : l = Cost(T, n, n + x)
    <3>1. n + x \in Nat /\ n <= n + x
      BY <1>0
    <3>2. Cost(T, n, n + x) \in Nat
      BY <1>0, <3>1, LadderIsGood, CostIsNat
    <3> QED BY <3>2
  <2>3. Cost(T, 0, n + x) = k + l
    <3>1. n + x \in Nat /\ n <= n + x /\ 0 <= n
      BY <1>0
    <3> HIDE DEF n, x
    <3> QED BY <1>0, <2>1, <2>2, <3>1, LadderIsGood, CostAdds
  <2>4. w * (n + x) = w * n + w * x /\ (n + x) - n = x /\ w * n \in Int /\ w * x \in Int
    BY <1>0
  <2>5. Base(h, S, u, y, c) = (k + l) + (w * n + w * x) + (B + Fixed)
    BY <1>5, <1>6, <2>3, <2>4 DEF Base
  <2>6. Base(h, S, u, y, m - 1) = k + w * n + B
    BY <2>1 DEF Base
  <2>7. BillBase(h, n, n + x) = l + w * x + Fixed
    BY <2>2, <2>4 DEF BillBase
  <2> HIDE DEF T, n, x, w, B
  <2> QED BY <1>0, <1>6, <2>4, <2>5, <2>6, <2>7
<1>8. BasesOf(h, S, u)[m] = BillBase(h, n, n + x)
  BY <1>0 DEF BasesOf, Before
<1> QED BY <1>3, <1>7, <1>8

LEMMA BaseInt ==
  ASSUME NEW h \in Habits, NEW S, NEW u, \A q \in Months : q \in S => u[q] \in Nat,
         NEW y, NEW c
  PROVE  /\ Base(h, S, u, y, c) \in Int
         /\ InYear(S, y, c) = {} => Base(h, S, u, y, c) = 0
         /\ PricesExact => ExactCents(Base(h, S, u, y, c))
<1> DEFINE T == ScaledTiers(h.shift)
           w == FlatOf(h)
<1>0. PICK n \in Nat : n = Used(S, u, y, c)
  BY UsedNat
<1>1. GoodTiers(T) /\ 0 <= n /\ w \in Nat /\ \A q \in Months : Fixeds[q] \in Int
  BY <1>0, LadderIsGood, LadderAssumption DEF FlatOf, Fixeds
<1>2. PICK k \in Nat : k = Cost(T, 0, n)
  <2> HIDE DEF T
  <2> QED BY <1>0, <1>1, CostIsNat
<1>3. PICK l \in Int : l = Over(InYear(S, y, c), Fixeds)
  BY <1>1, OverInt
<1>4. Base(h, S, u, y, c) = k + w * n + l
  BY <1>0, <1>2, <1>3 DEF Base
<1>5. w * n \in Int
  BY <1>0, <1>1
<1>6. ASSUME InYear(S, y, c) = {} PROVE k + w * n + l = 0
  <2>1. n = 0 /\ l = 0
    BY <1>0, <1>3, <1>6, OverNone DEF Used
  <2> HIDE DEF T, w
  <2>2. k = 0
    BY <1>1, <1>2, <2>1, CostNone
  <2>3. w * n = 0
    BY <1>1, <2>1
  <2> QED BY <2>1, <2>2, <2>3
<1>7. ASSUME PricesExact PROVE ExactCents(k + w * n + l)
  <2>1. ExactCents(k)
    BY <1>0, <1>1, <1>2, <1>7, CostExact
  <2>2. ExactCents(w) /\ ExactCents(Fixed)
    BY <1>7, WholeIsExact, ExactZero, LadderAssumption DEF PricesExact, FlatOf
  <2>3. ExactCents(n * w)
    BY <2>2, ExactTimes
  <2>4. n * w = w * n
    BY <1>0, <1>1
  <2>5. ExactCents(l)
    BY <1>3, <2>2, OverExact DEF Fixeds
  <2>6. ExactCents(k + w * n)
    BY <2>1, <2>3, <2>4, ExactPlus
  <2> QED BY <2>5, <2>6, ExactPlus
<1> HIDE DEF w
<1>8. Base(h, S, u, y, c) \in Int
  BY <1>2, <1>3, <1>4, <1>5
<1> QED BY <1>4, <1>6, <1>7, <1>8

LEMMA BasesAdd ==
  ASSUME NEW h \in Habits, NEW S \in SUBSET Months, NEW u,
         \A q \in Months : q \in S => u[q] \in Nat, NEW y
  PROVE  Over(InYear(S, y, LastMonth), BasesOf(h, S, u)) = Base(h, S, u, y, LastMonth)
<1> DEFINE f == BasesOf(h, S, u)
           N == LastMonth
           D == {c \in 0 .. N : Over(InYear(S, y, c), f) = Base(h, S, u, y, c)}
<1>0. N \in Nat /\ \A q \in Months : q \in Int /\ 1 <= q
  BY LadderAssumption DEF Months
<1>1. \A q \in Months : q \in S => f[q] \in Int
  BY BillsInt
<1>2. 0 \in D
  <2>1. InYear(S, y, 0) = {}
    BY <1>0 DEF InYear
  <2>2. Base(h, S, u, y, 0) = 0
    BY <2>1, BaseInt
  <2>3. Over(InYear(S, y, 0), f) = 0
    BY <2>1, OverNone
  <2> QED BY <1>0, <2>2, <2>3
<1>3. ASSUME NEW c \in D, c < N PROVE c + 1 \in D
  <2>1. c \in Nat /\ c + 1 \in 0 .. N /\ c + 1 \in Int /\ (c + 1) - 1 = c
        /\ Over(InYear(S, y, c), f) = Base(h, S, u, y, c)
    BY <1>0, <1>3
  <2> HIDE DEF D, f, N
  <2>2. PICK m \in Int : m = c + 1
    BY <2>1
  <2>3. CASE m \in S /\ YearOf(m) = y
    <3>1. m \in S /\ m \in Months /\ m <= m /\ \A q \in S : q <= m => q <= m
      BY <2>3
    <3>2. /\ Base(h, S, u, YearOf(m), m) = Base(h, S, u, YearOf(m), m - 1) + BasesOf(h, S, u)[m]
          /\ \A q \in Months :
               q \in InYear(S, YearOf(m), m) <=> q \in InYear(S, YearOf(m), m - 1) \/ q = m
      BY <2>2, <3>1, BaseStep
    <3> DEFINE R == InYear(S, y, m)
               Q == InYear(S, y, m - 1)
    <3>3. /\ \A q \in Months : q \in R <=> q \in Q \/ q = m
          /\ Base(h, S, u, y, m) = Base(h, S, u, y, m - 1) + f[m]
      BY <2>3, <3>2 DEF f
    <3>4. m \notin Q
      BY <2>2 DEF InYear
    <3>5. \A q \in Months : q \in R => f[q] \in Int
      BY <1>1 DEF InYear
    <3>6. m - 1 = c
      BY <2>1, <2>2
    <3> HIDE DEF R, Q
    <3>7. Over(R, f) = Over(Q, f) + f[m]
      <4>1. m \in Months /\ \A q \in Months : q \in R <=> q \in Q \/ q = m
        BY <3>1, <3>3
      <4>2. OneMore(Q, R, f, m)
        BY ONLY <3>4, <3>5, <4>1 DEF OneMore
      <4> QED BY ONLY <4>2, OverAdd
    <3>8. Over(R, f) = Base(h, S, u, y, m)
      BY <2>1, <3>3, <3>6, <3>7 DEF Q
    <3> QED BY <2>1, <2>2, <3>8 DEF D, R
  <2>4. CASE ~(m \in S /\ YearOf(m) = y)
    <3>1. InYear(S, y, m) = InYear(S, y, c)
      <4> SUFFICES ASSUME NEW q \in S, YearOf(q) = y PROVE q <= m <=> q <= c
        BY DEF InYear
      <4>1. q # m /\ q \in Int
        BY <1>0, <2>4
      <4> QED BY <2>1, <2>2, <4>1
    <3>2. Base(h, S, u, y, m) = Base(h, S, u, y, c)
      BY <3>1 DEF Base, Used
    <3> QED BY <2>1, <2>2, <3>1, <3>2 DEF D
  <2> QED BY <2>3, <2>4
<1>4. D = 0 .. N
  <2> HIDE DEF D, N
  <2>1. D \in SUBSET (0 .. N)
    BY DEF D
  <2>2. \A c \in D : c < N => c + 1 \in D
    BY <1>3
  <2> QED BY <1>0, <1>2, <2>1, <2>2, BoundedInduction
<1>5. N \in D
  BY <1>0, <1>4
<1> QED BY <1>5

(* An amount that is z with the percentage, but for k roundings.           *)
Near(x, z, k) ==
    LET scaled == 100 * z + z * Percent
    IN  100 * x - scaled <= 50 * k /\ scaled - 100 * x <= 50 * k

LEMMA NearShare ==
  ASSUME NEW x \in Int
  PROVE  /\ WithShare(x) \in Int /\ Near(WithShare(x), x, 1)
         /\ ExactCents(x) => Near(WithShare(x), x, 0)
<1>1. PICK p \in Int : p = x * Percent
  BY LadderAssumption
<1>2. PICK r \in Int : r = RoundHalfUp(p, 100)
  BY <1>1 DEF RoundHalfUp
<1>3. 200 * r <= 2 * p + 100 /\ 2 * p + 100 < 200 * r + 200
  BY <1>2 DEF RoundHalfUp
<1>4. WithShare(x) = x + r
  BY <1>1, <1>2 DEF WithShare
<1>5. Near(x + r, x, 1)
  BY <1>1, <1>3 DEF Near
<1>6. ASSUME ExactCents(x) PROVE Near(x + r, x, 0)
  <2>1. PICK z \in Int : p = 100 * z
    BY <1>1, <1>6 DEF ExactCents
  <2>2. r = z
    BY <1>2, <2>1, RoundsNothing
  <2> QED BY <1>1, <2>1, <2>2 DEF Near
<1> QED BY <1>4, <1>5, <1>6

LEMMA NearPlus ==
  ASSUME NEW x \in Int, NEW z \in Int, NEW k \in Int, Near(x, z, k),
         NEW a \in Int, NEW b \in Int, NEW c \in Int, Near(a, b, c)
  PROVE  Near(x + a, z + b, k + c)
<1>1. PICK p \in Int : p = z * Percent
  BY LadderAssumption
<1>2. PICK r \in Int : r = b * Percent
  BY LadderAssumption
<1>3. (z + b) * Percent = p + r
  BY <1>1, <1>2, Distributes, LadderAssumption
<1>4. /\ 100 * x - (100 * z + p) <= 50 * k /\ (100 * z + p) - 100 * x <= 50 * k
      /\ 100 * a - (100 * b + r) <= 50 * c /\ (100 * b + r) - 100 * a <= 50 * c
  BY <1>1, <1>2 DEF Near
<1>5. /\ 100 * (x + a) - (100 * (z + b) + (p + r)) <= 50 * (k + c)
      /\ (100 * (z + b) + (p + r)) - 100 * (x + a) <= 50 * (k + c)
  BY <1>4
<1> QED BY <1>3, <1>5 DEF Near

LEMMA NearSum ==
  ASSUME NEW N \in Nat, NEW f, NEW g, NEW k,
         \A i \in 1 .. N : /\ f[i] \in Int /\ g[i] \in Int /\ k[i] \in Int
                           /\ Near(f[i], g[i], k[i])
  PROVE  Near(SumTo(f, N), SumTo(g, N), SumTo(k, N))
<1> DEFINE S == {n \in 0 .. N : Near(SumTo(f, n), SumTo(g, n), SumTo(k, n))}
<1>1. 0 \in S
  <2>1. SumTo(f, 0) = 0 /\ SumTo(g, 0) = 0 /\ SumTo(k, 0) = 0
    BY SumNone
  <2>2. Near(0, 0, 0)
    BY LadderAssumption DEF Near
  <2> QED BY <2>1, <2>2
<1>2. ASSUME NEW n \in S, n < N PROVE n + 1 \in S
  <2>1. n \in Nat /\ n + 1 \in 0 .. N /\ n + 1 \in 1 .. N
        /\ \A i \in 1 .. n + 1 : i \in 1 .. N
    BY <1>2
  <2>2. /\ SumTo(f, n + 1) = SumTo(f, n) + f[n + 1]
        /\ SumTo(g, n + 1) = SumTo(g, n) + g[n + 1]
        /\ SumTo(k, n + 1) = SumTo(k, n) + k[n + 1]
    BY <2>1, SumNext
  <2>3. SumTo(f, n) \in Int /\ SumTo(g, n) \in Int /\ SumTo(k, n) \in Int
    <3>1. \A i \in 1 .. n : i \in 1 .. N
      BY <2>1
    <3> QED BY <2>1, <3>1, SumInt
  <2>4. Near(SumTo(f, n), SumTo(g, n), SumTo(k, n))
    OBVIOUS
  <2>5. /\ f[n + 1] \in Int /\ g[n + 1] \in Int /\ k[n + 1] \in Int
        /\ Near(f[n + 1], g[n + 1], k[n + 1])
    BY <2>1
  <2>6. Near(SumTo(f, n) + f[n + 1], SumTo(g, n) + g[n + 1], SumTo(k, n) + k[n + 1])
    BY ONLY <2>3, <2>4, <2>5, NearPlus
  <2>7. Near(SumTo(f, n + 1), SumTo(g, n + 1), SumTo(k, n + 1))
    BY <2>2, <2>6
  <2> QED BY <2>1, <2>7
<1>3. S = 0 .. N
  <2> HIDE DEF S
  <2>1. S \in SUBSET (0 .. N)
    BY DEF S
  <2> QED BY <1>1, <1>2, <2>1, BoundedInduction
<1>4. N \in S
  <2> HIDE DEF S
  <2> QED BY <1>3
<1> QED BY <1>4

LEMMA NearOver ==
  ASSUME NEW S, NEW f, NEW g, NEW k,
         \A q \in Months : q \in S => /\ f[q] \in Int /\ g[q] \in Int /\ k[q] \in Int
                                      /\ Near(f[q], g[q], k[q])
  PROVE  /\ Near(Over(S, f), Over(S, g), Over(S, k))
         /\ Over(S, f) \in Int /\ Over(S, g) \in Int /\ Over(S, k) \in Int
<1> DEFINE x == [q \in Months |-> IF q \in S THEN f[q] ELSE 0]
           y == [q \in Months |-> IF q \in S THEN g[q] ELSE 0]
           z == [q \in Months |-> IF q \in S THEN k[q] ELSE 0]
<1>1. LastMonth \in Nat /\ Months = 1 .. LastMonth
  BY LadderAssumption DEF Months
<1>2. Near(0, 0, 0)
  BY LadderAssumption DEF Near
<1>3. \A q \in 1 .. LastMonth : /\ x[q] \in Int /\ y[q] \in Int /\ z[q] \in Int
                                /\ Near(x[q], y[q], z[q])
  BY <1>1, <1>2
<1> HIDE DEF x, y, z
<1>4. Near(SumTo(x, LastMonth), SumTo(y, LastMonth), SumTo(z, LastMonth))
  BY <1>1, <1>3, NearSum
<1>5. Over(S, f) \in Int /\ Over(S, g) \in Int /\ Over(S, k) \in Int
  BY OverInt
<1> QED BY <1>4, <1>5 DEF Over, x, y, z

(* The bills of two years are the prices of the years but for a rounding   *)
(* of each bill and of each year, and for none if the prices are exact.    *)
Slack == IF PricesExact THEN 0 ELSE 1
Slacks == [q \in Months |-> Slack]

LEMMA BillIsNear ==
  ASSUME NEW h \in Habits, NEW S \in SUBSET Months, NEW u,
         \A q \in Months : q \in S => u[q] \in Nat, NEW m \in Months, m \in S
  PROVE  Near(BillsOf(h, S, u)[m], BasesOf(h, S, u)[m], Slack)
<1>1. PICK n \in Nat : n = Before(S, u, m)
  BY UsedNat DEF Before
<1>2. PICK x \in Nat : x = u[m]
  OBVIOUS
<1>3. n + x \in Nat /\ n <= n + x
  OBVIOUS
<1>4. PICK b \in Int : b = BillBase(h, n, n + x)
  BY <1>3, BillInt
<1>5. BasesOf(h, S, u)[m] = b /\ BillsOf(h, S, u)[m] = WithShare(b)
  BY <1>1, <1>2, <1>4 DEF BasesOf, BillsOf, Bill
<1>6. PricesExact => ExactCents(b)
  BY <1>3, <1>4, BillExact
<1> QED BY <1>5, <1>6, NearShare DEF Slack

LEMMA YearIsNear ==
  ASSUME NEW h \in Habits, NEW S \in SUBSET Months, NEW u,
         \A q \in Months : q \in S => u[q] \in Nat, NEW y
  PROVE  LET billed == Over(InYear(S, y, LastMonth), BillsOf(h, S, u))
             due == WithShare(Base(h, S, u, y, LastMonth))
             k == Over(InYear(S, y, LastMonth), Slacks) + Slack
         IN  /\ billed \in Int /\ due \in Int /\ Over(InYear(S, y, LastMonth), Slacks) \in Int
             /\ 2 * (billed - due) <= k /\ 2 * (due - billed) <= k
<1> DEFINE R == InYear(S, y, LastMonth)
           f == BillsOf(h, S, u)
           g == BasesOf(h, S, u)
<1>1. PICK z \in Int : z = Base(h, S, u, y, LastMonth)
  BY BaseInt
<1>2. Over(R, g) = z
  BY <1>1, BasesAdd
<1>3. \A q \in Months : q \in R => q \in S
  BY DEF InYear
<1>4. ASSUME NEW q \in Months, q \in R
      PROVE  f[q] \in Int /\ g[q] \in Int /\ Slacks[q] \in Int /\ Near(f[q], g[q], Slacks[q])
  <2>1. q \in S /\ Slacks[q] = Slack /\ Slack \in Int
    BY <1>3, <1>4 DEF Slacks, Slack
  <2> QED BY <2>1, BillsInt, BillIsNear
<1> HIDE DEF R, f, g
<1>5. /\ Near(Over(R, f), z, Over(R, Slacks))
      /\ Over(R, f) \in Int /\ Over(R, Slacks) \in Int
  BY <1>2, <1>4, NearOver
<1>6. PricesExact => ExactCents(z)
  BY <1>1, BaseInt
<1>7. WithShare(z) \in Int /\ Near(WithShare(z), z, Slack)
  BY <1>6, NearShare DEF Slack
<1>8. PICK a \in Int, d \in Int, k \in Int, e \in Int, p \in Int :
          a = Over(R, f) /\ d = WithShare(z) /\ k = Over(R, Slacks) /\ e = Slack /\ p = z * Percent
  BY <1>5, <1>7, LadderAssumption DEF Slack
<1>9. /\ 100 * a - (100 * z + p) <= 50 * k /\ (100 * z + p) - 100 * a <= 50 * k
      /\ 100 * d - (100 * z + p) <= 50 * e /\ (100 * z + p) - 100 * d <= 50 * e
  BY <1>5, <1>7, <1>8 DEF Near
<1>10. 2 * (a - d) <= k + e /\ 2 * (d - a) <= k + e
  BY <1>9
<1> QED BY <1>1, <1>8, <1>10 DEF R, f

LEMMA YearsAreNear ==
  ASSUME NEW h \in Habits, NEW S \in SUBSET Months, NEW u,
         \A q \in Months : q \in S => u[q] \in Nat
  PROVE  LET billed == PriceTo(h, S, u, LastMonth)
             due == WithShare(Base(h, S, u, 1, LastMonth)) + WithShare(Base(h, S, u, 2, LastMonth))
             k == Over(S, Slacks) + 2 * Slack
         IN  2 * (billed - due) <= k /\ 2 * (due - billed) <= k
<1> DEFINE P == InYear(S, 1, LastMonth)
           Q == InYear(S, 2, LastMonth)
           f == BillsOf(h, S, u)
<1>1. LastMonth \in Int /\ \A q \in Months : q \in Int /\ q <= LastMonth
  BY LadderAssumption DEF Months
<1>2. ASSUME NEW q \in Months
      PROVE  (q \in S <=> q \in P \/ q \in Q) /\ ~(q \in P /\ q \in Q) /\ (q \in S => f[q] \in Int)
             /\ Slacks[q] \in Int
  <2>1. YearOf(q) \in {1, 2} /\ q <= LastMonth
    BY <1>1 DEF YearOf
  <2>2. (q \in S <=> q \in P \/ q \in Q) /\ ~(q \in P /\ q \in Q)
    BY <2>1 DEF InYear
  <2> QED BY <2>2, BillsInt DEF Slacks, Slack
<1>3. /\ Over(P, f) \in Int /\ Over(Q, f) \in Int
      /\ Over(P, Slacks) \in Int /\ Over(Q, Slacks) \in Int
      /\ WithShare(Base(h, S, u, 1, LastMonth)) \in Int
      /\ WithShare(Base(h, S, u, 2, LastMonth)) \in Int
  BY YearIsNear
<1>4. LET d == WithShare(Base(h, S, u, 1, LastMonth))
          k == Over(P, Slacks) + Slack
      IN  2 * (Over(P, f) - d) <= k /\ 2 * (d - Over(P, f)) <= k
  BY YearIsNear
<1>5. LET d == WithShare(Base(h, S, u, 2, LastMonth))
          k == Over(Q, Slacks) + Slack
      IN  2 * (Over(Q, f) - d) <= k /\ 2 * (d - Over(Q, f)) <= k
  BY YearIsNear
<1>6. UpTo(S, LastMonth) = S
  BY <1>1 DEF UpTo
<1> HIDE DEF P, Q, f
<1>7. Over(S, f) = Over(P, f) + Over(Q, f)
  BY <1>2, OverUnion
<1>8. Over(S, Slacks) = Over(P, Slacks) + Over(Q, Slacks)
  BY <1>2, OverUnion
<1>9. Slack \in Int
  BY DEF Slack
<1>10. PriceTo(h, S, u, LastMonth) = Over(P, f) + Over(Q, f)
  BY <1>6, <1>7 DEF PriceTo, f
<1> QED BY <1>3, <1>4, <1>5, <1>8, <1>9, <1>10

(* The cut behind the last month is the whole account.                     *)
LEMMA CutIsYears ==
  ASSUME LadderInv
  PROVE  LadderExact
<1> SUFFICES ASSUME calm PROVE LadderExact
  BY DEF LadderExact
<1> DEFINE L == LastMonth
           P == PostedMonths
           T == ScaledTiers(habit.shift)
<1>0. LadderTypes /\ CutExact /\ habit \in Habits
  BY DEF LadderInv, LadderTypes
<1>1. L \in 0 .. L /\ Months = 1 .. L /\ L \in Nat /\ \A q \in Months : q <= L
  BY MonthFacts
<1>2. Within(L)
  BY <1>0, <1>1, AdjustsAre DEF Within
<1>3. BilledTo(L) = TruePrice(L)
  BY <1>0, <1>1, <1>2 DEF CutExact
<1>4. BilledTo(L) = Over({m \in Months : Posted(m)}, [m \in Months |-> charge[m].amount])
                      + AdjustedAt(Months)
  <2>1. PostedTo(L) = {m \in Months : Posted(m)}
    BY <1>1 DEF PostedTo, PostedMonths
  <2> QED BY <1>1, <2>1 DEF BilledTo, Amounts, AdjustedAt, Adjusted
<1>5. ASSUME NEW y PROVE YearPrice(y) = WithShare(Base(habit, P, Final, y, L))
  <2> DEFINE S == {m \in Months : Posted(m) /\ YearOf(m) = y}
             n == Used(P, Final, y, L)
  <2>1. S = InYear(P, y, L)
    BY <1>1 DEF InYear, PostedMonths
  <2>2. Over(S, [m \in Months |-> FinalUsage(m)]) = n
    BY <2>1 DEF Used, Final
  <2>3. n \in Nat
    BY <1>0, FinalNat, UsedNat
  <2>4. \A k \in 1 .. n : PriceOfUnit(k) = UnitPrice(T, k)
    BY DEF PriceOfUnit, UnitPrice, Reaches
  <2> HIDE DEF n
  <2>5. SumTo([k \in 1 .. n |-> PriceOfUnit(k)], n) = Cost(T, 0, n)
    <3>1. [k \in 1 .. n |-> PriceOfUnit(k)] = [k \in 1 .. n |-> UnitPrice(T, k)]
      BY <2>4
    <3>2. GoodTiers(T)
      BY <1>0, LadderIsGood
    <3> HIDE DEF T
    <3>3. SumTo([k \in 1 .. n |-> UnitPrice(T, k)], n) = Cost(T, 0, n)
      BY <2>3, <3>2, UnitsCost
    <3> QED BY <3>1, <3>3
  <2>6. (IF habit.items = 2 THEN FlatPrice * n ELSE 0) = FlatOf(habit) * n
    BY <2>3 DEF FlatOf
  <2>7. Over(S, [m \in Months |-> Fixed]) = Over(InYear(P, y, L), Fixeds)
    BY <2>1 DEF Fixeds
  <2>8. /\ Cost(T, 0, n) \in Nat /\ FlatOf(habit) * n \in Int
        /\ Over(InYear(P, y, L), Fixeds) \in Int
    <3>1. GoodTiers(T) /\ 0 <= n
      BY <1>0, <2>3, LadderIsGood
    <3>2. FlatOf(habit) \in Int /\ \A q \in Months : Fixeds[q] \in Int
      BY LadderAssumption DEF FlatOf, Fixeds
    <3> HIDE DEF T
    <3>3. Cost(T, 0, n) \in Nat
      BY <2>3, <3>1, CostIsNat
    <3> QED BY <2>3, <3>2, <3>3, OverInt
  <2>9. Base(habit, P, Final, y, L) = Cost(T, 0, n) + FlatOf(habit) * n + Over(InYear(P, y, L), Fixeds)
    BY DEF Base, n
  <2>10. Cost(T, 0, n) + Over(InYear(P, y, L), Fixeds) + FlatOf(habit) * n
           = Base(habit, P, Final, y, L)
    <3> HIDE DEF T, P
    <3> QED BY <2>8, <2>9
  <2> QED BY <2>2, <2>5, <2>6, <2>7, <2>10 DEF YearPrice, WithShare
<1>6. Roundings = Over(P, Slacks) + 2 * Slack
  <2>1. CASE PricesExact
    <3>1. \A q \in Months : q \in P => Slacks[q] = 0
      BY <2>1 DEF Slacks, Slack
    <3>2. Over(P, Slacks) = Over({}, Slacks)
      BY <3>1, ZerosOver
    <3> QED BY <2>1, <3>2, OverNone DEF Roundings, Slack
  <2>2. CASE ~PricesExact
    <3>1. Slacks = [m \in Months |-> 1] /\ P = {m \in Months : Posted(m)}
      BY <2>2 DEF Slacks, Slack, PostedMonths
    <3> QED BY <2>2, <3>1 DEF Roundings, Slack
  <2> QED BY <2>1, <2>2
<1>7. /\ P \in SUBSET Months /\ \A q \in Months : q \in P => Final[q] \in Nat
  BY <1>0, FinalNat
<1> DEFINE due == WithShare(Base(habit, P, Final, 1, L)) + WithShare(Base(habit, P, Final, 2, L))
<1>8. 2 * (TruePrice(L) - due) <= Roundings /\ 2 * (due - TruePrice(L)) <= Roundings
  <2> HIDE DEF P
  <2>1. LET k == Over(P, Slacks) + 2 * Slack
        IN  2 * (PriceTo(habit, P, Final, L) - due) <= k /\ 2 * (due - PriceTo(habit, P, Final, L)) <= k
    BY <1>0, <1>7, YearsAreNear
  <2>2. TruePrice(L) = PriceTo(habit, P, Final, L)
    BY DEF TruePrice, P
  <2> HIDE DEF due
  <2> QED BY <1>6, <2>1, <2>2
<1>9. due = YearPrice(1) + YearPrice(2)
  BY <1>5
<1> HIDE DEF due
<1> QED BY <1>3, <1>4, <1>8, <1>9 DEF LadderExact

LEMMA LadderHolds ==
  ASSUME CountedOnce
  PROVE  LadderSpec => []LadderInv
<1>1. LadderInit => LadderInv
  BY LadderInitInv
<1>2. LadderInv /\ [LadderNext]_ladderVars => LadderInv'
  BY LadderInvStep
<1> QED BY <1>1, <1>2, PTL DEF LadderSpec

(* However the usage of a year was split over bills, replaced, reversed    *)
(* and reconciled, the posted bills and adjustments add up to the ladder   *)
(* price of the year's usage in one piece, but for a rounding of each bill *)
(* and each year, and exactly if no price rounds: for every plan with one  *)
(* item per quantity where bills are replaced.                             *)
THEOREM LadderIsExact ==
  ASSUME CountedOnce
  PROVE  LadderSpec => []LadderExact
<1>1. LadderInv => LadderExact
  BY CutIsYears
<1>2. LadderSpec => []LadderInv
  BY LadderHolds
<1> QED BY <1>1, <1>2, PTL

(* The cursor of the next bill is the usage its year has been billed for,  *)
(* if a plan under which bills are replaced has one item per quantity.     *)
(* With two items it is not (replaced_twice).                              *)
THEOREM CursorIsExact ==
  ASSUME CountedOnce
  PROVE  LadderSpec => []CursorCountsUsage
<1>1. ASSUME LadderInv PROVE CursorCountsUsage
  <2> SUFFICES ASSUME calm, NEW m \in Months, charge[m].status = "NONE", NothingAfter(m)
               PROVE  YtdBefore(m) = Over(EarlierInYear(m), [q \in Months |-> FinalUsage(q)])
    BY DEF CursorCountsUsage
  <2>1. Untouched(m)
    BY <1>1 DEF LadderInv, CorrectedStand, Untouched, Posted
  <2>2. YtdBefore(m) = Used(PostedMonths, Final, YearOf(m), m - 1)
    BY <1>1, <2>1, TopMonth
  <2>3. \A q \in Months : q \in EarlierInYear(m) <=> q \in InYear(PostedMonths, YearOf(m), m - 1)
    BY MonthFacts DEF EarlierInYear, InYear, PostedMonths
  <2>4. Over(EarlierInYear(m), Final) = Over(InYear(PostedMonths, YearOf(m), m - 1), Final)
    BY <2>3, OverSame
  <2> QED BY <2>2, <2>4 DEF Used, Final
<1>2. LadderSpec => []LadderInv
  BY LadderHolds
<1> QED BY <1>1, <1>2, PTL
=============================================================================
