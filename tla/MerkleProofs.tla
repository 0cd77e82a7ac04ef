---------------------------- MODULE MerkleProofs ----------------------------
(***************************************************************************)
(* Theorems about the Merkle tree, for any number of leaves and any range  *)
(* of them: what range_proof makes, verify_range_proof accepts from where  *)
(* the range begins, and not from the first leaf when it does not begin    *)
(* there.  Induction is over the levels of the tree.                       *)
(***************************************************************************)
EXTENDS TLAPS, Merkle, SumTheorems, FiniteSetTheorems, SequenceTheorems

-----------------------------------------------------------------------------
(* Powers of two and the depth of the tree                                   *)

\* Powers of two, up to one of them.
PowersTo(n, g) ==
  g \in [0..n -> Nat] /\ \A k \in 0..n : g[k] = IF k = 0 THEN 1 ELSE 2 * g[k - 1]
LEMMA PowersExist == \A n \in Nat : \E g : PowersTo(n, g)
<1> DEFINE A == {n \in Nat : \E g : PowersTo(n, g)}
<1>1. 0 \in A
  <2>1. PowersTo(0, [k \in 0..0 |-> 1])
    BY DEF PowersTo
  <2> QED
    BY <2>1
<1>2. ASSUME NEW n \in Nat, n \in A PROVE n + 1 \in A
  <2>1. PICK g : PowersTo(n, g)
    BY <1>2
  <2>2. PICK h : h = [k \in 0..(n + 1) |-> IF k <= n THEN g[k] ELSE 2 * g[n]]
    OBVIOUS
  <2>3. \A k \in 0..n : g[k] \in Nat /\ g[k] = IF k = 0 THEN 1 ELSE 2 * g[k - 1]
    BY <2>1 DEF PowersTo
  <2>4. \A k \in 0..n : h[k] = g[k]
    BY <2>2
  <2>5. h[n + 1] = 2 * g[n]
    BY <2>2
  <2>6. h \in [0..(n + 1) -> Nat]
    <3>1. \A k \in 0..(n + 1) : (IF k <= n THEN g[k] ELSE 2 * g[n]) \in Nat
      BY <2>3
    <3> QED
      BY <2>2, <3>1
  <2>7. ASSUME NEW k \in 0..(n + 1) PROVE h[k] = IF k = 0 THEN 1 ELSE 2 * h[k - 1]
    <3>1. CASE k \in 0..n
      <4>1. k # 0 => k - 1 \in 0..n
        BY <3>1
      <4> QED
        BY <4>1, <3>1, <2>3, <2>4
    <3>2. CASE k = n + 1
      BY <3>2, <2>4, <2>5
    <3> QED
      BY <3>1, <3>2
  <2>8. PowersTo(n + 1, h)
    BY <2>6, <2>7 DEF PowersTo
  <2> QED
    BY <2>8
<1> HIDE DEF A
<1>3. Nat \subseteq A
  BY <1>1, <1>2, NatInductionSet
<1> QED
  BY <1>3 DEF A

LEMMA PowersAgree ==
  ASSUME NEW n \in Nat, NEW m \in Nat, NEW g, NEW h, PowersTo(n, g), PowersTo(m, h)
  PROVE  \A k \in Nat : k <= n /\ k <= m => g[k] = h[k]
<1> DEFINE A == {k \in Nat : k <= n /\ k <= m => g[k] = h[k]}
<1>1. 0 \in A
  BY DEF PowersTo
<1>2. ASSUME NEW k \in Nat, k \in A PROVE k + 1 \in A
  <2> SUFFICES ASSUME k + 1 <= n, k + 1 <= m PROVE g[k + 1] = h[k + 1]
    OBVIOUS
  <2>1. g[k] = h[k]
    BY <1>2
  <2>2. k + 1 \in 0..n /\ k + 1 \in 0..m /\ k + 1 # 0 /\ (k + 1) - 1 = k
    OBVIOUS
  <2> QED
    BY <2>1, <2>2 DEF PowersTo
<1> HIDE DEF A
<1>3. Nat \subseteq A
  BY <1>1, <1>2, NatInductionSet
<1> QED
  BY <1>3 DEF A

\* Pow2 doubles.
LEMMA Pow2Doubles ==
  /\ Pow2[0] = 1
  /\ \A k \in Nat : Pow2[k + 1] = 2 * Pow2[k] /\ Pow2[k] \in Nat \ {0} /\ k < Pow2[k]
<1> DEFINE Body(f) == [k \in Nat |-> IF k = 0 THEN 1 ELSE 2 * f[k - 1]]
           g(n) == CHOOSE g : PowersTo(n, g)
           h == [k \in Nat |-> g(k)[k]]
<1>1. \A n \in Nat : PowersTo(n, g(n))
  BY PowersExist
<1> HIDE DEF g
<1>2. h = Body(h)
  <2>1. ASSUME NEW k \in Nat PROVE h[k] = IF k = 0 THEN 1 ELSE 2 * h[k - 1]
    <3>1. CASE k = 0
      <4>1. g(0)[0] = 1
        BY <1>1 DEF PowersTo
      <4> QED
        BY <3>1, <4>1
    <3>2. CASE k # 0
      <4>1. k - 1 \in Nat /\ k - 1 <= k /\ k \in 0..k
        BY <3>2
      <4>2. g(k)[k] = 2 * g(k)[k - 1]
        BY <1>1, <3>2, <4>1 DEF PowersTo
      <4>3. g(k)[k - 1] = g(k - 1)[k - 1]
        <5>1. PICK a : a = g(k) /\ PowersTo(k, a)
          BY <1>1
        <5>2. PICK b : b = g(k - 1) /\ PowersTo(k - 1, b)
          BY <1>1, <4>1
        <5> QED
          BY <5>1, <5>2, <4>1, PowersAgree
      <4> QED
        BY <3>2, <4>1, <4>2, <4>3
    <3> QED
      BY <3>1, <3>2
  <2>2. h = [k \in Nat |-> h[k]]
    OBVIOUS
  <2> HIDE DEF h
  <2> QED
    BY <2>1, <2>2
<1> HIDE DEF h
<1>3. Pow2 = CHOOSE f : f = Body(f)
  BY DEF Pow2
<1>4. Pow2 = Body(Pow2)
  BY <1>2, <1>3, Zenon
<1>5. \A k \in Nat : Pow2[k] = IF k = 0 THEN 1 ELSE 2 * Pow2[k - 1]
  BY <1>4
<1>6. Pow2[0] = 1
  BY <1>5
<1>7. \A k \in Nat : Pow2[k + 1] = 2 * Pow2[k]
  BY <1>5
<1> DEFINE A == {k \in Nat : Pow2[k] \in Nat \ {0} /\ k < Pow2[k]}
<1>8. 0 \in A
  BY <1>6
<1>9. ASSUME NEW k \in Nat, k \in A PROVE k + 1 \in A
  BY <1>7, <1>9
<1> HIDE DEF A
<1>10. Nat \subseteq A
  BY <1>8, <1>9, NatInductionSet
<1> QED
  BY <1>6, <1>7, <1>10 DEF A

\* The padded tree has room for the leaves, and is the least that has.
Lower(n, d) == \A c \in 0..(d - 1) : Pow2[c] < n
LEMMA DepthIs ==
  ASSUME NEW n \in Nat \ {0}
  PROVE  Depth(n) \in Nat /\ Pow2[Depth(n)] >= n /\ Lower(n, Depth(n))
<1> DEFINE T == {d \in 0..n : Pow2[d] >= n}
<1>1. \A k \in Nat : Pow2[k] \in Nat /\ k < Pow2[k]
  BY Pow2Doubles
<1>2. n \in T
  BY <1>1
<1>3. T \subseteq Nat /\ T # {}
  BY <1>2
<1>4. PICK d \in T : \A c \in T : d <= c
  <2> HIDE DEF T
  <2> QED
    BY <1>3, LeastNatural
<1>5. \A c \in 0..(d - 1) : Pow2[c] < n
  <2> SUFFICES ASSUME NEW c \in 0..(d - 1) PROVE Pow2[c] < n
    OBVIOUS
  <2>1. c \in Nat /\ c \in 0..n /\ c < d
    BY <1>4
  <2>2. c \notin T
    BY <2>1, <1>4
  <2> QED
    BY <2>1, <2>2, <1>1
<1>6. \E c \in 0..n : Pow2[c] >= n /\ \A b \in 0..(c - 1) : Pow2[b] < n
  BY <1>4, <1>5
<1>7. /\ Depth(n) \in 0..n /\ Pow2[Depth(n)] >= n
      /\ \A c \in 0..(Depth(n) - 1) : Pow2[c] < n
  BY <1>6 DEF Depth
<1> QED
  BY <1>7 DEF Lower

-----------------------------------------------------------------------------
(* What is defined level by level                                            *)

\* Levels, Siblings and Climbed are defined level by level.
IsLevels(f, d, base) ==
  f = CHOOSE g : g = [k \in 0..d |-> IF k = 0 THEN base ELSE Parents(g[k - 1])]
LEMMA LevelsExist ==
  ASSUME NEW d \in Nat, NEW base,
         NEW f, IsLevels(f, d, base)
  PROVE  f[0] = base /\ \A k \in 1..d : f[k] = Parents(f[k - 1])
<1> DEFINE Body(n, g) == [k \in 0..n |-> IF k = 0 THEN base ELSE Parents(g[k - 1])]
           A == {n \in Nat : \E g : g = Body(n, g)}
<1>1. 0 \in A
  <2>1. PICK g : g = [k \in 0..0 |-> base]
    OBVIOUS
  <2>2. g = Body(0, g)
    BY <2>1
  <2> QED
    BY <2>2
<1>2. ASSUME NEW n \in Nat, n \in A PROVE n + 1 \in A
  <2>1. PICK g : g = Body(n, g)
    BY <1>2
  <2>2. PICK h : h = [k \in 0..(n + 1) |-> IF k <= n THEN g[k] ELSE Parents(g[k - 1])]
    OBVIOUS
  <2>3. \A k \in 0..(n + 1) : k # 0 => k - 1 \in 0..n
    OBVIOUS
  <2>4. \A k \in 0..n : g[k] = IF k = 0 THEN base ELSE Parents(g[k - 1])
    BY <2>1
  <2>5. \A k \in 0..(n + 1) : h[k] = IF k <= n THEN g[k] ELSE Parents(g[k - 1])
    BY <2>2
  <2>6. \A k \in 0..n : h[k] = g[k]
    BY <2>5
  <2>7. ASSUME NEW k \in 0..(n + 1) PROVE h[k] = IF k = 0 THEN base ELSE Parents(h[k - 1])
    <3>1. CASE k = 0
      BY <3>1, <2>4, <2>6
    <3>2. CASE k # 0
      <4>1. h[k - 1] = g[k - 1]
        BY <3>2, <2>3, <2>6
      <4>2. h[k] = Parents(g[k - 1])
        <5>1. h[k] = IF k <= n THEN g[k] ELSE Parents(g[k - 1])
          BY <2>5, Zenon
        <5>2. k <= n => g[k] = Parents(g[k - 1])
          <6> SUFFICES ASSUME k <= n PROVE g[k] = Parents(g[k - 1])
            OBVIOUS
          <6>1. k \in 0..n
            OBVIOUS
          <6> QED
            BY <6>1, <3>2, <2>4, Zenon
        <5> QED
          BY <5>1, <5>2, Zenon
      <4> QED
        BY <3>2, <4>1, <4>2
    <3> QED
      BY <3>1, <3>2
  <2>8. h = [k \in 0..(n + 1) |-> h[k]]
    BY <2>2
  <2>9. h = Body(n + 1, h)
    BY <2>7, <2>8
  <2> HIDE DEF Body
  <2> QED
    BY <2>9
<1> HIDE DEF A
<1>3. d \in A
  BY <1>1, <1>2, NatInductionSet
<1>4. \E g : g = Body(d, g)
  BY <1>3 DEF A
<1>5. f = Body(d, f)
  BY <1>4, Zenon DEF IsLevels
<1>6. 0 \in 0..d /\ \A k \in 1..d : k \in 0..d /\ k # 0
  OBVIOUS
<1>7. \A k \in 0..d : f[k] = IF k = 0 THEN base ELSE Parents(f[k - 1])
  BY <1>5
<1> QED
  BY <1>6, <1>7
\* The same of the siblings of a range.
Follow(f, d, levels, s, e) ==
  f[0] = << >> /\ \A k \in 1..d : f[k] = (f[k - 1] \o Neighbours(levels[k - 1], Pow2[d - (k - 1)], Low(s, k - 1), High(e, k - 1)))
IsSiblings(f, d, levels, s, e) ==
  f = CHOOSE g : g = [k \in 0..d |-> IF k = 0 THEN << >> ELSE (g[k - 1] \o Neighbours(levels[k - 1], Pow2[d - (k - 1)], Low(s, k - 1), High(e, k - 1)))]
LEMMA SiblingsExist ==
  ASSUME NEW d \in Nat, NEW levels, NEW s, NEW e,
         NEW f, IsSiblings(f, d, levels, s, e)
  PROVE  Follow(f, d, levels, s, e)
<1> DEFINE Body(n, g) == [k \in 0..n |-> IF k = 0 THEN << >> ELSE (g[k - 1] \o Neighbours(levels[k - 1], Pow2[d - (k - 1)], Low(s, k - 1), High(e, k - 1)))]
           A == {n \in Nat : \E g : g = Body(n, g)}
<1>1. 0 \in A
  <2>1. PICK g : g = [k \in 0..0 |-> << >>]
    OBVIOUS
  <2>2. g = Body(0, g)
    BY <2>1
  <2> QED
    BY <2>2
<1>2. ASSUME NEW n \in Nat, n \in A PROVE n + 1 \in A
  <2>1. PICK g : g = Body(n, g)
    BY <1>2
  <2>2. PICK h : h = [k \in 0..(n + 1) |-> IF k <= n THEN g[k] ELSE (g[k - 1] \o Neighbours(levels[k - 1], Pow2[d - (k - 1)], Low(s, k - 1), High(e, k - 1)))]
    OBVIOUS
  <2>3. \A k \in 0..(n + 1) : k # 0 => k - 1 \in 0..n
    OBVIOUS
  <2>4. \A k \in 0..n : g[k] = IF k = 0 THEN << >> ELSE (g[k - 1] \o Neighbours(levels[k - 1], Pow2[d - (k - 1)], Low(s, k - 1), High(e, k - 1)))
    BY <2>1
  <2>5. \A k \in 0..(n + 1) : h[k] = IF k <= n THEN g[k] ELSE (g[k - 1] \o Neighbours(levels[k - 1], Pow2[d - (k - 1)], Low(s, k - 1), High(e, k - 1)))
    BY <2>2
  <2>6. \A k \in 0..n : h[k] = g[k]
    BY <2>5
  <2>7. ASSUME NEW k \in 0..(n + 1) PROVE h[k] = IF k = 0 THEN << >> ELSE (h[k - 1] \o Neighbours(levels[k - 1], Pow2[d - (k - 1)], Low(s, k - 1), High(e, k - 1)))
    <3>1. CASE k = 0
      BY <3>1, <2>4, <2>6
    <3>2. CASE k # 0
      <4>1. h[k - 1] = g[k - 1]
        BY <3>2, <2>3, <2>6
      <4>2. h[k] = (g[k - 1] \o Neighbours(levels[k - 1], Pow2[d - (k - 1)], Low(s, k - 1), High(e, k - 1)))
        <5>1. h[k] = IF k <= n THEN g[k] ELSE (g[k - 1] \o Neighbours(levels[k - 1], Pow2[d - (k - 1)], Low(s, k - 1), High(e, k - 1)))
          BY <2>5, Zenon
        <5>2. k <= n => g[k] = (g[k - 1] \o Neighbours(levels[k - 1], Pow2[d - (k - 1)], Low(s, k - 1), High(e, k - 1)))
          <6> SUFFICES ASSUME k <= n PROVE g[k] = (g[k - 1] \o Neighbours(levels[k - 1], Pow2[d - (k - 1)], Low(s, k - 1), High(e, k - 1)))
            OBVIOUS
          <6>1. k \in 0..n
            OBVIOUS
          <6> QED
            BY <6>1, <3>2, <2>4, Zenon
        <5> QED
          BY <5>1, <5>2, Zenon
      <4> QED
        BY <3>2, <4>1, <4>2
    <3> QED
      BY <3>1, <3>2
  <2>8. h = [k \in 0..(n + 1) |-> h[k]]
    BY <2>2
  <2>9. h = Body(n + 1, h)
    BY <2>7, <2>8
  <2> HIDE DEF Body
  <2> QED
    BY <2>9
<1> HIDE DEF A
<1>3. d \in A
  BY <1>1, <1>2, NatInductionSet
<1>4. \E g : g = Body(d, g)
  BY <1>3 DEF A
<1>5. f = Body(d, f)
  BY <1>4, Zenon DEF IsSiblings
<1>6. 0 \in 0..d /\ \A k \in 1..d : k \in 0..d /\ k # 0
  OBVIOUS
<1>7. \A k \in 0..d : f[k] = IF k = 0 THEN << >> ELSE (f[k - 1] \o Neighbours(levels[k - 1], Pow2[d - (k - 1)], Low(s, k - 1), High(e, k - 1)))
  BY <1>5
<1> QED
  BY <1>6, <1>7 DEF Follow
\* The same of the climb from a range.
IsClimb(f, d, base, s) ==
  f = CHOOSE g : g = [k \in 0..d |-> IF k = 0 THEN base ELSE Climb(g[k - 1], Low(s, k - 1) % 2 = 1)]
LEMMA ClimbExists ==
  ASSUME NEW d \in Nat, NEW base, NEW s,
         NEW f, IsClimb(f, d, base, s)
  PROVE  f[0] = base /\ \A k \in 1..d : f[k] = Climb(f[k - 1], Low(s, k - 1) % 2 = 1)
<1> DEFINE Body(n, g) == [k \in 0..n |-> IF k = 0 THEN base ELSE Climb(g[k - 1], Low(s, k - 1) % 2 = 1)]
           A == {n \in Nat : \E g : g = Body(n, g)}
<1>1. 0 \in A
  <2>1. PICK g : g = [k \in 0..0 |-> base]
    OBVIOUS
  <2>2. g = Body(0, g)
    BY <2>1
  <2> QED
    BY <2>2
<1>2. ASSUME NEW n \in Nat, n \in A PROVE n + 1 \in A
  <2>1. PICK g : g = Body(n, g)
    BY <1>2
  <2>2. PICK h : h = [k \in 0..(n + 1) |-> IF k <= n THEN g[k] ELSE Climb(g[k - 1], Low(s, k - 1) % 2 = 1)]
    OBVIOUS
  <2>3. \A k \in 0..(n + 1) : k # 0 => k - 1 \in 0..n
    OBVIOUS
  <2>4. \A k \in 0..n : g[k] = IF k = 0 THEN base ELSE Climb(g[k - 1], Low(s, k - 1) % 2 = 1)
    BY <2>1
  <2>5. \A k \in 0..(n + 1) : h[k] = IF k <= n THEN g[k] ELSE Climb(g[k - 1], Low(s, k - 1) % 2 = 1)
    BY <2>2
  <2>6. \A k \in 0..n : h[k] = g[k]
    BY <2>5
  <2>7. ASSUME NEW k \in 0..(n + 1) PROVE h[k] = IF k = 0 THEN base ELSE Climb(h[k - 1], Low(s, k - 1) % 2 = 1)
    <3>1. CASE k = 0
      BY <3>1, <2>4, <2>6
    <3>2. CASE k # 0
      <4>1. h[k - 1] = g[k - 1]
        BY <3>2, <2>3, <2>6
      <4>2. h[k] = Climb(g[k - 1], Low(s, k - 1) % 2 = 1)
        <5>1. h[k] = IF k <= n THEN g[k] ELSE Climb(g[k - 1], Low(s, k - 1) % 2 = 1)
          BY <2>5, Zenon
        <5>2. k <= n => g[k] = Climb(g[k - 1], Low(s, k - 1) % 2 = 1)
          <6> SUFFICES ASSUME k <= n PROVE g[k] = Climb(g[k - 1], Low(s, k - 1) % 2 = 1)
            OBVIOUS
          <6>1. k \in 0..n
            OBVIOUS
          <6> QED
            BY <6>1, <3>2, <2>4, Zenon
        <5> QED
          BY <5>1, <5>2, Zenon
      <4> QED
        BY <3>2, <4>1, <4>2
    <3> QED
      BY <3>1, <3>2
  <2>8. h = [k \in 0..(n + 1) |-> h[k]]
    BY <2>2
  <2>9. h = Body(n + 1, h)
    BY <2>7, <2>8
  <2> HIDE DEF Body
  <2> QED
    BY <2>9
<1> HIDE DEF A
<1>3. d \in A
  BY <1>1, <1>2, NatInductionSet
<1>4. \E g : g = Body(d, g)
  BY <1>3 DEF A
<1>5. f = Body(d, f)
  BY <1>4, Zenon DEF IsClimb
<1>6. 0 \in 0..d /\ \A k \in 1..d : k \in 0..d /\ k # 0
  OBVIOUS
<1>7. \A k \in 0..d : f[k] = IF k = 0 THEN base ELSE Climb(f[k - 1], Low(s, k - 1) % 2 = 1)
  BY <1>5
<1> QED
  BY <1>6, <1>7

-----------------------------------------------------------------------------
(* The nodes of a range on each level                                        *)

\* A number of pairs has one quotient.
LEMMA QuotientUnique ==
  ASSUME NEW m \in Nat \ {0}, NEW x \in Int, NEW y \in Int, NEW r \in 0..(m - 1),
         NEW s \in 0..(m - 1), m * x + r = m * y + s
  PROVE  x = y
<1>1. r = s
  BY RemainderUnique
<1>2. PICK z \in Int : z = x - y /\ m * z = 0
  BY <1>1
<1>3. z < 1
  <2> SUFFICES ASSUME z >= 1 PROVE FALSE
    OBVIOUS
  <2>1. m * z >= m * 1
    OBVIOUS
  <2> QED
    BY <2>1, <1>2
<1>4. z > -1
  <2> SUFFICES ASSUME z <= -1 PROVE FALSE
    OBVIOUS
  <2>1. m * z <= m * (-1)
    OBVIOUS
  <2> QED
    BY <2>1, <1>2
<1> QED
  BY <1>2, <1>3, <1>4

\* Dividing by twice a number is halving what it divides into, and one more
\* of it is one more in the quotient.
LEMMA DivideTwice ==
  ASSUME NEW m \in Nat \ {0}, NEW a \in Nat
  PROVE  a \div m \in Nat /\ a \div (2 * m) = (a \div m) \div 2 /\ (a + m) \div m = (a \div m) + 1
<1>1. PICK q \in Int, r \in 0..(m - 1) : q = a \div m /\ a = m * q + r
  BY DivFacts
<1>2. q \in Nat
  <2>1. q >= 0
    BY <1>1, QuotientBounds
  <2> QED
    BY <2>1
<1>3. PICK p \in Nat, t \in 0..1 : p = q \div 2 /\ q = 2 * p + t
  BY <1>2
<1>4. PICK n \in Nat \ {0} : n = 2 * m
  OBVIOUS
<1>5. PICK x \in Int, y \in 0..(n - 1) : x = a \div n /\ a = n * x + y
  BY DivFacts
<1>6. PICK u \in Int : u = m * t + r
  OBVIOUS
<1>7. u \in 0..(n - 1)
  <2>1. t = 0 => u = r
    BY <1>6
  <2>2. t = 1 => u = m + r
    BY <1>6
  <2> QED
    BY <2>1, <2>2, <1>4
<1>8. m * q = n * p + m * t
  BY <1>3, <1>4
<1>9. n * p + u = n * x + y
  <2>1. PICK b \in Int, c \in Int : b = n * p /\ c = m * t
    OBVIOUS
  <2>2. m * q = b + c
    BY <1>8, <2>1
  <2>3. a = b + c + r /\ u = c + r
    BY <1>1, <1>6, <2>1, <2>2
  <2>4. n * p + u = a
    BY <2>1, <2>3
  <2> QED
    BY <2>4, <1>5
<1>10. p = x
  BY <1>7, <1>9, QuotientUnique
<1>11. (a + m) \div m = q + 1
  <2>1. PICK b \in Int : b = a + m
    OBVIOUS
  <2>2. PICK v \in Int, w \in 0..(m - 1) : v = b \div m /\ b = m * v + w
    BY DivFacts
  <2>3. PICK c \in Int : c = q + 1
    OBVIOUS
  <2>4. m * c = m * q + m
    BY <2>3
  <2>5. m * c + r = m * v + w
    BY <2>1, <2>2, <2>4, <1>1
  <2>6. c = v
    BY <2>5, QuotientUnique
  <2> QED
    BY <2>1, <2>2, <2>3, <2>6
<1> QED
  BY <1>1, <1>2, <1>3, <1>4, <1>5, <1>10, <1>11

\* The range of nodes, from one level to the next.
Halves(s, e, k) ==
  Low(s, k + 1) = Low(s, k) \div 2 /\ High(e, k + 1) = (High(e, k) + 1) \div 2
LEMMA RangesHalve ==
  ASSUME NEW s \in Nat, NEW e \in Nat, s < e
  PROVE  Low(s, 0) = s /\ High(e, 0) = e /\ \A k \in Nat : Halves(s, e, k)
<1>1. Low(s, 0) = s /\ High(e, 0) = e
  BY Pow2Doubles DEF Low, High
<1>2. ASSUME NEW k \in Nat
      PROVE  Low(s, k + 1) = Low(s, k) \div 2 /\ High(e, k + 1) = (High(e, k) + 1) \div 2
  <2>1. PICK m \in Nat \ {0} : m = Pow2[k] /\ Pow2[k + 1] = 2 * m
    BY Pow2Doubles
  <2>2. s \div (2 * m) = (s \div m) \div 2
    BY DivideTwice
  <2>3. PICK a \in Nat : a = e + m - 1
    OBVIOUS
  <2>4. (a + m) \div m = (a \div m) + 1
    BY DivideTwice
  <2>5. PICK b \in Nat : b = a + m
    OBVIOUS
  <2>6. b \div (2 * m) = (b \div m) \div 2
    BY DivideTwice
  <2>7. e + Pow2[k + 1] - 1 = b
    BY <2>1, <2>3, <2>5
  <2>8. High(e, k + 1) = (b \div m) \div 2 /\ High(e, k) = a \div m
    BY <2>1, <2>3, <2>6, <2>7 DEF High
  <2>9. Low(s, k + 1) = (s \div m) \div 2 /\ Low(s, k) = s \div m
    BY <2>1, <2>2 DEF Low
  <2> QED
    BY <2>4, <2>5, <2>8, <2>9
<1> QED
  BY <1>1, <1>2 DEF Halves

\* On every level the range is not empty and within it; on the top it is the root.
RangeFits(s, e, d, k) ==
  Low(s, k) \in Nat /\ High(e, k) \in Nat /\ Low(s, k) < High(e, k) /\ High(e, k) <= Pow2[d - k]
LEMMA RangesFit ==
  ASSUME NEW s \in Nat, NEW e \in Nat, s < e, NEW d \in Nat, e <= Pow2[d]
  PROVE  \A k \in 0..d : RangeFits(s, e, d, k)
<1> DEFINE Fit(k) == RangeFits(s, e, d, k)
           A == {k \in Nat : k <= d => Fit(k)}
<1> USE DEF RangeFits
<1>1. 0 \in A
  BY RangesHalve
<1>2. ASSUME NEW k \in Nat, k \in A PROVE k + 1 \in A
  <2> SUFFICES ASSUME k + 1 <= d PROVE Fit(k + 1)
    OBVIOUS
  <2>1. Fit(k)
    BY <1>2
  <2>2. d - (k + 1) \in Nat /\ (d - (k + 1)) + 1 = d - k
    OBVIOUS
  <2>3. PICK p \in Nat : p = Pow2[d - (k + 1)] /\ Pow2[d - k] = 2 * p
    BY <2>2, Pow2Doubles
  <2>4. PICK l \in Nat, h \in Nat : l = Low(s, k) /\ h = High(e, k)
    BY <2>1
  <2>5. Low(s, k + 1) = l \div 2 /\ High(e, k + 1) = (h + 1) \div 2
    BY <2>4, RangesHalve DEF Halves
  <2>6. l < h /\ h <= 2 * p
    BY <2>1, <2>3, <2>4
  <2>7. l \div 2 \in Nat /\ (h + 1) \div 2 \in Nat /\ l \div 2 < (h + 1) \div 2 /\ (h + 1) \div 2 <= p
    BY <2>6
  <2> QED
    BY <2>3, <2>5, <2>7
<1> HIDE DEF A
<1>3. Nat \subseteq A
  BY <1>1, <1>2, NatInductionSet
<1> QED
  BY <1>3 DEF A

LEMMA EvenOrOdd ==
  ASSUME NEW n \in Nat
  PROVE  /\ n \div 2 \in Nat /\ n % 2 \in {0, 1}
         /\ n % 2 = 1 => n >= 1 /\ 2 * (n \div 2) = n - 1 /\ 2 * ((n + 1) \div 2) = n + 1
         /\ n % 2 # 1 => 2 * (n \div 2) = n /\ 2 * ((n + 1) \div 2) = n
OBVIOUS
LEMMA EvenApart ==
  ASSUME NEW lo \in Nat, NEW hi \in Nat, lo < hi, lo % 2 = 0
  PROVE  (hi - lo) % 2 = hi % 2
OBVIOUS

\* The first n nodes of a level.
NodesIn(level, n, H) == \A i \in 1..n : level[i] \in H
LEMMA FewerNodes ==
  ASSUME NEW H, NEW level, NEW m \in Nat, NEW n \in Nat, n <= m, NodesIn(level, m, H)
  PROVE  NodesIn(level, n, H)
BY DEF NodesIn

\* The nodes of a level from lo up to hi, which a climb holds.
Window(level, lo, hi) == [i \in 1..(hi - lo) |-> level[lo + i]]

IsWindow(w, level, lo, hi, H) ==
  w \in Seq(H) /\ Len(w) = hi - lo /\ \A i \in 1..(hi - lo) : w[i] = level[lo + i]
LEMMA WindowIs ==
  ASSUME NEW H, NEW level, NEW lo \in Nat, NEW hi \in Nat, lo <= hi,
         NodesIn(level, hi, H)
  PROVE  IsWindow(Window(level, lo, hi), level, lo, hi, H)
<1> DEFINE w == Window(level, lo, hi)
<1>1. hi - lo \in Nat /\ \A i \in 1..(hi - lo) : lo + i \in 1..hi
  OBVIOUS
<1>2. \A i \in 1..(hi - lo) : level[lo + i] \in H
  BY <1>1 DEF NodesIn
<1>3. w \in [1..(hi - lo) -> H]
  BY <1>2 DEF Window
<1>4. w \in Seq(H)
  BY <1>1, <1>3, SeqDef
<1>5. DOMAIN w = 1..(hi - lo) /\ DOMAIN w = 1..Len(w) /\ Len(w) \in Nat
  BY <1>3, <1>4, LenProperties
<1>6. Len(w) = hi - lo
  <2> HIDE DEF w
  <2>1. PICK n \in Nat : n = hi - lo
    BY <1>1
  <2>2. 1..n = 1..Len(w)
    BY <1>5, <2>1
  <2> QED
    BY <2>1, <2>2, <1>5
<1> QED
  BY <1>4, <1>6 DEF Window, IsWindow

\* A climb that holds a window, with t yet to be used.
At(at, level, lo, hi, t) == at.nodes = Window(level, lo, hi) /\ at.rest = t

\* What is first of what was sent.
LEMMA HeadOfCat ==
  ASSUME NEW H, NEW x \in H, NEW t \in Seq(H)
  PROVE  /\ <<x>> \o t \in Seq(H) /\ <<x>> \o t # << >>
         /\ Head(<<x>> \o t) = x /\ Tail(<<x>> \o t) = t
<1>1. <<x>> \in Seq(H) /\ Len(<<x>>) = 1 /\ <<x>>[1] = x
  OBVIOUS
<1>2. PICK c : c = <<x>> \o t
  OBVIOUS
<1>3. c \in Seq(H) /\ Len(c) = 1 + Len(t) /\ \A i \in 1..(1 + Len(t)) : c[i] = IF i <= 1 THEN x ELSE t[i - 1]
  BY <1>1, <1>2, ConcatProperties
<1>4. Len(t) \in Nat
  BY LenProperties
<1>5. c # << >> /\ c[1] = x
  BY <1>3, <1>4, EmptySeq
<1>6. Tail(c) \in Seq(H) /\ Len(Tail(c)) = Len(t) /\ \A i \in 1..Len(t) : Tail(c)[i] = c[i + 1]
  BY <1>3, <1>4, <1>5, HeadTailProperties
<1>7. \A i \in 1..Len(t) : Tail(c)[i] = t[i]
  BY <1>3, <1>4, <1>6
<1>8. Tail(c) = t
  BY <1>6, <1>7, SeqEqual
<1>9. Head(c) = x
  BY <1>3, <1>5
<1> QED
  BY <1>2, <1>3, <1>5, <1>8, <1>9

\* A range that begins inside a pair takes its left neighbour.
LEMMA TakesLeft ==
  ASSUME NEW H, NEW level, NEW lo \in Nat, NEW hi \in Nat, lo < hi,
         NodesIn(level, hi, H), NEW t \in Seq(H), NEW at,
         At(at, level, lo, hi, LeftOf(level, lo) \o t)
  PROVE  At(TakeLeft(at, lo % 2 = 1), level, 2 * (lo \div 2), hi, t)
<1> DEFINE l == TakeLeft(at, lo % 2 = 1)
<1> USE DEF At
<1>1. CASE lo % 2 = 1
  <2>1. lo - 1 \in Nat /\ 2 * (lo \div 2) = lo - 1 /\ lo \in 1..hi
    BY <1>1, EvenOrOdd
  <2>2. PICK x \in H : x = level[lo]
    BY <2>1 DEF NodesIn
  <2>3. at.rest = <<x>> \o t
    BY <1>1, <2>2 DEF LeftOf
  <2>4. Sibling(at.rest) = x /\ Behind(at.rest) = t
    BY <2>3, HeadOfCat DEF Sibling, Behind
  <2>5. PICK w \in Seq(H) : /\ w = Window(level, lo, hi) /\ Len(w) = hi - lo
                            /\ \A i \in 1..(hi - lo) : w[i] = level[lo + i]
    <3>1. lo <= hi
      OBVIOUS
    <3>2. IsWindow(Window(level, lo, hi), level, lo, hi, H)
      BY <3>1, WindowIs
    <3> QED
      BY <3>2 DEF IsWindow
  <2>6. PICK v \in Seq(H) : /\ v = Window(level, lo - 1, hi) /\ Len(v) = hi - (lo - 1)
                            /\ \A i \in 1..(hi - (lo - 1)) : v[i] = level[(lo - 1) + i]
    <3>1. PICK b \in Nat : b = lo - 1 /\ b <= hi
      BY <2>1
    <3>3. PICK v : v = Window(level, b, hi)
      OBVIOUS
    <3>4. IsWindow(v, level, b, hi, H)
      BY <3>1, <3>3, WindowIs
    <3> QED
      BY <3>1, <3>3, <3>4 DEF IsWindow
  <2>7. <<x>> \in Seq(H) /\ Len(<<x>>) = 1 /\ <<x>>[1] = x
    OBVIOUS
  <2>8. PICK c : c = <<x>> \o w
    OBVIOUS
  <2>9. /\ c \in Seq(H) /\ Len(c) = 1 + (hi - lo)
        /\ \A i \in 1..(1 + (hi - lo)) : c[i] = IF i <= 1 THEN x ELSE w[i - 1]
    <3>1. PICK o \in Seq(H) : o = <<x>> /\ Len(o) = 1 /\ o[1] = x
      BY <2>7
    <3>2. /\ c \in Seq(H) /\ Len(c) = Len(o) + Len(w)
          /\ \A i \in 1..(Len(o) + Len(w)) : c[i] = IF i <= Len(o) THEN o[i] ELSE w[i - Len(o)]
      BY <2>8, <3>1, ConcatProperties
    <3> QED
      BY <2>5, <3>1, <3>2
  <2>10. Len(c) = Len(v)
    BY <2>6, <2>9
  <2>11. \A i \in 1..Len(c) : c[i] = v[i]
    <3> SUFFICES ASSUME NEW i \in 1..Len(c) PROVE c[i] = v[i]
      OBVIOUS
    <3>1. CASE i = 1
      BY <3>1, <2>1, <2>2, <2>6, <2>9
    <3>2. CASE i > 1
      <4>1. i - 1 \in 1..(hi - lo) /\ lo + (i - 1) = (lo - 1) + i
        <5>1. i \in Nat /\ i <= 1 + (hi - lo)
          BY <2>9
        <5>2. PICK n \in Nat : n = hi - lo
          OBVIOUS
        <5> QED
          BY <3>2, <5>1, <5>2
      <4>2. c[i] = w[i - 1] /\ w[i - 1] = level[lo + (i - 1)] /\ v[i] = level[(lo - 1) + i]
        BY <3>2, <4>1, <2>5, <2>6, <2>9
      <4> QED
        BY <4>1, <4>2
    <3> QED
      BY <3>1, <3>2, <2>9
  <2>12. c = v
    BY <2>6, <2>9, <2>10, <2>11, SeqEqual
  <2>13. l.nodes = c /\ l.rest = t
    BY <1>1, <2>4, <2>5, <2>8 DEF TakeLeft
  <2> QED
    BY <2>1, <2>6, <2>12, <2>13
<1>2. CASE lo % 2 # 1
  <2>1. 2 * (lo \div 2) = lo
    BY <1>2, EvenOrOdd
  <2>2. at.rest = t
    BY <1>2, ConcatEmptySeq DEF LeftOf
  <2> QED
    BY <1>2, <2>1, <2>2 DEF TakeLeft
<1> QED
  BY <1>1, <1>2

\* A node that is left over takes its right neighbour.
LEMMA TakesRight ==
  ASSUME NEW H, NEW level, NEW lo \in Nat, NEW hi \in Nat, NEW m \in Nat, lo < hi, lo % 2 = 0,
         hi <= m, m % 2 = 0, NodesIn(level, m, H), NEW t \in Seq(H), NEW l,
         At(l, level, lo, hi, RightOf(level, m, hi) \o t)
  PROVE  At(TakeRight(l), level, lo, 2 * ((hi + 1) \div 2), t)
<1> DEFINE r == TakeRight(l)
<1> USE DEF At
<1>1. PICK w \in Seq(H) : /\ w = Window(level, lo, hi) /\ Len(w) = hi - lo
                          /\ \A i \in 1..(hi - lo) : w[i] = level[lo + i]
  <2>1. lo <= hi
    OBVIOUS
  <2>2. NodesIn(level, hi, H)
    BY FewerNodes
  <2>3. IsWindow(Window(level, lo, hi), level, lo, hi, H)
    BY <2>1, <2>2, WindowIs
  <2> QED
    BY <2>3 DEF IsWindow
<1>2. (hi - lo) % 2 = hi % 2
  BY EvenApart
<1>3. CASE hi % 2 = 1
  <2>0. hi # m
    BY <1>3
  <2>1. hi < m /\ 2 * ((hi + 1) \div 2) = hi + 1 /\ hi + 1 \in 1..m
    <3>1. 2 * ((hi + 1) \div 2) = hi + 1
      BY <1>3, EvenOrOdd
    <3>2. hi < m
      BY <2>0
    <3>3. hi + 1 \in 1..m
      BY <3>2
    <3> QED
      BY <3>1, <3>2, <3>3
  <2>2. PICK x \in H : x = level[hi + 1]
    BY <2>1 DEF NodesIn
  <2>3. l.rest = <<x>> \o t
    BY <1>3, <2>1, <2>2 DEF RightOf
  <2>4. Sibling(l.rest) = x /\ Behind(l.rest) = t
    BY <2>3, HeadOfCat DEF Sibling, Behind
  <2>5. r = [nodes |-> Append(w, x), rest |-> t]
    BY <1>1, <1>2, <1>3, <2>4 DEF TakeRight
  <2>6. PICK v \in Seq(H) : /\ v = Window(level, lo, hi + 1) /\ Len(v) = (hi + 1) - lo
                            /\ \A i \in 1..((hi + 1) - lo) : v[i] = level[lo + i]
    <3>1. PICK b \in Nat : b = hi + 1 /\ lo <= b /\ b <= m
      BY <2>1
    <3>2. NodesIn(level, b, H)
      BY <3>1, FewerNodes
    <3>3. IsWindow(Window(level, lo, b), level, lo, b, H)
      BY <3>1, <3>2, WindowIs
    <3> QED
      BY <3>1, <3>3 DEF IsWindow
  <2>7. PICK c : c = Append(w, x)
    OBVIOUS
  <2>8. /\ c \in Seq(H) /\ Len(c) = (hi - lo) + 1 /\ \A i \in 1..(hi - lo) : c[i] = w[i]
        /\ c[(hi - lo) + 1] = x
    <3>1. /\ c \in Seq(H) /\ Len(c) = Len(w) + 1 /\ \A i \in 1..Len(w) : c[i] = w[i]
          /\ c[Len(w) + 1] = x
      BY <2>7, AppendProperties
    <3> QED
      BY <3>1, <1>1
  <2>9. \A i \in 1..Len(c) : c[i] = v[i]
    <3> SUFFICES ASSUME NEW i \in 1..Len(c) PROVE c[i] = v[i]
      OBVIOUS
    <3>1. CASE i = (hi - lo) + 1
      <4>1. lo + i = hi + 1
        BY <3>1
      <4> QED
        BY <3>1, <4>1, <2>2, <2>6, <2>8
    <3>2. CASE i \in 1..(hi - lo)
      BY <3>2, <1>1, <2>6, <2>8
    <3> QED
      BY <3>1, <3>2, <2>8
  <2>10. c = v
    BY <2>6, <2>8, <2>9, SeqEqual
  <2>11. r.nodes = c /\ r.rest = t
    BY <2>5, <2>7
  <2>12. Window(level, lo, 2 * ((hi + 1) \div 2)) = c
    BY <2>1, <2>6, <2>10
  <2> QED
    BY <2>11, <2>12
<1>4. CASE hi % 2 # 1
  <2>1. 2 * ((hi + 1) \div 2) = hi
    BY <1>4, EvenOrOdd
  <2>2. l.rest = t
    BY <1>4, ConcatEmptySeq DEF RightOf
  <2> QED
    BY <1>1, <1>2, <1>4, <2>1, <2>2 DEF TakeRight
<1> QED
  BY <1>3, <1>4

\* The length of what is defined for the numbers up to m.
LEMMA LenOfFcn ==
  ASSUME NEW m \in Nat, NEW g, DOMAIN g = 1..m, g = [i \in DOMAIN g |-> g[i]]
  PROVE  Len(g) = m
<1> DEFINE V == {g[i] : i \in 1..m}
<1>1. g \in [1..m -> V]
  OBVIOUS
<1> HIDE DEF V
<1>2. g \in Seq(V)
  BY <1>1, SeqDef
<1>3. DOMAIN g = 1..Len(g) /\ Len(g) \in Nat
  BY <1>2, LenProperties
<1>4. 1..m = 1..Len(g)
  BY <1>3
<1> QED
  BY <1>3, <1>4

\* The level above one of an even number of nodes.
LEMMA ParentsAre ==
  ASSUME NEW level, NEW half \in Nat, Len(level) = 2 * half
  PROVE  /\ Len(Parents(level)) = half
         /\ \A i \in 1..half : Parents(level)[i] = NodeHash(level[2 * i - 1], level[2 * i])
<1>1. Len(level) \div 2 = half
  OBVIOUS
<1>2. Parents(level) = [i \in 1..half |-> NodeHash(level[2 * i - 1], level[2 * i])]
  BY <1>1 DEF Parents
<1>3. Len(Parents(level)) = half
  BY <1>2, LenOfFcn
<1> QED
  BY <1>2, <1>3

\* The parents of a window are a window of the parents.
LEMMA PairsUp ==
  ASSUME NEW level, NEW half \in Nat, Len(level) = 2 * half, NEW l \in Nat, NEW h \in Nat,
         l <= h, h <= half
  PROVE  Parents(Window(level, 2 * l, 2 * h)) = Window(Parents(level), l, h)
<1>1. PICK n \in Nat : n = h - l /\ 2 * h - 2 * l = 2 * n
  OBVIOUS
<1>2. PICK w : w = Window(level, 2 * l, 2 * h)
  OBVIOUS
<1>3. w = [i \in 1..(2 * n) |-> level[2 * l + i]]
  BY <1>1, <1>2 DEF Window
<1>4. 2 * n \in Nat /\ Len(w) = 2 * n
  BY <1>3, LenOfFcn
<1>5. Len(w) \div 2 = n
  BY <1>4
<1>6. Parents(w) = [i \in 1..n |-> NodeHash(w[2 * i - 1], w[2 * i])]
  BY <1>5 DEF Parents
<1>7. Window(Parents(level), l, h) = [i \in 1..n |-> Parents(level)[l + i]]
  BY <1>1 DEF Window
<1>8. ASSUME NEW i \in 1..n PROVE NodeHash(w[2 * i - 1], w[2 * i]) = Parents(level)[l + i]
  <2>1. 2 * i - 1 \in 1..(2 * n) /\ 2 * i \in 1..(2 * n) /\ l + i \in 1..half
    BY <1>1
  <2>2. w[2 * i - 1] = level[2 * l + (2 * i - 1)] /\ w[2 * i] = level[2 * l + 2 * i]
    BY <2>1, <1>3
  <2>3. 2 * l + (2 * i - 1) = 2 * (l + i) - 1 /\ 2 * l + 2 * i = 2 * (l + i)
    OBVIOUS
  <2>4. Parents(level)[l + i] = NodeHash(level[2 * (l + i) - 1], level[2 * (l + i)])
    BY <2>1, ParentsAre
  <2> QED
    BY <2>2, <2>3, <2>4
<1> QED
  BY <1>2, <1>6, <1>7, <1>8

\* One level of a climb that has its siblings.
LEMMA ClimbIs ==
  ASSUME NEW H, NEW level, NEW half \in Nat, Len(level) = 2 * half, NodesIn(level, 2 * half, H),
         NEW lo \in Nat, NEW hi \in Nat, lo < hi, hi <= 2 * half, NEW t \in Seq(H), NEW at,
         At(at, level, lo, hi, Neighbours(level, 2 * half, lo, hi) \o t)
  PROVE  At(Climb(at, lo % 2 = 1), Parents(level), lo \div 2, (hi + 1) \div 2, t)
<1>0. PICK m \in Nat : m = 2 * half /\ m % 2 = 0
  OBVIOUS
<1>1. LeftOf(level, lo) \in Seq(H)
  <2>1. lo % 2 = 1 => lo \in 1..m
    BY <1>0, EvenOrOdd
  <2>2. CASE lo % 2 = 1
    <3>1. level[lo] \in H
      BY <1>0, <2>1, <2>2 DEF NodesIn
    <3> QED
      BY <2>2, <3>1 DEF LeftOf
  <2>3. CASE lo % 2 # 1
    BY <2>3, EmptySeq DEF LeftOf
  <2> QED
    BY <2>2, <2>3
<1>2. RightOf(level, m, hi) \in Seq(H)
  <2>1. hi < m => hi + 1 \in 1..m
    OBVIOUS
  <2>2. CASE hi % 2 = 1 /\ hi < m
    <3>1. level[hi + 1] \in H
      BY <1>0, <2>1, <2>2 DEF NodesIn
    <3> QED
      BY <2>2, <3>1 DEF RightOf
  <2>3. CASE ~(hi % 2 = 1 /\ hi < m)
    BY <2>3, EmptySeq DEF RightOf
  <2> QED
    BY <2>2, <2>3
<1>3. PICK u \in Seq(H) : u = RightOf(level, m, hi) \o t
  BY <1>2, ConcatProperties
<1>4. at.rest = LeftOf(level, lo) \o u
  BY <1>0, <1>1, <1>2, <1>3, ConcatAssociative DEF Neighbours, At
<1>5. PICK l : l = TakeLeft(at, lo % 2 = 1)
  OBVIOUS
<1>6. NodesIn(level, hi, H)
  BY <1>0, FewerNodes
<1>7. At(l, level, 2 * (lo \div 2), hi, u)
  <2>1. At(at, level, lo, hi, LeftOf(level, lo) \o u)
    BY <1>4 DEF At
  <2> QED
    BY <2>1, <1>5, <1>6, TakesLeft
<1>8. PICK a \in Nat : a = 2 * (lo \div 2) /\ a % 2 = 0 /\ a < hi
  BY EvenOrOdd
<1>9. PICK r : r = TakeRight(l)
  OBVIOUS
<1>10. At(l, level, a, hi, RightOf(level, m, hi) \o t)
  BY <1>3, <1>7, <1>8
<1>11. At(r, level, a, 2 * ((hi + 1) \div 2), t)
  <2>1. hi <= m
    BY <1>0
  <2>2. NodesIn(level, m, H)
    BY <1>0
  <2> QED
    BY <2>1, <2>2, <1>0, <1>8, <1>9, <1>10, TakesRight
<1>12. PICK b \in Nat, c \in Nat : b = lo \div 2 /\ c = (hi + 1) \div 2 /\ b <= c /\ c <= half
  <2>1. lo \div 2 \in Nat /\ (hi + 1) \div 2 \in Nat /\ lo \div 2 <= (hi + 1) \div 2
        /\ (hi + 1) \div 2 <= half
    OBVIOUS
  <2> QED
    BY <2>1
<1>13. Parents(r.nodes) = Window(Parents(level), b, c)
  BY <1>8, <1>11, <1>12, PairsUp DEF At
<1>14. Climb(at, lo % 2 = 1) = [nodes |-> Parents(r.nodes), rest |-> r.rest]
  BY <1>5, <1>9 DEF Climb
<1>15. r.rest = t
  BY <1>11 DEF At
<1> QED
  BY <1>12, <1>13, <1>14, <1>15 DEF At

-----------------------------------------------------------------------------
(* Proofs of ranges                                                          *)

\* The levels of the tree over some leaves, each half as long as the one below.
TreeOf(leaves, lv, d) ==
  /\ d \in Nat /\ Len(leaves) <= Pow2[d]
  /\ lv[0] = Padded(leaves) /\ \A k \in 1..d : lv[k] = Parents(lv[k - 1])
  /\ \A k \in 0..d : Len(lv[k]) = Pow2[d - k]
LEMMA LevelsAre ==
  ASSUME NEW leaves, Len(leaves) \in Nat \ {0}, NEW d, d = Depth(Len(leaves)),
         NEW lv, lv = Levels(leaves)
  PROVE  TreeOf(leaves, lv, d)
<1>1. d \in Nat /\ Len(leaves) <= Pow2[d]
  BY DepthIs
<1>2. lv[0] = Padded(leaves) /\ \A k \in 1..d : lv[k] = Parents(lv[k - 1])
  <2>1. IsLevels(lv, Depth(Len(leaves)), Padded(leaves))
    BY DEF Levels, IsLevels
  <2> QED
    BY <2>1, <1>1, LevelsExist
<1>3. \A k \in Nat : Pow2[k] \in Nat \ {0} /\ Pow2[k + 1] = 2 * Pow2[k]
  BY Pow2Doubles
<1> DEFINE A == {k \in Nat : k <= d => Len(lv[k]) = Pow2[d - k]}
<1>4. 0 \in A
  <2>1. PICK m \in Nat : m = Pow2[d]
    BY <1>1, <1>3
  <2>2. lv[0] = [i \in 1..m |-> IF i <= Len(leaves) THEN leaves[i] ELSE Zero]
    BY <2>1, <1>2 DEF Padded
  <2>3. DOMAIN lv[0] = 1..m /\ lv[0] = [i \in DOMAIN lv[0] |-> lv[0][i]]
    BY <2>2
  <2>4. Len(lv[0]) = m
    BY <2>3, LenOfFcn
  <2> QED
    BY <2>1, <2>4, <1>1
<1>5. ASSUME NEW k \in Nat, k \in A PROVE k + 1 \in A
  <2> SUFFICES ASSUME k + 1 <= d PROVE Len(lv[k + 1]) = Pow2[d - (k + 1)]
    OBVIOUS
  <2>1. d - (k + 1) \in Nat /\ (d - (k + 1)) + 1 = d - k /\ k + 1 \in 1..d /\ (k + 1) - 1 = k
    BY <1>1
  <2>2. PICK half \in Nat : half = Pow2[d - (k + 1)] /\ Pow2[d - k] = 2 * half
    BY <2>1, <1>3
  <2>3. Len(lv[k]) = 2 * half
    <3>1. k <= d /\ Len(lv[k]) = Pow2[d - k]
      BY <1>1, <1>5
    <3> QED
      BY <2>2, <3>1
  <2>4. Len(Parents(lv[k])) = half
    BY <2>3, ParentsAre
  <2>5. lv[k + 1] = Parents(lv[k])
    BY <2>1, <1>2
  <2> QED
    BY <2>2, <2>4, <2>5
<1> HIDE DEF A
<1>6. Nat \subseteq A
  BY <1>4, <1>5, NatInductionSet
<1> QED
  BY <1>1, <1>2, <1>6 DEF A, TreeOf

\* Whatever stands in the tree.
Nodes(lv, d) == {Zero} \cup {lv[p[1]][p[2]] : p \in (0..d) \X Nat}
LEMMA NodesAre ==
  ASSUME NEW lv, NEW d \in Nat, NEW k \in 0..d, NEW n \in Nat
  PROVE  NodesIn(lv[k], n, Nodes(lv, d))
<1>1. ASSUME NEW i \in 1..n PROVE lv[k][i] \in Nodes(lv, d)
  <2>1. <<k, i>> \in (0..d) \X Nat
    OBVIOUS
  <2> QED
    BY <2>1 DEF Nodes
<1> QED
  BY <1>1 DEF NodesIn

\* The neighbours of a range within a level stand in it.
LEMMA NeighboursIn ==
  ASSUME NEW H, NEW level, NEW m \in Nat, NodesIn(level, m, H), NEW lo \in Nat, NEW hi \in Nat,
         lo < hi, hi <= m
  PROVE  Neighbours(level, m, lo, hi) \in Seq(H)
<1>1. LeftOf(level, lo) \in Seq(H)
  <2>1. lo % 2 = 1 => lo \in 1..m
    BY EvenOrOdd
  <2>2. CASE lo % 2 = 1
    <3>1. level[lo] \in H
      BY <2>1, <2>2 DEF NodesIn
    <3> QED
      BY <2>2, <3>1 DEF LeftOf
  <2>3. CASE lo % 2 # 1
    BY <2>3, EmptySeq DEF LeftOf
  <2> QED
    BY <2>2, <2>3
<1>2. RightOf(level, m, hi) \in Seq(H)
  <2>1. hi < m => hi + 1 \in 1..m
    OBVIOUS
  <2>2. CASE hi % 2 = 1 /\ hi < m
    <3>1. level[hi + 1] \in H
      BY <2>1, <2>2 DEF NodesIn
    <3> QED
      BY <2>2, <3>1 DEF RightOf
  <2>3. CASE ~(hi % 2 = 1 /\ hi < m)
    BY <2>3, EmptySeq DEF RightOf
  <2> QED
    BY <2>2, <2>3
<1> QED
  BY <1>1, <1>2, ConcatProperties DEF Neighbours

\* A sequence put behind another one, and that behind a third.
Chained(a, b, t, H) == b \o t \in Seq(H) /\ (a \o b) \o t = a \o (b \o t)
LEMMA ConcatIn ==
  ASSUME NEW H, NEW a \in Seq(H), NEW b \in Seq(H), NEW t \in Seq(H)
  PROVE  Chained(a, b, t, H)
BY ConcatProperties, ConcatAssociative DEF Chained

LEMMA CancelLeft ==
  ASSUME NEW H, NEW a \in Seq(H), NEW t \in Seq(H), NEW v \in Seq(H), a \o t = a \o v
  PROVE  t = v
BY ConcatSimplifications, Zenon

\* Of the siblings of a range those of one level follow on those below, and the
\* others on them.
Unused(sib, nb, d, H, k) ==
  \A t \in Seq(H) : sib[d] = sib[k] \o t =>
    \E u \in Seq(H) : t = nb[k] \o u /\ sib[d] = sib[k + 1] \o u
LEMMA SiblingsFollow ==
  ASSUME NEW H, NEW d \in Nat, NEW sib, sib[0] = << >>, NEW nb, \A k \in 0..d : nb[k] \in Seq(H),
         \A k \in 1..d : sib[k] = sib[k - 1] \o nb[k - 1]
  PROVE  (\A k \in 0..d : sib[k] \in Seq(H)) /\ (\A k \in 0..d : k < d => Unused(sib, nb, d, H, k))
<1>1. \A k \in 0..d : sib[k] \in Seq(H)
  <2> DEFINE A == {k \in Nat : k <= d => sib[k] \in Seq(H)}
  <2>1. 0 \in A
    BY EmptySeq
  <2>2. ASSUME NEW k \in Nat, k \in A PROVE k + 1 \in A
    <3> SUFFICES ASSUME k + 1 <= d PROVE sib[k + 1] \in Seq(H)
      OBVIOUS
    <3>1. k + 1 \in 1..d /\ (k + 1) - 1 = k /\ k \in 0..d /\ sib[k] \in Seq(H)
      BY <2>2
    <3>2. sib[k + 1] = sib[k] \o nb[k] /\ nb[k] \in Seq(H)
      BY <3>1
    <3> QED
      BY <3>1, <3>2, ConcatProperties
  <2> HIDE DEF A
  <2>3. Nat \subseteq A
    BY <2>1, <2>2, NatInductionSet
  <2> QED
    BY <2>3 DEF A
<1>2. ASSUME NEW k \in 0..d, k < d, NEW t \in Seq(H), sib[d] = sib[k + 1] \o t
      PROVE  nb[k] \o t \in Seq(H) /\ sib[d] = sib[k] \o (nb[k] \o t)
  <2>1. PICK m \in 1..d : m = k + 1 /\ m - 1 = k
    BY <1>2
  <2>2. sib[m] = sib[m - 1] \o nb[m - 1]
    OBVIOUS
  <2>3. PICK a \in Seq(H), b \in Seq(H) : a = sib[k] /\ b = nb[k]
    BY <1>1
  <2>4. sib[d] = (a \o b) \o t
    BY <2>1, <2>2, <2>3, <1>2
  <2>5. Chained(a, b, t, H)
    BY ConcatIn
  <2> QED
    BY <2>3, <2>4, <2>5, Zenon DEF Chained
<1>3. \A k \in 0..d : \E t \in Seq(H) : sib[d] = sib[k] \o t
  <2> DEFINE B == {j \in Nat : j <= d => \E t \in Seq(H) : sib[d] = sib[d - j] \o t}
  <2>1. 0 \in B
    <3>1. sib[d] \in Seq(H) /\ << >> \in Seq(H)
      BY <1>1, EmptySeq
    <3>2. sib[d] = sib[d - 0] \o << >>
      BY <3>1, ConcatEmptySeq
    <3> QED
      BY <3>1, <3>2
  <2>2. ASSUME NEW j \in Nat, j \in B PROVE j + 1 \in B
    <3> SUFFICES ASSUME j + 1 <= d PROVE \E t \in Seq(H) : sib[d] = sib[d - (j + 1)] \o t
      OBVIOUS
    <3>1. PICK k \in 0..d : k = d - (j + 1) /\ k < d /\ k + 1 = d - j
      OBVIOUS
    <3>2. PICK t \in Seq(H) : sib[d] = sib[k + 1] \o t
      BY <2>2, <3>1
    <3> QED
      BY <3>1, <3>2, <1>2
  <2> HIDE DEF B
  <2>3. Nat \subseteq B
    BY <2>1, <2>2, NatInductionSet
  <2> SUFFICES ASSUME NEW k \in 0..d PROVE \E t \in Seq(H) : sib[d] = sib[k] \o t
    OBVIOUS
  <2>4. d - k \in Nat /\ d - k <= d /\ d - (d - k) = k
    OBVIOUS
  <2>5. d - k \in B
    BY <2>3, <2>4
  <2> QED
    BY <2>4, <2>5 DEF B
<1>4. ASSUME NEW k \in 0..d, NEW t \in Seq(H), k < d, sib[d] = sib[k] \o t
      PROVE  \E u \in Seq(H) : t = nb[k] \o u /\ sib[d] = sib[k + 1] \o u
  <2>1. k + 1 \in 0..d
    BY <1>4
  <2>2. PICK u \in Seq(H) : sib[d] = sib[k + 1] \o u
    BY <2>1, <1>3
  <2>3. nb[k] \o u \in Seq(H) /\ sib[d] = sib[k] \o (nb[k] \o u)
    BY <2>2, <1>2, <1>4
  <2>7. PICK v \in Seq(H) : v = nb[k] \o u /\ sib[d] = sib[k] \o v
    BY <2>3
  <2>4. sib[k] \in Seq(H)
    BY <1>1
  <2>5. sib[k] \o t = sib[k] \o v
    BY <1>4, <2>7
  <2>8. PICK a \in Seq(H) : a = sib[k] /\ a \o t = a \o v
    BY <2>4, <2>5
  <2>6. t = v
    BY <2>8, CancelLeft
  <2> QED
    BY <2>2, <2>7, <2>6
<1> QED
  BY <1>1, <1>4 DEF Unused

\* The ticks of a range are a window of the padded leaves.
LEMMA LeavesAre ==
  ASSUME NEW G, NEW leaves \in Seq(G), NEW s \in Nat, NEW e \in Nat, s < e, e <= Len(leaves),
         Len(leaves) <= Pow2[Depth(Len(leaves))], Pow2[Depth(Len(leaves))] \in Nat
  PROVE  /\ SubSeq(leaves, s + 1, e) = Window(Padded(leaves), s, e)
         /\ Len(SubSeq(leaves, s + 1, e)) = e - s
<1>1. PICK m \in Nat, n \in Nat : m = Pow2[Depth(Len(leaves))] /\ n = Len(leaves) /\ n <= m /\ e <= n
  BY LenProperties
<1>2. PICK level : level = Padded(leaves)
  OBVIOUS
<1>3. \A i \in 1..n : level[i] = leaves[i]
  BY <1>1, <1>2 DEF Padded
<1>4. \A i \in 1..n : leaves[i] \in G
  BY <1>1, ElementOfSeq
<1>5. NodesIn(level, e, G)
  <2>1. 1..e \subseteq 1..n
    BY <1>1
  <2> QED
    BY <2>1, <1>3, <1>4 DEF NodesIn
<1>6. s <= e
  OBVIOUS
<1>7. PICK w : w = Window(level, s, e) /\ IsWindow(w, level, s, e, G)
  BY <1>5, <1>6, WindowIs
<1>8. w \in Seq(G) /\ Len(w) = e - s /\ \A i \in 1..(e - s) : w[i] = level[s + i]
  BY <1>7 DEF IsWindow
<1>9. PICK b, c : b = s + 1 /\ c = SubSeq(leaves, b, e)
  OBVIOUS
<1>10. /\ c \in Seq(G) /\ Len(c) = e - b + 1
       /\ \A i \in 1..(e - b + 1) : c[i] = leaves[b + i - 1]
  <2>1. b \in Nat /\ b \in 1..(n + 1) /\ e \in (b - 1)..n
    BY <1>1, <1>9
  <2>2. b \in 1..(Len(leaves) + 1) /\ e \in (b - 1)..Len(leaves)
    BY <2>1, <1>1
  <2>3. /\ c \in Seq(G) /\ Len(c) = IF b <= e THEN e - b + 1 ELSE 0
        /\ \A i \in 1..(e - b + 1) : c[i] = leaves[b + i - 1]
    BY <2>2, <1>9, SubSeqProperties
  <2> QED
    BY <2>1, <2>3
<1>11. Len(c) = e - s
  BY <1>9, <1>10
<1>12. ASSUME NEW i \in 1..Len(c) PROVE c[i] = w[i]
  <2>1. i \in 1..(e - s) /\ i \in 1..(e - b + 1) /\ b + i - 1 = s + i /\ s + i \in 1..n
    BY <1>1, <1>9, <1>11
  <2> QED
    BY <2>1, <1>3, <1>8, <1>10
<1>13. c = w
  BY <1>8, <1>10, <1>11, <1>12, SeqEqual
<1> QED
  BY <1>2, <1>7, <1>9, <1>11, <1>13

\* The siblings that a proof of a range carries.
Carries(proof, leaves, s, e, sib) ==
  /\ IsSiblings(sib, Depth(Len(leaves)), Levels(leaves), s, e)
  /\ proof = [n |-> Len(leaves), leaves |-> SubSeq(leaves, s + 1, e),
              siblings |-> sib[Depth(Len(leaves))]]
LEMMA ProofIs ==
  ASSUME NEW leaves, NEW s, NEW e, NEW proof, proof = range_proof(leaves, s, e)
  PROVE  \E sib : Carries(proof, leaves, s, e, sib)
<1>1. PICK sib : IsSiblings(sib, Depth(Len(leaves)), Levels(leaves), s, e)
  BY DEF IsSiblings
<1>2. Siblings(Levels(leaves), Depth(Len(leaves)), s, e) = sib[Depth(Len(leaves))]
  BY <1>1 DEF Siblings, IsSiblings
<1> QED
  BY <1>1, <1>2 DEF Carries, range_proof

\* A climb from the first leaf of the range, with the siblings of its levels
\* after those that are used.
Climbs(c, lv, sib, d, s, e, k, H) ==
  \E t \in Seq(H) : At(c[k], lv[k], Low(s, k), High(e, k), t) /\ sib[d] = sib[k] \o t

LEMMA ClimbsOn ==
  ASSUME NEW H, NEW d \in Nat, NEW lv, NEW s \in Nat, NEW e \in Nat, NEW c, NEW nb, NEW sib,
         NEW k \in 0..d, k < d, NEW half \in Nat,
         Len(lv[k]) = 2 * half, NodesIn(lv[k], 2 * half, H), lv[k + 1] = Parents(lv[k]),
         Low(s, k) \in Nat, High(e, k) \in Nat, Low(s, k) < High(e, k), High(e, k) <= 2 * half,
         Low(s, k + 1) = Low(s, k) \div 2, High(e, k + 1) = (High(e, k) + 1) \div 2,
         nb[k] = Neighbours(lv[k], 2 * half, Low(s, k), High(e, k)),
         Unused(sib, nb, d, H, k),
         c[k + 1] = Climb(c[k], Low(s, k) % 2 = 1), Climbs(c, lv, sib, d, s, e, k, H)
  PROVE  Climbs(c, lv, sib, d, s, e, k + 1, H)
<1>1. PICK t \in Seq(H) : At(c[k], lv[k], Low(s, k), High(e, k), t) /\ sib[d] = sib[k] \o t
  BY DEF Climbs
<1>2. PICK u \in Seq(H) : t = nb[k] \o u /\ sib[d] = sib[k + 1] \o u
  BY <1>1 DEF Unused
<1>3. PICK level, lo, hi, at :
        level = lv[k] /\ lo = Low(s, k) /\ hi = High(e, k) /\ at = c[k]
  OBVIOUS
<1>4. /\ At(at, level, lo, hi, Neighbours(level, 2 * half, lo, hi) \o u)
      /\ lo \in Nat /\ hi \in Nat /\ lo < hi /\ hi <= 2 * half /\ Len(level) = 2 * half /\ NodesIn(level, 2 * half, H)
  BY <1>1, <1>2, <1>3
<1>5. At(Climb(at, lo % 2 = 1), Parents(level), lo \div 2, (hi + 1) \div 2, u)
  BY <1>4, ClimbIs
<1>6. At(c[k + 1], lv[k + 1], Low(s, k + 1), High(e, k + 1), u)
  BY <1>3, <1>5
<1> QED
  BY <1>2, <1>6 DEF Climbs

\* On the way up a proof of a range is a window of every level.
LEMMA ProofClimbs ==
  ASSUME NEW G, NEW leaves \in Seq(G), NEW s \in Nat, NEW e \in Nat, s < e, e <= Len(leaves),
         NEW d, d = Depth(Len(leaves)), NEW lv, lv = Levels(leaves),
         NEW c, c = Climbed(range_proof(leaves, s, e), s)
  PROVE  d \in Nat /\ \E t : At(c[d], lv[d], 0, 1, t)
<1>0. Len(leaves) \in Nat \ {0}
  BY LenProperties
<1>1. PICK H : H = Nodes(lv, d)
  OBVIOUS
<1>2. /\ d \in Nat /\ Len(leaves) <= Pow2[d]
      /\ lv[0] = Padded(leaves) /\ \A k \in 1..d : lv[k] = Parents(lv[k - 1])
      /\ \A k \in 0..d : Len(lv[k]) = Pow2[d - k]
  <2>1. TreeOf(leaves, lv, d)
    BY <1>0, LevelsAre
  <2> QED
    BY <2>1 DEF TreeOf
<1>3. \A k \in Nat : Pow2[k] \in Nat /\ Pow2[k + 1] = 2 * Pow2[k]
  BY Pow2Doubles
<1>4. \A k \in 0..d : /\ Low(s, k) \in Nat /\ High(e, k) \in Nat
                      /\ Low(s, k) < High(e, k) /\ High(e, k) <= Pow2[d - k]
  <2>1. e <= Pow2[d]
    <3>1. PICK n \in Nat, p \in Nat : n = Len(leaves) /\ p = Pow2[d]
      BY <1>0, <1>2, <1>3
    <3>2. n <= p /\ e <= n
      BY <3>1, <1>2
    <3> QED
      BY <3>1, <3>2
  <2> QED
    BY <2>1, <1>2, RangesFit DEF RangeFits
<1>5. PICK proof : proof = range_proof(leaves, s, e)
  OBVIOUS
<1>6. PICK sib : Carries(proof, leaves, s, e, sib)
  BY <1>5, ProofIs
<1>7. PICK nb : nb = [k \in 0..d |-> Neighbours(lv[k], Pow2[d - k], Low(s, k), High(e, k))]
  OBVIOUS
<1>8. sib[0] = << >> /\ \A k \in 1..d : sib[k] = sib[k - 1] \o nb[k - 1]
  <2>1. IsSiblings(sib, d, lv, s, e)
    BY <1>6 DEF Carries
  <2>2. /\ sib[0] = << >>
        /\ \A k \in 1..d : sib[k] = sib[k - 1] \o Neighbours(lv[k - 1], Pow2[d - (k - 1)],
                                                            Low(s, k - 1), High(e, k - 1))
    <3>1. Follow(sib, d, lv, s, e)
      BY <2>1, <1>2, SiblingsExist
    <3> QED
      BY <3>1 DEF Follow
  <2>3. \A k \in 1..d : k - 1 \in 0..d
    BY <1>2
  <2> QED
    BY <2>2, <2>3, <1>7
<1>9. ASSUME NEW k \in 0..d PROVE nb[k] \in Seq(H)
  <2>1. d - k \in Nat
    BY <1>2
  <2>2. PICK m, level, lo, hi :
          m = Pow2[d - k] /\ level = lv[k] /\ lo = Low(s, k) /\ hi = High(e, k)
    OBVIOUS
  <2>5. m \in Nat /\ lo \in Nat /\ hi \in Nat /\ lo < hi /\ hi <= m
    BY <2>1, <2>2, <1>3, <1>4
  <2>3. NodesIn(level, m, H)
    BY <2>2, <2>5, <1>1, <1>2, NodesAre
  <2>4. Neighbours(level, m, lo, hi) \in Seq(H)
    BY <2>3, <2>5, NeighboursIn
  <2> QED
    BY <2>2, <2>4, <1>7
<1>10. (\A k \in 0..d : sib[k] \in Seq(H)) /\ (\A k \in 0..d : k < d => Unused(sib, nb, d, H, k))
  BY <1>2, <1>8, <1>9, SiblingsFollow
<1>11. /\ c[0] = [nodes |-> proof.leaves, rest |-> proof.siblings]
       /\ \A k \in 1..d : c[k] = Climb(c[k - 1], Low(s, k - 1) % 2 = 1)
  <2>1. proof.n = Len(leaves)
    BY <1>6 DEF Carries
  <2>2. c = Climbed(proof, s)
    BY <1>5
  <2>3. IsClimb(c, Depth(proof.n), [nodes |-> proof.leaves, rest |-> proof.siblings], s)
    BY <2>2 DEF Climbed, IsClimb
  <2>4. IsClimb(c, d, [nodes |-> proof.leaves, rest |-> proof.siblings], s)
    BY <2>1, <2>3
  <2>5. PICK base : base = [nodes |-> proof.leaves, rest |-> proof.siblings]
    OBVIOUS
  <2>6. IsClimb(c, d, base, s)
    BY <2>4, <2>5
  <2> QED
    BY <2>5, <2>6, <1>2, ClimbExists
<1> DEFINE A == {k \in Nat : k <= d => Climbs(c, lv, sib, d, s, e, k, H)}
<1>12. 0 \in A
  <2>1. Low(s, 0) = s /\ High(e, 0) = e
    BY RangesHalve
  <2>2. 0 \in 0..d /\ d \in 0..d
    BY <1>2
  <2>3. PICK t \in Seq(H) : t = sib[d]
    BY <2>2, <1>10
  <2>4. sib[d] = sib[0] \o t
    BY <2>3, <1>8, ConcatEmptySeq
  <2>5. SubSeq(leaves, s + 1, e) = Window(lv[0], s, e)
    <3>1. Len(leaves) <= Pow2[Depth(Len(leaves))] /\ Pow2[Depth(Len(leaves))] \in Nat
      BY <1>2, <1>3
    <3>2. SubSeq(leaves, s + 1, e) = Window(Padded(leaves), s, e)
      BY <3>1, LeavesAre
    <3> QED
      BY <3>2, <1>2
  <2>6. c[0].nodes = Window(lv[0], s, e) /\ c[0].rest = t
    BY <2>3, <2>5, <1>6, <1>11 DEF Carries
  <2>7. At(c[0], lv[0], Low(s, 0), High(e, 0), t)
    BY <2>1, <2>6 DEF At
  <2>8. Climbs(c, lv, sib, d, s, e, 0, H)
    BY <2>4, <2>7 DEF Climbs
  <2> QED
    BY <2>8
<1>13. ASSUME NEW k \in Nat, k \in A PROVE k + 1 \in A
  <2> SUFFICES ASSUME k + 1 <= d PROVE Climbs(c, lv, sib, d, s, e, k + 1, H)
    OBVIOUS
  <2>1. /\ k <= d /\ k < d /\ k \in 0..d /\ k + 1 \in 1..d /\ (k + 1) - 1 = k
        /\ d - (k + 1) \in Nat /\ (d - (k + 1)) + 1 = d - k
    BY <1>2
  <2>2. Climbs(c, lv, sib, d, s, e, k, H)
    BY <2>1, <1>13
  <2> HIDE DEF A
  <2>3. PICK half \in Nat : Pow2[d - k] = 2 * half
    BY <2>1, <1>3
  <2>4. Len(lv[k]) = 2 * half
    BY <2>1, <2>3, <1>2
  <2>5. lv[k + 1] = Parents(lv[k]) /\ c[k + 1] = Climb(c[k], Low(s, k) % 2 = 1)
    BY <2>1, <1>2, <1>11
  <2>6. NodesIn(lv[k], 2 * half, H)
    BY <2>1, <1>1, <1>2, NodesAre
  <2>7. Low(s, k) \in Nat /\ High(e, k) \in Nat /\ Low(s, k) < High(e, k) /\ High(e, k) <= 2 * half
    BY <2>1, <2>3, <1>4
  <2>8. Low(s, k + 1) = Low(s, k) \div 2 /\ High(e, k + 1) = (High(e, k) + 1) \div 2
    <3>1. Halves(s, e, k)
      BY RangesHalve
    <3> QED
      BY <3>1 DEF Halves
  <2>9. nb[k] = Neighbours(lv[k], 2 * half, Low(s, k), High(e, k))
    BY <2>1, <2>3, <1>7
  <2>10. Unused(sib, nb, d, H, k)
    BY <2>1, <1>10
  <2> QED
    BY <2>1, <2>2, <2>4, <2>5, <2>6, <2>7, <2>8, <2>9, <2>10, <1>2, ClimbsOn
<1>14. Climbs(c, lv, sib, d, s, e, d, H)
  <2> HIDE DEF A
  <2>1. Nat \subseteq A
    BY <1>12, <1>13, NatInductionSet
  <2>2. d \in A
    BY <2>1, <1>2
  <2> QED
    BY <2>2, <1>2 DEF A
<1>15. Low(s, d) = 0 /\ High(e, d) = 1
  <2>1. d \in 0..d /\ d - d = 0
    BY <1>2
  <2>2. PICK l \in Nat, h \in Nat : l = Low(s, d) /\ h = High(e, d) /\ l < h /\ h <= Pow2[0]
    BY <2>1, <1>4
  <2>3. h <= 1
    BY <2>2, Pow2Doubles
  <2> QED
    BY <2>2, <2>3
<1> QED
  BY <1>2, <1>14, <1>15 DEF Climbs

\* What range_proof makes of any leaves and any range of them, verify_range_proof
\* accepts from where the range begins.
THEOREM RangeProofsVerify ==
  ASSUME NEW G, NEW leaves \in Seq(G), NEW s \in Nat, NEW e \in Nat, s < e, e <= Len(leaves)
  PROVE  verify_range_proof(root_from_leaves(leaves), range_proof(leaves, s, e), s, e)
<1>1. PICK d, lv, c : /\ d = Depth(Len(leaves)) /\ lv = Levels(leaves)
                      /\ c = Climbed(range_proof(leaves, s, e), s)
  OBVIOUS
<1>2. d \in Nat /\ \E t : At(c[d], lv[d], 0, 1, t)
  BY <1>1, ProofClimbs
<1>3. c[d].nodes = <<root_from_leaves(leaves)>>
  BY <1>1, <1>2 DEF At, Window, root_from_leaves
<1>4. PICK n \in Nat : n = Len(leaves) /\ n > 0 /\ e <= n
  BY LenProperties
<1>5. PICK proof : proof = range_proof(leaves, s, e)
  OBVIOUS
<1>6. proof.n = n /\ proof.leaves = SubSeq(leaves, s + 1, e)
  BY <1>4, <1>5 DEF range_proof
<1>7. Len(proof.leaves) = e - s
  BY <1>4, <1>6, DepthIs, Pow2Doubles, LeavesAre
<1> QED
  BY <1>1, <1>3, <1>4, <1>5, <1>6, <1>7 DEF verify_range_proof

\* A function on the numbers up to n is a sequence.
LEMMA FcnIsSeq ==
  ASSUME NEW n \in Nat, NEW g, DOMAIN g = 1..n, g = [i \in DOMAIN g |-> g[i]]
  PROVE  Len(g) = n /\ \E V : g \in Seq(V)
<1> DEFINE V == {g[i] : i \in 1..n}
<1>1. g \in [1..n -> V]
  OBVIOUS
<1> HIDE DEF V
<1>2. g \in Seq(V)
  BY <1>1, SeqDef
<1> QED
  BY <1>2, LenOfFcn

\* The first node of a climb that takes no left neighbour.
NotEmptySeq(w) == \E V : w \in Seq(V) /\ w # << >>
LEMMA FirstNode ==
  ASSUME NEW at, NotEmptySeq(at.nodes)
  PROVE  /\ NotEmptySeq(Climb(at, FALSE).nodes)
         /\ \E x : Climb(at, FALSE).nodes[1] = NodeHash(at.nodes[1], x)
<1>1. PICK V, w : w \in Seq(V) /\ w # << >> /\ w = at.nodes
  BY DEF NotEmptySeq
<1>2. PICK n \in Nat : n = Len(w) /\ n >= 1
  BY <1>1, EmptySeq, LenProperties
<1>3. PICK p : p = TakeRight(at)
  OBVIOUS
<1>4. \E U : \E half \in Nat :
        p.nodes \in Seq(U) /\ Len(p.nodes) = 2 * half /\ half >= 1
        /\ p.nodes[1] = w[1]
  <2>1. CASE n % 2 = 1
    <3>1. PICK y : y = Sibling(at.rest)
      OBVIOUS
    <3>2. p.nodes = Append(w, y)
      BY <2>1, <3>1, <1>1, <1>2, <1>3 DEF TakeRight
    <3>3. PICK U : U = V \cup {y}
      OBVIOUS
    <3>4. w \in Seq(U)
      <4>1. w \in [1..n -> V]
        BY <1>1, <1>2, LenProperties
      <4>2. w \in [1..n -> U]
        BY <3>3, <4>1
      <4> QED
        BY <4>2, SeqDef
    <3>5. PICK a : a = Append(w, y)
      OBVIOUS
    <3>6. y \in U
      BY <3>3
    <3>7. a \in Seq(U) /\ Len(a) = Len(w) + 1 /\ \A i \in 1..Len(w) : a[i] = w[i]
      BY <3>4, <3>5, <3>6, AppendProperties
    <3>8. PICK half \in Nat : n + 1 = 2 * half /\ half >= 1
      <4>1. PICK half : half = (n + 1) \div 2
        OBVIOUS
      <4>2. half \in Nat /\ 2 * half = n + 1
        BY <2>1, <4>1, EvenOrOdd
      <4> QED
        BY <4>2
    <3> QED
      BY <3>2, <3>5, <3>7, <3>8, <1>2
  <2>2. CASE n % 2 # 1
    <3>1. p.nodes = w
      BY <2>2, <1>1, <1>2, <1>3 DEF TakeRight
    <3>2. PICK half \in Nat : n = 2 * half /\ half >= 1
      <4>1. PICK half : half = n \div 2
        OBVIOUS
      <4>2. half \in Nat /\ 2 * half = n
        BY <2>2, <4>1, EvenOrOdd
      <4> QED
        BY <4>2, <1>2
    <3> QED
      BY <3>1, <3>2, <1>1, <1>2
  <2> QED
    BY <2>1, <2>2
<1>5. PICK half \in Nat : Len(p.nodes) = 2 * half /\ half >= 1 /\ p.nodes[1] = w[1]
  BY <1>4
<1>6. PICK q : q = p.nodes /\ Len(q) = 2 * half
  BY <1>5
<1>7. PICK r : r = Parents(q)
  OBVIOUS
<1>8. Len(q) \div 2 = half
  BY <1>6
<1>9. r = [i \in 1..half |-> NodeHash(q[2 * i - 1], q[2 * i])]
  BY <1>7, <1>8 DEF Parents
<1>10. Len(r) = half /\ \E W : r \in Seq(W)
  BY <1>9, FcnIsSeq
<1>11. r # << >>
  BY <1>5, <1>10, EmptySeq
<1>12. r[1] = NodeHash(q[1], q[2])
  <2>1. 1 \in 1..half /\ 2 * 1 - 1 = 1 /\ 2 * 1 = 2
    BY <1>5
  <2> QED
    BY <2>1, <1>9
<1>13. Climb(at, FALSE).nodes = r
  BY <1>3, <1>6, <1>7 DEF Climb, TakeLeft
<1> QED
  BY <1>1, <1>5, <1>6, <1>10, <1>11, <1>12, <1>13 DEF NotEmptySeq

\* The first leaf of a proof that verifies from leaf 0 is the first leaf of the tree.
THEOREM FromTheFirstLeaf ==
  ASSUME NEW G, NEW leaves \in Seq(G), NEW s \in Nat, NEW e \in Nat, s < e, e <= Len(leaves),
         NEW t, verify_range_proof(root_from_leaves(leaves), range_proof(leaves, s, e), 0, t)
  PROVE  leaves[s + 1] = leaves[1]
<1>0. PICK n \in Nat \ {0} : n = Len(leaves) /\ e <= n
  BY LenProperties
<1>1. PICK d, lv, proof, c : /\ d = Depth(Len(leaves)) /\ lv = Levels(leaves)
                             /\ proof = range_proof(leaves, s, e) /\ c = Climbed(proof, 0)
  OBVIOUS
<1>2. /\ d \in Nat /\ n <= Pow2[d]
      /\ lv[0] = Padded(leaves) /\ \A k \in 1..d : lv[k] = Parents(lv[k - 1])
      /\ \A k \in 0..d : Len(lv[k]) = Pow2[d - k]
  <2>1. TreeOf(leaves, lv, d)
    BY <1>0, <1>1, LevelsAre
  <2> QED
    BY <2>1, <1>0 DEF TreeOf
<1>3. \A k \in Nat : Pow2[k] \in Nat \ {0} /\ Pow2[k + 1] = 2 * Pow2[k]
  BY Pow2Doubles
<1>4. proof.n = Len(leaves) /\ proof.leaves = SubSeq(leaves, s + 1, e)
  BY <1>1 DEF range_proof
<1>5. /\ c[0].nodes = proof.leaves
      /\ \A k \in 1..d : c[k] = Climb(c[k - 1], FALSE)
  <2>1. IsClimb(c, Depth(proof.n), [nodes |-> proof.leaves, rest |-> proof.siblings], 0)
    BY <1>1 DEF Climbed, IsClimb
  <2>2. PICK base : base = [nodes |-> proof.leaves, rest |-> proof.siblings]
    OBVIOUS
  <2>3. IsClimb(c, d, base, 0)
    BY <2>1, <2>2, <1>1, <1>4
  <2>4. c[0] = base /\ \A k \in 1..d : c[k] = Climb(c[k - 1], Low(0, k - 1) % 2 = 1)
    BY <2>3, <1>2, ClimbExists
  <2>5. ASSUME NEW k \in 1..d
        PROVE  Climb(c[k - 1], Low(0, k - 1) % 2 = 1) = Climb(c[k - 1], FALSE)
    <3>1. PICK i \in Nat : i = k - 1
      BY <1>2
    <3>2. PICK m \in Nat \ {0} : m = Pow2[i]
      BY <1>3
    <3>3. 0 \div m = 0
      <4>1. 0 \div m \in Int /\ 0 \div m >= 0 /\ 0 \div m <= 0
        BY QuotientBounds
      <4> QED
        BY <4>1
    <3>4. Low(0, i) = 0
      BY <3>2, <3>3 DEF Low
    <3>5. ~(Low(0, i) % 2 = 1)
      BY <3>4
    <3>6. TakeLeft(c[i], Low(0, i) % 2 = 1) = TakeLeft(c[i], FALSE)
      BY <3>5 DEF TakeLeft
    <3> QED
      BY <3>1, <3>6 DEF Climb
  <2>6. \A k \in 1..d : c[k] = Climb(c[k - 1], FALSE)
    BY <2>4, <2>5, Zenon
  <2>7. c[0] = base
    BY <2>4, Zenon
  <2>8. c[0].nodes = proof.leaves
    BY <2>2, <2>7
  <2> QED
    BY <2>6, <2>8, Zenon
<1>6. proof.leaves[1] = leaves[s + 1] /\ NotEmptySeq(proof.leaves)
  <2>1. PICK b \in Nat, w \in Seq(G) : b = s + 1 /\ w = SubSeq(leaves, b, e)
                                       /\ Len(w) = e - b + 1 /\ w[1] = leaves[b]
    <3>1. PICK b \in Nat : b = s + 1 /\ b \in 1..(n + 1) /\ e \in (b - 1)..n /\ b <= e
      BY <1>0
    <3>2. b \in 1..(Len(leaves) + 1) /\ e \in (b - 1)..Len(leaves)
      BY <3>1, <1>0
    <3>3. PICK w : w = SubSeq(leaves, b, e)
      OBVIOUS
    <3>4. /\ w \in Seq(G) /\ Len(w) = (IF b <= e THEN e - b + 1 ELSE 0)
          /\ \A i \in 1..(e - b + 1) : w[i] = leaves[b + i - 1]
      BY <3>2, <3>3, SubSeqProperties
    <3>5. 1 \in 1..(e - b + 1) /\ b + 1 - 1 = b
      BY <3>1
    <3>6. w[1] = leaves[b]
      BY <3>4, <3>5
    <3> QED
      BY <3>1, <3>3, <3>4, <3>6
  <2>2. w # << >>
    <3>1. Len(w) >= 1
      BY <2>1
    <3> QED
      BY <3>1, EmptySeq
  <2> QED
    BY <2>1, <2>2, <1>4 DEF NotEmptySeq
<1> DEFINE A == {k \in Nat : k <= d => NotEmptySeq(c[k].nodes)}
<1>7. ASSUME NEW k \in 0..d PROVE NotEmptySeq(c[k].nodes)
  <2>1. 0 \in A
    BY <1>5, <1>6
  <2>2. ASSUME NEW i \in Nat, i \in A PROVE i + 1 \in A
    <3> SUFFICES ASSUME i + 1 <= d PROVE NotEmptySeq(c[i + 1].nodes)
      OBVIOUS
    <3>1. i + 1 \in 1..d /\ (i + 1) - 1 = i /\ i <= d
      BY <1>2
    <3>2. c[i + 1] = Climb(c[i], FALSE) /\ NotEmptySeq(c[i].nodes)
      BY <2>2, <3>1, <1>5
    <3> QED
      BY <3>2, FirstNode
  <2> HIDE DEF A
  <2>3. Nat \subseteq A
    BY <2>1, <2>2, NatInductionSet
  <2>4. k \in A /\ k <= d
    BY <2>3, <1>2
  <2> QED
    BY <2>4 DEF A
<1>8. ASSUME NEW k \in 0..d, k < d, c[k + 1].nodes[1] = lv[k + 1][1]
      PROVE  c[k].nodes[1] = lv[k][1]
  <2>1. PICK i \in 1..d : i = k + 1 /\ i - 1 = k
    BY <1>2, <1>8
  <2>2. c[i] = Climb(c[k], FALSE) /\ lv[i] = Parents(lv[k])
    BY <2>1, <1>2, <1>5
  <2>3. PICK x : c[i].nodes[1] = NodeHash(c[k].nodes[1], x)
    BY <2>2, <1>7, FirstNode
  <2>4. lv[i][1] = NodeHash(lv[k][1], lv[k][2])
    <3>1. d - (k + 1) \in Nat /\ (d - (k + 1)) + 1 = d - k
      BY <1>2, <1>8
    <3>2. PICK half \in Nat : half >= 1 /\ Pow2[d - k] = 2 * half
      <4>1. PICK half : half = Pow2[d - (k + 1)]
        OBVIOUS
      <4>2. half \in Nat \ {0} /\ Pow2[d - k] = 2 * half
        BY <3>1, <4>1, <1>3
      <4> QED
        BY <4>2
    <3>3. PICK level : level = lv[k] /\ Len(level) = 2 * half
      BY <3>2, <1>2
    <3>4. Len(level) \div 2 = half
      BY <3>3
    <3>5. Parents(level) = [j \in 1..half |-> NodeHash(level[2 * j - 1], level[2 * j])]
      BY <3>4 DEF Parents
    <3>6. 1 \in 1..half /\ 2 * 1 - 1 = 1 /\ 2 * 1 = 2
      BY <3>2
    <3>7. Parents(level)[1] = NodeHash(level[1], level[2])
      BY <3>5, <3>6
    <3> QED
      BY <3>3, <3>7, <2>2
  <2>5. NodeHash(c[k].nodes[1], x) = NodeHash(lv[k][1], lv[k][2])
    BY <2>1, <2>3, <2>4, <1>8
  <2> QED
    BY <2>5 DEF NodeHash
<1> DEFINE B == {j \in Nat : j <= d => c[d - j].nodes[1] = lv[d - j][1]}
<1>9. 0 \in B
  <2>1. root_from_leaves(leaves) = lv[d][1]
    BY <1>1 DEF root_from_leaves
  <2>2. c[d].nodes = <<root_from_leaves(leaves)>>
    BY <1>1, <1>4 DEF verify_range_proof
  <2>3. d - 0 = d
    BY <1>2
  <2> QED
    BY <2>1, <2>2, <2>3
<1>10. ASSUME NEW j \in Nat, j \in B PROVE j + 1 \in B
  <2> SUFFICES ASSUME j + 1 <= d PROVE c[d - (j + 1)].nodes[1] = lv[d - (j + 1)][1]
    OBVIOUS
  <2>1. PICK k \in 0..d : k = d - (j + 1) /\ k < d /\ k + 1 = d - j /\ j <= d
    BY <1>2
  <2>2. c[k + 1].nodes[1] = lv[k + 1][1]
    BY <2>1, <1>10
  <2> HIDE DEF B
  <2> QED
    BY <2>1, <2>2, <1>8
<1>11. c[0].nodes[1] = lv[0][1]
  <2> HIDE DEF B
  <2>1. d \in B
    BY <1>2, <1>9, <1>10, NatInductionSet
  <2>2. d - d = 0 /\ d <= d
    BY <1>2
  <2> QED
    BY <2>1, <2>2 DEF B
<1>12. lv[0][1] = leaves[1]
  <2>1. PICK m \in Nat : m = Pow2[Depth(Len(leaves))] /\ n <= m
    BY <1>1, <1>2, <1>3
  <2>2. 1 \in 1..m /\ 1 <= Len(leaves)
    BY <2>1, <1>0
  <2>3. Padded(leaves)[1] = leaves[1]
    BY <2>1, <2>2 DEF Padded
  <2> QED
    BY <2>3, <1>2
<1> QED
  BY <1>5, <1>6, <1>11, <1>12

\* A list of leaves that is not too long can be padded.
LEMMA SmallFits == ASSUME NEW n \in Nat \ {0}, n <= MaxPadded PROVE Fits(n)
<1>1. \A k \in Nat : Pow2[k] \in Nat /\ Pow2[k + 1] = 2 * Pow2[k]
  BY Pow2Doubles
<1>2. Pow2[0] = 1 /\ Pow2[1] = 2 /\ Pow2[2] = 4 /\ Pow2[3] = 8
  <2>1. Pow2[0] = 1
    BY Pow2Doubles
  <2>2. Pow2[0 + 1] = 2 * Pow2[0] /\ Pow2[1 + 1] = 2 * Pow2[1] /\ Pow2[2 + 1] = 2 * Pow2[2]
    BY <1>1
  <2> QED
    BY <2>1, <2>2
<1>3. Pow2[4] = 16 /\ Pow2[5] = 32 /\ Pow2[6] = 64 /\ Pow2[7] = 128
  <2>2. /\ Pow2[3 + 1] = 2 * Pow2[3] /\ Pow2[4 + 1] = 2 * Pow2[4]
        /\ Pow2[5 + 1] = 2 * Pow2[5] /\ Pow2[6 + 1] = 2 * Pow2[6]
    BY <1>1
  <2> QED
    BY <2>2, <1>2
<1>4. PICK d \in Nat : d = Depth(n) /\ \A c \in 0..(d - 1) : Pow2[c] < n
  BY DepthIs DEF Lower
<1>5. d <= 7
  <2> SUFFICES ASSUME d > 7 PROVE FALSE
    OBVIOUS
  <2>1. 7 \in 0..(d - 1)
    OBVIOUS
  <2>2. Pow2[7] < n
    BY <2>1, <1>4
  <2> QED
    BY <2>2, <1>3 DEF MaxPadded
<1>6. d \in {0, 1, 2, 3, 4, 5, 6, 7}
  BY <1>5
<1>7. Pow2[d] <= MaxPadded
  BY <1>2, <1>3, <1>6 DEF MaxPadded
<1> QED
  BY <1>4, <1>7 DEF Fits

LEMMA ProofLeaves ==
  ASSUME NEW leaves, NEW s, NEW e, NEW proof, proof = range_proof(leaves, s, e)
  PROVE  proof.leaves = SubSeq(leaves, s + 1, e)
BY DEF range_proof
=============================================================================
