---------------------------- MODULE SumTheorems ----------------------------
(***************************************************************************)
(* Facts about SumFunctionOnSet(f, T), the sum of f[x] over the elements x *)
(* of a finite set T.  It is defined by recursion over the subsets of T,   *)
(* an element chosen at a time; what is proved here is that the choice     *)
(* does not matter.  Induction is over the least counterexample.  At the   *)
(* end: what the proofs need of quotients and remainders.                  *)
(***************************************************************************)
EXTENDS TLAPS, Integers, Functions, FiniteSets, FiniteSetTheorems, WellFoundedInduction

\* Every nonempty set of natural numbers has a least element.
LEMMA LeastNatural ==
  ASSUME NEW T, T \subseteq Nat, T # {}
  PROVE  \E x \in T : \A y \in T : x <= y
<1>1. IsWellFoundedOn(OpToRel(<, Nat), Nat)
  BY NatLessThanWellFounded
<1>2. PICK x \in T : \A y \in T : ~ (<<y, x>> \in OpToRel(<, Nat))
  BY <1>1, WFMin
<1>3. \A y \in T : ~(y < x)
  BY <1>2 DEF OpToRel
<1> QED
  BY <1>3

\* Induction over the natural numbers, for a property given as a set.
LEMMA NatInductionSet ==
  ASSUME NEW A, 0 \in A, \A n \in Nat : n \in A => n + 1 \in A
  PROVE  Nat \subseteq A
<1> SUFFICES ASSUME Nat \ A # {} PROVE FALSE
  OBVIOUS
<1>1. PICK m \in Nat \ A : \A y \in Nat \ A : m <= y
  BY LeastNatural
<1>2. m - 1 \in Nat /\ m - 1 \notin Nat \ A
  BY <1>1
<1> QED
  BY <1>1, <1>2

\* g tells the sum of f over every subset of U.
Chosen(s) == CHOOSE x \in s : TRUE
Ints(f, U) == \A x \in U : f[x] \in Int
Recurs(f, U, g) ==
  \A s \in SUBSET U : g[s] = IF s = {} THEN 0 ELSE f[Chosen(s)] + g[s \ {Chosen(s)}]
Sums(f, U, g) == g \in [SUBSET U -> Int] /\ Recurs(f, U, g)

\* A set without one of its elements.
LEMMA WithoutOne ==
  ASSUME NEW U, IsFiniteSet(U), NEW s \in SUBSET U, NEW x \in s
  PROVE  /\ s \ {x} \in SUBSET U /\ IsFiniteSet(s) /\ IsFiniteSet(s \ {x})
         /\ Cardinality(s) \in Nat /\ Cardinality(s \ {x}) \in Nat
         /\ Cardinality(s) = Cardinality(s \ {x}) + 1
<1>1. IsFiniteSet(s)
  BY FS_Subset
<1>2. IsFiniteSet(s \ {x}) /\ Cardinality(s \ {x}) = Cardinality(s) - 1
  BY <1>1, FS_RemoveElement
<1>3. Cardinality(s) \in Nat /\ Cardinality(s \ {x}) \in Nat
  BY <1>1, <1>2, FS_CardinalityType
<1> QED
  BY <1>1, <1>2, <1>3
LEMMA ChosenIsOne == ASSUME NEW s, s # {} PROVE Chosen(s) \in s
BY DEF Chosen
LEMMA EmptyOrMore ==
  ASSUME NEW U, IsFiniteSet(U), NEW s \in SUBSET U
  PROVE  Cardinality(s) \in Nat /\ (Cardinality(s) = 0 <=> s = {})
BY FS_Subset, FS_CardinalityType, FS_EmptySet

\* The sums exist: they are defined for sets of n elements by those of n - 1.
LEMMA SumsExist ==
  ASSUME NEW U, IsFiniteSet(U), NEW f, Ints(f, U)
  PROVE  \E g : Sums(f, U, g)
<1> DEFINE UpTo(n, g) ==
             /\ g \in [SUBSET U -> Int]
             /\ \A s \in SUBSET U : Cardinality(s) <= n =>
                  g[s] = IF s = {} THEN 0 ELSE f[Chosen(s)] + g[s \ {Chosen(s)}]
           A == {n \in Nat : \E g : UpTo(n, g)}
<1>1. 0 \in A
  <2> DEFINE g == [s \in SUBSET U |-> 0]
  <2>1. \A s \in SUBSET U : Cardinality(s) <= 0 => s = {}
    BY EmptyOrMore
  <2>2. UpTo(0, g)
    BY <2>1
  <2> QED
    BY <2>2
<1>2. ASSUME NEW n \in Nat, n \in A PROVE n + 1 \in A
  <2>1. PICK g : UpTo(n, g)
    BY <1>2
  <2> HIDE DEF UpTo
  <2> DEFINE h == [s \in SUBSET U |-> IF Cardinality(s) = n + 1
                                      THEN f[Chosen(s)] + g[s \ {Chosen(s)}] ELSE g[s]]
  <2>2. ASSUME NEW s \in SUBSET U, s # {}
        PROVE  /\ Chosen(s) \in U /\ s \ {Chosen(s)} \in SUBSET U
               /\ f[Chosen(s)] + g[s \ {Chosen(s)}] \in Int
               /\ Cardinality(s) = Cardinality(s \ {Chosen(s)}) + 1
               /\ Cardinality(s \ {Chosen(s)}) \in Nat
    <3>1. Chosen(s) \in s
      BY <2>2, ChosenIsOne
    <3>2. s \ {Chosen(s)} \in SUBSET U /\ Cardinality(s) = Cardinality(s \ {Chosen(s)}) + 1
          /\ Cardinality(s \ {Chosen(s)}) \in Nat
      BY <3>1, WithoutOne
    <3>3. g[s \ {Chosen(s)}] \in Int /\ f[Chosen(s)] \in Int
      BY <2>1, <3>1, <3>2 DEF UpTo, Ints
    <3> QED
      BY <3>1, <3>2, <3>3
  <2>3. \A s \in SUBSET U : Cardinality(s) \in Nat /\ (Cardinality(s) = 0 <=> s = {})
    BY EmptyOrMore
  <2>4. \A s \in SUBSET U : h[s] = IF Cardinality(s) = n + 1
                                   THEN f[Chosen(s)] + g[s \ {Chosen(s)}] ELSE g[s]
    OBVIOUS
  <2>8. /\ g \in [SUBSET U -> Int]
        /\ \A s \in SUBSET U : Cardinality(s) <= n =>
             g[s] = IF s = {} THEN 0 ELSE f[Chosen(s)] + g[s \ {Chosen(s)}]
    BY <2>1 DEF UpTo
  <2>9. ASSUME NEW s \in SUBSET U
        PROVE  (IF Cardinality(s) = n + 1 THEN f[Chosen(s)] + g[s \ {Chosen(s)}] ELSE g[s]) \in Int
    <3>1. CASE s = {}
      BY <3>1, <2>3, <2>8
    <3>2. CASE s # {}
      BY <3>2, <2>2, <2>8
    <3> QED
      BY <3>1, <3>2
  <2>5. h \in [SUBSET U -> Int]
    BY <2>9
  <2> HIDE DEF h
  <2>6. ASSUME NEW s \in SUBSET U, Cardinality(s) <= n + 1
        PROVE  h[s] = IF s = {} THEN 0 ELSE f[Chosen(s)] + h[s \ {Chosen(s)}]
    <3>1. CASE s = {}
      <4>1. Cardinality(s) <= n /\ Cardinality(s) # n + 1
        BY <3>1, <2>3
      <4>2. h[s] = g[s] /\ g[s] = 0
        BY <3>1, <4>1, <2>4, <2>8
      <4> QED
        BY <3>1, <4>2
    <3>2. CASE s # {}
      <4>1. PICK t \in SUBSET U : t = s \ {Chosen(s)} /\ Cardinality(s) = Cardinality(t) + 1
                                  /\ Cardinality(t) \in Nat
        BY <3>2, <2>2
      <4>2. h[t] = g[t]
        <5>1. Cardinality(t) # n + 1
          BY <4>1, <2>6
        <5> QED
          BY <5>1, <2>4
      <4>3. CASE Cardinality(s) = n + 1
        BY <4>1, <4>2, <4>3, <3>2, <2>4
      <4>4. CASE Cardinality(s) # n + 1
        <5>1. h[s] = g[s] /\ Cardinality(s) <= n
          <6>1. Cardinality(s) \in Nat /\ Cardinality(s) <= n
            BY <4>4, <2>3, <2>6
          <6> QED
            BY <4>4, <6>1, <2>4
        <5>2. g[s] = f[Chosen(s)] + g[t]
          BY <5>1, <4>1, <3>2, <2>8
        <5> QED
          BY <5>1, <5>2, <4>1, <4>2, <3>2
      <4> QED
        BY <4>3, <4>4
    <3> QED
      BY <3>1, <3>2
  <2>7. UpTo(n + 1, h)
    BY <2>5, <2>6 DEF UpTo
  <2> QED
    BY <2>7
<1>3. Cardinality(U) \in Nat /\ \A s \in SUBSET U : Cardinality(s) <= Cardinality(U)
  BY FS_Subset, FS_CardinalityType
<1>4. Cardinality(U) \in A
  <2> HIDE DEF A
  <2> QED
    BY <1>1, <1>2, <1>3, NatInductionSet
<1>5. PICK g : UpTo(Cardinality(U), g)
  BY <1>4
<1> QED
  BY <1>3, <1>5 DEF Sums, Recurs

\* A sum depends on the values over its set alone.
LEMMA SumsAgree ==
  ASSUME NEW U, IsFiniteSet(U), NEW V, NEW f, NEW e, NEW g, NEW h,
         Recurs(f, U, g), Recurs(e, V, h),
         NEW s, s \subseteq U, s \subseteq V, \A x \in s : f[x] = e[x]
  PROVE  g[s] = h[s]
<1> DEFINE A == {n \in Nat : \A t \in SUBSET s : Cardinality(t) = n => g[t] = h[t]}
<1>1. ASSUME NEW t \in SUBSET s
      PROVE  /\ t \in SUBSET U /\ t \in SUBSET V
             /\ g[t] = IF t = {} THEN 0 ELSE f[Chosen(t)] + g[t \ {Chosen(t)}]
             /\ h[t] = IF t = {} THEN 0 ELSE e[Chosen(t)] + h[t \ {Chosen(t)}]
             /\ Cardinality(t) \in Nat /\ (Cardinality(t) = 0 <=> t = {})
             /\ t # {} => /\ f[Chosen(t)] = e[Chosen(t)]
                          /\ t \ {Chosen(t)} \in SUBSET s
                          /\ Cardinality(t) = Cardinality(t \ {Chosen(t)}) + 1
                          /\ Cardinality(t \ {Chosen(t)}) \in Nat
  <2>1. t \in SUBSET U /\ t \in SUBSET V
    OBVIOUS
  <2>2. Cardinality(t) \in Nat /\ (Cardinality(t) = 0 <=> t = {})
    BY <2>1, EmptyOrMore
  <2>3. ASSUME t # {}
        PROVE  /\ Chosen(t) \in t
               /\ Cardinality(t) = Cardinality(t \ {Chosen(t)}) + 1
               /\ Cardinality(t \ {Chosen(t)}) \in Nat
    <3>1. PICK x \in t : x = Chosen(t)
      BY <2>3, ChosenIsOne
    <3> QED
      BY <2>1, <3>1, WithoutOne
  <2>4. g[t] = IF t = {} THEN 0 ELSE f[Chosen(t)] + g[t \ {Chosen(t)}]
    BY <2>1 DEF Recurs
  <2>5. h[t] = IF t = {} THEN 0 ELSE e[Chosen(t)] + h[t \ {Chosen(t)}]
    BY <2>1 DEF Recurs
  <2> QED
    BY <2>1, <2>2, <2>3, <2>4, <2>5
<1>2. 0 \in A
  BY <1>1
<1>3. ASSUME NEW n \in Nat, n \in A PROVE n + 1 \in A
  <2> SUFFICES ASSUME NEW t \in SUBSET s, Cardinality(t) = n + 1 PROVE g[t] = h[t]
    OBVIOUS
  <2>1. t # {}
    <3>1. Cardinality(t) = 0 <=> t = {}
      BY <1>1
    <3> QED
      BY <3>1
  <2>2. PICK v : v = t \ {Chosen(t)}
    OBVIOUS
  <2>6. v \in SUBSET s /\ Cardinality(t) = Cardinality(v) + 1 /\ Cardinality(v) \in Nat
    BY <2>1, <2>2, <1>1
  <2>3. v \in SUBSET s /\ Cardinality(v) = n
    BY <2>6
  <2>4. g[v] = h[v]
    BY <2>3, <1>3
  <2>5. g[t] = f[Chosen(t)] + g[v] /\ h[t] = e[Chosen(t)] + h[v] /\ f[Chosen(t)] = e[Chosen(t)]
    BY <2>1, <2>2, <1>1
  <2> QED
    BY <2>4, <2>5
<1>4. Cardinality(s) \in A
  <2>1. Cardinality(s) \in Nat
    BY <1>1
  <2> HIDE DEF A
  <2> QED
    BY <1>2, <1>3, <2>1, NatInductionSet
<1> QED
  BY <1>4

\* SumFunctionOnSet reads one of them.
LEMMA SumIsOneOf ==
  ASSUME NEW U, IsFiniteSet(U), NEW f, Ints(f, U)
  PROVE  \E g : Sums(f, U, g) /\ SumFunctionOnSet(f, U) = g[U]
<1> DEFINE Body(g) == [s \in SUBSET U |-> IF s = {} THEN 0
                        ELSE f[CHOOSE x \in s : TRUE] + g[s \ {CHOOSE x \in s : TRUE}]]
           g == CHOOSE g : g = Body(g)
<1>1. SumFunctionOnSet(f, U) = g[U]
  BY DEF SumFunctionOnSet, FoldFunctionOnSet, MapThenFoldSet
<1>2. \A h : Sums(f, U, h) => h = Body(h)
  BY DEF Sums, Recurs, Chosen
<1>5. \E h : h = Body(h)
  <2>1. PICK h : Sums(f, U, h)
    BY SumsExist
  <2>2. h = Body(h)
    BY <2>1, <1>2, Zenon
  <2> QED
    BY <2>2, Zenon
<1>3. g = Body(g)
  BY <1>5, Zenon
<1> HIDE DEF g
<1>4. Recurs(f, U, g)
  BY <1>3 DEF Recurs, Chosen
<1>6. PICK h : Sums(f, U, h)
  BY SumsExist
<1>7. g[U] = h[U]
  BY <1>4, <1>6, SumsAgree DEF Sums
<1> QED
  BY <1>1, <1>6, <1>7

\* An element may be taken first, whatever is chosen.
LEMMA SumsRemove ==
  ASSUME NEW U, IsFiniteSet(U), NEW f, Ints(f, U), NEW g, Sums(f, U, g),
         NEW s \in SUBSET U, NEW c \in s
  PROVE  g[s] = f[c] + g[s \ {c}]
<1> DEFINE A == {n \in Nat : \A t \in SUBSET U : \A x \in t :
                   Cardinality(t) <= n => g[t] = f[x] + g[t \ {x}]}
<1>1. ASSUME NEW t \in SUBSET U, NEW x \in t
      PROVE  /\ t \ {x} \in SUBSET U /\ f[x] \in Int /\ g[t \ {x}] \in Int
             /\ Cardinality(t) \in Nat /\ Cardinality(t \ {x}) \in Nat
             /\ Cardinality(t) = Cardinality(t \ {x}) + 1
             /\ Chosen(t) \in t /\ g[t] = f[Chosen(t)] + g[t \ {Chosen(t)}]
  <2>1. /\ t \ {x} \in SUBSET U /\ Cardinality(t) \in Nat /\ Cardinality(t \ {x}) \in Nat
        /\ Cardinality(t) = Cardinality(t \ {x}) + 1
    BY WithoutOne
  <2>2. f[x] \in Int /\ g[t \ {x}] \in Int
    BY <2>1 DEF Ints, Sums
  <2>3. Chosen(t) \in t
    BY ChosenIsOne
  <2>4. g[t] = f[Chosen(t)] + g[t \ {Chosen(t)}]
    BY DEF Sums, Recurs
  <2> QED
    BY <2>1, <2>2, <2>3, <2>4
<1>2. 0 \in A
  <2> SUFFICES ASSUME NEW t \in SUBSET U, NEW x \in t, Cardinality(t) <= 0 PROVE FALSE
    OBVIOUS
  <2>1. Cardinality(t) = Cardinality(t \ {x}) + 1 /\ Cardinality(t \ {x}) \in Nat
    BY <1>1
  <2> QED
    BY <2>1
<1>3. ASSUME NEW n \in Nat, n \in A PROVE n + 1 \in A
  <2> SUFFICES ASSUME NEW t \in SUBSET U, NEW x \in t, Cardinality(t) <= n + 1
               PROVE  g[t] = f[x] + g[t \ {x}]
    OBVIOUS
  <2>1. PICK y \in t : y = Chosen(t) /\ g[t] = f[y] + g[t \ {y}]
    BY <1>1
  <2>2. CASE y = x
    BY <2>1, <2>2
  <2>3. CASE y # x
    <3>6. PICK u : u = t \ {y}
      OBVIOUS
    <3>7. u \in SUBSET U /\ Cardinality(u) \in Nat /\ Cardinality(t) = Cardinality(u) + 1
      BY <3>6, <1>1
    <3>1. u = t \ {y} /\ u \in SUBSET U /\ Cardinality(u) <= n /\ x \in u
      BY <2>3, <3>6, <3>7
    <3>8. PICK v : v = t \ {x}
      OBVIOUS
    <3>9. v \in SUBSET U /\ Cardinality(v) \in Nat /\ Cardinality(t) = Cardinality(v) + 1
      BY <3>8, <1>1
    <3>2. v = t \ {x} /\ v \in SUBSET U /\ Cardinality(v) <= n /\ y \in v
      BY <2>3, <3>8, <3>9
    <3>3. PICK w : w = u \ {x} /\ w = v \ {y}
      BY <3>1, <3>2
    <3>4. g[u] = f[x] + g[w] /\ g[v] = f[y] + g[w]
      BY <3>1, <3>2, <3>3, <1>3
    <3>5. f[x] \in Int /\ f[y] \in Int /\ g[w] \in Int
      BY <3>1, <3>3, <1>1
    <3> QED
      BY <2>1, <3>1, <3>2, <3>4, <3>5
  <2> QED
    BY <2>2, <2>3
<1>4. Cardinality(s) \in A
  <2>1. Cardinality(s) \in Nat
    BY <1>1
  <2> HIDE DEF A
  <2> QED
    BY <1>2, <1>3, <2>1, NatInductionSet
<1> QED
  BY <1>1, <1>4

-----------------------------------------------------------------------------
(* What the proofs about the components cite.                                *)

\* The sum over no element.
THEOREM SumEmpty == ASSUME NEW f PROVE SumFunctionOnSet(f, {}) = 0
<1>1. IsFiniteSet({})
  BY FS_EmptySet
<1>2. Ints(f, {})
  BY DEF Ints
<1>3. PICK g : Sums(f, {}, g) /\ SumFunctionOnSet(f, {}) = g[{}]
  BY <1>1, <1>2, SumIsOneOf
<1> QED
  BY <1>3 DEF Sums, Recurs

\* The sum of integers is one.
THEOREM SumIsInt ==
  ASSUME NEW U, IsFiniteSet(U), NEW f, Ints(f, U)
  PROVE  SumFunctionOnSet(f, U) \in Int
<1>1. PICK g : Sums(f, U, g) /\ SumFunctionOnSet(f, U) = g[U]
  BY SumIsOneOf
<1> QED
  BY <1>1 DEF Sums

\* Two functions that agree on a set have one sum over it.
THEOREM SumAgrees ==
  ASSUME NEW U, IsFiniteSet(U), NEW f, NEW e, Ints(f, U), \A x \in U : f[x] = e[x]
  PROVE  SumFunctionOnSet(f, U) = SumFunctionOnSet(e, U)
<1>1. Ints(e, U)
  BY DEF Ints
<1>2. PICK g : Sums(f, U, g) /\ SumFunctionOnSet(f, U) = g[U]
  BY SumIsOneOf
<1>3. PICK h : Sums(e, U, h) /\ SumFunctionOnSet(e, U) = h[U]
  BY <1>1, SumIsOneOf
<1>4. g[U] = h[U]
  BY <1>2, <1>3, SumsAgree DEF Sums
<1> QED
  BY <1>2, <1>3, <1>4

\* One element apart from the others.
THEOREM SumRemove ==
  ASSUME NEW U, IsFiniteSet(U), NEW f, Ints(f, U), NEW c \in U
  PROVE  SumFunctionOnSet(f, U) = f[c] + SumFunctionOnSet(f, U \ {c})
<1>1. IsFiniteSet(U \ {c})
  BY FS_RemoveElement
<1>2. Ints(f, U \ {c})
  BY DEF Ints
<1>3. PICK g : Sums(f, U, g) /\ SumFunctionOnSet(f, U) = g[U]
  BY SumIsOneOf
<1>4. PICK h : Sums(f, U \ {c}, h) /\ SumFunctionOnSet(f, U \ {c}) = h[U \ {c}]
  BY <1>1, <1>2, SumIsOneOf
<1>5. g[U \ {c}] = h[U \ {c}]
  BY <1>3, <1>4, SumsAgree DEF Sums
<1>6. g[U] = f[c] + g[U \ {c}]
  BY <1>3, SumsRemove
<1> QED
  BY <1>3, <1>4, <1>5, <1>6

\* A function changed at one element.
THEOREM SumChange ==
  ASSUME NEW U, IsFiniteSet(U), NEW f, NEW e, Ints(f, U), Ints(e, U), NEW c \in U,
         \A x \in U : x # c => f[x] = e[x]
  PROVE  /\ SumFunctionOnSet(f, U) \in Int
         /\ SumFunctionOnSet(e, U) = SumFunctionOnSet(f, U) - f[c] + e[c]
<1>1. IsFiniteSet(U \ {c})
  BY FS_RemoveElement
<1>2. Ints(f, U \ {c}) /\ \A x \in U \ {c} : f[x] = e[x]
  BY DEF Ints
<1>3. SumFunctionOnSet(f, U \ {c}) = SumFunctionOnSet(e, U \ {c})
  BY <1>1, <1>2, SumAgrees
<1>4. SumFunctionOnSet(f, U \ {c}) \in Int
  BY <1>1, <1>2, SumIsInt
<1>5. SumFunctionOnSet(f, U) = f[c] + SumFunctionOnSet(f, U \ {c})
  BY SumRemove
<1>6. SumFunctionOnSet(e, U) = e[c] + SumFunctionOnSet(e, U \ {c})
  BY SumRemove
<1>7. f[c] \in Int /\ e[c] \in Int
  BY DEF Ints
<1> QED
  BY <1>3, <1>4, <1>5, <1>6, <1>7

\* A sum of numbers that are not positive is not positive.
THEOREM SumNotPositive ==
  ASSUME NEW U, IsFiniteSet(U), NEW f, Ints(f, U), \A x \in U : f[x] <= 0
  PROVE  SumFunctionOnSet(f, U) <= 0
<1>1. PICK g : Sums(f, U, g) /\ SumFunctionOnSet(f, U) = g[U]
  BY SumIsOneOf
<1> DEFINE A == {n \in Nat : \A t \in SUBSET U : Cardinality(t) = n => g[t] <= 0}
<1>2. 0 \in A
  <2> SUFFICES ASSUME NEW t \in SUBSET U, Cardinality(t) = 0 PROVE g[t] <= 0
    OBVIOUS
  <2>1. t = {}
    BY EmptyOrMore
  <2>2. g[t] = 0
    BY <2>1, <1>1 DEF Sums, Recurs
  <2> QED
    BY <2>2
<1>3. ASSUME NEW n \in Nat, n \in A PROVE n + 1 \in A
  <2> SUFFICES ASSUME NEW t \in SUBSET U, Cardinality(t) = n + 1 PROVE g[t] <= 0
    OBVIOUS
  <2>1. t # {}
    BY EmptyOrMore
  <2>2. PICK x \in t : x = Chosen(t) /\ g[t] = f[x] + g[t \ {x}]
    <3>1. Chosen(t) \in t
      BY <2>1, ChosenIsOne
    <3>2. g[t] = f[Chosen(t)] + g[t \ {Chosen(t)}]
      BY <2>1, <1>1 DEF Sums, Recurs
    <3> QED
      BY <3>1, <3>2
  <2>5. PICK v : v = t \ {x}
    OBVIOUS
  <2>3. v = t \ {x} /\ v \in SUBSET U /\ Cardinality(v) \in Nat /\ Cardinality(v) = n
    <3>1. /\ v \in SUBSET U /\ Cardinality(t) = Cardinality(v) + 1 /\ Cardinality(v) \in Nat
      BY <2>5, WithoutOne
    <3> QED
      BY <2>5, <3>1
  <2>4. g[v] <= 0 /\ g[v] \in Int
    BY <2>3, <1>1, <1>3 DEF Sums
  <2>6. f[x] \in Int /\ f[x] <= 0
    BY DEF Ints
  <2> QED
    BY <2>2, <2>3, <2>4, <2>6
<1>4. Cardinality(U) \in A
  <2>1. Cardinality(U) \in Nat
    BY FS_CardinalityType
  <2> HIDE DEF A
  <2> QED
    BY <1>2, <1>3, <2>1, NatInductionSet
<1> QED
  BY <1>1, <1>4

\* A sum of zeros is zero.
THEOREM SumOfZeros ==
  ASSUME NEW U, IsFiniteSet(U), NEW f, \A x \in U : f[x] = 0
  PROVE  SumFunctionOnSet(f, U) = 0
<1>1. Ints(f, U)
  BY DEF Ints
<1>2. PICK g : Sums(f, U, g) /\ SumFunctionOnSet(f, U) = g[U]
  BY <1>1, SumIsOneOf
<1> DEFINE A == {n \in Nat : \A t \in SUBSET U : Cardinality(t) = n => g[t] = 0}
<1>3. 0 \in A
  <2> SUFFICES ASSUME NEW t \in SUBSET U, Cardinality(t) = 0 PROVE g[t] = 0
    OBVIOUS
  <2>1. t = {}
    BY EmptyOrMore
  <2> QED
    BY <2>1, <1>2 DEF Sums, Recurs
<1>4. ASSUME NEW n \in Nat, n \in A PROVE n + 1 \in A
  <2> SUFFICES ASSUME NEW t \in SUBSET U, Cardinality(t) = n + 1 PROVE g[t] = 0
    OBVIOUS
  <2>1. t # {}
    BY EmptyOrMore
  <2>2. PICK x \in t : x = Chosen(t) /\ g[t] = f[x] + g[t \ {x}]
    <3>1. Chosen(t) \in t
      BY <2>1, ChosenIsOne
    <3>2. g[t] = f[Chosen(t)] + g[t \ {Chosen(t)}]
      BY <2>1, <1>2 DEF Sums, Recurs
    <3> QED
      BY <3>1, <3>2
  <2>5. PICK v : v = t \ {x}
    OBVIOUS
  <2>3. v = t \ {x} /\ v \in SUBSET U /\ Cardinality(v) \in Nat /\ Cardinality(v) = n
    <3>1. /\ v \in SUBSET U /\ Cardinality(t) = Cardinality(v) + 1 /\ Cardinality(v) \in Nat
      BY <2>5, WithoutOne
    <3> QED
      BY <2>5, <3>1
  <2>4. g[v] = 0 /\ f[x] = 0
    BY <2>3, <1>4
  <2> QED
    BY <2>2, <2>3, <2>4
<1>5. Cardinality(U) \in A
  <2>1. Cardinality(U) \in Nat
    BY FS_CardinalityType
  <2> HIDE DEF A
  <2> QED
    BY <1>3, <1>4, <2>1, NatInductionSet
<1> QED
  BY <1>2, <1>5

\* Elements that count nothing may be left out of a sum.
THEOREM SumWithoutZeros ==
  ASSUME NEW U, IsFiniteSet(U), NEW f, Ints(f, U), NEW D, D \subseteq U, \A x \in U \ D : f[x] = 0
  PROVE  SumFunctionOnSet(f, U) = SumFunctionOnSet(f, D)
<1> DEFINE A == {n \in Nat : \A t \in SUBSET U : D \subseteq t /\ Cardinality(t \ D) = n =>
                   SumFunctionOnSet(f, t) = SumFunctionOnSet(f, D)}
<1>0. ASSUME NEW t \in SUBSET U PROVE IsFiniteSet(t \ D) /\ Cardinality(t \ D) \in Nat
  BY FS_Subset, FS_CardinalityType
<1>1. 0 \in A
  <2> SUFFICES ASSUME NEW t \in SUBSET U, D \subseteq t, Cardinality(t \ D) = 0 PROVE t = D
    OBVIOUS
  <2>1. t \ D = {}
    BY <1>0, FS_EmptySet
  <2> QED
    BY <2>1
<1>2. ASSUME NEW n \in Nat, n \in A PROVE n + 1 \in A
  <2> SUFFICES ASSUME NEW t \in SUBSET U, D \subseteq t, Cardinality(t \ D) = n + 1
               PROVE  SumFunctionOnSet(f, t) = SumFunctionOnSet(f, D)
    OBVIOUS
  <2>1. t \ D # {}
    BY FS_EmptySet
  <2>2. PICK c \in t \ D : TRUE
    BY <2>1
  <2>10. PICK u : u = t \ {c}
    OBVIOUS
  <2>3. u \in SUBSET U /\ u = t \ {c} /\ D \subseteq u /\ u \ D = (t \ D) \ {c}
    BY <2>2, <2>10
  <2>11. PICK r : r = t \ D /\ IsFiniteSet(r) /\ c \in r
    BY <2>2, <1>0
  <2>4. Cardinality(u \ D) = Cardinality(t \ D) - 1
    <3>1. Cardinality(r \ {c}) = Cardinality(r) - 1
      BY <2>11, FS_RemoveElement
    <3> QED
      BY <3>1, <2>3, <2>11
  <2>5. Cardinality(u \ D) = n
    BY <2>4
  <2>6. SumFunctionOnSet(f, u) = SumFunctionOnSet(f, D)
    BY <2>3, <2>5, <1>2
  <2>7. IsFiniteSet(t) /\ Ints(f, t) /\ IsFiniteSet(u) /\ Ints(f, u)
    BY <2>3, FS_Subset DEF Ints
  <2>8. SumFunctionOnSet(f, t) = f[c] + SumFunctionOnSet(f, u) /\ f[c] = 0
    BY <2>2, <2>3, <2>7, SumRemove
  <2>9. SumFunctionOnSet(f, u) \in Int
    BY <2>7, SumIsInt
  <2> QED
    BY <2>6, <2>8, <2>9
<1> HIDE DEF A
<1>3. Nat \subseteq A
  BY <1>1, <1>2, NatInductionSet
<1>4. Cardinality(U \ D) \in A
  BY <1>0, <1>3
<1> QED
  BY <1>4 DEF A

\* A sum of numbers none of which is greater is not greater.
THEOREM SumNotGreater ==
  ASSUME NEW U, IsFiniteSet(U), NEW f, NEW e, Ints(f, U), Ints(e, U), \A x \in U : f[x] <= e[x]
  PROVE  SumFunctionOnSet(f, U) <= SumFunctionOnSet(e, U)
<1> DEFINE A == {n \in Nat : \A t \in SUBSET U : Cardinality(t) = n =>
                   SumFunctionOnSet(f, t) <= SumFunctionOnSet(e, t)}
<1>0. ASSUME NEW t \in SUBSET U
      PROVE  /\ IsFiniteSet(t) /\ Ints(f, t) /\ Ints(e, t) /\ Cardinality(t) \in Nat
             /\ Cardinality(t) = 0 <=> t = {}
  BY FS_Subset, FS_CardinalityType, FS_EmptySet DEF Ints
<1>1. 0 \in A
  <2> SUFFICES ASSUME NEW t \in SUBSET U, Cardinality(t) = 0
               PROVE  SumFunctionOnSet(f, t) <= SumFunctionOnSet(e, t)
    OBVIOUS
  <2>1. t = {}
    BY <1>0
  <2>2. SumFunctionOnSet(f, t) = 0 /\ SumFunctionOnSet(e, t) = 0
    BY <2>1, SumEmpty
  <2> QED
    BY <2>2
<1>2. ASSUME NEW n \in Nat, n \in A PROVE n + 1 \in A
  <2> SUFFICES ASSUME NEW t \in SUBSET U, Cardinality(t) = n + 1
               PROVE  SumFunctionOnSet(f, t) <= SumFunctionOnSet(e, t)
    OBVIOUS
  <2>1. t # {}
    BY <1>0
  <2>2. PICK c \in t, u \in SUBSET U : u = t \ {c}
    BY <2>1
  <2>4. Cardinality(u) = Cardinality(t) - 1
    BY <2>2, <1>0, FS_RemoveElement
  <2>5. Cardinality(u) = n
    BY <2>4
  <2>6. SumFunctionOnSet(f, u) <= SumFunctionOnSet(e, u)
    BY <2>5, <1>2
  <2>7. /\ SumFunctionOnSet(f, t) = f[c] + SumFunctionOnSet(f, u)
        /\ SumFunctionOnSet(e, t) = e[c] + SumFunctionOnSet(e, u)
    BY <2>2, <1>0, SumRemove
  <2>8. SumFunctionOnSet(f, u) \in Int /\ SumFunctionOnSet(e, u) \in Int
    BY <1>0, SumIsInt
  <2>9. f[c] \in Int /\ e[c] \in Int /\ f[c] <= e[c]
    BY DEF Ints
  <2> QED
    BY <2>6, <2>7, <2>8, <2>9
<1> HIDE DEF A
<1>3. Nat \subseteq A
  BY <1>1, <1>2, NatInductionSet
<1>4. Cardinality(U) \in A
  BY <1>0, <1>3
<1> QED
  BY <1>4 DEF A

-----------------------------------------------------------------------------
(* Remainders                                                                *)

\* A quotient and its remainder.
LEMMA DivFacts == ASSUME NEW m \in Nat \ {0}, NEW a \in Int
  PROVE a \div m \in Int /\ a % m \in 0..(m - 1) /\ a = m * (a \div m) + (a % m)
<1>1. a \div m \in Int
  OBVIOUS
<1>2. a % m \in 0..(m - 1)
  OBVIOUS
<1>3. a = m * (a \div m) + (a % m)
  OBVIOUS
<1> QED
  BY <1>1, <1>2, <1>3
\* A number has one remainder.
LEMMA RemainderUnique == ASSUME NEW m \in Nat \ {0}, NEW x \in Int, NEW y \in Int, NEW r \in 0..(m-1), NEW s \in 0..(m-1), m * x + r = m * y + s
  PROVE r = s
<1>1. m * (x - y) = s - r
  OBVIOUS
<1>2. PICK z \in Int : z = x - y /\ m * z = s - r
  BY <1>1
<1>3. CASE z >= 1
  <2>1. m * z >= m * 1
    BY <1>3
  <2> QED BY <2>1, <1>2
<1>4. CASE z <= -1
  <2>1. m * z <= m * (-1)
    BY <1>4
  <2> QED BY <2>1, <1>2
<1>5. CASE z = 0
  BY <1>5, <1>2
<1> QED
  BY <1>3, <1>4, <1>5

\* Multiples do not change a remainder.
LEMMA ModShift == ASSUME NEW m \in Nat \ {0}, NEW q \in Int, NEW b \in Int
  PROVE (m * q + b) % m = b % m
<1>1. PICK c \in Int : c = m * q + b
  OBVIOUS
<1>2. c = m * (c \div m) + (c % m) /\ c % m \in 0..(m - 1) /\ c \div m \in Int
  BY DivFacts
<1>3. b = m * (b \div m) + (b % m) /\ b % m \in 0..(m - 1) /\ b \div m \in Int
  BY DivFacts
<1>4. PICK k \in Int : k = b \div m
  BY <1>3
<1>5. PICK l \in Int : l = c \div m
  BY <1>2
<1>8. PICK n \in Int : n = q + k
  OBVIOUS
<1>9. m * n = m * q + m * k
  BY <1>8
<1>10. PICK u \in 0..(m - 1), v \in 0..(m - 1) : u = b % m /\ v = c % m
  BY <1>2, <1>3
<1>11. b = m * k + u /\ c = m * l + v
  BY <1>2, <1>3, <1>4, <1>5, <1>10
<1>6. m * n + u = m * l + v
  BY <1>1, <1>9, <1>11
<1>7. b % m = c % m
  BY <1>6, <1>10, RemainderUnique
<1> QED
  BY <1>1, <1>7

\* The sign of a quotient, and a bound of it.
THEOREM QuotientBounds ==
  ASSUME NEW m \in Nat \ {0}, NEW a \in Int
  PROVE  /\ a \div m \in Int
         /\ a >= 0 => a \div m >= 0
         /\ a <= 0 => a \div m <= 0
         /\ a <= 9 * m => a \div m <= 9
<1>1. PICK q \in Int, r \in 0..(m - 1) : q = a \div m /\ a = m * q + r
  BY DivFacts
<1>2. a >= 0 => q >= 0
  <2> SUFFICES ASSUME a >= 0, q <= -1 PROVE FALSE
    BY <1>1
  <2>1. m * q <= m * (-1)
    BY <1>1
  <2> QED
    BY <2>1, <1>1
<1>3. a <= 0 => q <= 0
  <2> SUFFICES ASSUME a <= 0, q >= 1 PROVE FALSE
    BY <1>1
  <2>1. m * q >= m * 1
    BY <1>1
  <2> QED
    BY <2>1, <1>1
<1>4. a <= 9 * m => q <= 9
  <2> SUFFICES ASSUME a <= 9 * m, q >= 10 PROVE FALSE
    BY <1>1
  <2>1. m * q >= m * 10
    BY <1>1
  <2> QED
    BY <2>1, <1>1
<1> QED
  BY <1>1, <1>2, <1>3, <1>4

\* Wrapping now or later is the same, for an addition and for a subtraction.
THEOREM ModAdd == ASSUME NEW m \in Nat \ {0}, NEW a \in Int, NEW d \in Int
  PROVE ((a % m) + d) % m = (a + d) % m /\ (m + (a % m) - d) % m = (a - d) % m
<1>1. a = m * (a \div m) + (a % m) /\ a % m \in Int /\ a \div m \in Int
  BY DivFacts
<1>2. PICK q \in Int, r \in Int : q = a \div m /\ r = a % m /\ a = m * q + r
  BY <1>1
<1>3. PICK b \in Int, c \in Int : b = r + d /\ c = r - d
  OBVIOUS
<1>4. (m * q + b) % m = b % m
  BY ModShift
<1>6. (m * q + c) % m = c % m
  BY ModShift
<1>7. (m * 1 + c) % m = c % m
  <2>1. PICK e \in Int : e = 1
    OBVIOUS
  <2>2. (m * e + c) % m = c % m
    BY ModShift
  <2> QED
    BY <2>1, <2>2
<1>5. m * q + b = a + d /\ m * q + c = a - d /\ m * 1 + c = m + r - d
  BY <1>2, <1>3
<1> QED
  BY <1>2, <1>3, <1>4, <1>5, <1>6, <1>7
=============================================================================
