------------------------------- MODULE SumLemmas -------------------------------
(***************************************************************************)
(* Facts about finite sums, SumFunctionOnSet of module Functions, that the *)
(* proofs about counters and charts cite.  Induction is done with least    *)
(* counterexamples: of a set of natural numbers, or of sets.               *)
(***************************************************************************)
EXTENDS Integers, Functions, FiniteSetTheorems, TLAPS

\* A set of natural numbers has a least element.
LEMMA Least ==
    ASSUME NEW T \in SUBSET Nat, T # {}
    PROVE  \E m \in T : \A n \in T : m <= n
<1> DEFINE R == OpToRel(<, Nat)
<1>1. IsWellFoundedOn(R, Nat)
  BY NatLessThanWellFounded
<1>2. \E m \in T : \A n \in T : <<n, m>> \notin R
  <2> HIDE DEF R
  <2> QED
    BY <1>1, WFMin
<1>3. PICK m \in T : \A n \in T : <<n, m>> \notin R
  BY <1>2
<1>4. \A n \in T : ~(n < m)
  BY <1>3 DEF OpToRel
<1> QED
  BY <1>4

\* Among subsets of a finite set there is one that loses its place with each
\* of its elements.
LEMMA LeastSet ==
    ASSUME NEW T, IsFiniteSet(T), NEW C \in SUBSET (SUBSET T), C # {}
    PROVE  \E s \in C : \A x \in s : s \ {x} \notin C
<1> DEFINE N == {Cardinality(s) : s \in C}
<1>1. \A s \in C : IsFiniteSet(s) /\ Cardinality(s) \in Nat
  BY FS_Subset, FS_CardinalityType
<1>2. N \in SUBSET Nat /\ N # {}
  BY <1>1
<1>3. PICK m \in N : \A n \in N : m <= n
  <2> HIDE DEF N
  <2> QED
    BY <1>2, Least
<1>4. PICK s \in C : m = Cardinality(s)
  BY <1>3
<1>5. ASSUME NEW x \in s, s \ {x} \in C
      PROVE  FALSE
  <2>1. Cardinality(s \ {x}) = Cardinality(s) - 1
    BY <1>1, <1>5, FS_RemoveElement
  <2>2. Cardinality(s) <= Cardinality(s \ {x})
    BY <1>3, <1>4, <1>5
  <2> QED
    BY <1>1, <2>1, <2>2
<1> QED
  BY <1>5

-----------------------------------------------------------------------------
(***************************************************************************)
(* The function behind SumFunctionOnSet                                    *)
(***************************************************************************)
Some(s) == CHOOSE x \in s : TRUE
IsSum(g, f, T) ==
    g = [s \in SUBSET T |-> IF s = {} THEN 0 ELSE f[Some(s)] + g[s \ {Some(s)}]]

\* What a partial sum satisfies at s.
SumsAt(g, f, s) == g[s] = IF s = {} THEN 0 ELSE f[Some(s)] + g[s \ {Some(s)}]

\* There are partial sums up to every size of set.
LEMMA SumUpTo ==
    ASSUME NEW T, IsFiniteSet(T), NEW f, \A x \in T : f[x] \in Int, NEW n \in Nat
    PROVE  \E g \in [SUBSET T -> Int] : \A s \in SUBSET T : Cardinality(s) <= n => SumsAt(g, f, s)
<1> DEFINE E(k) == \E g \in [SUBSET T -> Int] :
                      \A s \in SUBSET T : Cardinality(s) <= k => SumsAt(g, f, s)
           B == {k \in Nat : ~E(k)}
<1>1. \A s \in SUBSET T : /\ IsFiniteSet(s) /\ Cardinality(s) \in Nat
                          /\ Cardinality(s) = 0 <=> s = {}
  BY FS_Subset, FS_CardinalityType, FS_EmptySet
<1>2. \A s \in SUBSET T : s # {} =>
        /\ Some(s) \in s /\ s \ {Some(s)} \in SUBSET T
        /\ Cardinality(s \ {Some(s)}) = Cardinality(s) - 1
  BY <1>1, FS_RemoveElement DEF Some
<1>3. E(0)
  <2> DEFINE g == [s \in SUBSET T |-> 0]
  <2>1. \A s \in SUBSET T : Cardinality(s) <= 0 => s = {}
    BY <1>1
  <2>2. \A s \in SUBSET T : Cardinality(s) <= 0 => SumsAt(g, f, s)
    BY <2>1 DEF SumsAt
  <2>3. g \in [SUBSET T -> Int]
    OBVIOUS
  <2> HIDE DEF g
  <2> QED
    BY <2>2, <2>3
<1>4. ASSUME NEW k \in Nat, E(k)
      PROVE  E(k + 1)
  <2>1. PICK g \in [SUBSET T -> Int] : \A s \in SUBSET T : Cardinality(s) <= k => SumsAt(g, f, s)
    BY <1>4
  <2> DEFINE h == [s \in SUBSET T |-> IF Cardinality(s) <= k THEN g[s] ELSE f[Some(s)] + g[s \ {Some(s)}]]
  <2>2. h \in [SUBSET T -> Int]
    <3>1. ASSUME NEW s \in SUBSET T, ~(Cardinality(s) <= k)
          PROVE  f[Some(s)] + g[s \ {Some(s)}] \in Int
      <4>1. s # {}
        BY <1>1, <1>4, <3>1
      <4>2. f[Some(s)] \in Int /\ g[s \ {Some(s)}] \in Int
        BY <1>2, <2>1, <4>1
      <4> QED
        BY <4>2
    <3> QED
      BY <2>1, <3>1
  <2>3. ASSUME NEW s \in SUBSET T, Cardinality(s) <= k + 1
        PROVE  SumsAt(h, f, s)
    <3>1. CASE Cardinality(s) <= k
      <4>1. s # {} => h[s \ {Some(s)}] = g[s \ {Some(s)}]
        BY <1>1, <1>2, <1>4, <3>1
      <4>2. h[s] = g[s] /\ SumsAt(g, f, s)
        BY <2>1, <3>1
      <4> HIDE DEF h
      <4> QED
        BY <4>1, <4>2 DEF SumsAt
    <3>2. CASE ~(Cardinality(s) <= k)
      <4>1. s # {} /\ Cardinality(s) = k + 1
        BY <1>1, <1>4, <2>3, <3>2
      <4>2. s \ {Some(s)} \in SUBSET T /\ Cardinality(s \ {Some(s)}) <= k
        BY <1>2, <1>4, <4>1
      <4>3. h[s \ {Some(s)}] = g[s \ {Some(s)}]
        BY <4>2
      <4>4. h[s] = f[Some(s)] + g[s \ {Some(s)}]
        BY <3>2
      <4> HIDE DEF h
      <4> QED
        BY <4>1, <4>3, <4>4 DEF SumsAt
    <3> QED
      BY <3>1, <3>2
  <2> HIDE DEF h
  <2> QED
    BY <2>2, <2>3
<1> HIDE DEF E
<1>5. ASSUME B # {}
      PROVE  FALSE
  <2>1. PICK k \in B : \A m \in B : k <= m
    <3>1. B \in SUBSET Nat
      OBVIOUS
    <3> HIDE DEF B
    <3> QED
      BY <1>5, <3>1, Least
  <2>2. k \in Nat /\ ~E(k) /\ k # 0
    BY <1>3, <2>1
  <2>3. k - 1 \in Nat /\ k - 1 \notin B
    BY <2>1, <2>2
  <2>4. E(k - 1)
    BY <2>3
  <2>5. (k - 1) + 1 = k
    BY <2>2
  <2> QED
    BY <1>4, <2>2, <2>3, <2>4, <2>5
<1>6. E(n)
  BY <1>5
<1> QED
  BY <1>6 DEF E

\* The chosen function is one, and its values are integers.
LEMMA SumDefined ==
    ASSUME NEW T, IsFiniteSet(T), NEW f, \A x \in T : f[x] \in Int
    PROVE  \E g \in [SUBSET T -> Int] :
              /\ \A s \in SUBSET T : SumsAt(g, f, s)
              /\ SumFunctionOnSet(f, T) = g[T]
<1> DEFINE h == CHOOSE g : IsSum(g, f, T)
<1>1. \A s \in SUBSET T : Cardinality(s) <= Cardinality(T) /\ Cardinality(T) \in Nat
  BY FS_Subset, FS_CardinalityType
<1>2. PICK g \in [SUBSET T -> Int] : \A s \in SUBSET T : Cardinality(s) <= Cardinality(T) => SumsAt(g, f, s)
  BY <1>1, SumUpTo
<1>3. \A s \in SUBSET T : SumsAt(g, f, s)
  BY <1>1, <1>2
<1>4. IsSum(g, f, T)
  BY <1>2, <1>3 DEF IsSum, SumsAt
<1>5. IsSum(h, f, T)
  <2> HIDE DEF IsSum
  <2> QED
    BY <1>4, Zenon
<1>6. SumFunctionOnSet(f, T) = h[T]
  BY DEF SumFunctionOnSet, FoldFunctionOnSet, MapThenFoldSet, Some, IsSum
<1> HIDE DEF h
<1>7. \A s \in SUBSET T : SumsAt(h, f, s)
  <2> SUFFICES ASSUME NEW s \in SUBSET T
               PROVE  h[s] = IF s = {} THEN 0 ELSE f[Some(s)] + h[s \ {Some(s)}]
    BY DEF SumsAt
  <2> QED
    BY <1>5, Zenon DEF IsSum
<1>8. h = [s \in SUBSET T |-> h[s]]
  <2>1. DOMAIN h = SUBSET T /\ h = [s \in DOMAIN h |-> h[s]]
    BY <1>5 DEF IsSum
  <2> QED
    BY <2>1
<1>9. \A s \in SUBSET T : h[s] \in Int
  <2> DEFINE C == {s \in SUBSET T : h[s] \notin Int}
  <2>1. ASSUME C # {}
        PROVE  FALSE
    <3>1. PICK s \in C : \A x \in s : s \ {x} \notin C
      <4>1. C \in SUBSET (SUBSET T)
        OBVIOUS
      <4> HIDE DEF C
      <4> QED
        BY <2>1, <4>1, LeastSet
    <3>2. s \in SUBSET T /\ h[s] \notin Int
      BY <3>1
    <3>3. s # {}
      <4>1. SumsAt(h, f, s)
        BY <1>7, <3>2
      <4>2. s = {} => h[s] = 0
        BY <4>1 DEF SumsAt
      <4>3. s = {} => h[s] \in Int
        BY <4>2
      <4> QED
        BY <3>2, <4>3
    <3>4. Some(s) \in s
      BY <3>3 DEF Some
    <3>5. s \ {Some(s)} \in SUBSET T /\ h[s \ {Some(s)}] \in Int /\ f[Some(s)] \in Int
      BY <3>1, <3>2, <3>4
    <3>6. h[s] = f[Some(s)] + h[s \ {Some(s)}]
      BY <1>7, <3>2, <3>3 DEF SumsAt
    <3> QED
      BY <3>2, <3>5, <3>6
  <2> QED
    BY <2>1
<1>10. h \in [SUBSET T -> Int]
  BY <1>8, <1>9
<1> QED
  BY <1>6, <1>7, <1>10

\* Partial sums of functions that agree on s agree at s.
LEMMA SumsAgree ==
    ASSUME NEW T, IsFiniteSet(T), NEW f1, NEW f2, NEW g1, NEW g2,
           \A x \in T : f1[x] = f2[x],
           \A s \in SUBSET T : SumsAt(g1, f1, s) /\ SumsAt(g2, f2, s)
    PROVE  g1[T] = g2[T]
<1> DEFINE C == {s \in SUBSET T : g1[s] # g2[s]}
<1>1. ASSUME C # {}
      PROVE  FALSE
  <2>1. PICK s \in C : \A x \in s : s \ {x} \notin C
    <3>1. C \in SUBSET (SUBSET T)
      OBVIOUS
    <3> HIDE DEF C
    <3> QED
      BY <1>1, <3>1, LeastSet
  <2>2. s \in SUBSET T /\ g1[s] # g2[s] /\ SumsAt(g1, f1, s) /\ SumsAt(g2, f2, s)
    BY <2>1
  <2>3. s # {}
    BY <2>2 DEF SumsAt
  <2>4. Some(s) \in s
    BY <2>3 DEF Some
  <2>5. s \ {Some(s)} \in SUBSET T /\ g1[s \ {Some(s)}] = g2[s \ {Some(s)}]
    BY <2>1, <2>2, <2>4
  <2>6. f1[Some(s)] = f2[Some(s)]
    BY <2>2, <2>4
  <2> QED
    BY <2>2, <2>3, <2>5, <2>6 DEF SumsAt
<1> QED
  BY <1>1

-----------------------------------------------------------------------------
(***************************************************************************)
(* Sums of integers                                                        *)
(***************************************************************************)
\* Nothing sums up to zero.
LEMMA SumEmpty == \A f : SumFunctionOnSet(f, {}) = 0
<1> SUFFICES ASSUME NEW f
             PROVE  SumFunctionOnSet(f, {}) = 0
  OBVIOUS
<1>1. IsFiniteSet({}) /\ \A x \in {} : f[x] \in Int
  BY FS_EmptySet
<1>2. PICK g \in [SUBSET {} -> Int] :
         (\A s \in SUBSET {} : SumsAt(g, f, s)) /\ SumFunctionOnSet(f, {}) = g[{}]
  BY <1>1, SumDefined
<1> QED
  BY <1>2 DEF SumsAt

\* Sums of integers are integers.
LEMMA SumType ==
    ASSUME NEW T, IsFiniteSet(T), NEW f, \A x \in T : f[x] \in Int
    PROVE  SumFunctionOnSet(f, T) \in Int
<1>1. PICK g \in [SUBSET T -> Int] : SumFunctionOnSet(f, T) = g[T]
  BY SumDefined
<1> QED
  BY <1>1

\* A sum depends on nothing but the values that are summed.
LEMMA SumEqual ==
    ASSUME NEW T, IsFiniteSet(T), NEW f1, NEW f2,
           \A x \in T : f1[x] \in Int /\ f1[x] = f2[x]
    PROVE  SumFunctionOnSet(f1, T) = SumFunctionOnSet(f2, T)
<1>1. PICK g1 \in [SUBSET T -> Int] :
         (\A s \in SUBSET T : SumsAt(g1, f1, s)) /\ SumFunctionOnSet(f1, T) = g1[T]
  BY SumDefined
<1>2. \A x \in T : f2[x] \in Int
  OBVIOUS
<1>3. PICK g2 \in [SUBSET T -> Int] :
         (\A s \in SUBSET T : SumsAt(g2, f2, s)) /\ SumFunctionOnSet(f2, T) = g2[T]
  BY <1>2, SumDefined
<1>4. \A x \in T : f1[x] = f2[x]
  OBVIOUS
<1>5. \A s \in SUBSET T : SumsAt(g1, f1, s) /\ SumsAt(g2, f2, s)
  BY <1>1, <1>3
<1>6. g1[T] = g2[T]
  BY <1>4, <1>5, SumsAgree
<1> QED
  BY <1>1, <1>3, <1>6

\* The element chosen first can be taken out.
LEMMA SumSome ==
    ASSUME NEW T, IsFiniteSet(T), T # {}, NEW f, \A x \in T : f[x] \in Int
    PROVE  /\ Some(T) \in T
           /\ SumFunctionOnSet(f, T) = f[Some(T)] + SumFunctionOnSet(f, T \ {Some(T)})
<1> DEFINE U == T \ {Some(T)}
<1>1. Some(T) \in T
  BY DEF Some
<1>2. IsFiniteSet(U) /\ \A x \in U : f[x] \in Int
  BY FS_RemoveElement
<1>3. PICK g \in [SUBSET T -> Int] :
         (\A s \in SUBSET T : SumsAt(g, f, s)) /\ SumFunctionOnSet(f, T) = g[T]
  BY SumDefined
<1>4. PICK h \in [SUBSET U -> Int] :
         (\A s \in SUBSET U : SumsAt(h, f, s)) /\ SumFunctionOnSet(f, U) = h[U]
  BY <1>2, SumDefined
<1>5. g[U] = h[U]
  <2>1. \A s \in SUBSET U : SumsAt(g, f, s) /\ SumsAt(h, f, s)
    BY <1>3, <1>4
  <2>2. \A x \in U : f[x] = f[x]
    OBVIOUS
  <2> HIDE DEF U
  <2> QED
    BY <1>2, <2>1, <2>2, SumsAgree
<1>6. SumsAt(g, f, T)
  BY <1>3
<1> QED
  BY <1>1, <1>3, <1>4, <1>5, <1>6 DEF SumsAt

\* So can any other, whatever the order.
LEMMA SumRemove ==
    ASSUME NEW T, IsFiniteSet(T), NEW f, \A x \in T : f[x] \in Int, NEW a \in T
    PROVE  SumFunctionOnSet(f, T) = f[a] + SumFunctionOnSet(f, T \ {a})
<1> DEFINE Sum(s) == SumFunctionOnSet(f, s)
           C == {s \in SUBSET T : \E b \in s : Sum(s) # f[b] + Sum(s \ {b})}
<1>1. \A s \in SUBSET T : IsFiniteSet(s) /\ \A x \in s : f[x] \in Int
  BY FS_Subset
<1>2. \A s \in SUBSET T : Sum(s) \in Int
  BY <1>1, SumType
<1>3. \A s \in SUBSET T : s # {} => Some(s) \in s /\ Sum(s) = f[Some(s)] + Sum(s \ {Some(s)})
  BY <1>1, SumSome
<1> HIDE DEF Sum
<1>4. ASSUME C # {}
      PROVE  FALSE
  <2>1. PICK s \in C : \A x \in s : s \ {x} \notin C
    <3>1. C \in SUBSET (SUBSET T)
      OBVIOUS
    <3> HIDE DEF C
    <3> QED
      BY <1>4, <3>1, LeastSet
  <2>2. PICK b \in s : Sum(s) # f[b] + Sum(s \ {b})
    BY <2>1
  <2> DEFINE c == Some(s)
  <2>3. s \in SUBSET T /\ c \in s /\ b \in s /\ Sum(s) = f[c] + Sum(s \ {c})
    BY <1>3, <2>1
  <2>4. c # b
    BY <2>2, <2>3
  <2> HIDE DEF c
  <2>5. Sum(s \ {c}) = f[b] + Sum((s \ {c}) \ {b})
    BY <2>1, <2>3, <2>4
  <2>6. Sum(s \ {b}) = f[c] + Sum((s \ {b}) \ {c})
    BY <2>1, <2>3, <2>4
  <2>7. (s \ {c}) \ {b} = (s \ {b}) \ {c} /\ (s \ {c}) \ {b} \in SUBSET T
    BY <2>3
  <2>8. PICK u : u = (s \ {c}) \ {b}
    OBVIOUS
  <2>9. Sum(s \ {c}) = f[b] + Sum(u) /\ Sum(s \ {b}) = f[c] + Sum(u)
    BY <2>5, <2>6, <2>7, <2>8, Zenon
  <2>10. f[b] \in Int /\ f[c] \in Int /\ Sum(u) \in Int
    BY <1>2, <2>3, <2>7, <2>8
  <2> QED
    BY <2>2, <2>3, <2>9, <2>10
<1>5. T \notin C
  BY <1>4
<1> QED
  BY <1>5 DEF Sum

\* One more element adds its value.
LEMMA SumAdd ==
    ASSUME NEW T, IsFiniteSet(T), NEW f, \A x \in T : f[x] \in Int, NEW a, a \notin T, f[a] \in Int
    PROVE  SumFunctionOnSet(f, T \cup {a}) = SumFunctionOnSet(f, T) + f[a]
<1>1. IsFiniteSet(T \cup {a}) /\ \A x \in T \cup {a} : f[x] \in Int
  BY FS_AddElement
<1>2. (T \cup {a}) \ {a} = T
  OBVIOUS
<1>3. SumFunctionOnSet(f, T \cup {a}) = f[a] + SumFunctionOnSet(f, (T \cup {a}) \ {a})
  <2> DEFINE U == T \cup {a}
  <2>1. a \in U
    OBVIOUS
  <2> HIDE DEF U
  <2> QED
    BY <1>1, <2>1, SumRemove DEF U
<1>4. SumFunctionOnSet(f, T) \in Int
  BY SumType
<1>5. SumFunctionOnSet(f, T \cup {a}) = f[a] + SumFunctionOnSet(f, T)
  BY <1>2, <1>3, Zenon
<1> QED
  BY <1>4, <1>5

\* What is left out of a sum can only be missed if it is not zero.
LEMMA SumSubset ==
    ASSUME NEW T, IsFiniteSet(T), NEW f, \A x \in T : f[x] \in Int, NEW S \in SUBSET T,
           \A x \in T \ S : 0 <= f[x]
    PROVE  /\ SumFunctionOnSet(f, S) <= SumFunctionOnSet(f, T)
           /\ (\A x \in T \ S : f[x] = 0) => SumFunctionOnSet(f, S) = SumFunctionOnSet(f, T)
<1> DEFINE Sum(s) == SumFunctionOnSet(f, s)
           Z == \A x \in T \ S : f[x] = 0
           P(s) == Sum(S) <= Sum(s) /\ (Z => Sum(S) = Sum(s))
           C == {s \in SUBSET (T \ S) : ~P(S \cup s)}
<1>1. \A s \in SUBSET T : IsFiniteSet(s) /\ \A x \in s : f[x] \in Int
  BY FS_Subset
<1>2. \A s \in SUBSET T : Sum(s) \in Int
  BY <1>1, SumType
<1>3. \A s \in SUBSET T : \A x \in s : Sum(s) = f[x] + Sum(s \ {x})
  BY <1>1, SumRemove
<1> HIDE DEF Sum
<1>4. ASSUME C # {}
      PROVE  FALSE
  <2>1. PICK s \in C : \A x \in s : s \ {x} \notin C
    <3>1. C \in SUBSET (SUBSET (T \ S)) /\ IsFiniteSet(T \ S)
      BY <1>1
    <3> HIDE DEF C
    <3> QED
      BY <1>4, <3>1, LeastSet
  <2>2. s \in SUBSET (T \ S) /\ ~P(S \cup s)
    BY <2>1
  <2>3. s # {}
    <3>1. S \cup {} = S /\ Sum(S) \in Int
      BY <1>2
    <3>2. P(S)
      BY <3>1
    <3> HIDE DEF P
    <3> QED
      BY <2>2, <3>1, <3>2
  <2>4. PICK x \in s : TRUE
    BY <2>3
  <2>5. s \ {x} \in SUBSET (T \ S) /\ P(S \cup (s \ {x}))
    BY <2>1, <2>2, <2>4
  <2>6. PICK u : u = S \cup s
    OBVIOUS
  <2>7. u \in SUBSET T /\ x \in u /\ u \ {x} = S \cup (s \ {x}) /\ x \in T \ S
    BY <2>2, <2>4, <2>6
  <2>8. Sum(u) = f[x] + Sum(u \ {x}) /\ Sum(u \ {x}) \in Int /\ f[x] \in Int /\ Sum(S) \in Int
    BY <1>2, <1>3, <2>7
  <2>9. P(u \ {x}) /\ ~P(u)
    BY <2>2, <2>5, <2>6, <2>7
  <2> QED
    BY <2>7, <2>8, <2>9
<1>5. P(T)
  <2>1. S \cup (T \ S) = T /\ T \ S \notin C /\ T \ S \in SUBSET (T \ S)
    BY <1>4
  <2> QED
    BY <2>1
<1> QED
  BY <1>5 DEF Sum

\* Sums of natural numbers are natural numbers, and zeros sum up to zero.
LEMMA SumNat ==
    ASSUME NEW T, IsFiniteSet(T), NEW f, \A x \in T : f[x] \in Nat
    PROVE  /\ SumFunctionOnSet(f, T) \in Nat
           /\ (\A x \in T : f[x] = 0) => SumFunctionOnSet(f, T) = 0
<1>1. SumFunctionOnSet(f, T) \in Int
  BY SumType
<1>2. SumFunctionOnSet(f, {}) = 0
  BY SumEmpty
<1>3. {} \in SUBSET T /\ T \ {} = T
  OBVIOUS
<1>4. \A x \in T : f[x] \in Int /\ 0 <= f[x]
  OBVIOUS
<1>5. /\ SumFunctionOnSet(f, {}) <= SumFunctionOnSet(f, T)
      /\ (\A x \in T : f[x] = 0) => SumFunctionOnSet(f, {}) = SumFunctionOnSet(f, T)
  BY <1>3, <1>4, SumSubset
<1> QED
  BY <1>1, <1>2, <1>5
=============================================================================
