--------------------------------- MODULE Sums ---------------------------------
(***************************************************************************)
(* Induction over the naturals and over a finite set, with a set for the    *)
(* property, and what it gives for SumFunctionOnSet: the sum over a finite  *)
(* set of places does not depend on the order in which they are taken.      *)
(***************************************************************************)
EXTENDS Integers, FiniteSetsExt, Functions, FiniteSetTheorems, WellFoundedInduction, TLAPS

(* What holds of 0, and of n + 1 if it holds of n, holds of every number. *)
LEMMA NatInduct ==
  ASSUME NEW P, 0 \in P, \A n \in Nat : n \in P => n + 1 \in P
  PROVE  Nat \subseteq P
<1> SUFFICES ASSUME Nat \ P # {} PROVE FALSE
  OBVIOUS
<1>1. PICK n \in Nat \ P : \A m \in Nat \ P : <<m, n>> \notin OpToRel(<, Nat)
  <2>1. Nat \ P \subseteq Nat
    OBVIOUS
  <2> QED BY <2>1, WFMin, NatLessThanWellFounded, Zenon
<1>2. n - 1 \in Nat /\ (n - 1) + 1 = n
  OBVIOUS
<1>3. <<n - 1, n>> \in OpToRel(<, Nat)
  BY <1>2 DEF OpToRel
<1>4. n - 1 \in P
  BY <1>1, <1>2, <1>3, Zenon
<1> QED BY <1>2, <1>4

(* The same for a finite set, taken element by element. *)
LEMMA SetInduct ==
  ASSUME NEW S, IsFiniteSet(S), NEW P, {} \in P,
         \A T \in SUBSET S : \A x \in S \ T : T \in P => T \cup {x} \in P
  PROVE  S \in P
<1> DEFINE N == {n \in Nat : \A T \in SUBSET S : Cardinality(T) = n => T \in P}
<1>1. 0 \in N
  <2>1. ASSUME NEW T \in SUBSET S, Cardinality(T) = 0 PROVE T \in P
    <3>1. T = {}
      BY <2>1, FS_Subset, FS_EmptySet
    <3> QED BY <3>1
  <2> QED BY <2>1
<1>2. ASSUME NEW n \in N PROVE n + 1 \in N
  <2>1. ASSUME NEW T \in SUBSET S, Cardinality(T) = n + 1 PROVE T \in P
    <3>1. IsFiniteSet(T) /\ T # {}
      BY <2>1, FS_Subset, FS_EmptySet
    <3>2. PICK x \in T : TRUE
      BY <3>1
    <3>3. Cardinality(T \ {x}) = n
      <4>1. Cardinality(T \ {x}) = Cardinality(T) - 1
        BY <3>1, FS_RemoveElement
      <4> QED BY <2>1, <4>1
    <3>4. T \ {x} \in P /\ x \in S \ (T \ {x}) /\ (T \ {x}) \cup {x} = T
      BY <3>3
    <3> QED BY <3>4
  <2> QED BY <2>1
<1> HIDE DEF N
<1>3. Nat \subseteq N
  BY <1>1, <1>2, NatInduct
<1>4. Cardinality(S) \in Nat
  BY FS_CardinalityType
<1> QED BY <1>3, <1>4 DEF N

(* A bijection, spelt out. *)
LEMMA BijectionIs ==
  ASSUME NEW S, NEW T, NEW f \in Bijection(S, T)
  PROVE  /\ f \in [S -> T]
         /\ \A x, y \in S : f[x] = f[y] => x = y
         /\ \A z \in T : \E x \in S : f[x] = z
  BY DEF Bijection, Injection, Surjection, IsInjective

LEMMA IsBijection ==
  ASSUME NEW S, NEW T, NEW f \in [S -> T],
         \A x, y \in S : f[x] = f[y] => x = y,
         \A z \in T : \E x \in S : f[x] = z
  PROVE  f \in Bijection(S, T)
  BY DEF Bijection, Injection, Surjection, IsInjective

(* The least and the greatest of some numbers. *)
LEMMA MinIsLeast ==
  ASSUME NEW S \in SUBSET Nat, S # {}
  PROVE  Min(S) \in S /\ \A y \in S : Min(S) <= y
<1>1. PICK x \in S : \A y \in S : <<y, x>> \notin OpToRel(<, Nat)
  BY WFMin, NatLessThanWellFounded, Zenon
<1>2. ASSUME NEW y \in S PROVE x <= y
  <2>1. x \in Nat /\ y \in Nat
    OBVIOUS
  <2>2. y < x => <<y, x>> \in OpToRel(<, Nat)
    BY <2>1 DEF OpToRel
  <2>3. ~(y < x)
    BY <1>1, <2>2, Zenon
  <2> QED BY <2>1, <2>3
<1> QED BY <1>2 DEF Min

LEMMA MaxIsGreatest ==
  ASSUME NEW n \in Nat, NEW S \in SUBSET (0..n), S # {}
  PROVE  Max(S) \in S /\ \A y \in S : y <= Max(S)
<1> DEFINE T == {n - x : x \in S}
<1>1. T \in SUBSET Nat /\ T # {}
  <2>1. \A x \in S : n - x \in Nat
    OBVIOUS
  <2> QED BY <2>1
<1>2. PICK m \in T : \A y \in T : m <= y
  BY <1>1, MinIsLeast
<1>3. PICK x \in S : m = n - x
  OBVIOUS
<1>4. \A y \in S : y <= x
  BY <1>2, <1>3
<1> QED BY <1>4 DEF Max

-----------------------------------------------------------------------------
Pick(S) == CHOOSE x \in S : TRUE

(* The equation of the fold, and the function on the subsets of S that the  *)
(* fold takes for its solution.                                            *)
IsFold(f, S, g) ==
  g = [T \in SUBSET S |-> IF T = {} THEN 0 ELSE f[Pick(T)] + g[T \ {Pick(T)}]]

Fold(f, S) == CHOOSE g : IsFold(f, S, g)

LEMMA SumIsFold ==
  ASSUME NEW f, NEW S PROVE SumFunctionOnSet(f, S) = Fold(f, S)[S]
  BY DEF SumFunctionOnSet, FoldFunctionOnSet, MapThenFoldSet, Fold, IsFold, Pick

(* The equation has a solution: it is built up by the size of the sets.    *)
LEMMA FoldExists ==
  ASSUME NEW f, NEW S, IsFiniteSet(S)
  PROVE  IsFold(f, S, Fold(f, S))
<1> DEFINE Upto(n) == {T \in SUBSET S : Cardinality(T) <= n}
           G(n, g) == g = [T \in Upto(n) |->
                             IF T = {} THEN 0 ELSE f[Pick(T)] + g[T \ {Pick(T)}]]
           N == {n \in Nat : \E g : G(n, g)}
<1>0. \A T \in SUBSET S : T # {} =>
        /\ Pick(T) \in T /\ Cardinality(T) \in Nat
        /\ Cardinality(T \ {Pick(T)}) = Cardinality(T) - 1
        /\ Cardinality({}) = 0
  <2> SUFFICES ASSUME NEW T \in SUBSET S, T # {}
               PROVE  /\ Pick(T) \in T /\ Cardinality(T) \in Nat
                      /\ Cardinality(T \ {Pick(T)}) = Cardinality(T) - 1
                      /\ Cardinality({}) = 0
    OBVIOUS
  <2>1. Pick(T) \in T
    BY DEF Pick
  <2> QED BY <2>1, FS_Subset, FS_CardinalityType, FS_RemoveElement, FS_EmptySet
<1>1. 0 \in N
  <2>1. \A T \in Upto(0) : T = {}
    <3>1. ASSUME NEW T \in Upto(0), T # {} PROVE FALSE
      <4>1. Cardinality(T) = 0 /\ IsFiniteSet(T \ {Pick(T)})
        BY <1>0, <3>1, FS_Subset
      <4>2. Cardinality(T \ {Pick(T)}) = 0 - 1
        BY <1>0, <3>1, <4>1
      <4> QED BY <4>1, <4>2, FS_CardinalityType
    <3> QED BY <3>1
  <2>2. [T \in Upto(0) |-> 0] = [T \in Upto(0) |-> IF T = {} THEN 0 ELSE
            f[Pick(T)] + [U \in Upto(0) |-> 0][T \ {Pick(T)}]]
    BY <2>1
  <2>3. G(0, [T \in Upto(0) |-> 0])
    BY <2>2
  <2> QED BY <2>3
<1>2. ASSUME NEW n \in N PROVE n + 1 \in N
  <2>1. PICK g : G(n, g)
    OBVIOUS
  <2> DEFINE h == [T \in Upto(n + 1) |->
                     IF T = {} THEN 0 ELSE f[Pick(T)] + g[T \ {Pick(T)}]]
  <2>2. ASSUME NEW T \in Upto(n + 1), T # {}
        PROVE  h[T \ {Pick(T)}] = g[T \ {Pick(T)}]
    <3>1. T \ {Pick(T)} \in Upto(n) /\ T \ {Pick(T)} \in Upto(n + 1)
      BY <1>0, <2>2
    <3> QED BY <2>1, <3>1
  <2>3. h = [T \in Upto(n + 1) |-> IF T = {} THEN 0 ELSE f[Pick(T)] + h[T \ {Pick(T)}]]
    <3> DEFINE k == [T \in Upto(n + 1) |->
                       IF T = {} THEN 0 ELSE f[Pick(T)] + h[T \ {Pick(T)}]]
    <3>1. ASSUME NEW T \in Upto(n + 1) PROVE h[T] = k[T]
      <4>1. h[T] = IF T = {} THEN 0 ELSE f[Pick(T)] + g[T \ {Pick(T)}]
        OBVIOUS
      <4>2. k[T] = IF T = {} THEN 0 ELSE f[Pick(T)] + h[T \ {Pick(T)}]
        OBVIOUS
      <4> HIDE DEF h, k, Upto
      <4> QED BY <2>2, <4>1, <4>2
    <3>2. h = [T \in Upto(n + 1) |-> h[T]] /\ k = [T \in Upto(n + 1) |-> k[T]]
      OBVIOUS
    <3> HIDE DEF h
    <3>3. h = k
      <4> HIDE DEF k, Upto
      <4> QED BY <3>1, <3>2
    <3> QED BY <3>3
  <2> HIDE DEF h
  <2>4. G(n + 1, h)
    BY <2>3
  <2>5. n + 1 \in Nat
    OBVIOUS
  <2> HIDE DEF G
  <2> QED BY <2>4, <2>5
<1> HIDE DEF N
<1>3. Cardinality(S) \in N
  BY <1>1, <1>2, NatInduct, FS_CardinalityType
<1>4. PICK g : G(Cardinality(S), g)
  BY <1>3 DEF N
<1>5. Upto(Cardinality(S)) = SUBSET S
  BY FS_Subset
<1>6. IsFold(f, S, g)
  BY <1>4, <1>5 DEF IsFold
<1>7. \A h : (h = Fold(f, S)) => IsFold(f, S, h)
  BY <1>6 DEF Fold
<1> QED BY <1>7

(* The solutions on a set and on one of its subsets agree. *)
LEMMA FoldOfSubset ==
  ASSUME NEW f, NEW S, IsFiniteSet(S), NEW U \in SUBSET S
  PROVE  Fold(f, S)[U] = Fold(f, U)[U]
<1> DEFINE N == {n \in Nat : \A T \in SUBSET U : Cardinality(T) = n =>
                               Fold(f, S)[T] = Fold(f, U)[T]}
<1>1. IsFiniteSet(U)
  BY FS_Subset
<1>2. \A T \in SUBSET U :
        /\ Fold(f, S)[T] = IF T = {} THEN 0 ELSE f[Pick(T)] + Fold(f, S)[T \ {Pick(T)}]
        /\ Fold(f, U)[T] = IF T = {} THEN 0 ELSE f[Pick(T)] + Fold(f, U)[T \ {Pick(T)}]
  <2>1. IsFold(f, S, Fold(f, S)) /\ IsFold(f, U, Fold(f, U))
    BY <1>1, FoldExists
  <2> DEFINE g == Fold(f, S)
             h == Fold(f, U)
  <2> HIDE DEF g, h
  <2>2. IsFold(f, S, g) /\ IsFold(f, U, h)
    BY <2>1 DEF g, h
  <2>3. \A T \in SUBSET U : /\ g[T] = IF T = {} THEN 0 ELSE f[Pick(T)] + g[T \ {Pick(T)}]
                            /\ h[T] = IF T = {} THEN 0 ELSE f[Pick(T)] + h[T \ {Pick(T)}]
    BY <2>2 DEF IsFold
  <2> QED BY <2>3 DEF g, h
<1>3. \A T \in SUBSET U : T # {} =>
        T \ {Pick(T)} \in SUBSET U /\ Cardinality(T \ {Pick(T)}) = Cardinality(T) - 1
  BY <1>1, FS_Subset, FS_RemoveElement DEF Pick
<1>4. 0 \in N
  <2>1. \A T \in SUBSET U : Cardinality(T) = 0 => T = {}
    BY <1>1, FS_Subset, FS_EmptySet
  <2> QED BY <1>2, <2>1
<1>5. ASSUME NEW n \in N PROVE n + 1 \in N
  <2>1. ASSUME NEW T \in SUBSET U, Cardinality(T) = n + 1
        PROVE  Fold(f, S)[T] = Fold(f, U)[T]
    <3>1. T # {}
      BY <2>1, FS_EmptySet
    <3>2. T \ {Pick(T)} \in SUBSET U /\ Cardinality(T \ {Pick(T)}) = n
      BY <1>3, <2>1, <3>1
    <3>3. Fold(f, S)[T \ {Pick(T)}] = Fold(f, U)[T \ {Pick(T)}]
      BY <3>2
    <3> HIDE DEF N
    <3> QED BY <1>2, <3>1, <3>3
  <2> QED BY <2>1
<1> HIDE DEF N
<1>6. Cardinality(U) \in N
  BY <1>1, <1>4, <1>5, NatInduct, FS_CardinalityType
<1> QED BY <1>6 DEF N

-----------------------------------------------------------------------------
(* No places: the sum is zero. *)
LEMMA SumEmpty == ASSUME NEW f PROVE SumFunctionOnSet(f, {}) = 0
<1>1. IsFold(f, {}, Fold(f, {}))
  BY FoldExists, FS_EmptySet
<1> DEFINE g == Fold(f, {})
<1> HIDE DEF g
<1>2. g[{}] = 0
  <2>1. IsFold(f, {}, g)
    BY <1>1 DEF g
  <2> QED BY <2>1 DEF IsFold
<1> QED BY <1>2, SumIsFold DEF g

LEMMA SumStep ==
  ASSUME NEW f, NEW S, IsFiniteSet(S), S # {}
  PROVE  /\ Pick(S) \in S
         /\ SumFunctionOnSet(f, S) = f[Pick(S)] + SumFunctionOnSet(f, S \ {Pick(S)})
<1>1. Pick(S) \in S
  BY DEF Pick
<1>2. Fold(f, S)[S] = f[Pick(S)] + Fold(f, S)[S \ {Pick(S)}]
  <2>1. IsFold(f, S, Fold(f, S))
    BY FoldExists
  <2> DEFINE g == Fold(f, S)
  <2> HIDE DEF g
  <2>2. IsFold(f, S, g)
    BY <2>1 DEF g
  <2>3. g[S] = f[Pick(S)] + g[S \ {Pick(S)}]
    BY <2>2 DEF IsFold
  <2> QED BY <2>3 DEF g
<1>3. Fold(f, S)[S \ {Pick(S)}] = Fold(f, S \ {Pick(S)})[S \ {Pick(S)}]
  BY FoldOfSubset
<1> QED BY <1>1, <1>2, <1>3, SumIsFold

LEMMA SumNat ==
  ASSUME NEW f, NEW S, IsFiniteSet(S), \A x \in S : f[x] \in Nat
  PROVE  SumFunctionOnSet(f, S) \in Nat
<1> DEFINE Sum(T) == SumFunctionOnSet(f, T)
           N == {n \in Nat : \A T \in SUBSET S : Cardinality(T) = n => Sum(T) \in Nat}
<1>1. \A T \in SUBSET S : IsFiniteSet(T) /\ (Cardinality(T) = 0 <=> T = {})
  BY FS_Subset, FS_EmptySet
<1>2. 0 \in N
  <2>1. Sum({}) = 0
    BY SumEmpty
  <2> HIDE DEF Sum
  <2> QED BY <1>1, <2>1
<1>3. ASSUME NEW n \in N PROVE n + 1 \in N
  <2>1. ASSUME NEW T \in SUBSET S, Cardinality(T) = n + 1 PROVE Sum(T) \in Nat
    <3>1. T # {}
      BY <1>1, <2>1
    <3> DEFINE c == Pick(T)
    <3>2. c \in T /\ Sum(T) = f[c] + Sum(T \ {c})
      BY <1>1, <3>1, SumStep
    <3>3. Cardinality(T \ {c}) = Cardinality(T) - 1
      BY <1>1, <3>2, FS_RemoveElement
    <3> HIDE DEF c, Sum
    <3>4. Sum(T \ {c}) \in Nat
      BY <2>1, <3>3
    <3> QED BY <3>2, <3>4
  <2> HIDE DEF Sum
  <2> QED BY <2>1
<1> HIDE DEF N
<1>4. Cardinality(S) \in N
  BY <1>2, <1>3, NatInduct, FS_CardinalityType
<1> QED BY <1>4 DEF N

(* Whichever place is taken first. *)
LEMMA SumOne ==
  ASSUME NEW f, NEW S, IsFiniteSet(S), \A x \in S : f[x] \in Nat
  PROVE  \A x \in S : SumFunctionOnSet(f, S) = f[x] + SumFunctionOnSet(f, S \ {x})
<1> DEFINE Sum(T) == SumFunctionOnSet(f, T)
           Any(T) == \A x \in T : Sum(T) = f[x] + Sum(T \ {x})
           N == {n \in Nat : \A T \in SUBSET S : Cardinality(T) = n => Any(T)}
<1>0. \A T \in SUBSET S : Sum(T) \in Nat
  BY FS_Subset, SumNat
<1>1. \A T \in SUBSET S : IsFiniteSet(T) /\ (Cardinality(T) = 0 <=> T = {})
  BY FS_Subset, FS_EmptySet
<1>2. 0 \in N
  <2>1. Sum({}) = 0
    BY SumEmpty
  <2> HIDE DEF Sum
  <2> QED BY <1>1, <2>1
<1>3. ASSUME NEW n \in N PROVE n + 1 \in N
  <2>1. ASSUME NEW T \in SUBSET S, Cardinality(T) = n + 1 PROVE Any(T)
    <3>1. T # {}
      BY <1>1, <2>1
    <3> DEFINE c == Pick(T)
    <3>2. c \in T /\ Sum(T) = f[c] + Sum(T \ {c})
      BY <1>1, <3>1, SumStep
    <3> HIDE DEF c
    <3>3. \A x \in T : Any(T \ {x})
      <4>1. ASSUME NEW x \in T PROVE Any(T \ {x})
        <5>1. Cardinality(T \ {x}) = Cardinality(T) - 1
          BY <1>1, FS_RemoveElement
        <5>2. T \ {x} \in SUBSET S /\ Cardinality(T \ {x}) = n
          BY <2>1, <5>1
        <5> HIDE DEF Any
        <5> QED BY <5>2
      <4> QED BY <4>1
    <3> HIDE DEF N, Sum
    <3>5. ASSUME NEW x \in T, x # c PROVE Sum(T) = f[x] + Sum(T \ {x})
      <4>1. Sum(T \ {c}) = f[x] + Sum((T \ {c}) \ {x})
        BY <3>2, <3>3, <3>5
      <4>2. Sum(T \ {x}) = f[c] + Sum((T \ {x}) \ {c})
        BY <3>2, <3>3, <3>5
      <4>3. (T \ {c}) \ {x} = (T \ {x}) \ {c}
        OBVIOUS
      <4>4. Sum((T \ {c}) \ {x}) \in Nat
        <5>1. (T \ {c}) \ {x} \in SUBSET S
          OBVIOUS
        <5> QED BY <1>0, <5>1
      <4>5. f[c] \in Nat /\ f[x] \in Nat
        BY <3>2
      <4> QED BY <3>2, <4>1, <4>2, <4>3, <4>4, <4>5
    <3> QED BY <3>2, <3>5
  <2> HIDE DEF Any
  <2> QED BY <2>1
<1> HIDE DEF N
<1>4. Cardinality(S) \in N
  BY <1>2, <1>3, NatInduct, FS_CardinalityType
<1> QED BY <1>4 DEF N

(* The same summands, in places that correspond one to one. *)
LEMMA SumBijection ==
  ASSUME NEW f, NEW S, IsFiniteSet(S), \A x \in S : f[x] \in Nat,
         NEW g, NEW T, NEW b \in Bijection(S, T), \A x \in S : g[b[x]] = f[x]
  PROVE  SumFunctionOnSet(g, T) = SumFunctionOnSet(f, S)
<1> DEFINE Image(U) == {b[x] : x \in U}
           P == {U \in SUBSET S : SumFunctionOnSet(g, Image(U)) = SumFunctionOnSet(f, U)}
<1>0. /\ b \in [S -> T] /\ \A x, y \in S : b[x] = b[y] => x = y
      /\ \A y \in T : \E x \in S : b[x] = y
  BY DEF Bijection, Injection, Surjection, IsInjective
<1>1. {} \in P
  <2>1. Image({}) = {}
    OBVIOUS
  <2> QED BY <2>1, SumEmpty
<1>2. ASSUME NEW U \in SUBSET S, NEW x \in S \ U, U \in P
      PROVE  U \cup {x} \in P
  <2> DEFINE V == U \cup {x}
  <2>1. V \in SUBSET S /\ IsFiniteSet(V) /\ V \ {x} = U
    BY FS_Subset
  <2>2. IsFiniteSet(Image(V)) /\ \A y \in Image(V) : g[y] \in Nat
    <3>1. [y \in V |-> b[y]] \in Surjection(V, Image(V))
      BY DEF Surjection
    <3> QED BY <2>1, <3>1, FS_Surjection
  <2>3. b[x] \in Image(V) /\ Image(V) \ {b[x]} = Image(U)
    BY <1>0, <2>1
  <2>4. SumFunctionOnSet(f, V) = f[x] + SumFunctionOnSet(f, U)
    BY <2>1, SumOne
  <2>5. SumFunctionOnSet(g, Image(V)) = g[b[x]] + SumFunctionOnSet(g, Image(U))
    <3> DEFINE I == Image(V)
    <3>1. IsFiniteSet(I) /\ (\A y \in I : g[y] \in Nat) /\ b[x] \in I
      BY <2>2, <2>3
    <3> HIDE DEF I
    <3>2. SumFunctionOnSet(g, I) = g[b[x]] + SumFunctionOnSet(g, I \ {b[x]})
      BY <3>1, SumOne
    <3> QED BY <2>3, <3>2 DEF I
  <2>6. SumFunctionOnSet(g, Image(V)) = SumFunctionOnSet(f, V)
    BY <1>2, <2>4, <2>5
  <2> HIDE DEF Image, V
  <2> QED BY <2>1, <2>6 DEF V
<1>3. S \in P
  <2> HIDE DEF P
  <2> QED BY <1>1, <1>2, SetInduct
<1>4. Image(S) = T
  BY <1>0
<1> QED BY <1>3, <1>4

(* The same summands in the same places. *)
LEMMA SumSame ==
  ASSUME NEW f, NEW S, IsFiniteSet(S), \A x \in S : f[x] \in Nat,
         NEW g, \A x \in S : g[x] = f[x]
  PROVE  SumFunctionOnSet(g, S) = SumFunctionOnSet(f, S)
<1> DEFINE b == [x \in S |-> x]
<1>1. b \in Bijection(S, S) /\ \A x \in S : b[x] = x
  BY DEF Bijection, Injection, Surjection, IsInjective
<1> HIDE DEF b
<1> QED BY <1>1, SumBijection

(* One summand more. *)
LEMMA SumAdd ==
  ASSUME NEW f, NEW S, IsFiniteSet(S), \A x \in S : f[x] \in Nat,
         NEW g, NEW y, y \notin S, g[y] \in Nat, \A x \in S : g[x] = f[x]
  PROVE  SumFunctionOnSet(g, S \cup {y}) = SumFunctionOnSet(f, S) + g[y]
<1>1. IsFiniteSet(S \cup {y}) /\ (S \cup {y}) \ {y} = S
  BY FS_AddElement
<1>2. SumFunctionOnSet(g, S \cup {y}) = g[y] + SumFunctionOnSet(g, S)
  BY <1>1, SumOne
<1>3. SumFunctionOnSet(g, S) = SumFunctionOnSet(f, S) /\ SumFunctionOnSet(f, S) \in Nat
  BY SumSame, SumNat
<1> QED BY <1>2, <1>3

(* The elements of a finite set, counted class by class. *)
LEMMA SumOfClasses ==
  ASSUME NEW K, IsFiniteSet(K), NEW S, IsFiniteSet(S), NEW h \in [S -> K]
  PROVE  SumFunction([k \in K |-> Cardinality({x \in S : h[x] = k})]) = Cardinality(S)
<1> DEFINE Class(k) == {x \in S : h[x] = k}
           f == [k \in K |-> Cardinality(Class(k))]
           Within(U) == {x \in S : h[x] \in U}
           P == {U \in SUBSET K : SumFunctionOnSet(f, U) = Cardinality(Within(U))}
<1>1. \A k \in K : f[k] \in Nat /\ IsFiniteSet(Class(k))
  BY FS_Subset, FS_CardinalityType
<1>2. {} \in P
  <2>1. Within({}) = {}
    OBVIOUS
  <2> QED BY <2>1, SumEmpty, FS_EmptySet
<1>3. ASSUME NEW U \in SUBSET K, NEW k \in K \ U, U \in P
      PROVE  U \cup {k} \in P
  <2>1. SumFunctionOnSet(f, U \cup {k}) = SumFunctionOnSet(f, U) + f[k]
    <3>1. IsFiniteSet(U) /\ k \notin U /\ f[k] \in Nat /\ \A x \in U : f[x] \in Nat
      BY <1>1, FS_Subset
    <3> HIDE DEF f, P
    <3>2. \A x \in U : f[x] = f[x]
      OBVIOUS
    <3> QED BY ONLY <3>1, <3>2, SumAdd
  <2>2. Cardinality(Within(U \cup {k})) = Cardinality(Within(U)) + Cardinality(Class(k))
    <3>1. Within(U \cup {k}) = Within(U) \cup Class(k) /\ Within(U) \cap Class(k) = {}
      OBVIOUS
    <3>2. IsFiniteSet(Within(U)) /\ IsFiniteSet(Class(k)) /\ Cardinality({}) = 0
      BY FS_Subset, FS_EmptySet
    <3>3. Cardinality(Within(U)) \in Nat /\ Cardinality(Class(k)) \in Nat
      BY <3>2, FS_CardinalityType
    <3> HIDE DEF Within, Class, P, f
    <3>4. Cardinality(Within(U) \cup Class(k))
            = Cardinality(Within(U)) + Cardinality(Class(k)) - Cardinality(Within(U) \cap Class(k))
      BY <3>2, FS_Union
    <3>5. Cardinality(Within(U) \cap Class(k)) = 0
      BY <3>1, <3>2
    <3>6. Cardinality(Within(U)) + Cardinality(Class(k)) - 0
            = Cardinality(Within(U)) + Cardinality(Class(k))
      BY <3>3
    <3> QED BY ONLY <3>1, <3>4, <3>5, <3>6
  <2> HIDE DEF Within, Class
  <2> QED BY <1>3, <2>1, <2>2
<1>4. K \in P
  <2> HIDE DEF P
  <2> QED BY <1>2, <1>3, SetInduct
<1>5. Within(K) = S
  OBVIOUS
<1>6. SumFunction(f) = SumFunctionOnSet(f, K)
  BY DEF SumFunction
<1> QED BY <1>4, <1>5, <1>6

(* A sum of equal summands. *)
LEMMA SumConstant ==
  ASSUME NEW f, NEW S, IsFiniteSet(S), NEW w \in Nat, \A x \in S : f[x] = w
  PROVE  SumFunctionOnSet(f, S) = Cardinality(S) * w
<1> DEFINE P == {T \in SUBSET S : SumFunctionOnSet(f, T) = Cardinality(T) * w}
<1>1. {} \in P
  <2>1. Cardinality({}) * w = 0
    BY FS_EmptySet
  <2> QED BY <2>1, SumEmpty
<1>2. ASSUME NEW T \in SUBSET S, NEW x \in S \ T, T \in P
      PROVE  T \cup {x} \in P
  <2>1. IsFiniteSet(T) /\ Cardinality(T) \in Nat
    BY FS_Subset, FS_CardinalityType
  <2>2. IsFiniteSet(T \cup {x}) /\ Cardinality(T \cup {x}) = Cardinality(T) + 1
    BY <2>1, FS_AddElement
  <2>3. SumFunctionOnSet(f, T \cup {x}) = f[x] + SumFunctionOnSet(f, (T \cup {x}) \ {x})
    <3>1. \A y \in T \cup {x} : f[y] \in Nat
      OBVIOUS
    <3> QED BY ONLY <2>2, <3>1, SumOne
  <2>4. (T \cup {x}) \ {x} = T
    OBVIOUS
  <2>5. SumFunctionOnSet(f, T \cup {x}) = w + Cardinality(T) * w
    BY <1>2, <2>3, <2>4
  <2> DEFINE c == Cardinality(T)
  <2> HIDE DEF c
  <2>6. w + c * w = (c + 1) * w
    BY <2>1 DEF c
  <2> QED BY <2>2, <2>5, <2>6 DEF c
<1>3. S \in P
  <2> HIDE DEF P
  <2> QED BY <1>1, <1>2, SetInduct
<1> QED BY <1>3

(* One element more. *)
LEMMA OneMore ==
  ASSUME NEW T, IsFiniteSet(T), NEW R \in SUBSET T, Cardinality(T) = Cardinality(R) + 1
  PROVE  \E x \in T \ R : T \ R = {x}
<1>1. T \cap R = R /\ IsFiniteSet(R)
  BY FS_Subset
<1>2. Cardinality(R) \in Nat
  BY <1>1, FS_CardinalityType
<1>3. IsFiniteSet(T \ R) /\ Cardinality(T \ R) = Cardinality(T) - Cardinality(R)
  <2>1. IsFiniteSet(T \ R) /\ Cardinality(T \ R) = Cardinality(T) - Cardinality(T \cap R)
    BY FS_Difference
  <2> QED BY <1>1, <2>1
<1>4. Cardinality(T \ R) = 1
  BY <1>2, <1>3
<1>5. \E x : T \ R = {x}
  <2> DEFINE D == T \ R
  <2> HIDE DEF D
  <2>1. IsFiniteSet(D) /\ Cardinality(D) = 1
    BY <1>3, <1>4 DEF D
  <2> QED BY <2>1, FS_Singleton DEF D
<1> QED BY <1>5

-----------------------------------------------------------------------------
(* A strict total order R on a finite set.  The rank of an element is the   *)
(* number of those before it: the ranks are the numbers below the size, and *)
(* they ascend as the elements do.                                         *)
Rank(S, R, x) == Cardinality({y \in S : <<y, x>> \in R})

TotalOrder(S, R) ==
  /\ \A x \in S : <<x, x>> \notin R
  /\ \A x, y, z \in S : <<x, y>> \in R /\ <<y, z>> \in R => <<x, z>> \in R
  /\ \A x, y \in S : x # y => <<x, y>> \in R \/ <<y, x>> \in R

LEMMA RankAscends ==
  ASSUME NEW S, IsFiniteSet(S), NEW R, TotalOrder(S, R),
         NEW x \in S, NEW y \in S, <<x, y>> \in R
  PROVE  Rank(S, R, x) < Rank(S, R, y)
<1> DEFINE Below(z) == {w \in S : <<w, z>> \in R}
<1>1. Below(x) \cup {x} \in SUBSET Below(y) /\ x \notin Below(x)
  BY DEF TotalOrder
<1>2. IsFiniteSet(Below(x)) /\ IsFiniteSet(Below(y))
  BY FS_Subset
<1>3. Cardinality(Below(x)) \in Nat /\ Cardinality(Below(y)) \in Nat
  BY <1>2, FS_CardinalityType
<1> HIDE DEF Below
<1>4. Cardinality(Below(x) \cup {x}) = Cardinality(Below(x)) + 1
  BY <1>1, <1>2, FS_AddElement
<1>5. Cardinality(Below(x) \cup {x}) <= Cardinality(Below(y))
  BY <1>1, <1>2, FS_Subset
<1>6. Cardinality(Below(x)) < Cardinality(Below(y))
  BY <1>3, <1>4, <1>5
<1> QED BY <1>6 DEF Below, Rank

LEMMA Ranks ==
  ASSUME NEW S, IsFiniteSet(S), NEW R, TotalOrder(S, R)
  PROVE  /\ Cardinality(S) \in Nat
         /\ [x \in S |-> Rank(S, R, x)] \in Bijection(S, 0..(Cardinality(S) - 1))
<1> DEFINE n == Cardinality(S)
           rank == [x \in S |-> Rank(S, R, x)]
<1>1. n \in Nat
  BY FS_CardinalityType
<1>2. ASSUME NEW x \in S PROVE rank[x] \in 0..(n - 1)
  <2> DEFINE below == {y \in S : <<y, x>> \in R}
  <2>1. below \in SUBSET (S \ {x})
    BY DEF TotalOrder
  <2>2. IsFiniteSet(S \ {x}) /\ Cardinality(S \ {x}) = n - 1
    BY FS_RemoveElement
  <2> HIDE DEF below
  <2>3. IsFiniteSet(below) /\ Cardinality(below) <= n - 1
    BY <2>1, <2>2, FS_Subset
  <2>4. Cardinality(below) \in Nat
    BY <2>3, FS_CardinalityType
  <2>5. Cardinality(below) \in 0..(n - 1)
    BY <1>1, <2>3, <2>4
  <2> QED BY <2>5 DEF below, Rank
<1>3. ASSUME NEW x \in S, NEW y \in S, rank[x] = rank[y] PROVE x = y
  <2>1. rank[x] \in Int /\ rank[y] \in Int
    BY <1>2
  <2>2. <<x, y>> \in R => rank[x] < rank[y]
    BY RankAscends
  <2>3. <<y, x>> \in R => rank[y] < rank[x]
    BY RankAscends
  <2>4. <<x, y>> \notin R /\ <<y, x>> \notin R
    <3> HIDE DEF rank
    <3> QED BY <1>3, <2>1, <2>2, <2>3
  <2> QED BY <2>4 DEF TotalOrder
<1>4. rank \in Injection(S, 0..(n - 1))
  <2>1. rank \in [S -> 0..(n - 1)]
    BY <1>2
  <2> HIDE DEF rank
  <2> QED BY <1>3, <2>1 DEF Injection, IsInjective
<1>5. IsFiniteSet(0..(n - 1)) /\ Cardinality(0..(n - 1)) = n
  BY <1>1, FS_Interval
<1>6. rank \in Surjection(S, 0..(n - 1))
  <2> HIDE DEF rank
  <2> QED BY <1>4, <1>5, FS_Injection
<1> QED BY <1>1, <1>4, <1>6 DEF Bijection

(* As many elements have a rank below m as there are ranks below m. *)
LEMMA RanksBelow ==
  ASSUME NEW S, IsFiniteSet(S), NEW R, TotalOrder(S, R), NEW m \in Nat
  PROVE  Cardinality({x \in S : Rank(S, R, x) < m})
           = IF Cardinality(S) <= m THEN Cardinality(S) ELSE m
<1> DEFINE n == Cardinality(S)
           k == IF n <= m THEN n ELSE m
           T == {x \in S : Rank(S, R, x) < m}
           rank == [x \in S |-> Rank(S, R, x)]
           low == [x \in T |-> rank[x]]
<1>1. n \in Nat /\ rank \in Bijection(S, 0..(n - 1))
  BY Ranks
<1>2. T = {x \in S : rank[x] < m}
  OBVIOUS
<1> HIDE DEF n, rank, T
<1>3. /\ rank \in [S -> 0..(n - 1)] /\ \A x, y \in S : rank[x] = rank[y] => x = y
      /\ \A i \in 0..(n - 1) : \E x \in S : rank[x] = i
  BY <1>1 DEF Bijection, Injection, Surjection, IsInjective
<1>4. low \in [T -> 0..(k - 1)]
  BY <1>1, <1>2, <1>3
<1>5. low \in Bijection(T, 0..(k - 1))
  <2>1. \A x, y \in T : low[x] = low[y] => x = y
    BY <1>2, <1>3
  <2>2. \A i \in 0..(k - 1) : \E x \in T : low[x] = i
    BY <1>1, <1>2, <1>3
  <2> HIDE DEF low, k
  <2> QED BY <1>4, <2>1, <2>2 DEF Bijection, Injection, Surjection, IsInjective
<1>6. k \in Nat
  BY <1>1
<1>7. IsFiniteSet(0..(k - 1)) /\ Cardinality(0..(k - 1)) = k
  <2> HIDE DEF k
  <2> QED BY <1>6, FS_Interval
<1>8. IsFiniteSet(T)
  BY <1>2, FS_Subset
<1>9. Cardinality(T) = k
  <2> HIDE DEF k
  <2> QED BY <1>5, <1>7, <1>8, FS_Bijection DEF ExistsBijection
<1> QED BY <1>9 DEF T, n
===============================================================================
