-------------------------------- MODULE Sums --------------------------------
(***************************************************************************)
(* Facts about sums of natural numbers over finite sets.  A sum over the   *)
(* arguments of a function is the number of `units' in it: the pairs of an *)
(* argument x and a number from 1 to f[x].  So every fact about sums       *)
(* follows from one about finite sets.                                     *)
(***************************************************************************)
EXTENDS Integers, FiniteSetTheorems, FiniteSetsExt, TLAPS

-----------------------------------------------------------------------------
(* Induction over the subsets of a finite set, on a set `Good' of them.    *)

LEMMA SubsetInduction ==
  ASSUME NEW S, IsFiniteSet(S), NEW Good,
         \A T \in SUBSET S : (\A x \in T : T \ {x} \in Good) => T \in Good
  PROVE  \A T \in SUBSET S : T \in Good
<1> DEFINE Bad == (SUBSET S) \ Good
<1> SUFFICES ASSUME Bad # {} PROVE FALSE
  OBVIOUS
<1>1. IsWellFoundedOn(StrictSubsetOrdering(S), SUBSET S)
  <2>1. IsWellFoundedOn(StrictSubsetOrdering(S), FiniteSubsetsOf(S))
    BY FS_StrictSubsetOrderingWellFounded
  <2>2. FiniteSubsetsOf(S) = SUBSET S
    BY FS_FiniteSubsetsOfFinite
  <2> QED
    BY <2>1, <2>2
<1>2. Bad \subseteq SUBSET S
  OBVIOUS
<1> HIDE DEF Bad
<1>3. PICK T \in Bad : \A U \in Bad : <<U, T>> \notin StrictSubsetOrdering(S)
  BY <1>1, <1>2, WFMin
<1>4. \A x \in T : <<T \ {x}, T>> \in StrictSubsetOrdering(S)
  BY <1>2 DEF StrictSubsetOrdering
<1>5. \A x \in T : T \ {x} \in Good
  BY <1>2, <1>3, <1>4 DEF Bad
<1> QED
  BY <1>2, <1>5 DEF Bad

-----------------------------------------------------------------------------
(* Units.                                                                  *)

UnitsOf(f, x) == {x} \X (1 .. f[x])
Units(f, S)   == {u \in S \X Nat : u[2] \in 1 .. f[u[1]]}

LEMMA UnitsOfOne ==
  ASSUME NEW f, NEW x, f[x] \in Nat
  PROVE  IsFiniteSet(UnitsOf(f, x)) /\ Cardinality(UnitsOf(f, x)) = f[x]
<1>1. IsFiniteSet({x}) /\ Cardinality({x}) = 1
  BY FS_Singleton
<1>2. IsFiniteSet(1 .. f[x]) /\ Cardinality(1 .. f[x]) = f[x]
  BY FS_Interval
<1>3. /\ IsFiniteSet({x} \X (1 .. f[x]))
      /\ Cardinality({x} \X (1 .. f[x])) = Cardinality({x}) * Cardinality(1 .. f[x])
  BY <1>1, <1>2, FS_Product
<1> QED
  BY <1>1, <1>2, <1>3 DEF UnitsOf

LEMMA UnitsSplit ==
  ASSUME NEW S, NEW x \in S, NEW f, \A y \in S : f[y] \in Nat
  PROVE  /\ Units(f, S) = Units(f, S \ {x}) \cup UnitsOf(f, x)
         /\ Units(f, S \ {x}) \cap UnitsOf(f, x) = {}
<1>1. Units(f, S) \subseteq Units(f, S \ {x}) \cup UnitsOf(f, x)
  BY DEF Units, UnitsOf
<1>2. Units(f, S \ {x}) \cup UnitsOf(f, x) \subseteq Units(f, S)
  BY DEF Units, UnitsOf
<1>3. Units(f, S \ {x}) \cap UnitsOf(f, x) = {}
  BY DEF Units, UnitsOf
<1> QED
  BY <1>1, <1>2, <1>3

\* Two disjoint finite sets together.
LEMMA DisjointUnion ==
  ASSUME NEW A, NEW B, IsFiniteSet(A), IsFiniteSet(B), A \cap B = {}
  PROVE  /\ IsFiniteSet(A \cup B)
         /\ Cardinality(A \cup B) = Cardinality(A) + Cardinality(B)
         /\ Cardinality(A) \in Nat /\ Cardinality(B) \in Nat
<1>1. Cardinality(A) \in Nat /\ Cardinality(B) \in Nat
  BY FS_CardinalityType
<1>2. Cardinality(A \cap B) = 0
  BY FS_EmptySet
<1>3. /\ IsFiniteSet(A \cup B)
      /\ Cardinality(A \cup B) = Cardinality(A) + Cardinality(B) - Cardinality(A \cap B)
  BY FS_Union
<1> QED
  BY <1>1, <1>2, <1>3

LEMMA UnitsStep ==
  ASSUME NEW S, NEW x \in S, NEW f, \A y \in S : f[y] \in Nat,
         IsFiniteSet(Units(f, S \ {x}))
  PROVE  /\ IsFiniteSet(Units(f, S))
         /\ Cardinality(Units(f, S)) = f[x] + Cardinality(Units(f, S \ {x}))
         /\ Cardinality(Units(f, S \ {x})) \in Nat
<1>1. /\ Units(f, S) = Units(f, S \ {x}) \cup UnitsOf(f, x)
      /\ Units(f, S \ {x}) \cap UnitsOf(f, x) = {}
  BY UnitsSplit
<1>2. IsFiniteSet(UnitsOf(f, x)) /\ Cardinality(UnitsOf(f, x)) = f[x]
  BY UnitsOfOne
<1>3. /\ IsFiniteSet(Units(f, S))
      /\ Cardinality(Units(f, S)) = Cardinality(Units(f, S \ {x})) + f[x]
      /\ Cardinality(Units(f, S \ {x})) \in Nat
  BY <1>1, <1>2, DisjointUnion
<1> QED
  BY <1>3

LEMMA UnitsFinite ==
  ASSUME NEW S, IsFiniteSet(S), NEW f, \A y \in S : f[y] \in Nat
  PROVE  /\ \A T \in SUBSET S : IsFiniteSet(Units(f, T))
         /\ Units(f, {}) = {}
<1> DEFINE Good == {T \in SUBSET S : IsFiniteSet(Units(f, T))}
<1>1. Units(f, {}) = {}
  BY DEF Units
<1>2. ASSUME NEW T \in SUBSET S, \A x \in T : T \ {x} \in Good PROVE T \in Good
  <2>1. CASE T = {}
    BY <1>1, <2>1, FS_EmptySet
  <2>2. CASE T # {}
    <3>1. PICK x \in T : TRUE
      BY <2>2
    <3>2. IsFiniteSet(Units(f, T \ {x}))
      BY <1>2
    <3> QED
      BY <3>2, UnitsStep
  <2> QED
    BY <2>1, <2>2
<1> HIDE DEF Good
<1>3. \A T \in SUBSET S : T \in Good
  BY <1>2, SubsetInduction
<1> QED
  BY <1>1, <1>3 DEF Good

-----------------------------------------------------------------------------
(* Sums count units.                                                       *)

\* What the fold of the community modules stands for.
LEMMA SumUnfold ==
  ASSUME NEW f, NEW S
  PROVE  SumFunctionOnSet(f, S) =
            (CHOOSE h : h = [s \in SUBSET S |->
                IF s = {} THEN 0
                ELSE f[CHOOSE x \in s : TRUE] + h[s \ {CHOOSE x \in s : TRUE}]])[S]
  BY DEF SumFunctionOnSet, FoldFunctionOnSet, MapThenFoldSet

LEMMA SumIsUnits ==
  ASSUME NEW S, IsFiniteSet(S), NEW f, \A y \in S : f[y] \in Nat
  PROVE  SumFunctionOnSet(f, S) = Cardinality(Units(f, S))
<1> DEFINE Some(s) == CHOOSE x \in s : TRUE
           Step(h) == [s \in SUBSET S |->
                          IF s = {} THEN 0 ELSE f[Some(s)] + h[s \ {Some(s)}]]
           Size == [s \in SUBSET S |-> Cardinality(Units(f, s))]
           sum == CHOOSE h : h = Step(h)
           Good == {T \in SUBSET S : sum[T] = Size[T]}
<1>1. ASSUME NEW T \in SUBSET S, T # {}
      PROVE  /\ Some(T) \in T
             /\ Cardinality(Units(f, T)) = f[Some(T)] + Cardinality(Units(f, T \ {Some(T)}))
  <2>1. Some(T) \in T
    BY <1>1
  <2>2. IsFiniteSet(Units(f, T \ {Some(T)}))
    BY UnitsFinite
  <2>3. \A y \in T : f[y] \in Nat
    OBVIOUS
  <2> HIDE DEF Some
  <2> QED
    BY <2>1, <2>2, <2>3, UnitsStep
<1>2. Cardinality(Units(f, {})) = 0
  BY UnitsFinite, FS_EmptySet
<1>3. Size = Step(Size)
  <2> HIDE DEF Some
  <2>1. ASSUME NEW T \in SUBSET S PROVE Size[T] = Step(Size)[T]
    BY <1>1, <1>2
  <2> QED
    BY <2>1
<1>4. sum = Step(sum)
  <2> HIDE DEF Size, Step
  <2> QED
    BY <1>3
<1>5. ASSUME NEW T \in SUBSET S, \A x \in T : T \ {x} \in Good PROVE T \in Good
  <2> HIDE DEF sum, Some
  <2>1. sum[T] = Step(sum)[T]
    BY <1>4
  <2>2. CASE T = {}
    BY <1>2, <2>1, <2>2
  <2>3. CASE T # {}
    <3>1. sum[T \ {Some(T)}] = Cardinality(Units(f, T \ {Some(T)}))
      BY <1>1, <1>5, <2>3
    <3> QED
      BY <1>1, <2>1, <2>3, <3>1
  <2> QED
    BY <2>2, <2>3
<1>6. \A T \in SUBSET S : T \in Good
  <2> HIDE DEF Good
  <2> QED
    BY <1>5, SubsetInduction
<1>7. sum[S] = Cardinality(Units(f, S))
  <2> HIDE DEF sum
  <2> QED
    BY <1>6
<1> QED
  BY <1>7, SumUnfold

-----------------------------------------------------------------------------
(* What sums do.                                                           *)

LEMMA SumEmpty ==
  ASSUME NEW f
  PROVE  SumFunctionOnSet(f, {}) = 0
<1>1. IsFiniteSet({}) /\ Cardinality({}) = 0
  BY FS_EmptySet
<1>2. SumFunctionOnSet(f, {}) = Cardinality(Units(f, {}))
  BY <1>1, SumIsUnits
<1>3. Units(f, {}) = {}
  BY DEF Units
<1> QED
  BY <1>1, <1>2, <1>3

LEMMA SumRemove ==
  ASSUME NEW S, IsFiniteSet(S), NEW x \in S, NEW f, \A y \in S : f[y] \in Nat
  PROVE  /\ SumFunctionOnSet(f, S) = f[x] + SumFunctionOnSet(f, S \ {x})
         /\ SumFunctionOnSet(f, S) \in Nat
         /\ SumFunctionOnSet(f, S \ {x}) \in Nat
<1>1. IsFiniteSet(S \ {x})
  BY FS_RemoveElement
<1>2. IsFiniteSet(Units(f, S \ {x}))
  BY UnitsFinite
<1>3. SumFunctionOnSet(f, S \ {x}) = Cardinality(Units(f, S \ {x}))
  BY <1>1, SumIsUnits
<1>4. SumFunctionOnSet(f, S) = Cardinality(Units(f, S))
  BY SumIsUnits
<1>5. /\ Cardinality(Units(f, S)) = f[x] + Cardinality(Units(f, S \ {x}))
      /\ Cardinality(Units(f, S \ {x})) \in Nat
  BY <1>2, UnitsStep
<1> QED
  BY <1>3, <1>4, <1>5

LEMMA SumNat ==
  ASSUME NEW S, IsFiniteSet(S), NEW f, \A y \in S : f[y] \in Nat
  PROVE  SumFunctionOnSet(f, S) \in Nat
<1>1. CASE S = {}
  BY <1>1, SumEmpty
<1>2. CASE S # {}
  BY <1>2, SumRemove
<1> QED
  BY <1>1, <1>2

LEMMA SumSame ==
  ASSUME NEW S, IsFiniteSet(S), NEW f, NEW g,
         \A y \in S : f[y] \in Nat /\ f[y] = g[y]
  PROVE  SumFunctionOnSet(f, S) = SumFunctionOnSet(g, S)
<1>1. Units(f, S) = Units(g, S)
  BY DEF Units
<1>2. SumFunctionOnSet(f, S) = Cardinality(Units(f, S))
  BY SumIsUnits
<1>3. SumFunctionOnSet(g, S) = Cardinality(Units(g, S))
  BY SumIsUnits
<1> QED
  BY <1>1, <1>2, <1>3

\* A function that is changed in one place.
LEMMA SumUpdate ==
  ASSUME NEW S, IsFiniteSet(S), NEW x \in S, NEW f, NEW g,
         \A y \in S : f[y] \in Nat /\ g[y] \in Nat,
         \A y \in S \ {x} : f[y] = g[y]
  PROVE  SumFunctionOnSet(g, S) = SumFunctionOnSet(f, S) - f[x] + g[x]
<1>1. /\ SumFunctionOnSet(f, S) = f[x] + SumFunctionOnSet(f, S \ {x})
      /\ SumFunctionOnSet(f, S \ {x}) \in Nat
  BY SumRemove
<1>2. /\ SumFunctionOnSet(g, S) = g[x] + SumFunctionOnSet(g, S \ {x})
      /\ SumFunctionOnSet(g, S \ {x}) \in Nat
  BY SumRemove
<1>3. IsFiniteSet(S \ {x})
  BY FS_RemoveElement
<1>4. SumFunctionOnSet(f, S \ {x}) = SumFunctionOnSet(g, S \ {x})
  BY <1>3, SumSame
<1> QED
  BY <1>1, <1>2, <1>4

\* A sum of sums, by induction over the set.
LEMMA SumAdd ==
  ASSUME NEW S, IsFiniteSet(S), NEW f, NEW g, NEW h,
         \A y \in S : f[y] \in Nat /\ g[y] \in Nat /\ h[y] = f[y] + g[y]
  PROVE  SumFunctionOnSet(h, S) = SumFunctionOnSet(f, S) + SumFunctionOnSet(g, S)
<1> DEFINE Good == {T \in SUBSET S : SumFunctionOnSet(h, T) =
                        SumFunctionOnSet(f, T) + SumFunctionOnSet(g, T)}
<1>1. ASSUME NEW T \in SUBSET S, \A x \in T : T \ {x} \in Good PROVE T \in Good
  <2>1. CASE T = {}
    BY <2>1, SumEmpty
  <2>2. CASE T # {}
    <3>1. PICK x \in T : TRUE
      BY <2>2
    <3>2. IsFiniteSet(T)
      BY FS_Subset
    <3>3. /\ SumFunctionOnSet(f, T) = f[x] + SumFunctionOnSet(f, T \ {x})
          /\ SumFunctionOnSet(f, T \ {x}) \in Nat
      BY <3>2, SumRemove
    <3>4. /\ SumFunctionOnSet(g, T) = g[x] + SumFunctionOnSet(g, T \ {x})
          /\ SumFunctionOnSet(g, T \ {x}) \in Nat
      BY <3>2, SumRemove
    <3>5. \A y \in T : h[y] \in Nat
      OBVIOUS
    <3>6. SumFunctionOnSet(h, T) = h[x] + SumFunctionOnSet(h, T \ {x})
      BY <3>2, <3>5, SumRemove
    <3>7. SumFunctionOnSet(h, T \ {x}) =
              SumFunctionOnSet(f, T \ {x}) + SumFunctionOnSet(g, T \ {x})
      BY <1>1
    <3>8. f[x] \in Nat /\ g[x] \in Nat /\ h[x] = f[x] + g[x]
      OBVIOUS
    <3> QED
      BY <3>3, <3>4, <3>6, <3>7, <3>8
  <2> QED
    BY <2>1, <2>2
<1> HIDE DEF Good
<1>2. \A T \in SUBSET S : T \in Good
  BY <1>1, SubsetInduction
<1> QED
  BY <1>2 DEF Good

LEMMA SumMonotonic ==
  ASSUME NEW S, IsFiniteSet(S), NEW f, NEW g,
         \A y \in S : f[y] \in Nat /\ g[y] \in Nat /\ f[y] <= g[y]
  PROVE  SumFunctionOnSet(f, S) <= SumFunctionOnSet(g, S)
<1> DEFINE gap == [y \in S |-> g[y] - f[y]]
<1>1. \A y \in S : gap[y] \in Nat /\ g[y] = f[y] + gap[y]
  OBVIOUS
<1> HIDE DEF gap
<1>2. SumFunctionOnSet(g, S) = SumFunctionOnSet(f, S) + SumFunctionOnSet(gap, S)
  BY <1>1, SumAdd
<1>3. /\ SumFunctionOnSet(f, S) \in Nat
      /\ SumFunctionOnSet(gap, S) \in Nat
  BY <1>1, SumNat
<1> QED
  BY <1>2, <1>3

LEMMA SumZero ==
  ASSUME NEW S, IsFiniteSet(S), NEW f, \A y \in S : f[y] \in Nat
  PROVE  SumFunctionOnSet(f, S) = 0 <=> \A y \in S : f[y] = 0
<1>1. ASSUME \A y \in S : f[y] = 0 PROVE SumFunctionOnSet(f, S) = 0
  <2>1. Units(f, S) = {}
    BY <1>1 DEF Units
  <2> QED
    BY <2>1, SumIsUnits, FS_EmptySet
<1>2. ASSUME NEW y \in S PROVE SumFunctionOnSet(f, S) >= f[y]
  <2>1. /\ SumFunctionOnSet(f, S) = f[y] + SumFunctionOnSet(f, S \ {y})
        /\ SumFunctionOnSet(f, S \ {y}) \in Nat
    BY SumRemove
  <2> QED
    BY <2>1
<1> QED
  BY <1>1, <1>2

\* The sum of a set's characteristic function is its size.
LEMMA SumIndicator ==
  ASSUME NEW S, IsFiniteSet(S), NEW A \in SUBSET S, NEW f,
         \A y \in S : f[y] = IF y \in A THEN 1 ELSE 0
  PROVE  SumFunctionOnSet(f, S) = Cardinality(A)
<1> DEFINE Good == {T \in SUBSET S : SumFunctionOnSet(f, T) = Cardinality(A \cap T)}
<1>1. ASSUME NEW T \in SUBSET S, \A x \in T : T \ {x} \in Good PROVE T \in Good
  <2>1. CASE T = {}
    BY <2>1, SumEmpty, FS_EmptySet
  <2>2. CASE T # {}
    <3>1. PICK x \in T : TRUE
      BY <2>2
    <3>2. IsFiniteSet(T) /\ IsFiniteSet(A \cap T)
      BY FS_Subset
    <3>3. \A y \in T : f[y] \in Nat
      OBVIOUS
    <3>4. SumFunctionOnSet(f, T) = f[x] + SumFunctionOnSet(f, T \ {x})
      BY <3>2, <3>3, SumRemove
    <3>5. A \cap (T \ {x}) = (A \cap T) \ {x}
      OBVIOUS
    <3>6. SumFunctionOnSet(f, T \ {x}) = Cardinality((A \cap T) \ {x})
      BY <1>1, <3>5
    <3>7. Cardinality((A \cap T) \ {x}) =
              IF x \in A \cap T THEN Cardinality(A \cap T) - 1 ELSE Cardinality(A \cap T)
      BY <3>2, FS_RemoveElement
    <3>8. Cardinality(A \cap T) \in Nat
      BY <3>2, FS_CardinalityType
    <3>9. f[x] = IF x \in A \cap T THEN 1 ELSE 0
      OBVIOUS
    <3>10. SumFunctionOnSet(f, T) = Cardinality(A \cap T)
      BY <3>4, <3>6, <3>7, <3>8, <3>9
    <3> QED
      BY <3>10
  <2> QED
    BY <2>1, <2>2
<1> HIDE DEF Good
<1>2. \A T \in SUBSET S : T \in Good
  BY <1>1, SubsetInduction
<1>3. A \cap S = A
  OBVIOUS
<1> QED
  BY <1>2, <1>3 DEF Good

\* The arguments of a sum may be renamed.
LEMMA SumReindex ==
  ASSUME NEW S, IsFiniteSet(S), NEW f, \A x \in S : f[x] \in Nat,
         NEW T, NEW r \in Bijection(T, S), NEW g, \A x \in T : g[x] = f[r[x]]
  PROVE  SumFunctionOnSet(g, T) = SumFunctionOnSet(f, S)
<1>1. /\ r \in [T -> S]
      /\ \A x, y \in T : r[x] = r[y] => x = y
      /\ \A y \in S : \E x \in T : r[x] = y
  BY DEF Bijection, Injection, IsInjective, Surjection
<1>2. IsFiniteSet(T)
  <2>1. r \in Injection(T, S)
    BY DEF Bijection
  <2> QED
    BY <2>1, FS_Injection
<1>3. \A x \in T : g[x] \in Nat
  BY <1>1
<1> DEFINE up == [u \in Units(g, T) |-> <<r[u[1]], u[2]>>]
<1>4. up \in [Units(g, T) -> Units(f, S)]
  BY <1>1 DEF Units
<1>5. \A u, v \in Units(g, T) : up[u] = up[v] => u = v
  BY <1>1 DEF Units
<1>6. \A w \in Units(f, S) : \E u \in Units(g, T) : up[u] = w
  <2> TAKE w \in Units(f, S)
  <2>1. w = <<w[1], w[2]>> /\ w[1] \in S /\ w[2] \in Nat /\ w[2] \in 1 .. f[w[1]]
    BY DEF Units
  <2>2. PICK x \in T : r[x] = w[1]
    BY <1>1, <2>1
  <2>3. <<x, w[2]>> \in Units(g, T)
    BY <2>1, <2>2 DEF Units
  <2> QED
    BY <2>1, <2>2, <2>3
<1> HIDE DEF up
<1>7. up \in Bijection(Units(g, T), Units(f, S))
  BY <1>4, <1>5, <1>6 DEF Bijection, Injection, IsInjective, Surjection
<1>8. ExistsBijection(Units(g, T), Units(f, S))
  BY <1>7 DEF ExistsBijection
<1>9. IsFiniteSet(Units(g, T))
  BY <1>2, <1>3, UnitsFinite
<1>10. Cardinality(Units(f, S)) = Cardinality(Units(g, T))
  BY <1>8, <1>9, FS_Bijection
<1>11. SumFunctionOnSet(g, T) = Cardinality(Units(g, T))
  BY <1>2, <1>3, SumIsUnits
<1>12. SumFunctionOnSet(f, S) = Cardinality(Units(f, S))
  BY SumIsUnits
<1> QED
  BY <1>10, <1>11, <1>12

\* A constant factor.
LEMMA SumScale ==
  ASSUME NEW S, IsFiniteSet(S), NEW f, \A x \in S : f[x] \in Nat, NEW c \in Nat,
         NEW g, \A x \in S : g[x] = c * f[x]
  PROVE  SumFunctionOnSet(g, S) = c * SumFunctionOnSet(f, S)
<1> DEFINE Good == {T \in SUBSET S :
                       SumFunctionOnSet(g, T) = c * SumFunctionOnSet(f, T)}
<1>1. ASSUME NEW T \in SUBSET S, \A x \in T : T \ {x} \in Good PROVE T \in Good
  <2>1. CASE T = {}
    BY <2>1, SumEmpty
  <2>2. CASE T # {}
    <3>1. PICK x \in T : TRUE
      BY <2>2
    <3>2. IsFiniteSet(T)
      BY FS_Subset
    <3>3. /\ SumFunctionOnSet(f, T) = f[x] + SumFunctionOnSet(f, T \ {x})
          /\ SumFunctionOnSet(f, T \ {x}) \in Nat
      BY <3>2, SumRemove
    <3>4. \A y \in T : g[y] \in Nat
      OBVIOUS
    <3>5. SumFunctionOnSet(g, T) = g[x] + SumFunctionOnSet(g, T \ {x})
      BY <3>2, <3>4, SumRemove
    <3>6. SumFunctionOnSet(g, T \ {x}) = c * SumFunctionOnSet(f, T \ {x})
      BY <1>1
    <3>7. g[x] = c * f[x] /\ f[x] \in Nat
      OBVIOUS
    <3>8. SumFunctionOnSet(g, T) = c * SumFunctionOnSet(f, T)
      BY <3>3, <3>5, <3>6, <3>7
    <3> QED
      BY <3>8
  <2> QED
    BY <2>1, <2>2
<1> HIDE DEF Good
<1>2. \A T \in SUBSET S : T \in Good
  BY <1>1, SubsetInduction
<1> QED
  BY <1>2 DEF Good

\* Equal summands.
LEMMA SumConstant ==
  ASSUME NEW S, IsFiniteSet(S), NEW f, NEW c \in Nat, \A x \in S : f[x] = c
  PROVE  SumFunctionOnSet(f, S) = c * Cardinality(S)
<1> DEFINE one == [x \in S |-> 1]
<1>1. \A x \in S : one[x] = (IF x \in S THEN 1 ELSE 0) /\ one[x] \in Nat /\ f[x] = c * one[x]
  OBVIOUS
<1> HIDE DEF one
<1>2. S \in SUBSET S
  OBVIOUS
<1>3. SumFunctionOnSet(one, S) = Cardinality(S)
  BY <1>1, <1>2, SumIndicator
<1>4. SumFunctionOnSet(f, S) = c * SumFunctionOnSet(one, S)
  BY <1>1, SumScale
<1> QED
  BY <1>3, <1>4

\* No summand exceeds the sum.
LEMMA SummandBound ==
  ASSUME NEW S, IsFiniteSet(S), NEW f, \A x \in S : f[x] \in Nat, NEW x \in S
  PROVE  f[x] <= SumFunctionOnSet(f, S)
<1>1. /\ SumFunctionOnSet(f, S) = f[x] + SumFunctionOnSet(f, S \ {x})
      /\ SumFunctionOnSet(f, S \ {x}) \in Nat
  BY SumRemove
<1> QED
  BY <1>1

\* The fold over a function is the sum over its domain.
LEMMA FoldIsSum ==
  ASSUME NEW S, NEW f, DOMAIN f = S
  PROVE  /\ FoldFunction(+, 0, f) = SumFunctionOnSet(f, S)
         /\ SumFunction(f) = SumFunctionOnSet(f, S)
  BY DEF FoldFunction, SumFunctionOnSet, SumFunction

-----------------------------------------------------------------------------
(* Extreme elements.                                                       *)

\* Some element of a finite set has the largest value.
LEMMA LargestExists ==
  ASSUME NEW S, IsFiniteSet(S), S # {}, NEW f, \A x \in S : f[x] \in Int
  PROVE  \E m \in S : \A n \in S : f[m] >= f[n]
<1> DEFINE Good == {T \in SUBSET S :
                       T # {} => \E m \in T : \A n \in T : f[m] >= f[n]}
<1>1. ASSUME NEW T \in SUBSET S, \A x \in T : T \ {x} \in Good PROVE T \in Good
  <2> SUFFICES ASSUME T # {} PROVE \E m \in T : \A n \in T : f[m] >= f[n]
    OBVIOUS
  <2>1. PICK x \in T : TRUE
    OBVIOUS
  <2>2. CASE T \ {x} = {}
    BY <2>2
  <2>3. CASE T \ {x} # {}
    <3>1. PICK y \in T \ {x} : \A n \in T \ {x} : f[y] >= f[n]
      BY <1>1, <2>3
    <3>2. CASE f[x] >= f[y]
      BY <3>1, <3>2
    <3>3. CASE f[y] >= f[x]
      BY <3>1, <3>3
    <3> QED
      BY <3>1, <3>2, <3>3
  <2> QED
    BY <2>2, <2>3
<1> HIDE DEF Good
<1>2. \A T \in SUBSET S : T \in Good
  BY <1>1, SubsetInduction
<1> QED
  BY <1>2 DEF Good

LEMMA LeastExists ==
  ASSUME NEW S, IsFiniteSet(S), S # {}, S \subseteq Int
  PROVE  \E m \in S : \A n \in S : m <= n
<1> DEFINE f == [x \in S |-> -x]
<1>1. \A x \in S : f[x] \in Int /\ f[x] = -x /\ x \in Int
  OBVIOUS
<1> HIDE DEF f
<1>2. \E m \in S : \A n \in S : f[m] >= f[n]
  BY <1>1, LargestExists
<1> QED
  BY <1>1, <1>2

-----------------------------------------------------------------------------
(* Recursion over subsets.                                                 *)

\* Induction over the natural numbers, on a set of them.
LEMMA NumberInduction ==
  ASSUME NEW Good, 0 \in Good, \A n \in Nat : n \in Good => n + 1 \in Good
  PROVE  \A n \in Nat : n \in Good
<1> SUFFICES ASSUME NEW n \in Nat PROVE n \in Good
  OBVIOUS
<1> DEFINE Sized == {T \in SUBSET (1 .. n) : Cardinality(T) \in Good}
<1>1. IsFiniteSet(1 .. n) /\ Cardinality(1 .. n) = n
  BY FS_Interval
<1>2. ASSUME NEW T \in SUBSET (1 .. n), \A x \in T : T \ {x} \in Sized
      PROVE  T \in Sized
  <2>1. CASE T = {}
    BY <2>1, FS_EmptySet
  <2>2. CASE T # {}
    <3>1. PICK x \in T : TRUE
      BY <2>2
    <3>2. IsFiniteSet(T)
      BY <1>1, FS_Subset
    <3>3. Cardinality(T) \in Nat /\ Cardinality(T \ {x}) = Cardinality(T) - 1
      BY <3>2, FS_CardinalityType, FS_RemoveElement
    <3>4. IsFiniteSet(T \ {x})
      BY <3>2, FS_RemoveElement
    <3>5. Cardinality(T \ {x}) \in Nat
      BY <3>4, FS_CardinalityType
    <3>6. Cardinality(T \ {x}) \in Good
      BY <1>2
    <3> QED
      BY <3>3, <3>5, <3>6
  <2> QED
    BY <2>1, <2>2
<1> HIDE DEF Sized
<1>3. \A T \in SUBSET (1 .. n) : T \in Sized
  BY <1>1, <1>2, SubsetInduction
<1>4. 1 .. n \in Sized
  BY <1>3
<1> QED
  BY <1>1, <1>4 DEF Sized

\* A function on the subsets of a finite set may be defined by what it is
\* without one of their elements.
Picks(pick, S) == \A T \in SUBSET S : T # {} => pick[T] \in T

Steps(step, S, V) == \A x \in S, v \in V : step[<<x, v>>] \in V

Recurses(h, S, base, pick, step) ==
    \A T \in SUBSET S :
        h[T] = IF T = {} THEN base ELSE step[<<pick[T], h[T \ {pick[T]}]>>]

LEMMA RecursionOverSubsets ==
  ASSUME NEW S, IsFiniteSet(S), NEW V, NEW base \in V,
         NEW pick, Picks(pick, S), NEW step, Steps(step, S, V)
  PROVE  \E h \in [SUBSET S -> V] : Recurses(h, S, base, pick, step)
<1> USE DEF Picks, Steps
<1> DEFINE Body(h, T) == IF T = {} THEN base ELSE step[<<pick[T], h[T \ {pick[T]}]>>]
           Good == {n \in Nat : \E h \in [SUBSET S -> V] : \A T \in SUBSET S :
                        Cardinality(T) <= n => h[T] = Body(h, T)}
<1>0. \A T \in SUBSET S : /\ Cardinality(T) \in Nat
                          /\ Cardinality(T) <= Cardinality(S)
                          /\ (Cardinality(T) = 0 <=> T = {})
                          /\ \A x \in T : Cardinality(T \ {x}) = Cardinality(T) - 1
  <2> TAKE T \in SUBSET S
  <2>1. IsFiniteSet(T) /\ Cardinality(T) <= Cardinality(S)
    BY FS_Subset
  <2>2. Cardinality(T) \in Nat /\ (Cardinality(T) = 0 <=> T = {})
    BY <2>1, FS_CardinalityType, FS_EmptySet
  <2>3. \A x \in T : Cardinality(T \ {x}) = Cardinality(T) - 1
    BY <2>1, FS_RemoveElement
  <2> QED
    BY <2>1, <2>2, <2>3
<1>1. 0 \in Good
  <2>1. [T \in SUBSET S |-> base] \in [SUBSET S -> V]
    OBVIOUS
  <2>2. \A T \in SUBSET S : Cardinality(T) <= 0 =>
            [U \in SUBSET S |-> base][T] = Body([U \in SUBSET S |-> base], T)
    BY <1>0
  <2> HIDE DEF Body
  <2> QED
    BY <2>1, <2>2
<1>2. ASSUME NEW n \in Nat, n \in Good PROVE n + 1 \in Good
  <2>1. PICK h \in [SUBSET S -> V] : \A T \in SUBSET S :
            Cardinality(T) <= n => h[T] = Body(h, T)
    BY <1>2
  <2> DEFINE g == [T \in SUBSET S |-> IF Cardinality(T) = n + 1 THEN Body(h, T) ELSE h[T]]
  <2>2. g \in [SUBSET S -> V]
    OBVIOUS
  <2>3. ASSUME NEW T \in SUBSET S, Cardinality(T) <= n + 1
        PROVE  g[T] = Body(g, T)
    <3>1. CASE T = {}
      <4>1. Cardinality(T) <= n /\ Cardinality(T) # n + 1
        BY <1>0, <3>1
      <4> QED
        BY <2>1, <3>1, <4>1
    <3>2. CASE T # {}
      <4>1. pick[T] \in T /\ T \ {pick[T]} \in SUBSET S
        BY <3>2
      <4>2. Cardinality(T \ {pick[T]}) = Cardinality(T) - 1 /\ Cardinality(T) \in Nat
        BY <1>0, <4>1
      <4>3. g[T \ {pick[T]}] = h[T \ {pick[T]}]
        BY <2>3, <4>1, <4>2
      <4>4. Body(g, T) = Body(h, T)
        BY <3>2, <4>3
      <4>5. g[T] = Body(h, T)
        <5>1. CASE Cardinality(T) = n + 1
          BY <5>1
        <5>2. CASE Cardinality(T) <= n
          <6>1. g[T] = h[T]
            BY <4>2, <5>2
          <6> QED
            BY <2>1, <5>2, <6>1
        <5> QED
          BY <2>3, <4>2, <5>1, <5>2 DEF Recurses
      <4> QED
        BY <4>4, <4>5
    <3> QED
      BY <3>1, <3>2
  <2> HIDE DEF g, Body
  <2> QED
    BY <2>2, <2>3
<1> HIDE DEF Good
<1>3. Cardinality(S) \in Good
  <2>1. \A n \in Nat : n \in Good
    BY <1>1, <1>2, NumberInduction
  <2> QED
    BY <2>1, FS_CardinalityType
<1>4. PICK h \in [SUBSET S -> V] : \A T \in SUBSET S :
            Cardinality(T) <= Cardinality(S) => h[T] = Body(h, T)
  BY <1>3 DEF Good
<1> HIDE DEF Body
<1>5. \A T \in SUBSET S : h[T] = Body(h, T)
  BY <1>0, <1>4
<1> QED
  BY <1>5 DEF Body, Recurses

-----------------------------------------------------------------------------
(* Products.                                                               *)

LEMMA ProductUnfold ==
  ASSUME NEW S
  PROVE  ProductSet(S) =
            (CHOOSE h : h = [s \in SUBSET S |->
                IF s = {} THEN 1
                ELSE (CHOOSE x \in s : TRUE) * h[s \ {CHOOSE x \in s : TRUE}]])[S]
  BY DEF ProductSet, FoldSet, MapThenFoldSet

\* A product of positive numbers is positive, and a multiple of each of them.
LEMMA ProductIsMultiple ==
  ASSUME NEW S \in SUBSET (Nat \ {0}), IsFiniteSet(S)
  PROVE  /\ ProductSet(S) \in Nat \ {0}
         /\ \A x \in S : \E k \in Nat : ProductSet(S) = x * k
<1> DEFINE Some(s) == CHOOSE x \in s : TRUE
           Step(h) == [s \in SUBSET S |->
                          IF s = {} THEN 1 ELSE Some(s) * h[s \ {Some(s)}]]
           pick == [s \in SUBSET S |-> Some(s)]
           times == [u \in S \X (Nat \ {0}) |-> u[1] * u[2]]
           prod == CHOOSE h : h = Step(h)
           Good == {T \in SUBSET S :
                       /\ prod[T] \in Nat \ {0}
                       /\ \A x \in T : \E k \in Nat : prod[T] = x * k}
<1>1. \A T \in SUBSET S : T # {} => Some(T) \in T
  OBVIOUS
<1>2. prod = Step(prod)
  <2> HIDE DEF Some
  <2>1. Picks(pick, S) /\ Steps(times, S, Nat \ {0})
    BY <1>1 DEF Picks, Steps
  <2>2. 1 \in Nat \ {0}
    OBVIOUS
  <2> HIDE DEF times, pick
  <2>3. PICK h \in [SUBSET S -> Nat \ {0}] : Recurses(h, S, 1, pick, times)
    BY <2>1, <2>2, RecursionOverSubsets
  <2>4. h = Step(h)
    <3>1. ASSUME NEW T \in SUBSET S PROVE h[T] = Step(h)[T]
      <4>1. CASE T = {}
        BY <2>3, <4>1 DEF Recurses
      <4>2. CASE T # {}
        <5>1. Some(T) \in S /\ h[T \ {Some(T)}] \in Nat \ {0} /\ pick[T] = Some(T)
          BY <1>1, <4>2 DEF pick
        <5>2. times[<<Some(T), h[T \ {Some(T)}]>>] = Some(T) * h[T \ {Some(T)}]
          BY <5>1 DEF times
        <5> QED
          BY <2>3, <4>2, <5>1, <5>2 DEF Recurses
      <4> QED
        BY <4>1, <4>2
    <3> QED
      BY <3>1
  <2> HIDE DEF Step
  <2> QED
    BY <2>4
<1>3. ASSUME NEW T \in SUBSET S, \A x \in T : T \ {x} \in Good PROVE T \in Good
  <2> HIDE DEF prod, Some
  <2>1. prod[T] = IF T = {} THEN 1 ELSE Some(T) * prod[T \ {Some(T)}]
    BY <1>2
  <2>2. CASE T = {}
    BY <2>1, <2>2
  <2>3. CASE T # {}
    <3> DEFINE x == Some(T)
               rest == T \ {Some(T)}
    <3>1. x \in T /\ x \in Nat \ {0} /\ rest \in Good
      BY <1>1, <1>3, <2>3
    <3>2. prod[T] = x * prod[rest] /\ prod[rest] \in Nat \ {0}
      BY <2>1, <2>3, <3>1
    <3>3. prod[T] \in Nat \ {0}
      BY <3>1, <3>2
    <3>4. ASSUME NEW y \in T PROVE \E k \in Nat : prod[T] = y * k
      <4>1. CASE y = x
        BY <3>2, <4>1
      <4>2. CASE y # x
        <5>1. PICK k \in Nat : prod[rest] = y * k
          BY <3>1, <4>2
        <5>2. y \in Nat /\ x * (y * k) = y * (x * k) /\ x * k \in Nat
          BY <3>1
        <5> QED
          BY <3>2, <5>1, <5>2
      <4> QED
        BY <4>1, <4>2
    <3> QED
      BY <3>3, <3>4
  <2> QED
    BY <2>2, <2>3
<1>4. S \in Good
  <2> HIDE DEF Good
  <2>1. \A T \in SUBSET S : T \in Good
    BY <1>3, SubsetInduction
  <2> QED
    BY <2>1
<1>5. ProductSet(S) = prod[S]
  BY ProductUnfold
<1> QED
  <2> HIDE DEF prod
  <2> QED
    BY <1>4, <1>5
=============================================================================
