--------------------------- MODULE SmoothingProofs ---------------------------
(***************************************************************************)
(* What the operators of Smoothing compute, for windows, radii and totals  *)
(* of any size.  A distribution is a function from a finite set of minutes *)
(* to Nat.                                                                 *)
(***************************************************************************)
EXTENDS Smoothing, Sums

-----------------------------------------------------------------------------
(* The kernel.                                                             *)

LEMMA RadiusPositive ==
  ASSUME NEW configured \in Int
  PROVE  KernelRadius(configured) \in Nat \ {0}
  BY DEF KernelRadius

LEMMA WeightNat ==
  ASSUME NEW radius \in Nat, NEW d \in Int
  PROVE  /\ TriangularWeight(radius, d) \in Nat
         /\ TriangularWeight(radius, 0) = radius + 1
         /\ TriangularWeight(radius, -d) = TriangularWeight(radius, d)
  BY DEF TriangularWeight

\* Every minute keeps some of its kernel, at an edge too: its own weight.
LEMMA MassPositive ==
  ASSUME NEW window, IsFiniteSet(window), window \subseteq Int,
         NEW radius \in Nat, NEW m \in window
  PROVE  KernelMass(window, radius, m) \in Nat \ {0}
<1> DEFINE weight == [n \in window |-> TriangularWeight(radius, n - m)]
<1>1. \A n \in window : weight[n] \in Nat
  BY WeightNat
<1>2. weight[m] = radius + 1
  <2>1. m - m = 0
    OBVIOUS
  <2> QED
    BY <2>1, WeightNat
<1>3. DOMAIN weight = window
  OBVIOUS
<1>4. KernelMass(window, radius, m) = SumFunction(weight)
  BY DEF KernelMass
<1> HIDE DEF weight
<1>5. SumFunction(weight) = SumFunctionOnSet(weight, window)
  BY <1>3, FoldIsSum
<1>6. SumFunctionOnSet(weight, window) \in Nat /\ weight[m] <= SumFunctionOnSet(weight, window)
  BY <1>1, SumNat, SummandBound
<1> QED
  BY <1>2, <1>4, <1>5, <1>6

\* The mean around a minute, as a function of the distribution alone.
Around(counts, radius, m) ==
    SumFunctionOnSet([n \in DOMAIN counts |-> counts[n] * TriangularWeight(radius, n - m)],
                     DOMAIN counts)

Masses(window, radius) == [m \in window |-> KernelMass(window, radius, m)]

Denominator(window, radius) == ProductSet(Range(Masses(window, radius)))

\* What the code divides by the mass is the same for all minutes.
Scales(window, radius) ==
    [m \in window |-> Denominator(window, radius) \div Masses(window, radius)[m]]

LEMMA ConvolveUnfold ==
  ASSUME NEW counts, NEW radius
  PROVE  Convolve(counts, radius) =
            [m \in DOMAIN counts |-> Around(counts, radius, m) * Scales(DOMAIN counts, radius)[m]]
<1> DEFINE term(m) == [n \in DOMAIN counts |-> counts[n] * TriangularWeight(radius, n - m)]
<1>1. \A m : SumFunction(term(m)) = Around(counts, radius, m)
  <2> TAKE m
  <2>1. DOMAIN term(m) = DOMAIN counts
    OBVIOUS
  <2>2. Around(counts, radius, m) = SumFunctionOnSet(term(m), DOMAIN counts)
    BY DEF Around
  <2> HIDE DEF term
  <2> QED
    BY <2>1, <2>2, FoldIsSum
<1> QED
  BY <1>1 DEF Convolve, Masses, Denominator, Scales

\* The common denominator is a multiple of every minute's mass: the mean has no
\* remainder over it.
LEMMA DenominatorFits ==
  ASSUME NEW window, IsFiniteSet(window), window \subseteq Int, NEW radius \in Nat
  PROVE  \A m \in window :
            /\ Masses(window, radius)[m] \in Nat \ {0}
            /\ Scales(window, radius)[m] \in Nat \ {0}
            /\ Denominator(window, radius) = Masses(window, radius)[m] * Scales(window, radius)[m]
<1> DEFINE mass == Masses(window, radius)
           all == Range(mass)
<1>1. \A m \in window : mass[m] \in Nat \ {0}
  BY MassPositive DEF Masses
<1>2. all \in SUBSET (Nat \ {0}) /\ \A m \in window : mass[m] \in all
  BY <1>1 DEF Masses, Range
<1>3. IsFiniteSet(all)
  <2>1. mass \in Surjection(window, all)
    BY <1>1 DEF Masses, Range, Surjection
  <2> QED
    BY <2>1, FS_Surjection
<1> HIDE DEF mass, all
<1>4. ProductSet(all) \in Nat \ {0} /\ \A x \in all : \E k \in Nat : ProductSet(all) = x * k
  BY <1>2, <1>3, ProductIsMultiple
<1>5. ASSUME NEW m \in window
      PROVE  /\ ProductSet(all) \div mass[m] \in Nat \ {0}
             /\ ProductSet(all) = mass[m] * (ProductSet(all) \div mass[m])
  <2>1. PICK k \in Nat : ProductSet(all) = mass[m] * k
    BY <1>2, <1>4
  <2>2. mass[m] \in Nat \ {0} /\ k # 0
    BY <1>1, <1>4, <2>1
  <2>3. \A a \in Nat \ {0}, b \in Nat : (a * b) \div a = b
    OBVIOUS
  <2>4. ProductSet(all) \div mass[m] = k
    BY <2>1, <2>2, <2>3
  <2> QED
    BY <2>1, <2>2, <2>4
<1> QED
  BY <1>1, <1>5 DEF mass, all, Denominator, Scales

LEMMA AroundNat ==
  ASSUME NEW counts, IsFiniteSet(DOMAIN counts), DOMAIN counts \subseteq Int,
         \A m \in DOMAIN counts : counts[m] \in Nat, NEW radius \in Nat, NEW m \in DOMAIN counts
  PROVE  Around(counts, radius, m) \in Nat
<1> DEFINE term == [n \in DOMAIN counts |-> counts[n] * TriangularWeight(radius, n - m)]
<1>1. ASSUME NEW n \in DOMAIN counts PROVE term[n] \in Nat
  <2>1. n - m \in Int
    OBVIOUS
  <2>2. TriangularWeight(radius, n - m) \in Nat
    BY <2>1, WeightNat
  <2>3. \A a, b \in Nat : a * b \in Nat
    OBVIOUS
  <2> QED
    BY <2>2, <2>3
<1>2. Around(counts, radius, m) = SumFunctionOnSet(term, DOMAIN counts)
  BY DEF Around
<1> HIDE DEF term
<1> QED
  BY <1>1, <1>2, SumNat

LEMMA ConvolveNat ==
  ASSUME NEW window, IsFiniteSet(window), window \subseteq Int,
         NEW counts \in [window -> Nat], NEW radius \in Nat
  PROVE  Convolve(counts, radius) \in [window -> Nat]
<1>1. ASSUME NEW m \in window
      PROVE  Around(counts, radius, m) * Scales(window, radius)[m] \in Nat
  <2>1. Around(counts, radius, m) \in Nat
    BY AroundNat
  <2>2. Scales(window, radius)[m] \in Nat
    BY DenominatorFits
  <2>3. \A a, b \in Nat : a * b \in Nat
    OBVIOUS
  <2> QED
    BY <2>1, <2>2, <2>3
<1> QED
  BY <1>1, ConvolveUnfold
\* Where the reminds are spread evenly the mean is the same everywhere.
LEMMA ConvolveEven ==
  ASSUME NEW window, IsFiniteSet(window), window \subseteq Int, NEW radius \in Nat,
         NEW c \in Nat, NEW counts \in [window -> Nat], \A m \in window : counts[m] = c,
         NEW m \in window
  PROVE  Convolve(counts, radius)[m] = c * Denominator(window, radius)
<1> DEFINE term == [n \in window |-> counts[n] * TriangularWeight(radius, n - m)]
           weight == [n \in window |-> TriangularWeight(radius, n - m)]
<1>1. ASSUME NEW n \in window PROVE weight[n] \in Nat /\ term[n] = c * weight[n]
  <2>1. n - m \in Int
    OBVIOUS
  <2> QED
    BY <2>1, WeightNat
<1>2. Around(counts, radius, m) = SumFunctionOnSet(term, window)
  BY DEF Around
<1>3. KernelMass(window, radius, m) = SumFunction(weight) /\ DOMAIN weight = window
  BY DEF KernelMass
<1> HIDE DEF term, weight
<1>4. SumFunctionOnSet(term, window) = c * SumFunctionOnSet(weight, window)
  BY <1>1, SumScale
<1>5. SumFunction(weight) = SumFunctionOnSet(weight, window)
  BY <1>3, FoldIsSum
<1>6. Around(counts, radius, m) = c * Masses(window, radius)[m]
  BY <1>2, <1>3, <1>4, <1>5 DEF Masses
<1>7. Convolve(counts, radius)[m] = Around(counts, radius, m) * Scales(window, radius)[m]
  BY ConvolveUnfold
<1>8. \A a, b, d \in Nat : (a * b) * d = a * (b * d)
  OBVIOUS
<1>9. /\ Masses(window, radius)[m] \in Nat
      /\ Scales(window, radius)[m] \in Nat
  BY DenominatorFits
<1>10. Denominator(window, radius) = Masses(window, radius)[m] * Scales(window, radius)[m]
  BY DenominatorFits
<1>11. (c * Masses(window, radius)[m]) * Scales(window, radius)[m] =
           c * (Masses(window, radius)[m] * Scales(window, radius)[m])
  BY <1>8, <1>9
<1> QED
  BY <1>6, <1>7, <1>10, <1>11

\* Where there are reminds the mean is positive.
LEMMA ConvolvePositive ==
  ASSUME NEW window, IsFiniteSet(window), window \subseteq Int, NEW radius \in Nat,
         NEW counts \in [window -> Nat], NEW m \in window, counts[m] # 0
  PROVE  Convolve(counts, radius)[m] \in Nat \ {0}
<1> DEFINE term == [n \in window |-> counts[n] * TriangularWeight(radius, n - m)]
<1>1. ASSUME NEW n \in window PROVE term[n] \in Nat
  <2>1. n - m \in Int
    OBVIOUS
  <2>2. TriangularWeight(radius, n - m) \in Nat
    BY <2>1, WeightNat
  <2>3. \A a, b \in Nat : a * b \in Nat
    OBVIOUS
  <2> QED
    BY <2>2, <2>3
<1>2. term[m] = counts[m] * (radius + 1)
  <2>1. m - m = 0
    OBVIOUS
  <2> QED
    BY <2>1, WeightNat
<1>3. Around(counts, radius, m) = SumFunctionOnSet(term, window)
  BY DEF Around
<1> HIDE DEF term
<1>4. /\ SumFunctionOnSet(term, window) \in Nat
      /\ term[m] <= SumFunctionOnSet(term, window)
  BY <1>1, SumNat, SummandBound
<1>5. \A a, b \in Nat \ {0} : a * b \in Nat \ {0}
  OBVIOUS
<1>6. counts[m] * (radius + 1) \in Nat \ {0}
  BY <1>5
<1>7. Around(counts, radius, m) \in Nat \ {0}
  BY <1>2, <1>3, <1>4, <1>6
<1>8. Convolve(counts, radius)[m] = Around(counts, radius, m) * Scales(window, radius)[m]
  BY ConvolveUnfold
<1>9. Scales(window, radius)[m] \in Nat \ {0}
  BY DenominatorFits
<1> QED
  BY <1>5, <1>7, <1>8, <1>9

-----------------------------------------------------------------------------
(* Dealing out evenly.                                                     *)

\* Over consecutive minutes the total is dealt out without a remainder.
LEMMA DealtSum ==
  ASSUME NEW a \in Int, NEW b \in Int, a <= b, NEW total \in Nat
  PROVE  /\ DealEvenly(a .. b, total) \in [a .. b -> Nat]
         /\ SumFunctionOnSet(DealEvenly(a .. b, total), a .. b) = total
<1> DEFINE S == a .. b
           n == b - a + 1
           q == total \div n
           k == total % n
           all == [m \in S |-> q]
           first == a .. (a + k - 1)
           extra == [m \in S |-> IF m \in first THEN 1 ELSE 0]
           dealt == DealEvenly(S, total)
<1>1. IsFiniteSet(S) /\ Cardinality(S) = n
  BY FS_Interval
<1>2. n \in Nat \ {0} /\ q \in Nat /\ k \in 0 .. n - 1 /\ q * n + k = total
  OBVIOUS
<1>3. first \in SUBSET S /\ Cardinality(first) = k
  <2>1. Cardinality(first) = k
    <3>1. a + k - 1 \in Int
      BY <1>2
    <3>2. Cardinality(first) = IF a > a + k - 1 THEN 0 ELSE (a + k - 1) - a + 1
      BY <3>1, FS_Interval
    <3> QED
      BY <1>2, <3>2
  <2> QED
    BY <1>2, <2>1
<1>4. ASSUME NEW m \in S
      PROVE  Cardinality(Before(S, m)) = m - a
  <2>1. Before(S, m) = a .. (m - 1)
    BY DEF Before
  <2>2. Cardinality(a .. (m - 1)) = IF a > m - 1 THEN 0 ELSE (m - 1) - a + 1
    BY FS_Interval
  <2> QED
    BY <2>1, <2>2
<1>5. \A m \in S : dealt[m] = all[m] + extra[m] /\ all[m] = q /\ extra[m] \in Nat
  <2> TAKE m \in S
  <2>1. dealt[m] = q + IF Cardinality(Before(S, m)) < k THEN 1 ELSE 0
    BY <1>1 DEF DealEvenly
  <2>2. (Cardinality(Before(S, m)) < k) <=> m \in first
    BY <1>2, <1>4
  <2> HIDE DEF S, q, k, first
  <2> QED
    BY <2>1, <2>2
<1>6. DOMAIN dealt = S /\ dealt = [m \in S |-> dealt[m]]
  BY DEF DealEvenly
<1>7. \A m \in S : extra[m] = IF m \in first THEN 1 ELSE 0
  OBVIOUS
<1> HIDE DEF all, extra, dealt, first, S, q, k, n
<1>8. SumFunctionOnSet(dealt, S) = SumFunctionOnSet(all, S) + SumFunctionOnSet(extra, S)
  BY <1>1, <1>2, <1>5, SumAdd
<1>9. SumFunctionOnSet(all, S) = q * Cardinality(S)
  BY <1>1, <1>2, <1>5, SumConstant
<1>10. SumFunctionOnSet(extra, S) = Cardinality(first)
  BY <1>1, <1>3, <1>7, SumIndicator
<1>11. SumFunctionOnSet(dealt, S) = total
  BY <1>1, <1>2, <1>3, <1>8, <1>9, <1>10
<1>12. \A m \in S : dealt[m] \in Nat
  BY <1>2, <1>5
<1> QED
  BY <1>6, <1>11, <1>12 DEF dealt, S

LEMMA DealtNat ==
  ASSUME NEW window, IsFiniteSet(window), NEW total \in Nat
  PROVE  DealEvenly(window, total) \in [window -> Nat]
<1>1. Cardinality(window) \in Nat /\ (window # {} => Cardinality(window) # 0)
  BY FS_CardinalityType, FS_EmptySet
<1>2. ASSUME NEW m \in window PROVE total \div Cardinality(window) \in Nat
  BY <1>1
<1> QED
  BY <1>2 DEF DealEvenly

-----------------------------------------------------------------------------
(* Rounding with the largest remainders.                                   *)

Whole(values) == SumFunctionOnSet(values, DOMAIN values)

Shares(values, total) == [m \in DOMAIN values |-> (values[m] * total) \div Whole(values)]
Rests(values, total)  == [m \in DOMAIN values |-> (values[m] * total) % Whole(values)]

Rounded(values, total, raised) ==
    [m \in DOMAIN values |-> Shares(values, total)[m] + IF m \in raised THEN 1 ELSE 0]

Raises(values, total, raised) ==
    /\ raised \in SUBSET (DOMAIN values)
    /\ Cardinality(raised) = total - Whole(Shares(values, total))
    /\ \A m \in raised, n \in DOMAIN values \ raised :
          Rests(values, total)[m] >= Rests(values, total)[n]

LEMMA RemainderUnfold ==
  ASSUME NEW values, NEW total, NEW t
  PROVE  t \in LargestRemainder(values, total) <=>
            \E raised : Raises(values, total, raised) /\ t = Rounded(values, total, raised)
<1>1. SumFunction(values) = Whole(values)
  BY FoldIsSum DEF Whole
<1>2. SumFunction(Shares(values, total)) = Whole(Shares(values, total))
  BY FoldIsSum DEF Whole
<1> QED
  BY <1>1, <1>2 DEF LargestRemainder, Raises, Rounded, Shares, Rests

LEMMA SharesNat ==
  ASSUME NEW window, IsFiniteSet(window), NEW values \in [window -> Nat], NEW total \in Nat,
         Whole(values) # 0
  PROVE  /\ Whole(values) \in Nat \ {0}
         /\ Shares(values, total) \in [window -> Nat]
         /\ Whole(Shares(values, total)) \in Nat
<1>1. Whole(values) \in Nat \ {0}
  BY SumNat DEF Whole
<1>2. \A a, b \in Nat, c \in Nat \ {0} : (a * b) \div c \in Nat
  OBVIOUS
<1>3. Shares(values, total) \in [window -> Nat]
  BY <1>1, <1>2 DEF Shares
<1>4. SumFunctionOnSet(Shares(values, total), window) \in Nat
  BY <1>3, SumNat
<1> QED
  BY <1>1, <1>3, <1>4 DEF Whole

\* The minutes that take one more are as many as what rounding down leaves.
LEMMA RemainderSum ==
  ASSUME NEW window, IsFiniteSet(window), NEW values \in [window -> Nat], NEW total \in Nat,
         Whole(values) # 0, NEW t \in LargestRemainder(values, total)
  PROVE  t \in [window -> Nat] /\ SumFunctionOnSet(t, window) = total
<1> DEFINE share == Shares(values, total)
<1>1. PICK raised : Raises(values, total, raised) /\ t = Rounded(values, total, raised)
  BY RemainderUnfold
<1>2. share \in [window -> Nat] /\ Whole(share) \in Nat
  BY SharesNat
<1>3. raised \in SUBSET window /\ Cardinality(raised) = total - Whole(share)
  BY <1>1 DEF Raises
<1> DEFINE one == [m \in window |-> IF m \in raised THEN 1 ELSE 0]
<1>4. \A m \in window : /\ one[m] = IF m \in raised THEN 1 ELSE 0
                        /\ one[m] \in Nat
  OBVIOUS
<1> HIDE DEF one
<1>5. \A m \in window : t[m] = share[m] + one[m]
  BY <1>1, <1>4 DEF Rounded
<1>6. DOMAIN t = window /\ t = [m \in window |-> t[m]]
  BY <1>1 DEF Rounded
<1> HIDE DEF share
<1>7. SumFunctionOnSet(t, window) =
          SumFunctionOnSet(share, window) + SumFunctionOnSet(one, window)
  BY <1>2, <1>4, <1>5, SumAdd
<1>8. SumFunctionOnSet(one, window) = Cardinality(raised)
  BY <1>3, <1>4, SumIndicator
<1>9. Whole(share) = SumFunctionOnSet(share, window)
  BY <1>2 DEF Whole
<1> QED
  BY <1>2, <1>3, <1>4, <1>5, <1>6, <1>7, <1>8, <1>9

\* A distribution of the total in exactly the proportions of the values.
Proportional(exact, values, total) ==
    \A m \in DOMAIN values : values[m] * total = Whole(values) * exact[m]

\* When nothing has to be rounded there is one result, the exact shares.
LEMMA ExactShares ==
  ASSUME NEW window, IsFiniteSet(window), NEW values \in [window -> Nat], NEW total \in Nat,
         Whole(values) # 0, NEW exact \in [window -> Nat],
         SumFunctionOnSet(exact, window) = total,
         Proportional(exact, values, total),
         NEW t \in LargestRemainder(values, total)
  PROVE  t = exact
<1>1. PICK raised : Raises(values, total, raised) /\ t = Rounded(values, total, raised)
  BY RemainderUnfold
<1>2. \A m \in window : Shares(values, total)[m] = exact[m]
  <2>1. Whole(values) \in Nat \ {0}
    BY SharesNat
  <2>2. \A a \in Nat \ {0}, b \in Nat : (a * b) \div a = b
    OBVIOUS
  <2> QED
    BY <2>1, <2>2 DEF Shares, Proportional
<1>3. Shares(values, total) = exact
  BY <1>2 DEF Shares
<1>4. Cardinality(raised) = 0 /\ raised \in SUBSET window
  BY <1>1, <1>3 DEF Raises, Whole
<1>5. raised = {}
  <2>1. IsFiniteSet(raised)
    BY <1>4, FS_Subset
  <2> QED
    BY <1>4, <2>1, FS_EmptySet
<1> QED
  BY <1>1, <1>3, <1>5 DEF Rounded

-----------------------------------------------------------------------------
(* Targets.                                                                *)

LEMMA NormalizeUnfold ==
  ASSUME NEW values, NEW total
  PROVE  NormalizeToSum(values, total) =
            IF Whole(values) = 0 \/ total = 0 THEN {DealEvenly(DOMAIN values, total)}
            ELSE LargestRemainder(values, total)
<1>1. SumFunction(values) = Whole(values)
  BY FoldIsSum DEF Whole
<1> QED
  BY <1>1 DEF NormalizeToSum

LEMMA NormalizedNat ==
  ASSUME NEW window, IsFiniteSet(window), NEW values \in [window -> Nat], NEW total \in Nat,
         NEW t \in NormalizeToSum(values, total)
  PROVE  t \in [window -> Nat]
<1>1. CASE t = DealEvenly(window, total)
  BY <1>1, DealtNat
<1>2. CASE t \in LargestRemainder(values, total) /\ Whole(values) # 0
  BY <1>2, RemainderSum
<1> QED
  BY <1>1, <1>2, NormalizeUnfold

LEMMA NormalizedSum ==
  ASSUME NEW a \in Int, NEW b \in Int, a <= b,
         NEW values \in [a .. b -> Nat], NEW total \in Nat,
         NEW t \in NormalizeToSum(values, total)
  PROVE  /\ t \in [a .. b -> Nat]
         /\ SumFunctionOnSet(t, a .. b) = total
<1>1. IsFiniteSet(a .. b)
  BY FS_Interval
<1>2. CASE t = DealEvenly(a .. b, total)
  BY <1>2, DealtSum
<1>3. CASE t \in LargestRemainder(values, total) /\ Whole(values) # 0
  BY <1>1, <1>3, RemainderSum
<1> QED
  BY <1>2, <1>3, NormalizeUnfold

\* Exact shares of what is there are kept, those of nothing too.
LEMMA NormalizedExact ==
  ASSUME NEW window, IsFiniteSet(window), NEW values \in [window -> Nat],
         NEW exact \in [window -> Nat], NEW total \in Nat,
         SumFunctionOnSet(exact, window) = total,
         Proportional(exact, values, total),
         Whole(values) = 0 => total = 0,
         NEW t \in NormalizeToSum(values, total)
  PROVE  t = exact
<1>1. CASE total = 0
  <2>1. \A m \in window : exact[m] = 0
    BY <1>1, SumZero
  <2>2. t = DealEvenly(window, 0)
    BY <1>1, NormalizeUnfold
  <2>3. Cardinality(window) \in Nat /\ (window # {} => Cardinality(window) # 0)
    BY FS_CardinalityType, FS_EmptySet
  <2>4. ASSUME NEW m \in window PROVE DealEvenly(window, 0)[m] = 0
    <3>1. 0 \div Cardinality(window) = 0 /\ 0 % Cardinality(window) = 0
      BY <2>3
    <3>2. IsFiniteSet(Before(window, m))
      BY FS_Subset DEF Before
    <3>3. Cardinality(Before(window, m)) \in Nat
      BY <3>2, FS_CardinalityType
    <3> QED
      BY <3>1, <3>3 DEF DealEvenly
  <2>5. DealEvenly(window, 0) = [m \in window |-> 0]
    BY <2>4 DEF DealEvenly
  <2> QED
    BY <2>1, <2>2, <2>5
<1>2. CASE total # 0
  <2>1. t \in LargestRemainder(values, total) /\ Whole(values) # 0
    BY <1>2, NormalizeUnfold
  <2> QED
    BY <2>1, ExactShares
<1> QED
  BY <1>1, <1>2
=============================================================================
