---------------------------- MODULE TargetsProofs ----------------------------
(***************************************************************************)
(* What the smoothing strategies promise the planner, for windows of any   *)
(* length, any distribution of the reminds over them, any number of        *)
(* reminds outside and any configured radius.                              *)
(***************************************************************************)
EXTENDS MCSmoothing, SmoothingProofs

-----------------------------------------------------------------------------
(* The state of a call.                                                    *)

Distributed ==
    /\ \E n \in Nat \ {0} : counts \in [0 .. n - 1 -> Nat]
    /\ outside \in Nat
    /\ strategy \in {"passthrough", "triangular"}
    /\ radius \in Int

Result ==
    /\ Distributed
    /\ Calculated => targets \in TargetsOf(counts)

LEMMA ResultInit == Init => Result
  BY CallsAssumption DEF Init, Result, Distributed, Calculated

LEMMA ResultNext == Result /\ [Next]_vars => Result'
<1> SUFFICES ASSUME Result, [Next]_vars PROVE Result'
  OBVIOUS
<1>1. UNCHANGED <<counts, outside, strategy, radius>>
  BY DEF Next, CalculateTargets, vars
<1>2. total' = total
  BY <1>1 DEF total
<1>3. TargetsOf(counts)' = TargetsOf(counts)
  BY <1>1, <1>2 DEF TargetsOf
<1>4. Distributed'
  BY <1>1 DEF Result, Distributed
<1>5. CASE CalculateTargets
  BY <1>3, <1>4, <1>5 DEF Result, CalculateTargets
<1>6. CASE UNCHANGED vars
  BY <1>3, <1>4, <1>6 DEF Result, Calculated, vars
<1> QED
  BY <1>5, <1>6 DEF Next

\* What a strategy normalizes.
ValuesOf(distribution) ==
    IF strategy = "passthrough" THEN distribution
    ELSE Convolve(distribution, KernelRadius(radius))

LEMMA TargetsUnfold ==
  \A f : TargetsOf(f) = NormalizeToSum(ValuesOf(f), total)
  BY DEF TargetsOf, ValuesOf, PassthroughTargets, TriangularTargets

LEMMA TotalUnfold ==
  ASSUME Distributed
  PROVE  /\ total = Whole(counts) + outside
         /\ Whole(counts) \in Nat
         /\ total \in Nat
<1>1. total = Whole(counts) + outside
  <2>1. SumFunction(counts) = Whole(counts)
    BY FoldIsSum DEF Whole
  <2> QED
    BY <2>1 DEF total
<1>2. PICK n \in Nat \ {0} : counts \in [0 .. n - 1 -> Nat]
  BY DEF Distributed
<1>3. IsFiniteSet(0 .. n - 1)
  BY FS_Interval
<1>4. SumFunctionOnSet(counts, 0 .. n - 1) \in Nat
  BY <1>2, <1>3, SumNat
<1> QED
  BY <1>1, <1>2, <1>4 DEF Whole, Distributed

LEMMA ValuesNat ==
  ASSUME Distributed, NEW n \in Nat \ {0}, NEW f \in [0 .. n - 1 -> Nat]
  PROVE  ValuesOf(f) \in [0 .. n - 1 -> Nat]
<1>1. IsFiniteSet(0 .. n - 1) /\ 0 .. n - 1 \subseteq Int
  BY FS_Interval
<1>2. KernelRadius(radius) \in Nat
  BY RadiusPositive DEF Distributed
<1>3. Convolve(f, KernelRadius(radius)) \in [0 .. n - 1 -> Nat]
  BY <1>1, <1>2, ConvolveNat
<1> QED
  BY <1>3 DEF ValuesOf

-----------------------------------------------------------------------------
(* The sum.                                                                *)

LEMMA ResultSum ==
  ASSUME Result, Calculated, NEW n \in Nat \ {0}, counts \in [0 .. n - 1 -> Nat]
  PROVE  /\ targets \in [0 .. n - 1 -> Nat]
         /\ SumFunctionOnSet(targets, 0 .. n - 1) = total
<1>1. targets \in NormalizeToSum(ValuesOf(counts), total)
  BY TargetsUnfold DEF Result
<1>2. ValuesOf(counts) \in [0 .. n - 1 -> Nat]
  BY ValuesNat DEF Result
<1>3. total \in Nat
  BY TotalUnfold DEF Result
<1>4. 0 \in Int /\ n - 1 \in Int /\ 0 <= n - 1
  OBVIOUS
<1> QED
  BY <1>1, <1>2, <1>3, <1>4, NormalizedSum

LEMMA ResultLosesNothing == Result => NothingLost
<1> SUFFICES ASSUME Result, Calculated
             PROVE  /\ \A m \in DOMAIN counts : targets[m] \in 0 .. total
                    /\ SumFunction(targets) = total
  BY DEF NothingLost
<1>1. PICK n \in Nat \ {0} : counts \in [0 .. n - 1 -> Nat]
  BY DEF Result, Distributed
<1>2. targets \in [0 .. n - 1 -> Nat] /\ SumFunctionOnSet(targets, 0 .. n - 1) = total
  BY <1>1, ResultSum
<1>3. SumFunction(targets) = total
  <2>1. DOMAIN targets = 0 .. n - 1
    BY <1>2
  <2> QED
    BY <1>2, <2>1, FoldIsSum
<1>4. ASSUME NEW m \in DOMAIN counts PROVE targets[m] \in 0 .. total
  <2>1. IsFiniteSet(0 .. n - 1)
    BY FS_Interval
  <2>2. targets[m] <= SumFunctionOnSet(targets, 0 .. n - 1)
    BY <1>1, <1>2, <2>1, SummandBound
  <2>3. targets[m] \in Nat /\ total \in Nat
    BY <1>1, <1>2, TotalUnfold DEF Result
  <2> QED
    BY <1>2, <2>2, <2>3
<1> QED
  BY <1>3, <1>4

\* Rounding and smoothing lose no remind and invent none: the targets add up to
\* the reminds of the run (normalizeToSum, smoothing/kernel.go).
THEOREM TargetsAddUp == Spec => []NothingLost
  BY ResultInit, ResultNext, ResultLosesNothing, PTL DEF Spec

-----------------------------------------------------------------------------
(* Where nothing is left to smooth.                                        *)

LEMMA ResultStaysEven == Result => EvenStaysEven
<1> SUFFICES ASSUME Result, Calculated, outside = 0,
                    \A m, n \in DOMAIN counts : counts[m] = counts[n]
             PROVE  targets = counts
  BY DEF EvenStaysEven
<1>1. PICK n \in Nat \ {0} : counts \in [0 .. n - 1 -> Nat]
  BY DEF Result, Distributed
<1> DEFINE window == 0 .. n - 1
           c == counts[0]
           values == ValuesOf(counts)
           v == values[0]
<1>2. IsFiniteSet(window) /\ Cardinality(window) = n /\ window \subseteq Int /\ 0 \in window
  BY FS_Interval
<1>3. c \in Nat /\ \A m \in window : counts[m] = c
  BY <1>1, <1>2
<1>4. values \in [window -> Nat]
  BY <1>1, ValuesNat DEF Result
<1>5. v \in Nat /\ (\A m \in window : values[m] = v) /\ (v = 0 => c = 0)
  <2>1. CASE strategy = "passthrough"
    BY <1>2, <1>3, <2>1 DEF ValuesOf
  <2>2. CASE strategy # "passthrough"
    <3>1. KernelRadius(radius) \in Nat
      BY RadiusPositive DEF Result, Distributed
    <3>2. \A m \in window : Convolve(counts, KernelRadius(radius))[m] =
              c * Denominator(window, KernelRadius(radius))
      BY <1>1, <1>2, <1>3, <3>1, ConvolveEven
    <3>3. c # 0 => v # 0
      BY <1>1, <1>2, <2>2, <3>1, ConvolvePositive DEF ValuesOf
    <3>4. values = Convolve(counts, KernelRadius(radius))
      BY <2>2 DEF ValuesOf
    <3> HIDE DEF values, c
    <3> QED
      BY <1>2, <1>4, <3>2, <3>3, <3>4
  <2> QED
    BY <2>1, <2>2
<1> HIDE DEF window, c, values, v
<1>6. Whole(counts) = c * n /\ Whole(values) = v * n
  <2>1. SumFunctionOnSet(counts, window) = c * Cardinality(window)
    BY <1>2, <1>3, SumConstant
  <2>2. SumFunctionOnSet(values, window) = v * Cardinality(window)
    BY <1>2, <1>5, SumConstant
  <2> QED
    BY <1>1, <1>2, <1>4, <2>1, <2>2 DEF Whole, window
<1>7. total = c * n /\ total \in Nat /\ SumFunctionOnSet(counts, window) = total
  BY <1>1, <1>6, TotalUnfold DEF Result, Whole, window
<1>8. Proportional(counts, values, total)
  <2>1. v * (c * n) = (v * n) * c
    BY <1>3, <1>5
  <2> QED
    BY <1>3, <1>4, <1>5, <1>6, <1>7, <2>1 DEF Proportional
<1>9. Whole(values) = 0 => total = 0
  <2>1. v * n = 0 => v = 0
    BY <1>5
  <2>2. 0 * n = 0
    OBVIOUS
  <2> QED
    BY <1>5, <1>6, <1>7, <2>1, <2>2
<1>10. targets \in NormalizeToSum(values, total)
  BY TargetsUnfold DEF Result, values
<1>11. counts \in [window -> Nat]
  BY <1>1 DEF window
<1> QED
  BY <1>2, <1>4, <1>7, <1>8, <1>9, <1>10, <1>11, NormalizedExact

\* Reminds that are spread evenly are not moved, although the kernel is cut off
\* at both edges of the window (convolveWithGreville, smoothing/kernel.go:83).
THEOREM EvenIsKept == Spec => []EvenStaysEven
  BY ResultInit, ResultNext, ResultStaysEven, PTL DEF Spec

-----------------------------------------------------------------------------
(* The two edges of the window.                                            *)

Flip(n) == [m \in 0 .. n - 1 |-> n - 1 - m]

Mirrored(f, n) == [m \in 0 .. n - 1 |-> f[n - 1 - m]]

LEMMA FlipBijection ==
  ASSUME NEW n \in Nat \ {0}
  PROVE  /\ Flip(n) \in Bijection(0 .. n - 1, 0 .. n - 1)
         /\ \A m \in 0 .. n - 1 : /\ n - 1 - m \in 0 .. n - 1
                                 /\ n - 1 - (n - 1 - m) = m
                                 /\ Flip(n)[m] = n - 1 - m
<1>1. \A m \in 0 .. n - 1 : n - 1 - m \in 0 .. n - 1 /\ n - 1 - (n - 1 - m) = m
  OBVIOUS
<1>2. \A m \in 0 .. n - 1 : Flip(n)[m] = n - 1 - m
  BY DEF Flip
<1>3. Flip(n) \in [0 .. n - 1 -> 0 .. n - 1]
  BY <1>1 DEF Flip
<1>4. \A k, m \in 0 .. n - 1 : Flip(n)[k] = Flip(n)[m] => k = m
  BY <1>2
<1>5. \A m \in 0 .. n - 1 : \E k \in 0 .. n - 1 : Flip(n)[k] = m
  BY <1>1, <1>2
<1> QED
  BY <1>1, <1>2, <1>3, <1>4, <1>5 DEF Bijection, Injection, IsInjective, Surjection

LEMMA MirrorUnfold ==
  ASSUME NEW n \in Nat \ {0}, NEW f, DOMAIN f = 0 .. n - 1
  PROVE  Mirror(f) = Mirrored(f, n)
<1>1. Cardinality(0 .. n - 1) = n
  BY FS_Interval
<1> QED
  BY <1>1 DEF Mirror, Mirrored

\* A sum is the same from either side.
LEMMA MirroredSum ==
  ASSUME NEW n \in Nat \ {0}, NEW f, \A m \in 0 .. n - 1 : f[m] \in Nat,
         NEW g, \A m \in 0 .. n - 1 : g[m] = f[n - 1 - m]
  PROVE  SumFunctionOnSet(g, 0 .. n - 1) = SumFunctionOnSet(f, 0 .. n - 1)
<1>1. IsFiniteSet(0 .. n - 1)
  BY FS_Interval
<1>2. Flip(n) \in Bijection(0 .. n - 1, 0 .. n - 1)
  BY FlipBijection
<1>3. \A m \in 0 .. n - 1 : g[m] = f[Flip(n)[m]]
  BY FlipBijection
<1> QED
  BY <1>1, <1>2, <1>3, SumReindex

\* The kernel is symmetric.
LEMMA WeightMirrored ==
  ASSUME NEW n \in Nat \ {0}, NEW rad \in Nat, NEW m \in 0 .. n - 1, NEW k \in 0 .. n - 1
  PROVE  /\ TriangularWeight(rad, k - (n - 1 - m)) = TriangularWeight(rad, (n - 1 - k) - m)
         /\ TriangularWeight(rad, k - m) \in Nat
<1>1. k - (n - 1 - m) = -((n - 1 - k) - m) /\ (n - 1 - k) - m \in Int /\ k - m \in Int
  OBVIOUS
<1> QED
  BY <1>1, WeightNat

LEMMA MassMirrored ==
  ASSUME NEW n \in Nat \ {0}, NEW rad \in Nat, NEW m \in 0 .. n - 1
  PROVE  KernelMass(0 .. n - 1, rad, n - 1 - m) = KernelMass(0 .. n - 1, rad, m)
<1> DEFINE window == 0 .. n - 1
           here  == [k \in window |-> TriangularWeight(rad, k - m)]
           there == [k \in window |-> TriangularWeight(rad, k - (n - 1 - m))]
<1>1. ASSUME NEW k \in window PROVE here[k] \in Nat /\ there[k] = here[n - 1 - k]
  <2>1. n - 1 - k \in window
    BY FlipBijection
  <2>2. here[n - 1 - k] = TriangularWeight(rad, (n - 1 - k) - m)
    BY <2>1
  <2> QED
    BY <2>2, WeightMirrored
<1>2. DOMAIN here = window /\ DOMAIN there = window
  OBVIOUS
<1>3. /\ KernelMass(window, rad, m) = SumFunction(here)
      /\ KernelMass(window, rad, n - 1 - m) = SumFunction(there)
  BY DEF KernelMass
<1> HIDE DEF here, there
<1>4. SumFunctionOnSet(there, window) = SumFunctionOnSet(here, window)
  BY <1>1, MirroredSum
<1>5. SumFunction(here) = SumFunctionOnSet(here, window)
  BY <1>2, FoldIsSum
<1>6. SumFunction(there) = SumFunctionOnSet(there, window)
  BY <1>2, FoldIsSum
<1> QED
  BY <1>3, <1>4, <1>5, <1>6

LEMMA AroundMirrored ==
  ASSUME NEW n \in Nat \ {0}, NEW rad \in Nat, NEW f \in [0 .. n - 1 -> Nat],
         NEW m \in 0 .. n - 1
  PROVE  Around(Mirrored(f, n), rad, m) = Around(f, rad, n - 1 - m)
<1> DEFINE window == 0 .. n - 1
           image == [k \in window |-> Mirrored(f, n)[k] * TriangularWeight(rad, k - m)]
           term  == [k \in window |-> f[k] * TriangularWeight(rad, k - (n - 1 - m))]
<1>1. DOMAIN Mirrored(f, n) = window /\ DOMAIN f = window
  BY DEF Mirrored
<1>2. /\ Around(Mirrored(f, n), rad, m) = SumFunctionOnSet(image, window)
      /\ Around(f, rad, n - 1 - m) = SumFunctionOnSet(term, window)
  BY <1>1 DEF Around
<1>3. ASSUME NEW k \in window PROVE term[k] \in Nat /\ image[k] = term[n - 1 - k]
  <2>1. n - 1 - k \in window /\ n - 1 - (n - 1 - k) = k /\ n - 1 - m \in window
    BY FlipBijection
  <2>2. TriangularWeight(rad, k - (n - 1 - m)) \in Nat
    BY <2>1, WeightMirrored
  <2>3. TriangularWeight(rad, (n - 1 - k) - (n - 1 - m)) = TriangularWeight(rad, k - m)
    <3>1. (n - 1 - k) - (n - 1 - m) = -(k - m) /\ k - m \in Int
      OBVIOUS
    <3> QED
      BY <3>1, WeightNat
  <2>4. Mirrored(f, n)[k] = f[n - 1 - k]
    BY DEF Mirrored
  <2>5. \A a, b \in Nat : a * b \in Nat
    OBVIOUS
  <2>6. term[k] \in Nat
    BY <2>2, <2>5
  <2>7. term[n - 1 - k] = f[n - 1 - k] * TriangularWeight(rad, (n - 1 - k) - (n - 1 - m))
    BY <2>1
  <2> QED
    BY <2>3, <2>4, <2>6, <2>7
<1> HIDE DEF image, term
<1> QED
  BY <1>2, <1>3, MirroredSum

LEMMA ScaleMirrored ==
  ASSUME NEW n \in Nat \ {0}, NEW rad \in Nat, NEW m \in 0 .. n - 1
  PROVE  Scales(0 .. n - 1, rad)[n - 1 - m] = Scales(0 .. n - 1, rad)[m]
<1>1. n - 1 - m \in 0 .. n - 1
  BY FlipBijection
<1>2. Masses(0 .. n - 1, rad)[n - 1 - m] = Masses(0 .. n - 1, rad)[m]
  BY <1>1, MassMirrored DEF Masses
<1> QED
  BY <1>1, <1>2 DEF Scales

LEMMA ConvolveMirrored ==
  ASSUME NEW n \in Nat \ {0}, NEW rad \in Nat, NEW f \in [0 .. n - 1 -> Nat]
  PROVE  Convolve(Mirrored(f, n), rad) = Mirrored(Convolve(f, rad), n)
<1>1. DOMAIN Mirrored(f, n) = 0 .. n - 1 /\ DOMAIN f = 0 .. n - 1
  BY DEF Mirrored
<1>2. ASSUME NEW m \in 0 .. n - 1
      PROVE  Convolve(Mirrored(f, n), rad)[m] = Convolve(f, rad)[n - 1 - m]
  <2>1. n - 1 - m \in 0 .. n - 1
    BY FlipBijection
  <2>2. Convolve(Mirrored(f, n), rad)[m] =
            Around(Mirrored(f, n), rad, m) * Scales(0 .. n - 1, rad)[m]
    BY <1>1, ConvolveUnfold
  <2>3. Convolve(f, rad)[n - 1 - m] =
            Around(f, rad, n - 1 - m) * Scales(0 .. n - 1, rad)[n - 1 - m]
    BY <1>1, <2>1, ConvolveUnfold
  <2> QED
    BY <2>2, <2>3, AroundMirrored, ScaleMirrored
<1>3. Convolve(Mirrored(f, n), rad) =
          [m \in 0 .. n - 1 |-> Convolve(Mirrored(f, n), rad)[m]]
  BY <1>1, ConvolveUnfold
<1> QED
  BY <1>2, <1>3 DEF Mirrored

\* Rounding treats all minutes alike.
LEMMA RemainderMirrored ==
  ASSUME NEW n \in Nat \ {0}, NEW values \in [0 .. n - 1 -> Nat], NEW amount \in Nat,
         Whole(values) # 0, NEW t \in LargestRemainder(values, amount)
  PROVE  Mirrored(t, n) \in LargestRemainder(Mirrored(values, n), amount)
<1> DEFINE window == 0 .. n - 1
           image == Mirrored(values, n)
<1>1. PICK raised : Raises(values, amount, raised) /\ t = Rounded(values, amount, raised)
  BY RemainderUnfold
<1> DEFINE flipped == {m \in window : n - 1 - m \in raised}
<1>2. \A m \in window : n - 1 - m \in window /\ n - 1 - (n - 1 - m) = m
  BY FlipBijection
<1>3. DOMAIN image = window /\ \A m \in window : image[m] = values[n - 1 - m]
  BY DEF Mirrored
<1>4. Whole(image) = Whole(values)
  BY <1>3, MirroredSum DEF Whole
<1>5. \A m \in window : /\ Shares(image, amount)[m] = Shares(values, amount)[n - 1 - m]
                        /\ Rests(image, amount)[m] = Rests(values, amount)[n - 1 - m]
  BY <1>2, <1>3, <1>4 DEF Shares, Rests
<1>6. Whole(Shares(image, amount)) = Whole(Shares(values, amount))
  <2>1. IsFiniteSet(window)
    BY FS_Interval
  <2>2. Shares(values, amount) \in [window -> Nat]
    BY <2>1, SharesNat
  <2>3. DOMAIN Shares(image, amount) = window
    BY <1>3 DEF Shares
  <2>4. SumFunctionOnSet(Shares(image, amount), window) =
            SumFunctionOnSet(Shares(values, amount), window)
    BY <1>5, <2>2, MirroredSum
  <2> QED
    BY <2>2, <2>3, <2>4 DEF Whole
<1>7. raised \in SUBSET window
  BY <1>1 DEF Raises
<1>8. Cardinality(flipped) = Cardinality(raised)
  <2> DEFINE up == [m \in flipped |-> n - 1 - m]
  <2>1. up \in [flipped -> raised]
    OBVIOUS
  <2>2. \A k, m \in flipped : up[k] = up[m] => k = m
    OBVIOUS
  <2>3. \A m \in raised : \E k \in flipped : up[k] = m
    <3> TAKE m \in raised
    <3>1. m \in window /\ n - 1 - m \in window /\ n - 1 - (n - 1 - m) = m
      BY <1>2, <1>7
    <3>2. n - 1 - m \in flipped
      BY <3>1
    <3> QED
      BY <3>1, <3>2
  <2> HIDE DEF up, flipped
  <2>4. ExistsBijection(flipped, raised)
    BY <2>1, <2>2, <2>3
    DEF ExistsBijection, Bijection, Injection, IsInjective, Surjection
  <2>5. IsFiniteSet(flipped)
    <3>1. IsFiniteSet(window) /\ flipped \subseteq window
      BY FS_Interval DEF flipped
    <3> QED
      BY <3>1, FS_Subset
  <2> QED
    BY <2>4, <2>5, FS_Bijection
<1>9. Raises(image, amount, flipped)
  <2>1. flipped \in SUBSET (DOMAIN image)
    BY <1>3
  <2>2. Cardinality(flipped) = amount - Whole(Shares(image, amount))
    BY <1>1, <1>6, <1>8 DEF Raises
  <2>3. ASSUME NEW k \in flipped, NEW m \in DOMAIN image \ flipped
        PROVE  Rests(image, amount)[k] >= Rests(image, amount)[m]
    <3>1. n - 1 - k \in raised /\ n - 1 - m \in DOMAIN values \ raised
      BY <1>2, <1>3
    <3>2. Rests(values, amount)[n - 1 - k] >= Rests(values, amount)[n - 1 - m]
      BY <1>1, <3>1 DEF Raises
    <3> QED
      BY <1>3, <1>5, <3>2
  <2> QED
    BY <2>1, <2>2, <2>3 DEF Raises
<1>10. Mirrored(t, n) = Rounded(image, amount, flipped)
  <2>1. ASSUME NEW m \in window
        PROVE  t[n - 1 - m] = Shares(image, amount)[m] + IF m \in flipped THEN 1 ELSE 0
    BY <1>1, <1>2, <1>5 DEF Rounded
  <2> QED
    BY <1>3, <2>1 DEF Mirrored, Rounded
<1> QED
  BY <1>9, <1>10, RemainderUnfold

LEMMA ValuesMirrored ==
  ASSUME Distributed, NEW n \in Nat \ {0}, NEW f \in [0 .. n - 1 -> Nat]
  PROVE  ValuesOf(Mirrored(f, n)) = Mirrored(ValuesOf(f), n)
<1>1. KernelRadius(radius) \in Nat
  BY RadiusPositive DEF Distributed
<1> QED
  BY <1>1, ConvolveMirrored DEF ValuesOf

LEMMA ValuesPositive ==
  ASSUME Distributed, NEW n \in Nat \ {0}, counts \in [0 .. n - 1 -> Nat], Whole(counts) # 0
  PROVE  Whole(ValuesOf(counts)) # 0
<1>1. IsFiniteSet(0 .. n - 1) /\ 0 .. n - 1 \subseteq Int
  BY FS_Interval
<1>2. PICK m \in 0 .. n - 1 : counts[m] # 0
  <2>1. SumFunctionOnSet(counts, 0 .. n - 1) # 0
    BY DEF Whole
  <2> QED
    BY <1>1, <2>1, SumZero
<1>3. ValuesOf(counts)[m] # 0
  <2>1. KernelRadius(radius) \in Nat
    BY RadiusPositive DEF Distributed
  <2>2. Convolve(counts, KernelRadius(radius))[m] # 0
    BY <1>1, <1>2, <2>1, ConvolvePositive
  <2> QED
    BY <1>2, <2>2 DEF ValuesOf
<1>4. ValuesOf(counts) \in [0 .. n - 1 -> Nat]
  BY ValuesNat
<1>5. SumFunctionOnSet(ValuesOf(counts), 0 .. n - 1) # 0
  BY <1>1, <1>2, <1>3, <1>4, SumZero
<1> QED
  BY <1>4, <1>5 DEF Whole

LEMMA ResultIsSymmetric == Result => BothEdgesAlike
<1> SUFFICES ASSUME Result, Calculated, SumFunction(counts) > 0
             PROVE  Mirror(targets) \in TargetsOf(Mirror(counts))
  BY DEF BothEdgesAlike
<1>1. PICK n \in Nat \ {0} : counts \in [0 .. n - 1 -> Nat]
  BY DEF Result, Distributed
<1> DEFINE values == ValuesOf(counts)
<1>2. Whole(counts) # 0 /\ total \in Nat /\ total # 0
  <2>1. SumFunction(counts) = Whole(counts)
    BY FoldIsSum DEF Whole
  <2> QED
    BY <2>1, TotalUnfold DEF Result, Distributed
<1>3. values \in [0 .. n - 1 -> Nat] /\ Whole(values) # 0
  BY <1>1, <1>2, ValuesNat, ValuesPositive DEF Result
<1>4. targets \in LargestRemainder(values, total)
  BY <1>2, <1>3, TargetsUnfold, NormalizeUnfold DEF Result
<1> HIDE DEF values
<1>5. Mirrored(targets, n) \in LargestRemainder(Mirrored(values, n), total)
  BY <1>2, <1>3, <1>4, RemainderMirrored
<1>6. Whole(Mirrored(values, n)) # 0
  <2>1. DOMAIN Mirrored(values, n) = 0 .. n - 1 /\ DOMAIN values = 0 .. n - 1
    BY <1>3 DEF Mirrored
  <2>2. \A m \in 0 .. n - 1 : Mirrored(values, n)[m] = values[n - 1 - m]
    BY DEF Mirrored
  <2>3. SumFunctionOnSet(Mirrored(values, n), 0 .. n - 1) = SumFunctionOnSet(values, 0 .. n - 1)
    BY <1>3, <2>2, MirroredSum
  <2> QED
    BY <1>3, <2>1, <2>3 DEF Whole
<1>7. Mirrored(targets, n) \in NormalizeToSum(Mirrored(values, n), total)
  BY <1>2, <1>5, <1>6, NormalizeUnfold
<1>8. ValuesOf(Mirrored(counts, n)) = Mirrored(values, n)
  BY <1>1, ValuesMirrored DEF Result, values
<1>9. Mirrored(targets, n) \in TargetsOf(Mirrored(counts, n))
  BY <1>7, <1>8, TargetsUnfold
<1>10. targets \in [0 .. n - 1 -> Nat]
  BY <1>1, ResultSum
<1> QED
  BY <1>1, <1>9, <1>10, MirrorUnfold

\* The kernel treats the first and the last minutes of the window alike: the
\* same reminds in reverse order get the same targets in reverse order.
THEOREM EdgesAreAlike == Spec => []BothEdgesAlike
  BY ResultInit, ResultNext, ResultIsSymmetric, PTL DEF Spec
=============================================================================
