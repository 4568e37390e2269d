------------------------------ MODULE Smoothing ------------------------------
(***************************************************************************)
(* Package internal/service/smoothing: how many reminds each minute of the *)
(* planning window should take.  The distribution of the reminds over the  *)
(* window is a function `counts' from its minutes (consecutive numbers) to *)
(* Nat; the targets are another one.                                       *)
(*                                                                         *)
(* The code computes with floating-point numbers, here they are numerators *)
(* over a common denominator.  A factor common to all values is immaterial *)
(* to NormalizeToSum, which is why the rescaling at the end of             *)
(* convolveWithGreville and the scale of an edge kernel do not appear.     *)
(***************************************************************************)
EXTENDS Integers, FiniteSetsExt, Functions

\* The minutes of a window before m.
Before(window, m) == {n \in window : n < m}

\* NewTriangularKernelStrategy: a radius below one stands for five.
KernelRadius(configured) == IF configured < 1 THEN 5 ELSE configured

\* Mutant of TriangularWeight: the kernel ends one minute early on the right.
LopsidedWeight(radius, d) ==
    IF d \notin -radius .. radius - 1 THEN 0
    ELSE IF d < 0 THEN radius + 1 + d ELSE radius + 1 - d

TriangularWeight(radius, d) ==
    IF d \notin -radius .. radius THEN 0
    ELSE IF d < 0 THEN radius + 1 + d ELSE radius + 1 - d

\* Mutant of KernelMass: the whole kernel, at an edge too.
FullMass(window, radius, m) ==
    IF m \in window THEN (radius + 1) * (radius + 1) ELSE 0

\* The weight of the part of m's kernel that lies inside the window: at an
\* edge the kernel is cut off and what is left is the new whole.
KernelMass(window, radius, m) ==
    SumFunction([n \in window |-> TriangularWeight(radius, n - m)])

\* The kernel-weighted mean around each minute, over a common denominator.
Convolve(counts, radius) ==
    LET window == DOMAIN counts
        mass   == [m \in window |-> KernelMass(window, radius, m)]
        denominator == ProductSet(Range(mass))
    IN  [m \in window |->
            SumFunction([n \in window |-> counts[n] * TriangularWeight(radius, n - m)])
            * (denominator \div mass[m])]

\* All values are zero: the total is dealt out evenly, the first minutes take
\* the remainder.
DealEvenly(window, total) ==
    LET n == Cardinality(window) IN
    [m \in window |->
        (total \div n) + IF Cardinality(Before(window, m)) < total % n THEN 1 ELSE 0]

\* Mutant of LargestRemainder: what is left after rounding down is dropped.
RoundDown(values, total) ==
    {[m \in DOMAIN values |-> (values[m] * total) \div SumFunction(values)]}

\* Each minute takes its share of the total rounded down, the minutes with the
\* largest remainders take one more until the total is used up.  Equal
\* remainders are sorted in no particular order.
LargestRemainder(values, total) ==
    LET window == DOMAIN values
        share  == [m \in window |-> (values[m] * total) \div SumFunction(values)]
        rest   == [m \in window |-> (values[m] * total) % SumFunction(values)]
        Wins(raised) ==
            /\ Cardinality(raised) = total - SumFunction(share)
            /\ \A m \in raised, n \in window \ raised : rest[m] >= rest[n]
    IN  {[m \in window |-> share[m] + IF m \in raised THEN 1 ELSE 0] :
            raised \in {s \in SUBSET window : Wins(s)}}

NormalizeToSum(values, total) ==
    IF SumFunction(values) = 0 \/ total = 0
    THEN {DealEvenly(DOMAIN values, total)}
    ELSE LargestRemainder(values, total)

\* CalculateTargets of the two strategies.  `total' counts all reminds, also
\* those whose previous minute lies outside the window.
PassthroughTargets(counts, total) == NormalizeToSum(counts, total)

TriangularTargets(counts, radius, total) ==
    NormalizeToSum(Convolve(counts, KernelRadius(radius)), total)

\* Mutant of Available: the cap is forgotten.
AvailableUncapped(target, current, cap) ==
    IF target > current /\ cap > 0 THEN target - current ELSE 0

\* buildTargetAllocations: room toward the target, within the cap.
Available(target, current, cap) ==
    LET limit == IF target < cap THEN target ELSE cap
    IN  IF limit > current THEN limit - current ELSE 0
=============================================================================
