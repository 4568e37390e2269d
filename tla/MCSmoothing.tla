----------------------------- MODULE MCSmoothing -----------------------------
(* Calls of a smoothing strategy on every small distribution: `counts'  *)
(* in the window, `outside' reminds whose previous minute is beyond it.    *)
EXTENDS Smoothing

CONSTANTS MaxMinutes, MaxCount, MaxOutside, Radii

ASSUME CallsAssumption ==
    /\ MaxMinutes \in Nat /\ MaxCount \in Nat /\ MaxOutside \in Nat
    /\ Radii \subseteq Int

VARIABLES counts, outside, strategy, radius, targets

vars == <<counts, outside, strategy, radius, targets>>

total == SumFunction(counts) + outside

Init ==
    /\ \E n \in 1 .. MaxMinutes : counts \in [0 .. n - 1 -> 0 .. MaxCount]
    /\ outside \in 0 .. MaxOutside
    /\ strategy \in {"passthrough", "triangular"}
    /\ radius \in Radii
    /\ targets = <<>>

TargetsOf(distribution) ==
    IF strategy = "passthrough" THEN PassthroughTargets(distribution, total)
    ELSE TriangularTargets(distribution, radius, total)

CalculateTargets ==
    /\ targets' \in TargetsOf(counts)
    /\ UNCHANGED <<counts, outside, strategy, radius>>

Next == CalculateTargets

Spec == Init /\ [][Next]_vars

Calculated == targets # <<>>

\* No remind is lost and none invented: the targets are natural numbers that
\* add up to the reminds of the run, those outside the window included.
NothingLost ==
    Calculated =>
        /\ \A m \in DOMAIN counts : targets[m] \in 0 .. total
        /\ SumFunction(targets) = total

\* The same run with the minutes in reverse order gets the same targets in
\* reverse: the kernel treats both edges of the window alike.
Mirror(f) == [m \in DOMAIN f |-> f[Cardinality(DOMAIN f) - 1 - m]]

BothEdgesAlike ==
    Calculated /\ SumFunction(counts) > 0 =>
        Mirror(targets) \in TargetsOf(Mirror(counts))

\* Reminds that are spread evenly stay where they are, at the edges too.
EvenStaysEven ==
    Calculated /\ outside = 0 /\ (\A m, n \in DOMAIN counts : counts[m] = counts[n]) =>
        targets = counts
=============================================================================
