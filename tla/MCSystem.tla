------------------------------ MODULE MCSystem ------------------------------
(* Instances of System for TLC.  A minute has two ticks, half minutes.     *)
EXTENDS System, TLC

CONSTANTS r1, r2, r3, p1, p2

OnlyR1       == {r1}
TwoReminds   == {r1, r2}
ThreeReminds == {r1, r2, r3}

\* All in minute 1, r1 in its second half.
Second == [r \in Reminds |-> IF r = r1 THEN 3 ELSE 2]
\* r1 a strict minute and a half, the others loose.
Mixed  == [r \in Reminds |-> IF r = r1 THEN 3 ELSE 4]

\* POST /throttle, and POST /throttle/batch with virtual times.
Plain == [from |-> NoSlot, planEnd |-> NoSlot, commitEnd |-> NoSlot]
OnlyPlain == {Plain}
WithBatch == {Plain, [from |-> 1, planEnd |-> 3, commitEnd |-> 3]}

NoRanges == {}
PlannerSymmetry == Permutations(Planners)
=============================================================================
