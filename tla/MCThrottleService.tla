------------------------- MODULE MCThrottleService -------------------------
(* Instances of ThrottleService for TLC.                                   *)
EXTENDS ThrottleService, TLC

CONSTANTS r1, r2, r3, r4, p1, p2, c1

BothReminds == {r1, r2}
ThreeReminds == {r1, r2, r3}
FourReminds == {r1, r2, r3, r4}

\* r1 and r2 both fall into minute 0 and may slide by one minute.
AtMinuteZero == [r \in Reminds |-> 0]
SlideOne     == [r \in Reminds |-> 1]
SlideNone    == [r \in Reminds |-> 0]

WholeWindow == {Reminds}

Unplanned     == {[r \in Reminds |-> NoPlan]}
R1Planned     == {[r \in Reminds |-> IF r = r1 THEN 0 ELSE NoPlan]}

CancelR1   == [c \in Cancels |-> <<r1>>]
NoCancels   == [c \in Cancels |-> <<>>]

RequestSymmetry == Permutations(Requests)
=============================================================================
