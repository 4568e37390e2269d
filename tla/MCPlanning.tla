----------------------------- MODULE MCPlanning -----------------------------
(* Instances of Planning for TLC.  A minute has two ticks, half minutes.   *)
EXTENDS Planning

CONSTANTS r1, r2, r3, p1

Nobody       == {}
ThreeReminds == {r1, r2, r3}

\* All in minute 0, r1 in its second half.
Crowded == [r \in Reminds |-> IF r = r1 THEN 1 ELSE 0]

\* r1 a strict minute and a half, the others loose.
Mixed == [r \in Reminds |-> IF r = r1 THEN 3 ELSE 4]

ThreeMinutes == {[from |-> 0, until |-> 3]}
=============================================================================
