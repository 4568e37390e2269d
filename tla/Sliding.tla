------------------------------ MODULE Sliding ------------------------------
(***************************************************************************)
(* Package internal/service/sliding: how the planning phase chooses the    *)
(* minute of a remind.  Times are counted in ticks, so that the remainder  *)
(* of a time below the minute is there when a property needs it.  Every    *)
(* strategy moves a remind by whole minutes, so a planned time is its      *)
(* minute and the remainder of the original time, and a slot is a minute.  *)
(*                                                                         *)
(* A slide context `targets' is a function on the minutes of the planning  *)
(* window (consecutive, in the order of the code's list) to records        *)
(* [target, current, available].                                           *)
(***************************************************************************)
EXTENDS Integers, FiniteSets

CONSTANTS
    Reminds,
    Time,            \* Time[r]: its original time
    Width,           \* Width[r]: its slide window
    TicksPerMinute,
    CapPerMinute

ASSUME SlidingAssumption ==
    /\ TicksPerMinute \in Nat \ {0}
    /\ CapPerMinute \in Nat \ {0}
    /\ Time \in [Reminds -> Nat]
    /\ Width \in [Reminds -> Nat]

NoSlot == -1

Home(r)     == Time[r] \div TicksPerMinute
Deadline(r) == Time[r] + Width[r]

\* bestTime.Add(offset): in minute m a remind keeps its seconds.
PlannedTime(r, m) == m * TicksPerMinute + (Time[r] % TicksPerMinute)

\* A slide window of less than a minute leaves nothing to choose.
Slidable(r) == Width[r] >= TicksPerMinute

\* Mutant of InWindow: the window extends to both sides of the original time.
InEitherWindow(r, m) ==
    /\ Time[r] - Width[r] <= m * TicksPerMinute
    /\ m * TicksPerMinute <= Deadline(r)

\* The minute starts neither before windowStart nor after windowEnd.
InWindow(r, m) ==
    /\ Home(r) <= m
    /\ m * TicksPerMinute <= Deadline(r)

UnderCap(targets) == {m \in DOMAIN targets : targets[m].current < CapPerMinute}
Open(targets)     == {m \in UnderCap(targets) : targets[m].available > 0}
Headroom(targets, m) == CapPerMinute - targets[m].current

\* The first minute of a set, in the order of the targets.
First(minutes) == CHOOSE m \in minutes : \A n \in minutes : m <= n

-----------------------------------------------------------------------------
(* greedy.go: the original minute if it will do, else the first that does. *)

GreedySlot(r, candidates) ==
    LET reachable == {m \in candidates : InWindow(r, m)}
    IN  IF Home(r) \in candidates \/ ~Slidable(r) \/ reachable = {}
        THEN Home(r)
        ELSE First(reachable)

GreedyLoose(r, targets)  == GreedySlot(r, Open(targets))
GreedyStrict(r, targets) == GreedySlot(r, UnderCap(targets))

(* bestfit.go: the minute with the most room, the first of them on a tie.  *)

BestFitLoose(r, targets) ==
    LET reachable == {m \in Open(targets) : InWindow(r, m)}
        atHome == IF Home(r) \in UnderCap(targets) THEN targets[Home(r)].available ELSE 0
        best == First({m \in reachable : \A n \in reachable :
                          targets[m].available >= targets[n].available})
    IN  IF Slidable(r) /\ reachable # {} /\ targets[best].available > atHome
        THEN best
        ELSE Home(r)

BestFitStrict(r, targets) ==
    LET reachable == {m \in UnderCap(targets) : InWindow(r, m)}
        best == First({m \in reachable : \A n \in reachable :
                          Headroom(targets, m) >= Headroom(targets, n)})
    IN  IF Home(r) \in UnderCap(targets) \/ ~Slidable(r) \/ reachable = {}
        THEN Home(r)
        ELSE best

-----------------------------------------------------------------------------
(* priority_allocator.go: minute by minute, the eligible items with the     *)
(* earliest deadline, and among them those that are moved least.           *)

Eligible(r, m) == m * TicksPerMinute <= Deadline(r)

MoveCost(r, m) == IF m >= Home(r) THEN (m - Home(r)) * 10 ELSE Home(r) - m

Less(r, s, m) ==
    \/ Deadline(r) < Deadline(s)
    \/ Deadline(r) = Deadline(s) /\ MoveCost(r, m) < MoveCost(s, m)

\* The reminds that a minute can take, toward its target and under the cap.
Room(targets, m) ==
    IF m \notin Open(targets) THEN 0
    ELSE IF targets[m].available <= Headroom(targets, m)
         THEN targets[m].available ELSE Headroom(targets, m)

\* AllocateBatch: `slots' assigns a minute to each item, or NoSlot when it is
\* left with its original time.  Each minute is given to the least of the items
\* still waiting, until it is full or nobody waits; the heap breaks ties in an
\* order of its own, so there may be several results.
IsAllocation(slots, items, targets) ==
    \A m \in DOMAIN targets :
        LET placed  == {r \in items : slots[r] \in DOMAIN targets /\ slots[r] < m}
            waiting == {r \in items \ placed : Eligible(r, m)}
            taken   == {r \in items : slots[r] = m}
        IN  /\ taken \subseteq waiting
            /\ Cardinality(taken) <= Room(targets, m)
            /\ taken = waiting \/ Cardinality(taken) = Room(targets, m)
            /\ \A r \in taken, s \in waiting \ taken : ~Less(s, r, m)

AllocateBatch(items, targets) ==
    {slots \in [items -> DOMAIN targets \cup {NoSlot}] :
        IsAllocation(slots, items, targets)}

-----------------------------------------------------------------------------
\* Mutant of UpdateContext: the minute is not charged.
ChargeNothing(targets, m) == IF m \in Nat THEN targets ELSE targets

\* UpdateTargetAllocation: minute m has one more remind.
UpdateContext(targets, m) ==
    [n \in DOMAIN targets |->
        IF n # m THEN targets[n]
        ELSE [targets[n] EXCEPT
                 !.current = @ + 1,
                 !.available = IF @ > 0 THEN @ - 1 ELSE @]]
=============================================================================
