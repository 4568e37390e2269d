------------------------------ MODULE Planning ------------------------------
(***************************************************************************)
(* Package internal/service/plan: the planning phase of a throttle request *)
(* (PlanReminds), run by concurrent planners over the plans in Redis and   *)
(* the one PriorityDiscovery that all requests share.  The commit phase is *)
(* summarised by Commit, its detail is in ThrottleService.                 *)
(*                                                                         *)
(* PlanReminds reads Redis in three bulks (markers, plans, counts), works  *)
(* on locals, and writes one plan per minute.  Each bulk read is one step, *)
(* each remind's placement is one (the shared assignments can change       *)
(* between two of them), each SavePlan is one.                             *)
(***************************************************************************)
EXTENDS Sliding, Smoothing

CONSTANTS
    Strategies,     \* the values of SLIDING_DISCOVERY_STRATEGY considered
    Smoothings,     \* the values of SMOOTHING_STRATEGY considered
    SmoothingRadius,
    StrictWidth,    \* the widest slide window of the strict lane
    Minutes,
    Ranges,         \* the planning windows: records [from, until]
    Planners,       \* slots for concurrent requests in their planning phase
    InitiallyKnown, \* the reminds set before the first request
    Overlap,        \* FALSE: throttle requests come one at a time
    MaxFaults       \* bound on crashes, expiries and outages: one outage spoils as
                    \*   many calls of one step as it likes

ASSUME PlanningAssumption ==
    /\ Strategies \subseteq {"greedy", "bestfit", "priority"}
    /\ Smoothings \subseteq {"passthrough", "triangular"}
    /\ SmoothingRadius \in Int
    /\ StrictWidth \in Nat
    /\ IsFiniteSet(Reminds)
    /\ Minutes \subseteq Nat
    /\ \A r \in Reminds : Home(r) .. (Deadline(r) \div TicksPerMinute) \subseteq Minutes
    /\ Ranges \subseteq [from : Nat, until : Nat]
    /\ \A r \in Ranges : r.from .. r.until \subseteq Minutes
    /\ InitiallyKnown \subseteq Reminds
    /\ Overlap \in BOOLEAN
    /\ MaxFaults \in Nat

VARIABLES
    strategy, smoothing,    \* the discovery and smoothing of this process
    known,                  \* time-mgmt: the reminds users have set so far
    plan, planned,          \* Redis: plan:<minute>, planned:<id>
    committed, count,       \* Redis: committed:<id>, packets:<minute>
    scheduled,              \* task queue: the minute a remind is scheduled in
    assignments,            \* PriorityDiscovery.assignments
    pc, range, active,      \* a planner: where it is, its window, its reminds,
    prev, targets,          \*   their previous minutes, the slide context,
    todo, chosen, unsaved,  \*   reminds to place, their minutes, minutes to save
    faults

redisVars     == <<plan, planned, committed, count, scheduled>>
plannerVars   == <<pc, range, active, prev, targets, todo, chosen, unsaved>>
discoveryVars == <<strategy, smoothing, assignments>>
vars == <<known, redisVars, discoveryVars, plannerVars, faults>>

Slots == Minutes \cup {NoSlot}
Nowhere == [r \in Reminds |-> NoSlot]
NoRange == [from |-> 0, until |-> 0]

Init ==
    /\ strategy \in Strategies
    /\ smoothing \in Smoothings
    /\ known = InitiallyKnown
    /\ plan = [m \in Minutes |-> {}]
    /\ planned = Nowhere
    /\ committed = {}
    /\ count = [m \in Minutes |-> 0]
    /\ scheduled = Nowhere
    /\ assignments = Nowhere
    /\ pc = [p \in Planners |-> "idle"]
    /\ range = [p \in Planners |-> NoRange]
    /\ active = [p \in Planners |-> {}]
    /\ prev = [p \in Planners |-> Nowhere]
    /\ targets = [p \in Planners |-> <<>>]
    /\ todo = [p \in Planners |-> {}]
    /\ chosen = [p \in Planners |-> Nowhere]
    /\ unsaved = [p \in Planners |-> {}]
    /\ faults = 0

-----------------------------------------------------------------------------
Fault   == faults < MaxFaults /\ faults' = faults + 1
NoFault == UNCHANGED faults

Strict(r) == Width[r] <= StrictWidth

WindowOf(p) == range[p].from .. (range[p].until - 1)

TotalCount(m) == count[m] + Cardinality(plan[m])

\* The minute a remind is taken to be in: its previous one, or its own.
PresentMinute(p, r) == IF prev[p][r] # NoSlot THEN prev[p][r] ELSE Home(r)

CountByMinute(p) ==
    [m \in WindowOf(p) |-> Cardinality({r \in active[p] : PresentMinute(p, r) = m})]

\* The targets the smoothing strategy may set.
SmoothedTargets(p) ==
    LET total == Cardinality(active[p]) IN
    IF smoothing = "passthrough"
    THEN PassthroughTargets(CountByMinute(p), total)
    ELSE TriangularTargets(CountByMinute(p), SmoothingRadius, total)

Replanned(p, m) == Cardinality({r \in active[p] : prev[p][r] = m})

\* Mutant of CurrentCount: the result may be negative.
UnclampedCount(p, m, read) == read - Replanned(p, m)

\* What a minute holds apart from the packets that will be placed again.
CurrentCount(p, m, read) ==
    IF read >= Replanned(p, m) THEN read - Replanned(p, m) ELSE 0

\* The discovery's answer for one remind.
FindSlot(r, context) ==
    CASE strategy = "greedy"  -> IF Strict(r) THEN GreedyStrict(r, context)
                                 ELSE GreedyLoose(r, context)
      [] strategy = "bestfit" -> IF Strict(r) THEN BestFitStrict(r, context)
                                 ELSE BestFitLoose(r, context)
      [] OTHER -> IF assignments[r] # NoSlot THEN assignments[r] ELSE Home(r)

\* hasAvailableCapacity: minutes outside the targets always have.
HasCapacity(context, m) == m \in DOMAIN context => context[m].available > 0

-----------------------------------------------------------------------------
(* PlanReminds.                                                            *)

\* filterAlreadyProcessed: reminds without a marker, or whose marker could not
\* be read.
Unprocessed(found, unread) == {r \in found : r \notin committed \/ r \in unread}

\* GetRemindsByTimeRange, filterUnthrottled and filterAlreadyProcessed;
\* `throttled' is the set of reminds whose flag is set in time-mgmt.
Fetch(p, r, throttled) ==
    LET found == {x \in known \ throttled : Home(x) \in r.from .. (r.until - 1)} IN
    /\ pc[p] = "idle"
    /\ range' = [range EXCEPT ![p] = r]
    /\ \E unread \in SUBSET (found \cap committed) :
          /\ IF unread = {} THEN NoFault ELSE Fault
          /\ active' = [active EXCEPT ![p] = Unprocessed(found, unread)]
    /\ pc' = [pc EXCEPT ![p] = "merge"]
    /\ UNCHANGED <<prev, targets, todo, chosen, unsaved, known, redisVars,
                   discoveryVars>>

\* The minutes of the range, its end included, whose plan holds r.
PreviousSlots(p, r) == {m \in range[p].from .. range[p].until : r \in plan[m]}

\* GetPlansInRange and the merge.  When several plans hold a remind the last
\* one of the scan counts; on an error every remind is new.
Merges(p) ==
    {merge \in [Reminds -> Slots] : \A r \in Reminds :
        IF r \in active[p] /\ PreviousSlots(p, r) # {}
        THEN merge[r] \in PreviousSlots(p, r)
        ELSE merge[r] = NoSlot}

MergeWithPreviousPlans(p) ==
    /\ pc[p] = "merge"
    /\ \/ /\ \E merge \in Merges(p) : prev' = [prev EXCEPT ![p] = merge]
          /\ NoFault
       \/ /\ prev' = [prev EXCEPT ![p] = Nowhere]
          /\ Fault
    /\ pc' = [pc EXCEPT ![p] = "count"]
    /\ UNCHANGED <<range, active, targets, todo, chosen, unsaved, known,
                   redisVars, discoveryVars>>

\* The slide context, from the counts that were read.
BuildTargets(p, read) ==
    \E smoothed \in SmoothedTargets(p) :
        targets' = [targets EXCEPT ![p] =
            [m \in WindowOf(p) |->
                LET current == CurrentCount(p, m, read[m])
                IN  [target    |-> smoothed[m],
                     current   |-> current,
                     available |-> Available(smoothed[m], current, CapPerMinute)]]]

\* The counts of the window when some counters and some plans cannot be read:
\* the part of a count that was read is used.
CountsRead(p, uncounted, unplanned) ==
    [m \in WindowOf(p) |->
        (IF m \in uncounted THEN 0 ELSE count[m])
        + (IF m \in unplanned THEN 0 ELSE Cardinality(plan[m]))]

\* Count the minutes of the window and set their targets.
CalculateTargets(p) ==
    /\ pc[p] = "count"
    /\ \E uncounted \in SUBSET {m \in WindowOf(p) : count[m] > 0},
          unplanned \in SUBSET {m \in WindowOf(p) : plan[m] # {}} :
          /\ IF uncounted \cup unplanned = {} THEN NoFault ELSE Fault
          /\ BuildTargets(p, CountsRead(p, uncounted, unplanned))
    /\ pc' = [pc EXCEPT ![p] = "prepare"]
    /\ UNCHANGED <<range, active, prev, todo, chosen, unsaved, known,
                   redisVars, discoveryVars>>

\* collectPriorityItems: only the new reminds take part in the allocation.
NewReminds(p) == {r \in active[p] : prev[p][r] = NoSlot}

\* PrepareSlots: the priority strategy allots slots to the new reminds and
\* replaces the assignments of whoever prepared before.
PrepareSlots(p) ==
    LET new == NewReminds(p) IN
    /\ pc[p] = "prepare"
    /\ IF strategy = "priority"
       THEN \E slots \in AllocateBatch(new, targets[p]) :
               assignments' = [r \in Reminds |-> IF r \in new THEN slots[r] ELSE NoSlot]
       ELSE UNCHANGED assignments
    /\ UNCHANGED <<strategy, smoothing>>
    /\ pc' = [pc EXCEPT ![p] = IF active[p] = {} THEN "save" ELSE "place"]
    /\ todo' = [todo EXCEPT ![p] = active[p]]
    /\ UNCHANGED <<range, active, prev, targets, chosen, unsaved, known,
                   redisVars, faults>>

\* Loose reminds are placed before strict ones.
InTurn(p, r) ==
    /\ r \in todo[p]
    /\ Strict(r) => \A x \in todo[p] : Strict(x)

\* processPreviouslyPlanned: the previous minute as long as it has capacity.
SlotForPlanned(p, r) ==
    IF HasCapacity(targets[p], prev[p][r]) THEN prev[p][r] ELSE FindSlot(r, targets[p])

\* processRemind: what the discovery finds.
SlotForNew(p, r) == FindSlot(r, targets[p])

\* The next remind gets its minute, which is charged to the context.
Place(p, r) ==
    LET slot == IF r \in NewReminds(p) THEN SlotForNew(p, r) ELSE SlotForPlanned(p, r)
    IN
    /\ pc[p] = "place"
    /\ InTurn(p, r)
    /\ targets' = [targets EXCEPT ![p] = UpdateContext(@, slot)]
    /\ chosen' = [chosen EXCEPT ![p][r] = slot]
    /\ todo' = [todo EXCEPT ![p] = @ \ {r}]
    /\ unsaved' = [unsaved EXCEPT ![p] = @ \cup {slot}]
    /\ pc' = [pc EXCEPT ![p] = IF todo[p] = {r} THEN "save" ELSE "place"]
    /\ UNCHANGED <<range, active, prev, known, redisVars, discoveryVars,
                   faults>>

\* Mutant of WritePlan: a packet's own key is set only when there is none.
SetIfAbsent(m, packets) ==
    /\ plan' = [plan EXCEPT ![m] = packets]
    /\ planned' = [r \in Reminds |-> IF r \in packets /\ planned[r] = NoSlot
                                     THEN m ELSE planned[r]]

\* SavePlan: one transaction for plan:<minute> and its planned:<id>.
WritePlan(m, packets) ==
    /\ plan' = [plan EXCEPT ![m] = packets]
    /\ planned' = [r \in Reminds |-> IF r \in packets THEN m ELSE planned[r]]

\* The packets added to the plan of m.
PlannedPackets(p, m) == {r \in active[p] : chosen[p][r] = m}

\* The plans are saved in the order of a map; one that fails is skipped.
SavePlan(p, m) ==
    /\ pc[p] = "save"
    /\ m \in unsaved[p]
    /\ \/ /\ WritePlan(m, PlannedPackets(p, m))
          /\ NoFault
       \/ /\ UNCHANGED <<plan, planned>>
          /\ Fault
    /\ unsaved' = [unsaved EXCEPT ![p] = @ \ {m}]
    /\ UNCHANGED <<pc, range, active, prev, targets, todo, chosen, known,
                   committed, count, scheduled, discoveryVars>>

\* PlanReminds returns, its locals are gone.
Return(p) ==
    /\ pc[p] = "save"
    /\ unsaved[p] = {}
    /\ pc' = [pc EXCEPT ![p] = "idle"]
    /\ range' = [range EXCEPT ![p] = NoRange]
    /\ active' = [active EXCEPT ![p] = {}]
    /\ prev' = [prev EXCEPT ![p] = Nowhere]
    /\ targets' = [targets EXCEPT ![p] = <<>>]
    /\ chosen' = [chosen EXCEPT ![p] = Nowhere]
    /\ UNCHANGED <<todo, unsaved, known, redisVars, discoveryVars, faults>>

-----------------------------------------------------------------------------
(* The rest of the system.                                                 *)

\* A user sets a remind.
SetRemind(r) ==
    /\ r \notin known
    /\ known' = known \cup {r}
    /\ UNCHANGED <<redisVars, discoveryVars, plannerVars, faults>>

\* The minutes slot.Calculator.FindSlot tries.
SlideMinutes(r) == Home(r) .. (Home(r) + (Width[r] \div TicksPerMinute))

\* slot.Calculator.FindSlot: the first minute under the cap, else its own.  A
\* minute that cannot be counted is passed over, its own one settled on.
FindSlotForCommit(r, unread) ==
    LET free == {m \in SlideMinutes(r) \ unread : TotalCount(m) < CapPerMinute}
    IN  IF Home(r) \in unread \/ free = {} THEN Home(r) ELSE First(free)

\* calculateScheduledTime: the planned minute if there is one ...
ScheduledSlot(r) == IF planned[r] # NoSlot THEN planned[r] ELSE FindSlotForCommit(r, {})

\* ... and what it can be when the plan or some counts cannot be read.
SlotsRead(r) ==
    ({planned[r]} \ {NoSlot})
    \cup {FindSlotForCommit(r, unread) : unread \in SUBSET SlideMinutes(r)}

\* What ProcessReminds writes to Redis after a registration.
Writes == {"marker", "count"}

\* The reminds the queue has taken.
Queued == {r \in Reminds : scheduled[r] # NoSlot}

\* The queue takes r; it is marked and counted, and a write that fails is logged
\* and passed over.
CommitPacket(r, slot, lost) ==
    /\ scheduled' = [scheduled EXCEPT ![r] = slot]
    /\ committed' = IF "marker" \in lost THEN committed ELSE committed \cup {r}
    /\ count' = IF "count" \in lost THEN count ELSE [count EXCEPT ![slot] = @ + 1]

CommitFault(r, slot, lost) ==
    IF slot = ScheduledSlot(r) /\ lost = {} THEN NoFault ELSE Fault

\* The commit phase of some request commits r.
Commit(r) ==
    /\ Overlap \/ \A p \in Planners : pc[p] = "idle"
    /\ r \in known \ committed
    /\ \E slot \in SlotsRead(r), lost \in SUBSET Writes :
          /\ CommitPacket(r, slot, lost)
          /\ CommitFault(r, slot, lost)
    /\ UNCHANGED <<known, plan, planned, discoveryVars, plannerVars>>

\* TTLs: two hours for a marker, one for a counter, half an hour for a plan.
ExpireCommitted(r) ==
    /\ r \in committed
    /\ Fault
    /\ committed' = committed \ {r}
    /\ UNCHANGED <<known, plan, planned, count, scheduled, discoveryVars, plannerVars>>

ExpireCount(m) ==
    /\ count[m] > 0
    /\ Fault
    /\ count' = [count EXCEPT ![m] = 0]
    /\ UNCHANGED <<known, plan, planned, committed, scheduled, discoveryVars, plannerVars>>

ExpirePlan(m) ==
    /\ plan[m] # {}
    /\ Fault
    /\ plan' = [plan EXCEPT ![m] = {}]
    /\ planned' = [r \in Reminds |-> IF r \in plan[m] /\ planned[r] = m
                                     THEN NoSlot ELSE planned[r]]
    /\ UNCHANGED <<known, committed, count, scheduled, discoveryVars, plannerVars>>

\* The process dies: the locals and the shared assignments are gone.
Crash ==
    /\ Fault
    /\ pc' = [p \in Planners |-> "idle"]
    /\ range' = [p \in Planners |-> NoRange]
    /\ active' = [p \in Planners |-> {}]
    /\ prev' = [p \in Planners |-> Nowhere]
    /\ targets' = [p \in Planners |-> <<>>]
    /\ todo' = [p \in Planners |-> {}]
    /\ chosen' = [p \in Planners |-> Nowhere]
    /\ unsaved' = [p \in Planners |-> {}]
    /\ assignments' = Nowhere
    /\ UNCHANGED <<strategy, smoothing, known, redisVars>>

Next ==
    \/ \E p \in Planners :
          \/ \E r \in Ranges, throttled \in SUBSET Queued : Fetch(p, r, throttled)
          \/ MergeWithPreviousPlans(p)
          \/ CalculateTargets(p)
          \/ PrepareSlots(p)
          \/ \E r \in Reminds : Place(p, r)
          \/ \E m \in Minutes : SavePlan(p, m)
          \/ Return(p)
    \/ \E r \in Reminds : SetRemind(r) \/ Commit(r) \/ ExpireCommitted(r)
    \/ \E m \in Minutes : ExpireCount(m) \/ ExpirePlan(m)
    \/ Crash

Spec == Init /\ [][Next]_vars

-----------------------------------------------------------------------------
(* Properties.                                                             *)

PlannerStates == {"idle", "merge", "count", "prepare", "place", "save"}

TypeOK ==
    /\ strategy \in Strategies
    /\ smoothing \in Smoothings
    /\ known \subseteq Reminds
    /\ plan \in [Minutes -> SUBSET Reminds]
    /\ planned \in [Reminds -> Slots]
    /\ committed \subseteq Reminds
    /\ count \in [Minutes -> Nat]
    /\ scheduled \in [Reminds -> Slots]
    /\ assignments \in [Reminds -> Slots]
    /\ pc \in [Planners -> PlannerStates]
    /\ range \in [Planners -> [from : Nat, until : Nat]]
    /\ active \in [Planners -> SUBSET Reminds]
    /\ prev \in [Planners -> [Reminds -> Slots]]
    /\ todo \in [Planners -> SUBSET Reminds]
    /\ chosen \in [Planners -> [Reminds -> Slots]]
    /\ unsaved \in [Planners -> SUBSET Minutes]
    /\ faults \in 0 .. MaxFaults
    /\ \A p \in Planners :
          pc[p] \in {"prepare", "place", "save"} =>
              targets[p] \in [WindowOf(p) ->
                  [target : Nat, current : Nat, available : Nat]]

\* No remind is planned, or scheduled, in a minute that begins after its
\* deadline, and only the priority strategy plans one before its own minute:
\* whatever plans, counts and assignments of other requests a run has seen.
Reachable(r, m) ==
    /\ m * TicksPerMinute <= Deadline(r)
    /\ strategy # "priority" => Home(r) <= m

PlannedWithinReach ==
    \A r \in Reminds : \A m \in {planned[r], scheduled[r]} \ {NoSlot} : Reachable(r, m)

\* The room a planner sees in a minute never exceeds what the cap leaves of
\* it, however many reminds it has placed there.
AvailableWithinCap ==
    \A p \in Planners : pc[p] \in {"prepare", "place", "save"} =>
        \A m \in WindowOf(p) :
            LET t == targets[p][m]
            IN  t.available > 0 => t.available + t.current <= CapPerMinute

Quiet == \A p \in Planners : pc[p] = "idle"

\* Requests that come one at a time, without faults, fill no minute that no
\* remind belongs to beyond the cap.  The reminds already committed there and
\* the ones planned there are counted apart from the program's own counters,
\* which keep stale plans and count committed reminds twice.
ForeignWithinCap ==
    Quiet => \A m \in Minutes : (\A r \in Reminds : Home(r) # m) =>
        Cardinality({r \in committed : scheduled[r] = m})
        + Cardinality({r \in Reminds \ committed : planned[r] = m}) <= CapPerMinute

\* plan/service.go:674 taken at its word: what a planner counts as the current
\* use of a minute leaves out the packets it will place again.
ReplannedIsExcluded ==
    \A p \in Planners : pc[p] = "prepare" =>
        \A m \in WindowOf(p) :
            targets[p][m].current <= count[m] + Cardinality(plan[m] \ active[p])

\* discovery.go:27 taken at its word: the planned time respects the slide
\* window.
WithinSlideWindow ==
    \A r \in Reminds : planned[r] # NoSlot =>
        PlannedTime(r, planned[r]) \in Time[r] .. Deadline(r)
=============================================================================
