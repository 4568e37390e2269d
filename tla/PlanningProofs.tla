--------------------------- MODULE PlanningProofs ---------------------------
(***************************************************************************)
(* Proofs about the planning phase, for every value of the constants of    *)
(* Planning.  The lemmas about single steps do not mention Next: the same  *)
(* steps are taken by the requests of System.                              *)
(***************************************************************************)
EXTENDS Planning, SmoothingProofs

-----------------------------------------------------------------------------
(* Minutes.                                                                *)

\* A minute that starts by the deadline of a remind is one the model has.
LEMMA HomeIsReachable ==
  ASSUME NEW r \in Reminds
  PROVE  /\ Home(r) \in Nat /\ Home(r) \in Minutes
         /\ Deadline(r) \in Nat
         /\ Home(r) * TicksPerMinute <= Deadline(r)
<1>1. Time[r] \in Nat /\ Width[r] \in Nat /\ TicksPerMinute \in Nat \ {0}
  BY SlidingAssumption
<1>2. \A a, w \in Nat, t \in Nat \ {0} :
          /\ a \div t \in Nat /\ (a \div t) * t <= a
          /\ a \div t <= (a + w) \div t /\ (a + w) \div t \in Nat
  OBVIOUS
<1>3. /\ Home(r) \in Nat /\ Home(r) * TicksPerMinute <= Time[r]
      /\ Home(r) <= Deadline(r) \div TicksPerMinute
      /\ Deadline(r) \div TicksPerMinute \in Nat
  BY <1>1, <1>2 DEF Home, Deadline
<1>4. Deadline(r) \in Nat /\ Time[r] <= Deadline(r)
  BY <1>1 DEF Deadline
<1>5. Home(r) \in Home(r) .. (Deadline(r) \div TicksPerMinute)
  BY <1>3
<1>6. Home(r) \in Minutes
  BY <1>5, PlanningAssumption
<1>7. Home(r) * TicksPerMinute \in Nat
  BY <1>1, <1>3
<1> QED
  BY <1>1, <1>3, <1>4, <1>6, <1>7

LEMMA ReachIsModelled ==
  ASSUME NEW r \in Reminds, NEW m \in Int, Home(r) <= m, m * TicksPerMinute <= Deadline(r)
  PROVE  m \in Minutes
<1>1. TicksPerMinute \in Nat \ {0} /\ Home(r) \in Nat /\ Deadline(r) \in Nat
  BY SlidingAssumption, HomeIsReachable
<1>2. \A d \in Nat, t \in Nat \ {0}, k \in Int : k * t <= d => k <= d \div t
  OBVIOUS
<1>3. m <= Deadline(r) \div TicksPerMinute /\ Deadline(r) \div TicksPerMinute \in Int
  BY <1>1, <1>2
<1>4. m \in Home(r) .. (Deadline(r) \div TicksPerMinute)
  BY <1>1, <1>3
<1> QED
  BY <1>4, PlanningAssumption

LEMMA FirstIsLeast ==
  ASSUME NEW S, IsFiniteSet(S), S # {}, S \subseteq Int
  PROVE  First(S) \in S /\ \A n \in S : First(S) <= n
<1>1. \E m \in S : \A n \in S : m <= n
  BY LeastExists
<1> QED
  BY <1>1 DEF First

\* The minute with the most of something, the first of them.
LEMMA BestIsThere ==
  ASSUME NEW S, IsFiniteSet(S), S # {}, S \subseteq Int,
         NEW f, \A m \in S : f[m] \in Int
  PROVE  First({m \in S : \A n \in S : f[m] >= f[n]}) \in S
<1> DEFINE Top == {m \in S : \A n \in S : f[m] >= f[n]}
<1>1. Top # {}
  BY LargestExists
<1>2. IsFiniteSet(Top)
  BY FS_Subset
<1>3. Top \subseteq S
  OBVIOUS
<1> HIDE DEF Top
<1>4. First(Top) \in Top
  BY <1>1, <1>2, <1>3, FirstIsLeast
<1> QED
  BY <1>3, <1>4 DEF Top

-----------------------------------------------------------------------------
(* The discovery.                                                          *)

\* A slide context over a window.
Entry == [target : Nat, current : Nat, available : Nat]

Context(context, window) ==
    /\ IsFiniteSet(window) /\ window \subseteq Int
    /\ context \in [window -> Entry]

LEMMA CandidatesFinite ==
  ASSUME NEW window, NEW context, Context(context, window), NEW r
  PROVE  /\ UnderCap(context) \subseteq window
         /\ Open(context) \subseteq UnderCap(context)
         /\ IsFiniteSet({m \in UnderCap(context) : InWindow(r, m)})
         /\ IsFiniteSet({m \in Open(context) : InWindow(r, m)})
<1>1. /\ UnderCap(context) \subseteq window
      /\ Open(context) \subseteq UnderCap(context)
  BY DEF Context, UnderCap, Open
<1>2. /\ {m \in UnderCap(context) : InWindow(r, m)} \subseteq window
      /\ {m \in Open(context) : InWindow(r, m)} \subseteq window
  BY <1>1
<1>3. IsFiniteSet(window)
  BY DEF Context
<1>4. IsFiniteSet({m \in UnderCap(context) : InWindow(r, m)})
  BY <1>2, <1>3, FS_Subset
<1>5. IsFiniteSet({m \in Open(context) : InWindow(r, m)})
  BY <1>2, <1>3, FS_Subset
<1> QED
  BY <1>1, <1>4, <1>5

\* Greedy and best-fit leave a remind at home or move it within its window, to a
\* minute under the cap.
LEMMA GreedyInWindow ==
  ASSUME NEW window, NEW context, Context(context, window), NEW r \in Reminds,
         NEW m \in {GreedyLoose(r, context), GreedyStrict(r, context)}
  PROVE  m = Home(r) \/ (m \in window \cap UnderCap(context) /\ InWindow(r, m))
<1>1. ASSUME NEW candidates, candidates \subseteq window \cap UnderCap(context),
             IsFiniteSet({n \in candidates : InWindow(r, n)})
      PROVE  \/ GreedySlot(r, candidates) = Home(r)
             \/ /\ GreedySlot(r, candidates) \in window \cap UnderCap(context)
                /\ InWindow(r, GreedySlot(r, candidates))
  <2> DEFINE reachable == {n \in candidates : InWindow(r, n)}
  <2>1. CASE reachable = {}
    BY <2>1 DEF GreedySlot
  <2>2. CASE reachable # {}
    <3>1. reachable \subseteq Int /\ IsFiniteSet(reachable)
      BY <1>1 DEF Context
    <3> HIDE DEF reachable
    <3>2. First(reachable) \in reachable
      BY <2>2, <3>1, FirstIsLeast
    <3> QED
      BY <1>1, <3>2 DEF GreedySlot, reachable
  <2> QED
    BY <2>1, <2>2
<1>2. m \in {GreedySlot(r, Open(context)), GreedySlot(r, UnderCap(context))}
  BY DEF GreedyLoose, GreedyStrict
<1>3. /\ Open(context) \subseteq window /\ IsFiniteSet({n \in Open(context) : InWindow(r, n)})
      /\ UnderCap(context) \subseteq window
      /\ IsFiniteSet({n \in UnderCap(context) : InWindow(r, n)})
  BY CandidatesFinite
<1>4. /\ Open(context) \subseteq window \cap UnderCap(context)
      /\ UnderCap(context) \subseteq window \cap UnderCap(context)
  BY CandidatesFinite DEF Open
<1> QED
  BY <1>1, <1>2, <1>3, <1>4

LEMMA BestFitInWindow ==
  ASSUME NEW window, NEW context, Context(context, window), NEW r \in Reminds,
         NEW m \in {BestFitLoose(r, context), BestFitStrict(r, context)}
  PROVE  m = Home(r) \/ (m \in window \cap UnderCap(context) /\ InWindow(r, m))
<1> DEFINE Best(S, f) == First({k \in S : \A n \in S : f[k] >= f[n]})
           room == [k \in window |-> context[k].available]
           head == [k \in window |-> Headroom(context, k)]
           loose == {k \in Open(context) : InWindow(r, k)}
           strict == {k \in UnderCap(context) : InWindow(r, k)}
<1>1. \A k \in window : /\ room[k] = context[k].available /\ room[k] \in Int
                        /\ head[k] = Headroom(context, k) /\ head[k] \in Int
  BY SlidingAssumption DEF Context, Entry, Headroom
<1>2. /\ loose \subseteq window \cap UnderCap(context) /\ IsFiniteSet(loose)
      /\ strict \subseteq window \cap UnderCap(context) /\ IsFiniteSet(strict)
      /\ window \subseteq Int
  BY CandidatesFinite DEF Context
<1>3. /\ {k \in loose : \A n \in loose : context[k].available >= context[n].available} =
             {k \in loose : \A n \in loose : room[k] >= room[n]}
      /\ {k \in strict : \A n \in strict : Headroom(context, k) >= Headroom(context, n)} =
             {k \in strict : \A n \in strict : head[k] >= head[n]}
  BY <1>1, <1>2
<1>4. \/ BestFitLoose(r, context) = Home(r)
      \/ loose # {} /\ BestFitLoose(r, context) = Best(loose, room)
  BY <1>3 DEF BestFitLoose
<1>5. \/ BestFitStrict(r, context) = Home(r)
      \/ strict # {} /\ BestFitStrict(r, context) = Best(strict, head)
  BY <1>3 DEF BestFitStrict
<1> HIDE DEF room, head, loose, strict
<1>6. loose # {} => Best(loose, room) \in loose
  BY <1>1, <1>2, BestIsThere
<1>7. strict # {} => Best(strict, head) \in strict
  BY <1>1, <1>2, BestIsThere
<1> HIDE DEF Best
<1> QED
  BY <1>2, <1>4, <1>5, <1>6, <1>7 DEF loose, strict

\* A remind is planned by its deadline, and not before its own minute but by the
\* priority strategy.
LEMMA FindSlotFinds ==
  ASSUME strategy \in {"greedy", "bestfit", "priority"}, assignments \in [Reminds -> Slots],
         NEW window \in SUBSET Minutes, NEW context, Context(context, window),
         NEW r \in Reminds
  PROVE  /\ FindSlot(r, context) \in Minutes
         /\ \/ Reachable(r, FindSlot(r, context))
            \/ assignments[r] # NoSlot /\ FindSlot(r, context) = assignments[r]
<1> DEFINE slot == FindSlot(r, context)
<1>1. Home(r) \in Minutes /\ Home(r) * TicksPerMinute <= Deadline(r) /\ Home(r) \in Nat
  BY HomeIsReachable
<1>2. Reachable(r, Home(r))
  BY <1>1 DEF Reachable
<1>3. ASSUME slot = Home(r) \/ (slot \in window /\ InWindow(r, slot))
      PROVE  slot \in Minutes /\ Reachable(r, slot)
  BY <1>1, <1>2, <1>3 DEF Reachable, InWindow
<1>4. CASE strategy = "greedy"
  <2>1. slot \in {GreedyLoose(r, context), GreedyStrict(r, context)}
    BY <1>4 DEF FindSlot
  <2> QED
    BY <1>3, <2>1, GreedyInWindow
<1>5. CASE strategy = "bestfit"
  <2>1. slot \in {BestFitLoose(r, context), BestFitStrict(r, context)}
    BY <1>5 DEF FindSlot
  <2> QED
    BY <1>3, <2>1, BestFitInWindow
<1>6. CASE strategy = "priority"
  BY <1>1, <1>2, <1>6 DEF FindSlot, Slots
<1> QED
  BY <1>4, <1>5, <1>6

\* Whoever does not plan early finds a remind's own minute or one under the cap.
LEMMA FindSlotHasRoom ==
  ASSUME strategy \in {"greedy", "bestfit"}, NEW window, NEW context,
         Context(context, window), NEW r \in Reminds
  PROVE  FindSlot(r, context) \in {Home(r)} \cup (window \cap UnderCap(context))
<1>1. CASE strategy = "greedy"
  <2>1. FindSlot(r, context) \in {GreedyLoose(r, context), GreedyStrict(r, context)}
    BY <1>1 DEF FindSlot
  <2> QED
    BY <2>1, GreedyInWindow
<1>2. CASE strategy = "bestfit"
  <2>1. FindSlot(r, context) \in {BestFitLoose(r, context), BestFitStrict(r, context)}
    BY <1>2 DEF FindSlot
  <2> QED
    BY <2>1, BestFitInWindow
<1> QED
  BY <1>1, <1>2

\* UpdateTargetAllocation keeps a context a context, and what a minute has
\* available and holds does not grow together.
LEMMA UpdateCharges ==
  ASSUME NEW window, NEW context, Context(context, window), NEW m
  PROVE  /\ UpdateContext(context, m) \in [window -> Entry]
         /\ \A n \in window :
               LET old == context[n]
                   new == UpdateContext(context, m)[n]
               IN  /\ new.current = old.current + (IF n = m THEN 1 ELSE 0)
                   /\ new.available > 0 =>
                         /\ old.available > 0
                         /\ new.available + new.current = old.available + old.current
<1> DEFINE updated == UpdateContext(context, m)
<1>1. ASSUME NEW n \in window
      PROVE  /\ updated[n] \in Entry
             /\ updated[n].current = context[n].current + (IF n = m THEN 1 ELSE 0)
             /\ updated[n].available > 0 =>
                   /\ context[n].available > 0
                   /\ updated[n].available + updated[n].current =
                          context[n].available + context[n].current
  <2>1. context[n] \in Entry
    BY DEF Context
  <2>2. CASE n # m
    <3>1. updated[n] = context[n]
      BY <2>2 DEF Context, UpdateContext
    <3>2. context[n].current \in Nat
      BY <2>1 DEF Entry
    <3> HIDE DEF updated
    <3> QED
      BY <2>1, <2>2, <3>1, <3>2
  <2>3. CASE n = m
    <3>1. updated[n] = [context[n] EXCEPT !.current = @ + 1,
                                          !.available = IF @ > 0 THEN @ - 1 ELSE @]
      BY <2>3 DEF Context, UpdateContext
    <3> DEFINE less == IF context[n].available > 0
                       THEN context[n].available - 1 ELSE context[n].available
    <3>3. /\ context[n].target \in Nat /\ context[n].current \in Nat
          /\ context[n].available \in Nat
          /\ DOMAIN context[n] = {"target", "current", "available"}
      BY <2>1 DEF Entry
    <3>4. updated[n] = [target |-> context[n].target, current |-> context[n].current + 1,
                        available |-> less]
      BY <3>1, <3>3
    <3>5. context[n].current + 1 \in Nat /\ less \in Nat
      BY <3>3
    <3> HIDE DEF updated, less
    <3>6. updated[n] \in Entry
      BY <3>3, <3>4, <3>5 DEF Entry
    <3>2. /\ updated[n] \in Entry
          /\ updated[n].current = context[n].current + 1
          /\ updated[n].available = IF context[n].available > 0
                                     THEN context[n].available - 1
                                     ELSE context[n].available
      BY <3>4, <3>6 DEF less
    <3> QED
      BY <2>3, <3>2, <3>3
  <2> QED
    BY <2>2, <2>3
<1>2. updated = [n \in window |-> updated[n]]
  BY DEF Context, UpdateContext
<1> HIDE DEF updated
<1>3. updated \in [window -> Entry]
  BY <1>1, <1>2
<1> QED
  BY <1>1, <1>3 DEF updated

\* buildTargetAllocations stays within the cap.
LEMMA AvailableFits ==
  ASSUME NEW target \in Nat, NEW current \in Nat
  PROVE  /\ Available(target, current, CapPerMinute) \in Nat
         /\ Available(target, current, CapPerMinute) > 0 =>
               Available(target, current, CapPerMinute) + current <= CapPerMinute
  BY SlidingAssumption DEF Available

\* What the allocator assigns is the deadline's minute at the latest.
LEMMA AllocationEligible ==
  ASSUME NEW items, NEW context, NEW slots \in AllocateBatch(items, context),
         NEW r \in items
  PROVE  /\ slots[r] \in DOMAIN context \cup {NoSlot}
         /\ slots[r] \in DOMAIN context => Eligible(r, slots[r])
<1>1. slots \in [items -> DOMAIN context \cup {NoSlot}] /\ IsAllocation(slots, items, context)
  BY DEF AllocateBatch
<1>2. ASSUME slots[r] \in DOMAIN context PROVE Eligible(r, slots[r])
  <2> DEFINE m == slots[r]
             placed  == {x \in items : slots[x] \in DOMAIN context /\ slots[x] < m}
             waiting == {x \in items \ placed : Eligible(x, m)}
             taken   == {x \in items : slots[x] = m}
  <2>1. taken \subseteq waiting
    BY <1>1, <1>2 DEF IsAllocation
  <2>2. r \in taken
    OBVIOUS
  <2> QED
    BY <2>1, <2>2
<1> QED
  BY <1>1, <1>2

-----------------------------------------------------------------------------
(* The type invariant.                                                     *)

StoreTyped ==
    /\ strategy \in Strategies
    /\ smoothing \in Smoothings
    /\ known \subseteq Reminds
    /\ plan \in [Minutes -> SUBSET Reminds]
    /\ planned \in [Reminds -> Slots]
    /\ committed \subseteq Reminds
    /\ count \in [Minutes -> Nat]
    /\ scheduled \in [Reminds -> Slots]

LocalsTyped ==
    /\ assignments \in [Reminds -> Slots]
    /\ pc \in [Planners -> PlannerStates]
    /\ range \in [Planners -> [from : Nat, until : Nat]]
    /\ active \in [Planners -> SUBSET Reminds]
    /\ prev \in [Planners -> [Reminds -> Slots]]
    /\ todo \in [Planners -> SUBSET Reminds]
    /\ chosen \in [Planners -> [Reminds -> Slots]]
    /\ unsaved \in [Planners -> SUBSET Minutes]
    /\ targets = [p \in Planners |-> targets[p]]

FaultsTyped == faults \in 0 .. MaxFaults

\* The planning window of a planner lies in the minutes there are.
WindowTyped(p) == WindowOf(p) \subseteq Minutes

ContextTyped(p) ==
    /\ pc[p] \in {"prepare", "place", "save"} => targets[p] \in [WindowOf(p) -> Entry]
    /\ pc[p] = "place" => todo[p] \subseteq active[p]

Typed ==
    /\ StoreTyped /\ LocalsTyped /\ FaultsTyped
    /\ \A p \in Planners : WindowTyped(p) /\ ContextTyped(p)

LEMMA TypedIsTypeOK == Typed => TypeOK
  BY DEF Typed, TypeOK, StoreTyped, LocalsTyped, FaultsTyped, ContextTyped, Entry

LEMMA FaultKept ==
  ASSUME FaultsTyped, Fault \/ NoFault
  PROVE  FaultsTyped'
  BY PlanningAssumption DEF FaultsTyped, Fault, NoFault

LEMMA NowhereTyped == Nowhere \in [Reminds -> Slots] /\ NoSlot \in Slots
  BY DEF Nowhere, Slots

LEMMA NoWindow == NoRange \in [from : Nat, until : Nat] /\ NoRange.from .. (NoRange.until - 1) = {}
  BY DEF NoRange

LEMMA TypedInit == Init => Typed
<1> SUFFICES ASSUME Init PROVE Typed
  OBVIOUS
<1>1. StoreTyped
  BY PlanningAssumption, NowhereTyped DEF Init, StoreTyped
<1>2. LocalsTyped
  BY NowhereTyped, NoWindow DEF Init, LocalsTyped, PlannerStates
<1>3. FaultsTyped
  BY PlanningAssumption DEF Init, FaultsTyped
<1>4. ASSUME NEW p \in Planners PROVE WindowTyped(p) /\ ContextTyped(p)
  BY NoWindow DEF Init, WindowTyped, WindowOf, ContextTyped
<1> QED
  BY <1>1, <1>2, <1>3, <1>4 DEF Typed

\* The context of a planner whose context is typed.
LEMMA PlannerContext ==
  ASSUME Typed, NEW p \in Planners
  PROVE  /\ IsFiniteSet(WindowOf(p)) /\ WindowOf(p) \subseteq Int
         /\ WindowOf(p) \in SUBSET Minutes
         /\ pc[p] \in {"prepare", "place", "save"} => Context(targets[p], WindowOf(p))
<1>1. range[p].from \in Int /\ range[p].until - 1 \in Int
  BY DEF Typed, LocalsTyped
<1>2. IsFiniteSet(WindowOf(p))
  BY <1>1, FS_Interval DEF WindowOf
<1> QED
  BY <1>1, <1>2 DEF Typed, WindowTyped, ContextTyped, Context, WindowOf

\* Planners that a step leaves alone.
LEMMA OthersTyped ==
  ASSUME Typed, NEW q \in Planners,
         pc'[q] = pc[q], range'[q] = range[q], targets'[q] = targets[q],
         todo'[q] = todo[q], active'[q] = active[q]
  PROVE  (WindowTyped(q) /\ ContextTyped(q))'
  BY DEF Typed, WindowTyped, ContextTyped, WindowOf

LEMMA FetchTyped ==
  ASSUME Typed, NEW p \in Planners, NEW r \in [from : Nat, until : Nat],
         r.from .. (r.until - 1) \subseteq Minutes, NEW throttled, Fetch(p, r, throttled)
  PROVE  Typed'
<1>1. StoreTyped'
  BY DEF Typed, StoreTyped, Fetch, redisVars, discoveryVars
<1>2. FaultsTyped'
  BY FaultKept DEF Typed, Fetch
<1>3. active' \in [Planners -> SUBSET Reminds]
  <2>1. \E X \in SUBSET Reminds : active' = [active EXCEPT ![p] = X]
    <3> DEFINE found == {x \in known \ throttled : Home(x) \in r.from .. (r.until - 1)}
    <3>1. \A X : Unprocessed(found, X) \in SUBSET Reminds
      BY DEF Typed, StoreTyped, Unprocessed
    <3>2. \E X : active' = [active EXCEPT ![p] = Unprocessed(found, X)]
      BY DEF Fetch
    <3> HIDE DEF found
    <3> QED
      BY <3>1, <3>2
  <2> QED
    BY <2>1 DEF Typed, LocalsTyped
<1>4. LocalsTyped'
  BY <1>3 DEF Typed, LocalsTyped, Fetch, discoveryVars, PlannerStates
<1>5. ASSUME NEW q \in Planners PROVE (WindowTyped(q) /\ ContextTyped(q))'
  <2>1. CASE q = p
    BY <2>1 DEF Typed, LocalsTyped, Fetch, WindowTyped, ContextTyped, WindowOf
  <2>2. CASE q # p
    <3>1. /\ pc'[q] = pc[q] /\ range'[q] = range[q] /\ targets'[q] = targets[q]
          /\ todo'[q] = todo[q] /\ active'[q] = active[q]
      BY <2>2 DEF Typed, LocalsTyped, Fetch
    <3> QED
      BY <3>1, OthersTyped
  <2> QED
    BY <2>1, <2>2
<1> QED
  BY <1>1, <1>2, <1>4, <1>5 DEF Typed

LEMMA MergeTyped ==
  ASSUME Typed, NEW p \in Planners, MergeWithPreviousPlans(p)
  PROVE  Typed'
<1>1. StoreTyped'
  BY DEF Typed, StoreTyped, MergeWithPreviousPlans, redisVars, discoveryVars
<1>2. FaultsTyped'
  BY FaultKept DEF Typed, MergeWithPreviousPlans
<1>3. prev' \in [Planners -> [Reminds -> Slots]]
  BY NowhereTyped DEF Typed, LocalsTyped, MergeWithPreviousPlans, Merges
<1>4. LocalsTyped'
  BY <1>3 DEF Typed, LocalsTyped, MergeWithPreviousPlans, discoveryVars, PlannerStates
<1>5. ASSUME NEW q \in Planners PROVE (WindowTyped(q) /\ ContextTyped(q))'
  <2>1. CASE q = p
    BY <2>1 DEF Typed, LocalsTyped, MergeWithPreviousPlans, WindowTyped, ContextTyped, WindowOf
  <2>2. CASE q # p
    <3>1. /\ pc'[q] = pc[q] /\ range'[q] = range[q] /\ targets'[q] = targets[q]
          /\ todo'[q] = todo[q] /\ active'[q] = active[q]
      BY <2>2 DEF Typed, LocalsTyped, MergeWithPreviousPlans
    <3> QED
      BY <3>1, OthersTyped
  <2> QED
    BY <2>1, <2>2
<1> QED
  BY <1>1, <1>2, <1>4, <1>5 DEF Typed

\* How many reminds there are of some kind.
LEMMA SomeReminds ==
  ASSUME NEW S \in SUBSET Reminds
  PROVE  IsFiniteSet(S) /\ Cardinality(S) \in Nat
<1>1. IsFiniteSet(S)
  BY PlanningAssumption, FS_Subset
<1> QED
  BY <1>1, FS_CardinalityType

LEMMA SmoothedNat ==
  ASSUME Typed, NEW p \in Planners, NEW smoothed \in SmoothedTargets(p)
  PROVE  smoothed \in [WindowOf(p) -> Nat]
<1> DEFINE window == WindowOf(p)
           counts == CountByMinute(p)
           total == Cardinality(active[p])
           rad == KernelRadius(SmoothingRadius)
<1>1. IsFiniteSet(window) /\ window \subseteq Int
  BY PlannerContext
<1>2. active[p] \in SUBSET Reminds
  BY DEF Typed, LocalsTyped
<1>3. total \in Nat
  BY <1>2, SomeReminds
<1>4. counts \in [window -> Nat]
  <2>1. \A m \in window : Cardinality({r \in active[p] : PresentMinute(p, r) = m}) \in Nat
    BY <1>2, SomeReminds
  <2> QED
    BY <2>1 DEF CountByMinute
<1>5. rad \in Nat
  BY PlanningAssumption, RadiusPositive
<1> HIDE DEF window, counts, total, rad
<1>6. Convolve(counts, rad) \in [window -> Nat]
  BY <1>1, <1>4, <1>5, ConvolveNat
<1>7. smoothed \in NormalizeToSum(counts, total) \/ smoothed \in NormalizeToSum(Convolve(counts, rad), total)
  BY DEF SmoothedTargets, PassthroughTargets, TriangularTargets, counts, total, rad
<1>8. smoothed \in [window -> Nat]
  BY <1>1, <1>3, <1>4, <1>6, <1>7, NormalizedNat
<1> QED
  BY <1>8 DEF window

LEMMA CurrentNat ==
  ASSUME Typed, NEW p \in Planners, NEW m, NEW read \in Nat
  PROVE  CurrentCount(p, m, read) \in Nat
<1>1. {r \in active[p] : prev[p][r] = m} \in SUBSET Reminds
  BY DEF Typed, LocalsTyped
<1>2. Replanned(p, m) \in Nat
  BY <1>1, SomeReminds DEF Replanned
<1> QED
  BY <1>2 DEF CurrentCount

\* The context a planner builds from the counts it has read.
Built(p, read, smoothed) ==
    [m \in WindowOf(p) |->
        LET current == CurrentCount(p, m, read[m])
        IN  [target    |-> smoothed[m],
             current   |-> current,
             available |-> Available(smoothed[m], current, CapPerMinute)]]

\* The room of a context is within the cap.
Fits(context) ==
    \A m \in DOMAIN context :
        context[m].available > 0 => context[m].available + context[m].current <= CapPerMinute

LEMMA BuiltFits ==
  ASSUME Typed, NEW p \in Planners, NEW read \in [WindowOf(p) -> Nat],
         NEW smoothed \in SmoothedTargets(p)
  PROVE  /\ Built(p, read, smoothed) \in [WindowOf(p) -> Entry]
         /\ Fits(Built(p, read, smoothed))
<1>1. ASSUME NEW m \in WindowOf(p)
      PROVE  /\ smoothed[m] \in Nat /\ CurrentCount(p, m, read[m]) \in Nat
             /\ Available(smoothed[m], CurrentCount(p, m, read[m]), CapPerMinute) \in Nat
             /\ Available(smoothed[m], CurrentCount(p, m, read[m]), CapPerMinute) > 0 =>
                   Available(smoothed[m], CurrentCount(p, m, read[m]), CapPerMinute)
                   + CurrentCount(p, m, read[m]) <= CapPerMinute
  <2>1. smoothed[m] \in Nat
    BY SmoothedNat
  <2>2. read[m] \in Nat
    OBVIOUS
  <2>3. CurrentCount(p, m, read[m]) \in Nat
    BY <2>2, CurrentNat
  <2> QED
    BY <2>1, <2>3, AvailableFits
<1> QED
  BY <1>1 DEF Built, Entry, Fits

\* Whatever a planner could not read, it has numbers to work with.
LEMMA CountsAreNumbers ==
  ASSUME Typed, NEW p \in Planners, NEW uncounted, NEW unplanned
  PROVE  CountsRead(p, uncounted, unplanned) \in [WindowOf(p) -> Nat]
<1>1. ASSUME NEW m \in WindowOf(p)
      PROVE  (IF m \in uncounted THEN 0 ELSE count[m])
             + (IF m \in unplanned THEN 0 ELSE Cardinality(plan[m])) \in Nat
  <2>1. m \in Minutes
    BY DEF Typed, WindowTyped
  <2>2. plan[m] \in SUBSET Reminds /\ count[m] \in Nat
    BY <2>1 DEF Typed, StoreTyped
  <2>3. Cardinality(plan[m]) \in Nat
    BY <2>2, SomeReminds
  <2> QED
    BY <2>2, <2>3
<1> QED
  BY <1>1 DEF CountsRead

LEMMA ContextIsBuilt ==
  ASSUME Typed, NEW p \in Planners, CalculateTargets(p)
  PROVE  \E read \in [WindowOf(p) -> Nat], smoothed \in SmoothedTargets(p) :
            targets' = [targets EXCEPT ![p] = Built(p, read, smoothed)]
<1>1. PICK uncounted, unplanned : BuildTargets(p, CountsRead(p, uncounted, unplanned))
  BY DEF CalculateTargets
<1> DEFINE read == CountsRead(p, uncounted, unplanned)
<1>2. read \in [WindowOf(p) -> Nat]
  BY CountsAreNumbers
<1>3. \E smoothed \in SmoothedTargets(p) :
         targets' = [targets EXCEPT ![p] = Built(p, read, smoothed)]
  BY <1>1 DEF BuildTargets, Built
<1> QED
  BY <1>2, <1>3

LEMMA CalculateTyped ==
  ASSUME Typed, NEW p \in Planners, CalculateTargets(p)
  PROVE  Typed'
<1>1. StoreTyped'
  BY DEF Typed, StoreTyped, CalculateTargets, redisVars, discoveryVars
<1>2. FaultsTyped'
  BY FaultKept DEF Typed, CalculateTargets
<1>3. PICK context : context \in [WindowOf(p) -> Entry] /\ targets' = [targets EXCEPT ![p] = context]
  BY ContextIsBuilt, BuiltFits
<1>4. LocalsTyped'
  BY <1>3 DEF Typed, LocalsTyped, CalculateTargets, discoveryVars, PlannerStates
<1>5. ASSUME NEW q \in Planners PROVE (WindowTyped(q) /\ ContextTyped(q))'
  <2>1. CASE q = p
    BY <1>3, <2>1 DEF Typed, LocalsTyped, CalculateTargets, WindowTyped, ContextTyped, WindowOf
  <2>2. CASE q # p
    <3>1. /\ pc'[q] = pc[q] /\ range'[q] = range[q] /\ targets'[q] = targets[q]
          /\ todo'[q] = todo[q] /\ active'[q] = active[q]
      BY <1>3, <2>2 DEF Typed, LocalsTyped, CalculateTargets
    <3> QED
      BY <3>1, OthersTyped
  <2> QED
    BY <2>1, <2>2
<1> QED
  BY <1>1, <1>2, <1>4, <1>5 DEF Typed

\* What PrepareSlots leaves in the assignments.
LEMMA AssignmentsPrepared ==
  ASSUME Typed, NEW p \in Planners, PrepareSlots(p)
  PROVE  /\ assignments' \in [Reminds -> Slots]
         /\ \/ assignments' = assignments
            \/ /\ strategy = "priority"
               /\ \A r \in Reminds : assignments'[r] # NoSlot => Eligible(r, assignments'[r])
<1>1. CASE strategy # "priority"
  BY <1>1 DEF PrepareSlots, Typed, LocalsTyped
<1>2. CASE strategy = "priority"
  <2> DEFINE new == NewReminds(p)
  <2>1. PICK slots \in AllocateBatch(new, targets[p]) :
            assignments' = [r \in Reminds |-> IF r \in new THEN slots[r] ELSE NoSlot]
    BY <1>2 DEF PrepareSlots
  <2>2. DOMAIN targets[p] \subseteq Minutes
    BY PlannerContext DEF PrepareSlots, Context
  <2> HIDE DEF new
  <2>3. ASSUME NEW r \in Reminds
        PROVE  /\ assignments'[r] \in Slots
               /\ assignments'[r] # NoSlot => Eligible(r, assignments'[r])
    <3>1. CASE r \in new
      <4>1. assignments'[r] = slots[r]
        BY <2>1, <3>1
      <4>2. slots[r] \in DOMAIN targets[p] \cup {NoSlot}
        BY <3>1, AllocationEligible
      <4>3. slots[r] \in DOMAIN targets[p] => Eligible(r, slots[r])
        BY <3>1, AllocationEligible
      <4> QED
        BY <2>2, <4>1, <4>2, <4>3 DEF Slots
    <3>2. CASE r \notin new
      BY <2>1, <3>2 DEF Slots
    <3> QED
      BY <3>1, <3>2
  <2>4. assignments' = [r \in Reminds |-> assignments'[r]]
    BY <2>1
  <2>5. assignments' \in [Reminds -> Slots]
    BY <2>3, <2>4
  <2> QED
    BY <1>2, <2>3, <2>5
<1> QED
  BY <1>1, <1>2

LEMMA PrepareTyped ==
  ASSUME Typed, NEW p \in Planners, PrepareSlots(p)
  PROVE  Typed'
<1>1. StoreTyped'
  BY DEF Typed, StoreTyped, PrepareSlots, redisVars
<1>2. FaultsTyped'
  BY DEF Typed, FaultsTyped, PrepareSlots
<1>3. LocalsTyped'
  BY AssignmentsPrepared DEF Typed, LocalsTyped, PrepareSlots, PlannerStates
<1>4. ASSUME NEW q \in Planners PROVE (WindowTyped(q) /\ ContextTyped(q))'
  <2>1. CASE q = p
    BY <2>1 DEF Typed, LocalsTyped, PrepareSlots, WindowTyped, ContextTyped, WindowOf
  <2>2. CASE q # p
    <3>1. /\ pc'[q] = pc[q] /\ range'[q] = range[q] /\ targets'[q] = targets[q]
          /\ todo'[q] = todo[q] /\ active'[q] = active[q]
      BY <2>2 DEF Typed, LocalsTyped, PrepareSlots
    <3> QED
      BY <3>1, OthersTyped
  <2> QED
    BY <2>1, <2>2
<1> QED
  BY <1>1, <1>2, <1>3, <1>4 DEF Typed

\* The minute a remind is given: its previous one, or what the discovery finds.
SlotFor(p, r) == IF r \in NewReminds(p) THEN SlotForNew(p, r) ELSE SlotForPlanned(p, r)

LEMMA SlotForIsMinute ==
  ASSUME Typed, NEW p \in Planners, NEW r \in Reminds, Place(p, r)
  PROVE  /\ SlotFor(p, r) \in Minutes
         /\ \/ Reachable(r, SlotFor(p, r))
            \/ assignments[r] # NoSlot /\ SlotFor(p, r) = assignments[r]
            \/ prev[p][r] # NoSlot /\ SlotFor(p, r) = prev[p][r]
<1> DEFINE found == FindSlot(r, targets[p])
<1>1. /\ found \in Minutes
      /\ \/ Reachable(r, found)
         \/ assignments[r] # NoSlot /\ found = assignments[r]
  <2>1. WindowOf(p) \in SUBSET Minutes /\ Context(targets[p], WindowOf(p))
    BY PlannerContext DEF Place
  <2>2. /\ strategy \in {"greedy", "bestfit", "priority"}
        /\ assignments \in [Reminds -> Slots]
    BY PlanningAssumption DEF Typed, StoreTyped, LocalsTyped
  <2> QED
    BY <2>1, <2>2, FindSlotFinds
<1>2. \/ SlotFor(p, r) = found
      \/ prev[p][r] # NoSlot /\ SlotFor(p, r) = prev[p][r]
  <2>1. r \notin NewReminds(p) => prev[p][r] # NoSlot
    <3>1. r \in active[p]
      BY DEF Place, InTurn, Typed, ContextTyped
    <3> QED
      BY <3>1 DEF NewReminds
  <2> QED
    BY <2>1 DEF SlotFor, SlotForNew, SlotForPlanned
<1>3. prev[p][r] \in Slots
  BY DEF Typed, LocalsTyped
<1> HIDE DEF found
<1> QED
  BY <1>1, <1>2, <1>3 DEF Slots

LEMMA PlaceTyped ==
  ASSUME Typed, NEW p \in Planners, NEW r \in Reminds, Place(p, r)
  PROVE  Typed'
<1> DEFINE slot == SlotFor(p, r)
<1>1. StoreTyped'
  BY DEF Typed, StoreTyped, Place, redisVars, discoveryVars
<1>2. FaultsTyped'
  BY DEF Typed, FaultsTyped, Place
<1>3. /\ targets' = [targets EXCEPT ![p] = UpdateContext(targets[p], slot)]
      /\ chosen' = [chosen EXCEPT ![p][r] = slot]
      /\ unsaved' = [unsaved EXCEPT ![p] = @ \cup {slot}]
  BY DEF Place, SlotFor
<1>4. slot \in Minutes /\ slot \in Slots
  BY SlotForIsMinute DEF Slots
<1>5. UpdateContext(targets[p], slot) \in [WindowOf(p) -> Entry]
  BY PlannerContext, UpdateCharges DEF Place
<1> HIDE DEF slot
<1>6. chosen' \in [Planners -> [Reminds -> Slots]]
  BY <1>3, <1>4 DEF Typed, LocalsTyped
<1>7. unsaved' \in [Planners -> SUBSET Minutes]
  BY <1>3, <1>4 DEF Typed, LocalsTyped
<1>8. LocalsTyped'
  BY <1>3, <1>6, <1>7 DEF Typed, LocalsTyped, Place, discoveryVars, PlannerStates
<1>9. ASSUME NEW q \in Planners PROVE (WindowTyped(q) /\ ContextTyped(q))'
  <2>1. CASE q = p
    BY <1>3, <1>5, <2>1 DEF Typed, LocalsTyped, Place, WindowTyped, ContextTyped, WindowOf
  <2>2. CASE q # p
    <3>1. /\ pc'[q] = pc[q] /\ range'[q] = range[q] /\ targets'[q] = targets[q]
          /\ todo'[q] = todo[q] /\ active'[q] = active[q]
      BY <1>3, <2>2 DEF Typed, LocalsTyped, Place
    <3> QED
      BY <3>1, OthersTyped
  <2> QED
    BY <2>1, <2>2
<1> QED
  BY <1>1, <1>2, <1>8, <1>9 DEF Typed

LEMMA SaveTyped ==
  ASSUME Typed, NEW p \in Planners, NEW m \in Minutes, SavePlan(p, m)
  PROVE  Typed'
<1>1. plan' \in [Minutes -> SUBSET Reminds] /\ planned' \in [Reminds -> Slots]
  <2>1. PlannedPackets(p, m) \in SUBSET Reminds
    BY DEF Typed, LocalsTyped, PlannedPackets
  <2>2. CASE WritePlan(m, PlannedPackets(p, m))
    BY <2>1, <2>2 DEF WritePlan, Typed, StoreTyped, Slots
  <2>3. CASE UNCHANGED <<plan, planned>>
    BY <2>3 DEF Typed, StoreTyped
  <2> QED
    BY <2>2, <2>3 DEF SavePlan
<1>2. StoreTyped'
  BY <1>1 DEF Typed, StoreTyped, SavePlan, discoveryVars
<1>3. FaultsTyped'
  BY FaultKept DEF Typed, SavePlan
<1>4. LocalsTyped'
  BY DEF Typed, LocalsTyped, SavePlan, discoveryVars
<1>5. ASSUME NEW q \in Planners PROVE (WindowTyped(q) /\ ContextTyped(q))'
  BY OthersTyped DEF SavePlan
<1> QED
  BY <1>2, <1>3, <1>4, <1>5 DEF Typed

LEMMA ReturnTyped ==
  ASSUME Typed, NEW p \in Planners, Return(p)
  PROVE  Typed'
<1>1. StoreTyped'
  BY DEF Typed, StoreTyped, Return, redisVars, discoveryVars
<1>2. FaultsTyped'
  BY DEF Typed, FaultsTyped, Return
<1>3. LocalsTyped'
  BY NowhereTyped, NoWindow DEF Typed, LocalsTyped, Return, discoveryVars, PlannerStates
<1>4. ASSUME NEW q \in Planners PROVE (WindowTyped(q) /\ ContextTyped(q))'
  <2>1. CASE q = p
    BY <2>1, NoWindow DEF Typed, LocalsTyped, Return, WindowTyped, ContextTyped, WindowOf
  <2>2. CASE q # p
    <3>1. /\ pc'[q] = pc[q] /\ range'[q] = range[q] /\ targets'[q] = targets[q]
          /\ todo'[q] = todo[q] /\ active'[q] = active[q]
      BY <2>2 DEF Typed, LocalsTyped, Return
    <3> QED
      BY <3>1, OthersTyped
  <2> QED
    BY <2>1, <2>2
<1> QED
  BY <1>1, <1>2, <1>3, <1>4 DEF Typed

LEMMA SetRemindTyped ==
  ASSUME Typed, NEW r \in Reminds, SetRemind(r)
  PROVE  Typed'
<1>1. StoreTyped' /\ LocalsTyped' /\ FaultsTyped'
  BY DEF Typed, StoreTyped, LocalsTyped, FaultsTyped, SetRemind, redisVars,
         discoveryVars, plannerVars
<1>2. ASSUME NEW q \in Planners PROVE (WindowTyped(q) /\ ContextTyped(q))'
  BY OthersTyped DEF SetRemind, plannerVars
<1> QED
  BY <1>1, <1>2 DEF Typed

-----------------------------------------------------------------------------
(* The commit phase.                                                       *)

LEMMA SlideWidth ==
  ASSUME NEW r \in Reminds
  PROVE  /\ Width[r] \in Nat /\ Time[r] \in Nat /\ TicksPerMinute \in Nat \ {0}
         /\ Width[r] \div TicksPerMinute \in Nat
         /\ (Width[r] \div TicksPerMinute) * TicksPerMinute <= Width[r]
         /\ Home(r) * TicksPerMinute <= Time[r]
<1>1. Width[r] \in Nat /\ Time[r] \in Nat /\ TicksPerMinute \in Nat \ {0}
  BY SlidingAssumption
<1>2. \A w \in Nat, t \in Nat \ {0} : w \div t \in Nat /\ (w \div t) * t <= w
  OBVIOUS
<1> QED
  BY <1>1, <1>2 DEF Home

\* A minute that slot.Calculator.FindSlot tries starts between a remind's own and
\* its deadline.
LEMMA SlideMinutesReach ==
  ASSUME NEW r \in Reminds, NEW m \in SlideMinutes(r)
  PROVE  /\ m \in Minutes /\ m \in Int /\ m >= Home(r)
         /\ m * TicksPerMinute <= Deadline(r)
<1>1. Home(r) \in Nat
  BY HomeIsReachable
<1>2. m \in Int /\ m >= Home(r) /\ m <= Home(r) + (Width[r] \div TicksPerMinute)
  BY <1>1, SlideWidth DEF SlideMinutes
<1>3. m * TicksPerMinute <= Deadline(r)
  <2>1. \A k, h, w \in Int, t \in Nat : k <= h + w => k * t <= h * t + w * t
    OBVIOUS
  <2>2. m * TicksPerMinute <=
            Home(r) * TicksPerMinute + (Width[r] \div TicksPerMinute) * TicksPerMinute
    BY <1>1, <1>2, <2>1, SlideWidth
  <2>3. /\ m * TicksPerMinute \in Int
        /\ Home(r) * TicksPerMinute \in Int
        /\ (Width[r] \div TicksPerMinute) * TicksPerMinute \in Int
    BY <1>1, <1>2, SlideWidth
  <2> QED
    BY <2>2, <2>3, SlideWidth DEF Deadline
<1> QED
  BY <1>2, <1>3, ReachIsModelled

LEMMA SlideMinutesFinite ==
  ASSUME NEW r \in Reminds
  PROVE  /\ IsFiniteSet(SlideMinutes(r)) /\ SlideMinutes(r) \subseteq Int
         /\ Home(r) \in SlideMinutes(r)
<1> DEFINE slide == Width[r] \div TicksPerMinute
<1>1. Home(r) \in Nat /\ slide \in Nat
  BY HomeIsReachable, SlideWidth
<1> HIDE DEF slide
<1>2. /\ IsFiniteSet(Home(r) .. (Home(r) + slide)) /\ Home(r) .. (Home(r) + slide) \subseteq Int
      /\ Home(r) \in Home(r) .. (Home(r) + slide)
  <2>1. Home(r) \in Int /\ Home(r) + slide \in Int
    BY <1>1
  <2>2. IsFiniteSet(Home(r) .. (Home(r) + slide))
    BY <2>1, FS_Interval
  <2> QED
    BY <1>1, <2>1, <2>2
<1> QED
  BY <1>2 DEF SlideMinutes, slide

\* slot.Calculator.FindSlot settles on a minute it has found under the cap, or on
\* the remind's own.
LEMMA FindSlotForCommitFinds ==
  ASSUME NEW r \in Reminds, NEW unread
  PROVE  /\ FindSlotForCommit(r, unread) \in SlideMinutes(r)
         /\ \/ FindSlotForCommit(r, unread) = Home(r)
            \/ TotalCount(FindSlotForCommit(r, unread)) < CapPerMinute
<1> DEFINE free == {m \in SlideMinutes(r) \ unread : TotalCount(m) < CapPerMinute}
<1>1. CASE Home(r) \in unread \/ free = {}
  BY <1>1, SlideMinutesFinite DEF FindSlotForCommit
<1>2. CASE ~(Home(r) \in unread \/ free = {})
  <2>1. IsFiniteSet(free) /\ free \subseteq Int /\ free # {}
    BY <1>2, SlideMinutesFinite, FS_Subset
  <2>2. FindSlotForCommit(r, unread) = First(free)
    BY <1>2 DEF FindSlotForCommit
  <2> HIDE DEF free
  <2>3. First(free) \in free
    BY <2>1, FirstIsLeast
  <2> QED
    BY <2>2, <2>3 DEF free
<1> QED
  BY <1>1, <1>2

\* A remind is scheduled in its planned minute, or in one it may slide to.
LEMMA SlotsReadAre ==
  ASSUME NEW r \in Reminds, NEW slot \in SlotsRead(r)
  PROVE  (slot # NoSlot /\ slot = planned[r]) \/ slot \in SlideMinutes(r)
  BY FindSlotForCommitFinds DEF SlotsRead

LEMMA ScheduledIsRead ==
  ASSUME NEW r \in Reminds
  PROVE  ScheduledSlot(r) \in SlotsRead(r)
  BY DEF ScheduledSlot, SlotsRead

LEMMA SlotsReadTyped ==
  ASSUME planned \in [Reminds -> Slots], NEW r \in Reminds, NEW slot \in SlotsRead(r)
  PROVE  slot \in Minutes /\ slot \in Slots
<1>1. CASE slot # NoSlot /\ slot = planned[r]
  BY <1>1 DEF Slots
<1>2. CASE slot \in SlideMinutes(r)
  BY <1>2, SlideMinutesReach DEF Slots
<1> QED
  BY <1>1, <1>2, SlotsReadAre

LEMMA CommitPacketTyped ==
  ASSUME StoreTyped, NEW r \in Reminds, NEW slot \in SlotsRead(r), NEW lost,
         CommitPacket(r, slot, lost), UNCHANGED <<strategy, smoothing, known, plan, planned>>
  PROVE  StoreTyped'
<1>1. slot \in Minutes /\ slot \in Slots
  BY SlotsReadTyped DEF StoreTyped
<1>2. scheduled' \in [Reminds -> Slots]
  BY <1>1 DEF StoreTyped, CommitPacket
<1>3. count' \in [Minutes -> Nat]
  BY <1>1 DEF StoreTyped, CommitPacket
<1>4. committed' \subseteq Reminds
  BY DEF StoreTyped, CommitPacket
<1> QED
  BY <1>2, <1>3, <1>4 DEF StoreTyped

\* Steps outside the planning phase.
LEMMA OutsideTyped ==
  ASSUME Typed, StoreTyped', FaultsTyped', UNCHANGED <<assignments, plannerVars>>
  PROVE  Typed'
<1>1. LocalsTyped'
  BY DEF Typed, LocalsTyped, plannerVars
<1>2. ASSUME NEW q \in Planners PROVE (WindowTyped(q) /\ ContextTyped(q))'
  BY OthersTyped DEF plannerVars
<1> QED
  BY <1>1, <1>2 DEF Typed

LEMMA CommitTyped ==
  ASSUME Typed, NEW r \in Reminds, NEW slot \in SlotsRead(r), NEW lost,
         CommitPacket(r, slot, lost),
         UNCHANGED <<known, plan, planned, discoveryVars, plannerVars>>, FaultsTyped'
  PROVE  Typed'
<1>1. StoreTyped'
  BY CommitPacketTyped DEF Typed, discoveryVars
<1> QED
  BY <1>1, OutsideTyped DEF discoveryVars

LEMMA CommitFaultKept ==
  ASSUME FaultsTyped, NEW r, NEW slot, NEW lost, CommitFault(r, slot, lost)
  PROVE  FaultsTyped'
  BY FaultKept DEF CommitFault

LEMMA MarkerExpiryTyped ==
  ASSUME Typed, NEW r, ExpireCommitted(r)
  PROVE  Typed'
<1>1. StoreTyped'
  BY DEF Typed, StoreTyped, ExpireCommitted, discoveryVars
<1>2. FaultsTyped'
  BY FaultKept DEF Typed, ExpireCommitted
<1> QED
  BY <1>1, <1>2, OutsideTyped DEF ExpireCommitted, discoveryVars

LEMMA CountExpiryTyped ==
  ASSUME Typed, NEW m \in Minutes, ExpireCount(m)
  PROVE  Typed'
<1>1. StoreTyped'
  BY DEF Typed, StoreTyped, ExpireCount, discoveryVars
<1>2. FaultsTyped'
  BY FaultKept DEF Typed, ExpireCount
<1> QED
  BY <1>1, <1>2, OutsideTyped DEF ExpireCount, discoveryVars

LEMMA ExpireTyped ==
  ASSUME Typed, NEW m \in Minutes, ExpirePlan(m)
  PROVE  Typed'
<1>1. plan' \in [Minutes -> SUBSET Reminds] /\ planned' \in [Reminds -> Slots]
  BY NowhereTyped DEF ExpirePlan, Typed, StoreTyped
<1>2. StoreTyped'
  BY <1>1 DEF Typed, StoreTyped, ExpirePlan, discoveryVars
<1>3. FaultsTyped'
  BY FaultKept DEF Typed, ExpirePlan
<1>4. LocalsTyped'
  BY DEF Typed, LocalsTyped, ExpirePlan, discoveryVars, plannerVars
<1>5. ASSUME NEW q \in Planners PROVE (WindowTyped(q) /\ ContextTyped(q))'
  BY OthersTyped DEF ExpirePlan, plannerVars
<1> QED
  BY <1>2, <1>3, <1>4, <1>5 DEF Typed

LEMMA CrashTyped ==
  ASSUME Typed, Crash
  PROVE  Typed'
<1>1. StoreTyped'
  BY DEF Typed, StoreTyped, Crash, redisVars
<1>2. FaultsTyped'
  BY FaultKept DEF Typed, Crash
<1>3. LocalsTyped'
  BY NowhereTyped, NoWindow DEF Crash, LocalsTyped, PlannerStates
<1>4. ASSUME NEW q \in Planners PROVE (WindowTyped(q) /\ ContextTyped(q))'
  BY NoWindow DEF Crash, WindowTyped, ContextTyped, WindowOf
<1> QED
  BY <1>1, <1>2, <1>3, <1>4 DEF Typed

LEMMA StutterTyped ==
  ASSUME Typed, UNCHANGED vars
  PROVE  Typed'
<1>1. StoreTyped' /\ LocalsTyped' /\ FaultsTyped'
  BY DEF Typed, StoreTyped, LocalsTyped, FaultsTyped, vars, redisVars, discoveryVars, plannerVars
<1>2. ASSUME NEW q \in Planners PROVE (WindowTyped(q) /\ ContextTyped(q))'
  BY OthersTyped DEF vars, plannerVars
<1> QED
  BY <1>1, <1>2 DEF Typed

LEMMA TypedNext == Typed /\ [Next]_vars => Typed'
<1> SUFFICES ASSUME Typed, [Next]_vars PROVE Typed'
  OBVIOUS
<1>1. ASSUME NEW p \in Planners, NEW r \in Ranges, NEW throttled \in SUBSET Queued,
             Fetch(p, r, throttled)
      PROVE  Typed'
  <2>1. r \in [from : Nat, until : Nat] /\ r.from .. r.until \subseteq Minutes
    BY PlanningAssumption
  <2>2. r.from .. (r.until - 1) \subseteq r.from .. r.until
    BY <2>1
  <2> QED
    BY <1>1, <2>1, <2>2, FetchTyped
<1>2. ASSUME NEW r \in Reminds, Commit(r) PROVE Typed'
  <2>1. PICK slot \in SlotsRead(r), lost \in SUBSET Writes :
            CommitPacket(r, slot, lost) /\ CommitFault(r, slot, lost)
    BY <1>2 DEF Commit
  <2>2. FaultsTyped'
    BY <2>1, CommitFaultKept DEF Typed
  <2> QED
    BY <1>2, <2>1, <2>2, CommitTyped DEF Commit
<1> QED
  BY <1>1, <1>2, MergeTyped, CalculateTyped, PrepareTyped, PlaceTyped, SaveTyped,
     ReturnTyped, SetRemindTyped, MarkerExpiryTyped, CountExpiryTyped, ExpireTyped, CrashTyped, StutterTyped
  DEF Next

\* The planning phase keeps its types: in particular every minute it plans, and
\* every minute the commit phase takes, is one there is.
THEOREM PlanningTypeCorrect == Spec => []TypeOK
  BY TypedInit, TypedNext, TypedIsTypeOK, PTL DEF Spec

-----------------------------------------------------------------------------
(* The room of a minute.                                                   *)

Prepared == {"prepare", "place", "save"}

Capped == \A p \in Planners : pc[p] \in Prepared => Fits(targets[p])

LEMMA CappedMeans == Typed /\ Capped => AvailableWithinCap
<1> SUFFICES ASSUME Typed, Capped, NEW p \in Planners, pc[p] \in Prepared,
                    NEW m \in WindowOf(p), targets[p][m].available > 0
             PROVE  targets[p][m].available + targets[p][m].current <= CapPerMinute
  BY DEF AvailableWithinCap, Prepared
<1> QED
  BY DEF Typed, ContextTyped, Capped, Prepared, Fits

LEMMA CappedInit == Init => Capped
  BY DEF Init, Capped, Prepared

\* Steps that leave the contexts alone.
LEMMA CappedKept ==
  ASSUME Capped,
         \A q \in Planners : pc'[q] \in Prepared =>
             pc[q] \in Prepared /\ targets'[q] = targets[q]
  PROVE  Capped'
  BY DEF Capped

LEMMA CalculateCapped ==
  ASSUME Typed, Capped, NEW p \in Planners, CalculateTargets(p)
  PROVE  Capped'
<1>1. PICK context : Fits(context) /\ targets' = [targets EXCEPT ![p] = context]
  BY ContextIsBuilt, BuiltFits
<1> QED
  BY <1>1 DEF Typed, LocalsTyped, CalculateTargets, Capped

\* A minute that takes a remind gives up room as fast as it fills.
LEMMA PlaceCapped ==
  ASSUME Typed, Capped, NEW p \in Planners, NEW r \in Reminds, Place(p, r)
  PROVE  Capped'
<1> DEFINE context == UpdateContext(targets[p], SlotFor(p, r))
<1>1. Context(targets[p], WindowOf(p)) /\ Fits(targets[p])
  BY PlannerContext DEF Place, Capped, Prepared
<1>2. context \in [WindowOf(p) -> Entry]
  BY <1>1, UpdateCharges
<1>3. \A n \in WindowOf(p) : context[n].available > 0 =>
          /\ targets[p][n].available > 0
          /\ context[n].available + context[n].current =
                 targets[p][n].available + targets[p][n].current
  BY <1>1, UpdateCharges
<1> HIDE DEF context
<1>4. Fits(context)
  BY <1>1, <1>2, <1>3 DEF Fits, Context
<1>5. targets' = [targets EXCEPT ![p] = context]
  BY DEF Place, SlotFor, context
<1> QED
  BY <1>4, <1>5 DEF Typed, LocalsTyped, Place, Capped, Prepared

\* The other steps of a planner.
LEMMA PlannerCapped ==
  ASSUME Typed, Capped, NEW p \in Planners,
         \/ \E r, throttled : Fetch(p, r, throttled)
         \/ MergeWithPreviousPlans(p)
         \/ PrepareSlots(p)
         \/ \E m \in Minutes : SavePlan(p, m)
         \/ Return(p)
  PROVE  Capped'
<1> USE DEF Typed, LocalsTyped, Prepared
<1>1. ASSUME NEW r, NEW throttled, Fetch(p, r, throttled) PROVE Capped'
  BY <1>1, CappedKept DEF Fetch
<1>2. CASE MergeWithPreviousPlans(p)
  BY <1>2, CappedKept DEF MergeWithPreviousPlans
<1>3. CASE PrepareSlots(p)
  BY <1>3, CappedKept DEF PrepareSlots
<1>4. ASSUME NEW m \in Minutes, SavePlan(p, m) PROVE Capped'
  BY <1>4, CappedKept DEF SavePlan
<1>5. CASE Return(p)
  BY <1>5, CappedKept DEF Return
<1> QED
  BY <1>1, <1>2, <1>3, <1>4, <1>5

LEMMA CappedUnchanged ==
  ASSUME Capped, UNCHANGED plannerVars
  PROVE  Capped'
  BY CappedKept DEF plannerVars

LEMMA CappedNext == Typed /\ Capped /\ [Next]_vars => Capped'
<1> SUFFICES ASSUME Typed, Capped, [Next]_vars PROVE Capped'
  OBVIOUS
<1>1. CASE \/ \E r \in Reminds : SetRemind(r) \/ Commit(r) \/ ExpireCommitted(r)
           \/ \E m \in Minutes : ExpireCount(m) \/ ExpirePlan(m)
           \/ UNCHANGED vars
  BY <1>1, CappedUnchanged DEF SetRemind, Commit, ExpireCommitted, ExpireCount,
     ExpirePlan, vars
<1>2. CASE Crash
  BY <1>2, CappedKept DEF Crash, Prepared
<1>3. ASSUME NEW p \in Planners,
             \/ \E r \in Ranges, throttled \in SUBSET Queued : Fetch(p, r, throttled)
             \/ MergeWithPreviousPlans(p)
             \/ PrepareSlots(p)
             \/ \E m \in Minutes : SavePlan(p, m)
             \/ Return(p)
      PROVE  Capped'
  <2>1. \/ \E r, throttled : Fetch(p, r, throttled)
        \/ MergeWithPreviousPlans(p)
        \/ PrepareSlots(p)
        \/ \E m \in Minutes : SavePlan(p, m)
        \/ Return(p)
    BY <1>3
  <2> QED
    BY <2>1, PlannerCapped
<1>4. ASSUME NEW p \in Planners, CalculateTargets(p) \/ \E r \in Reminds : Place(p, r)
      PROVE  Capped'
  BY <1>4, CalculateCapped, PlaceCapped
<1> QED
  BY <1>1, <1>2, <1>3, <1>4 DEF Next

\* buildTargetAllocations and UpdateTargetAllocation never show more room in a
\* minute than the cap leaves of it (smoothing/passthrough.go:45,
\* smoothing/strategy.go:28).
THEOREM RoomWithinCap == Spec => []AvailableWithinCap
  BY TypedInit, TypedNext, CappedInit, CappedNext, CappedMeans, PTL DEF Spec

-----------------------------------------------------------------------------
(* How far a remind is moved.                                              *)

AllReachable(slots) == \A r \in Reminds : slots[r] # NoSlot => Reachable(r, slots[r])

StoreReached ==
    /\ AllReachable(planned) /\ AllReachable(scheduled)
    /\ \A m \in Minutes : \A r \in plan[m] : Reachable(r, m)

AssignmentsReached ==
    \A r \in Reminds : assignments[r] # NoSlot =>
        strategy = "priority" /\ Eligible(r, assignments[r])

LocalsReached == \A p \in Planners : AllReachable(prev[p]) /\ AllReachable(chosen[p])

Reached == StoreReached /\ AssignmentsReached /\ LocalsReached

LEMMA ReachedMeans == Reached => PlannedWithinReach
  BY DEF Reached, StoreReached, AllReachable, PlannedWithinReach

LEMMA NowhereReached == AllReachable(Nowhere)
  BY DEF AllReachable, Nowhere

LEMMA ReachedInit == Init => Reached
<1> SUFFICES ASSUME Init PROVE Reached
  OBVIOUS
<1>1. StoreReached /\ LocalsReached
  BY NowhereReached DEF Init, StoreReached, LocalsReached
<1>2. AssignmentsReached
  BY DEF Init, AssignmentsReached, Nowhere
<1> QED
  BY <1>1, <1>2 DEF Reached

\* The discovery never changes while the process runs.
LEMMA ReachedKept ==
  ASSUME Reached, strategy' = strategy
  PROVE  /\ UNCHANGED <<plan, planned, scheduled>> => StoreReached'
         /\ UNCHANGED assignments => AssignmentsReached'
         /\ UNCHANGED <<prev, chosen>> => LocalsReached'
  BY DEF Reached, StoreReached, AssignmentsReached, LocalsReached, AllReachable, Reachable, Eligible

LEMMA FetchReached ==
  ASSUME Reached, NEW p \in Planners, NEW r, NEW throttled, Fetch(p, r, throttled)
  PROVE  Reached'
  BY ReachedKept DEF Fetch, redisVars, discoveryVars, Reached

\* What is read back from the plans was reachable when it was planned.
LEMMA MergeReached ==
  ASSUME Typed, Reached, NEW p \in Planners, MergeWithPreviousPlans(p)
  PROVE  Reached'
<1>1. StoreReached' /\ AssignmentsReached'
  BY ReachedKept DEF MergeWithPreviousPlans, redisVars, discoveryVars
<1>2. ASSUME NEW merge \in Merges(p) PROVE AllReachable(merge)
  <2>1. ASSUME NEW r \in Reminds, merge[r] # NoSlot PROVE Reachable(r, merge[r])
    <3>1. merge[r] \in PreviousSlots(p, r) /\ merge[r] \in Slots
      BY <2>1 DEF Merges
    <3>2. merge[r] \in Minutes /\ r \in plan[merge[r]]
      BY <2>1, <3>1 DEF PreviousSlots, Slots
    <3> QED
      BY <3>2 DEF Reached, StoreReached
  <2> QED
    BY <2>1 DEF AllReachable
<1>3. PICK merge : AllReachable(merge) /\ prev' = [prev EXCEPT ![p] = merge]
  BY <1>2, NowhereReached DEF MergeWithPreviousPlans
<1>4. \A q \in Planners : AllReachable(prev'[q]) /\ AllReachable(chosen'[q])
  BY <1>3 DEF Reached, LocalsReached, Typed, LocalsTyped, MergeWithPreviousPlans
<1>5. LocalsReached'
  <2>1. strategy' = strategy
    BY DEF MergeWithPreviousPlans, discoveryVars
  <2> QED
    BY <1>4, <2>1 DEF LocalsReached, AllReachable, Reachable
<1> QED
  BY <1>1, <1>5 DEF Reached

LEMMA CalculateReached ==
  ASSUME Reached, NEW p \in Planners, CalculateTargets(p)
  PROVE  Reached'
  BY ReachedKept DEF CalculateTargets, redisVars, discoveryVars, Reached

LEMMA PrepareReached ==
  ASSUME Typed, Reached, NEW p \in Planners, PrepareSlots(p)
  PROVE  Reached'
<1>1. strategy' = strategy
  BY DEF PrepareSlots
<1>2. StoreReached' /\ LocalsReached'
  BY <1>1, ReachedKept DEF PrepareSlots, redisVars
<1>3. AssignmentsReached'
  <2>1. CASE assignments' = assignments
    BY <1>1, <2>1, ReachedKept
  <2>2. CASE assignments' # assignments
    BY <1>1, <2>2, AssignmentsPrepared DEF AssignmentsReached, Eligible
  <2> QED
    BY <2>1, <2>2
<1> QED
  BY <1>2, <1>3 DEF Reached

LEMMA PlaceReached ==
  ASSUME Typed, Reached, NEW p \in Planners, NEW r \in Reminds, Place(p, r)
  PROVE  Reached'
<1> DEFINE slot == SlotFor(p, r)
<1>1. strategy' = strategy /\ prev' = prev
  BY DEF Place, discoveryVars
<1>2. StoreReached' /\ AssignmentsReached'
  BY <1>1, ReachedKept DEF Place, redisVars, discoveryVars
<1>3. Reachable(r, slot)
  <2>1. CASE assignments[r] # NoSlot /\ slot = assignments[r]
    BY <2>1 DEF Reached, AssignmentsReached, Eligible, Reachable
  <2>2. CASE prev[p][r] # NoSlot /\ slot = prev[p][r]
    BY <2>2 DEF Reached, LocalsReached, AllReachable
  <2> QED
    BY <2>1, <2>2, SlotForIsMinute
<1>4. chosen' = [chosen EXCEPT ![p][r] = slot]
  BY DEF Place, SlotFor
<1> HIDE DEF slot
<1>5. ASSUME NEW q \in Planners PROVE AllReachable(chosen'[q])
  BY <1>3, <1>4 DEF Reached, LocalsReached, AllReachable, Typed, LocalsTyped
<1>6. LocalsReached'
  BY <1>1, <1>5 DEF Reached, LocalsReached, AllReachable, Reachable
<1> QED
  BY <1>2, <1>6 DEF Reached

LEMMA SaveReached ==
  ASSUME Typed, Reached, NEW p \in Planners, NEW m \in Minutes, SavePlan(p, m)
  PROVE  Reached'
<1>1. strategy' = strategy /\ scheduled' = scheduled
  BY DEF SavePlan, discoveryVars
<1>2. LocalsReached' /\ AssignmentsReached'
  BY <1>1, ReachedKept DEF SavePlan, discoveryVars
<1>3. CASE UNCHANGED <<plan, planned>>
  BY <1>1, <1>2, <1>3, ReachedKept DEF Reached
<1>4. CASE WritePlan(m, PlannedPackets(p, m))
  <2>1. ASSUME NEW r \in PlannedPackets(p, m) PROVE Reachable(r, m)
    <3>1. r \in Reminds /\ chosen[p][r] = m /\ m # NoSlot
      BY PlanningAssumption DEF PlannedPackets, Typed, LocalsTyped, NoSlot
    <3> QED
      BY <3>1 DEF Reached, LocalsReached, AllReachable
  <2>2. \A r \in Reminds : planned'[r] # NoSlot => Reachable(r, planned'[r])
    BY <1>4, <2>1 DEF WritePlan, Reached, StoreReached, AllReachable
  <2>3. \A n \in Minutes : \A r \in plan'[n] : Reachable(r, n)
    BY <1>4, <2>1 DEF WritePlan, Reached, StoreReached, Typed, StoreTyped
  <2>4. \A r \in Reminds : scheduled'[r] # NoSlot => Reachable(r, scheduled'[r])
    BY <1>1 DEF Reached, StoreReached, AllReachable
  <2>5. StoreReached'
    BY <1>1, <2>2, <2>3, <2>4 DEF StoreReached, AllReachable, Reachable
  <2> QED
    BY <1>2, <2>5 DEF Reached
<1> QED
  BY <1>3, <1>4 DEF SavePlan

LEMMA ReturnReached ==
  ASSUME Typed, Reached, NEW p \in Planners, Return(p)
  PROVE  Reached'
<1>1. strategy' = strategy
  BY DEF Return, discoveryVars
<1>2. StoreReached' /\ AssignmentsReached'
  BY <1>1, ReachedKept DEF Return, redisVars, discoveryVars
<1>3. \A q \in Planners : AllReachable(prev'[q]) /\ AllReachable(chosen'[q])
  BY NowhereReached DEF Return, Reached, LocalsReached, Typed, LocalsTyped
<1>4. LocalsReached'
  BY <1>1, <1>3 DEF LocalsReached, AllReachable, Reachable
<1> QED
  BY <1>2, <1>4 DEF Reached

LEMMA SlotsReadReachable ==
  ASSUME Reached, NEW r \in Reminds, NEW slot \in SlotsRead(r)
  PROVE  Reachable(r, slot)
<1>1. CASE slot # NoSlot /\ slot = planned[r]
  BY <1>1 DEF Reached, StoreReached, AllReachable
<1>2. CASE slot \in SlideMinutes(r)
  BY <1>2, SlideMinutesReach, HomeIsReachable DEF Reachable
<1> QED
  BY <1>1, <1>2, SlotsReadAre

\* What is scheduled is reachable, whatever was lost of the commit.
LEMMA ScheduledReached ==
  ASSUME Typed, Reached, NEW r \in Reminds, NEW slot \in SlotsRead(r),
         scheduled' \in {scheduled, [scheduled EXCEPT ![r] = slot]},
         UNCHANGED <<plan, planned, strategy, assignments, prev, chosen>>
  PROVE  Reached'
<1>1. Reachable(r, slot)
  BY SlotsReadReachable
<1>2. \A x \in Reminds : scheduled'[x] # NoSlot => Reachable(x, scheduled'[x])
  BY <1>1 DEF Reached, StoreReached, AllReachable, Typed, StoreTyped
<1>3. StoreReached'
  BY <1>2 DEF Reached, StoreReached, AllReachable, Reachable
<1> QED
  BY <1>3, ReachedKept DEF Reached

LEMMA ExpireReached ==
  ASSUME Typed, Reached, NEW m \in Minutes, ExpirePlan(m)
  PROVE  Reached'
<1>1. UNCHANGED <<strategy, scheduled, assignments, prev, chosen>>
  BY DEF ExpirePlan, discoveryVars, plannerVars
<1>2. \A r \in Reminds : planned'[r] \in {planned[r], NoSlot}
  BY DEF ExpirePlan
<1>3. \A n \in Minutes : plan'[n] \subseteq plan[n]
  BY DEF ExpirePlan, Typed, StoreTyped
<1>4. StoreReached'
  BY <1>1, <1>2, <1>3 DEF Reached, StoreReached, AllReachable, Reachable
<1> QED
  BY <1>1, <1>4, ReachedKept DEF Reached

LEMMA CrashReached ==
  ASSUME Reached, Crash
  PROVE  Reached'
<1>1. strategy' = strategy
  BY DEF Crash
<1>2. StoreReached'
  BY <1>1, ReachedKept DEF Crash, redisVars
<1>3. AssignmentsReached'
  BY DEF Crash, AssignmentsReached, Nowhere
<1>4. LocalsReached'
  BY DEF Crash, LocalsReached, AllReachable, Nowhere
<1> QED
  BY <1>2, <1>3, <1>4 DEF Reached

LEMMA ReachedUnchanged ==
  ASSUME Reached, UNCHANGED <<plan, planned, scheduled, discoveryVars, plannerVars>>
  PROVE  Reached'
  BY ReachedKept DEF Reached, discoveryVars, plannerVars

LEMMA ReachedNext == Typed /\ Reached /\ [Next]_vars => Reached'
<1> SUFFICES ASSUME Typed, Reached, [Next]_vars PROVE Reached'
  OBVIOUS
<1>1. ASSUME NEW r \in Reminds, Commit(r) PROVE Reached'
  <2>1. PICK slot \in SlotsRead(r), lost \in SUBSET Writes : CommitPacket(r, slot, lost)
    BY <1>1 DEF Commit
  <2> QED
    BY <1>1, <2>1, ScheduledReached DEF Commit, CommitPacket, discoveryVars, plannerVars
<1>2. ASSUME NEW r \in Reminds, SetRemind(r) \/ ExpireCommitted(r) PROVE Reached'
  BY <1>2, ReachedUnchanged DEF SetRemind, ExpireCommitted, redisVars
<1>4. ASSUME NEW m \in Minutes, ExpireCount(m) PROVE Reached'
  BY <1>4, ReachedUnchanged DEF ExpireCount
<1>3. CASE UNCHANGED vars
  BY <1>3, ReachedUnchanged DEF vars, redisVars
<1> QED
  BY <1>1, <1>2, <1>3, <1>4, FetchReached, MergeReached, CalculateReached, PrepareReached,
     PlaceReached, SaveReached, ReturnReached, ExpireReached, CrashReached
  DEF Next

\* No remind is planned or scheduled in a minute that starts after its deadline,
\* and only the priority strategy moves one to before its own minute, whatever
\* plans and counts of other requests and failed reads a request has worked with.
THEOREM PlannedInReach == Spec => []PlannedWithinReach
  BY TypedInit, TypedNext, ReachedInit, ReachedNext, ReachedMeans, PTL DEF Spec

=============================================================================
