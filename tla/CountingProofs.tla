--------------------------- MODULE CountingProofs ---------------------------
(* Proofs about ThrottleService that count: how often a remind is accepted, *)
(* how many notifications a minute takes, and what the counters show.      *)
EXTENDS ThrottleServiceProofs, Sums

-----------------------------------------------------------------------------
(* Why a remind is notified at most once unless it was exposed: a request  *)
(* takes a remind in hand only when no other has it and no marker is there, *)
(* and from its acceptance on one request or the marker vouches for it.    *)

BeforeAcceptance(p, r) == cur[p] = r /\ pc[p] \in {"lookup", "probe", "register"}
AtMarker(p, r)         == cur[p] = r /\ pc[p] = "save"

Once(r) ==
    /\ \A p, q \in Requests : Holds(p, r) /\ Holds(q, r) => p = q
    /\ accepted[r] <= 1
    /\ \A p \in Requests : BeforeAcceptance(p, r) => accepted[r] = 0
    /\ accepted[r] > 0 => r \in committed \/ \E p \in Requests : AtMarker(p, r)

OnceEach == \A r \in Reminds : r \notin exposed => Once(r)

LEMMA OnceInit == Init => OnceEach
  BY DEF Init, OnceEach, Once, Holds, BeforeAcceptance, AtMarker

\* What the steps of a request do to one remind.
LEMMA OnceRequest ==
  ASSUME Typed, OnceEach, NEW p \in Requests, RequestStep(p),
         NEW r \in Reminds, r \notin exposed'
  PROVE  Once(r)'
<1> USE DEF Holds, BeforeAcceptance, AtMarker, timeMgmtVars, taskQueueVars,
            redisVars, cancelVars, historyVars
<1>0. /\ pc \in [Requests -> RequestStates]
      /\ cur \in [Requests -> HasTokens \cup {NoRemind}]
      /\ accepted \in [Reminds -> Nat]
      /\ HasTokens \subseteq Reminds
      /\ NoRemind \notin Reminds
  BY RemindsAssumption DEF Typed, RequestsTyped, StoresTyped
<1>1. exposed \subseteq exposed'
  BY DEF RequestStep, IsPacketCommitted, Skip, Proceed, GetPlannedPacket,
         FindSlot, RegisterNotification, ContextDone, SaveCommittedPacket,
         IncrementPacketCount, UpdateThrottled, Finish
<1>2. Once(r)
  BY <1>1 DEF OnceEach
<1>3. CASE IsPacketCommitted(p)
  <2> USE <1>3
  <2>1. PICK s \in todo[p] :
           \/ Skip(p, s)
           \/ Proceed(p, s)
    BY DEF IsPacketCommitted
  <2>2. UNCHANGED <<accepted, committed>> /\ pc[p] = "loop"
    BY DEF IsPacketCommitted
  <2>3. CASE Skip(p, s)
    BY <1>2, <2>2, <2>3 DEF Skip, Once
  <2>4. CASE Proceed(p, s) /\ s # r
    BY <1>0, <1>2, <2>2, <2>4 DEF Proceed, Goto, Once
  <2>5. CASE Proceed(p, s) /\ s = r
    <3>1. r \notin committed /\ \A q \in Requests : ~Holds(q, r)
      BY <2>5 DEF Proceed
    <3>2. accepted[r] = 0
      BY <1>0, <1>2, <3>1 DEF Once
    <3> QED
      BY <1>0, <2>2, <2>5, <3>1, <3>2 DEF Proceed, Goto, Once
  <2> QED
    BY <2>1, <2>3, <2>4, <2>5
<1>4. CASE GetPlannedPacket(p)
  BY <1>4, <1>0, <1>2 DEF GetPlannedPacket, Goto, Once
<1>5. CASE FindSlot(p)
  BY <1>5, <1>0, <1>2 DEF FindSlot, Goto, Once
<1>6. CASE RegisterNotification(p)
  <2>1. CASE UNCHANGED accepted /\ Advance(p, "save") /\ ~QueueConfigured
    BY <1>6, <2>1, <1>0, <1>2 DEF RegisterNotification, Advance, Goto, Once
  <2>2. CASE UNCHANGED accepted /\ RetryOrAbort(p, MaxRetries)
    BY <1>6, <2>2, <1>0, <1>2
    DEF RegisterNotification, RetryOrAbort, Respond, Goto, Once
  <2>3. CASE Accept(cur[p]) /\ Advance(p, "save")
    <3>1. CASE cur[p] = r
      BY <1>6, <2>3, <3>1, <1>0, <1>2
      DEF RegisterNotification, Accept, Advance, Goto, Once
    <3>2. CASE cur[p] # r
      BY <1>6, <2>3, <3>2, <1>0, <1>2
      DEF RegisterNotification, Accept, Advance, Goto, Once
    <3> QED
      BY <3>1, <3>2
  <2>4. CASE /\ Accept(cur[p]) /\ RetryOrAbort(p, MaxRetries)
             /\ exposed' = exposed \cup {cur[p]}
    BY <1>6, <2>4, <1>0, <1>2
    DEF RegisterNotification, Accept, RetryOrAbort, Respond, Goto, Once
  <2> QED
    BY <1>6, <2>1, <2>2, <2>3, <2>4 DEF RegisterNotification
<1>7. CASE ContextDone(p)
  BY <1>7, <1>0, <1>2 DEF ContextDone, Respond, Goto, Once
<1>8. CASE SaveCommittedPacket(p)
  BY <1>8, <1>0, <1>2 DEF SaveCommittedPacket, Advance, Goto, Once
<1>9. CASE IncrementPacketCount(p)
  BY <1>9, <1>0, <1>2 DEF IncrementPacketCount, Advance, Goto, Once
<1>10. CASE UpdateThrottled(p)
  BY <1>10, <1>0, <1>2
  DEF UpdateThrottled, Done, RetryOrAbort, Respond, Goto, Once
<1>11. CASE Finish(p)
  BY <1>11, <1>0, <1>2 DEF Finish, Respond, Goto, Once
<1> QED
  BY <1>3, <1>4, <1>5, <1>6, <1>7, <1>8, <1>9, <1>10, <1>11 DEF RequestStep

LEMMA OnceNext == Typed /\ OnceEach /\ [Next]_vars => OnceEach'
<1> SUFFICES ASSUME Typed, OnceEach, [Next]_vars PROVE OnceEach'
  OBVIOUS
<1> USE DEF OnceEach, Holds, BeforeAcceptance, AtMarker, timeMgmtVars,
            taskQueueVars, redisVars, requestVars, cancelVars, historyVars
<1>0. /\ pc \in [Requests -> RequestStates]
      /\ cur \in [Requests -> HasTokens \cup {NoRemind}]
      /\ NoRemind \notin Reminds
      /\ accepted \in [Reminds -> Nat]
  BY RemindsAssumption DEF Typed, RequestsTyped, StoresTyped
<1>1. ASSUME NEW p \in Requests,
             (\E window \in Windows : Fetch(p, window)) \/ FetchFails(p)
      PROVE  OnceEach'
  BY <1>1, <1>0 DEF Fetch, FetchFails, Goto, Once
<1>2. ASSUME NEW p \in Requests, RequestStep(p) PROVE OnceEach'
  BY <1>2, OnceRequest
<1>3. ASSUME NEW c \in Cancels, CancelStep(c) \/ RemoveReminds(c) PROVE OnceEach'
  <2>1. UNCHANGED <<accepted, committed, exposed, pc, cur>>
    BY <1>3
    DEF CancelStep, HandleRemindCancelled, DeleteTask, DeletionContextDone,
        AnswerCancel, RemoveReminds
  <2> QED
    BY <2>1 DEF Once
<1>4. ASSUME NEW r \in Reminds, Deliver(r) PROVE OnceEach'
  BY <1>4 DEF Deliver, Once
<1>5. ASSUME NEW r \in Reminds, ExpireCommitted(r) PROVE OnceEach'
  BY <1>5 DEF ExpireCommitted, Once
<1>6. ASSUME NEW m \in Minutes, ExpireCount(m) \/ ExpirePlan(m) PROVE OnceEach'
  BY <1>6 DEF ExpireCount, ExpirePlan, Once
<1>7. CASE Crash
  BY <1>7, <1>0 DEF Crash, Once
<1>8. CASE UNCHANGED vars
  BY <1>8 DEF vars, Once
<1> QED
  BY <1>1, <1>2, <1>3, <1>4, <1>5, <1>6, <1>7, <1>8 DEF Next, Environment

\* Nothing but the named causes notifies a user twice: a remind the queue
\* accepted more than once was exposed.
THEOREM DuplicatesHaveCauses == Spec => []TwiceOnlyIfExposed
<1>1. Typed /\ OnceEach => TwiceOnlyIfExposed
  BY DEF Typed, StoresTyped, OnceEach, Once, TwiceOnlyIfExposed
<1> QED
  BY TypedInit, TypedNext, OnceInit, OnceNext, <1>1, PTL DEF Spec

-----------------------------------------------------------------------------
(* How far a minute can overshoot the cap.  A request enters a minute that   *)
(* no remind belongs to only when it has seen room there; the others that   *)
(* saw the same room are in flight, and there are not more of them than     *)
(* requests.                                                               *)

\* The requests that have chosen minute m and not yet counted their packet.
InFlight(m) ==
    {p \in Requests : slot[p] = m /\ pc[p] \in {"register", "save", "count"}}

Bound == RequestCapPerMinute + Cardinality(Requests) - 1

BoundedWithInFlight ==
    \A m \in Minutes : Foreign(m) =>
        /\ \A r \in Reminds : planned[r] # m
        /\ count[m] + Cardinality(InFlight(m)) <= Bound

LEMMA InFlightFinite ==
  ASSUME IsFiniteSet(Requests), NEW m
  PROVE  /\ IsFiniteSet(InFlight(m)) /\ Cardinality(InFlight(m)) \in Nat
         /\ Cardinality(InFlight(m)) <= Cardinality(Requests)
         /\ Cardinality(Requests) \in Nat
<1>1. InFlight(m) \in SUBSET Requests
  BY DEF InFlight
<1> QED
  BY <1>1, FS_Subset, FS_CardinalityType

LEMMA BoundedInit ==
  ASSUME IsFiniteSet(Requests), Init
  PROVE  BoundedWithInFlight
<1> SUFFICES ASSUME NEW m \in Minutes, Foreign(m)
             PROVE  /\ \A r \in Reminds : planned[r] # m
                    /\ count[m] + Cardinality(InFlight(m)) <= Bound
  BY DEF BoundedWithInFlight
<1>1. \A r \in Reminds : planned[r] # m
  BY DEF Init, Foreign
<1>2. InFlight(m) = {} /\ count[m] = 0
  BY DEF Init, InFlight
<1>3. RequestCapPerMinute \in Nat \ {0} /\ Cardinality(Requests) \in Nat
  BY LimitsAssumption, InFlightFinite
<1> QED
  BY <1>1, <1>2, <1>3, FS_EmptySet DEF Bound

\* Requests that leave the minute, and packets that expire, make room.
LEMMA RoomGrows ==
  ASSUME IsFiniteSet(Requests), Typed, NEW m \in Minutes,
         count[m] + Cardinality(InFlight(m)) <= Bound,
         count'[m] \in Nat, count'[m] <= count[m],
         InFlight(m)' \subseteq InFlight(m)
  PROVE  count'[m] + Cardinality(InFlight(m)') <= Bound
<1>1. /\ Cardinality(InFlight(m)') \in Nat
      /\ Cardinality(InFlight(m)') <= Cardinality(InFlight(m))
      /\ Cardinality(InFlight(m)) \in Nat
  BY InFlightFinite, FS_Subset, FS_CardinalityType
<1>2. RequestCapPerMinute \in Nat /\ Cardinality(Requests) \in Nat
  BY LimitsAssumption, InFlightFinite
<1>3. count[m] \in Nat
  BY DEF Typed, StoresTyped
<1> QED
  BY <1>1, <1>2, <1>3 DEF Bound

\* FindSlot enters a foreign minute only after it has seen room there.
LEMMA BoundedFindSlot ==
  ASSUME IsFiniteSet(Requests), Typed, BoundedWithInFlight,
         NEW p \in Requests, FindSlot(p), NEW m \in Minutes, Foreign(m)
  PROVE  count'[m] + Cardinality(InFlight(m)') <= Bound
<1>1. /\ count' = count /\ pc[p] = "probe"
      /\ pc \in [Requests -> RequestStates]
      /\ slot \in [Requests -> Minutes \cup {NoPlan}]
      /\ cur[p] \in Reminds
      /\ count[m] \in Nat
  BY RemindsAssumption
  DEF FindSlot, Typed, RequestsTyped, RequestShape, StoresTyped, redisVars
<1>2. count[m] + Cardinality(InFlight(m)) <= Bound
  BY DEF BoundedWithInFlight
<1>3. CASE ~(pc'[p] = "register" /\ slot'[p] = m)
  <2>1. InFlight(m)' \subseteq InFlight(m)
    BY <1>1, <1>3 DEF FindSlot, Goto, InFlight
  <2> QED
    BY <1>1, <1>2, <2>1, RoomGrows
<1>4. CASE pc'[p] = "register" /\ slot'[p] = m
  <2>1. Time[cur[p]] # m
    BY <1>1 DEF Foreign
  <2>2. slot[p] = m /\ TotalCount(m) < RequestCapPerMinute
    BY <1>1, <1>4, <2>1 DEF FindSlot, Goto
  <2>3. {r \in Reminds : planned[r] = m} = {}
    BY DEF BoundedWithInFlight
  <2>4. count[m] < RequestCapPerMinute
    <3>1. Cardinality({r \in Reminds : planned[r] = m}) = 0
      BY <2>3, FS_EmptySet, Zenon
    <3>2. TotalCount(m) = count[m] + 0
      BY <3>1 DEF TotalCount
    <3> QED
      BY <1>1, <2>2, <3>2
  <2>5. /\ InFlight(m)' \in SUBSET Requests
        /\ Cardinality(Requests) \in Nat
    BY InFlightFinite DEF InFlight
  <2>6. /\ Cardinality(InFlight(m)') \in Nat
        /\ Cardinality(InFlight(m)') <= Cardinality(Requests)
    BY <2>5, FS_Subset, FS_CardinalityType
  <2> QED
    BY <1>1, <2>4, <2>5, <2>6, LimitsAssumption DEF Bound
<1> QED
  BY <1>3, <1>4

\* Counting a packet takes it out of flight.
LEMMA BoundedCount ==
  ASSUME IsFiniteSet(Requests), Typed, BoundedWithInFlight,
         NEW p \in Requests, IncrementPacketCount(p),
         NEW m \in Minutes, Foreign(m)
  PROVE  count'[m] + Cardinality(InFlight(m)') <= Bound
<1>1. /\ pc[p] = "count"
      /\ pc \in [Requests -> RequestStates]
      /\ count \in [Minutes -> Nat]
      /\ slot' = slot /\ pc' = [pc EXCEPT ![p] = "flag"]
  BY DEF IncrementPacketCount, Advance, Goto, Typed, RequestsTyped, StoresTyped
<1>2. count[m] + Cardinality(InFlight(m)) <= Bound
  BY DEF BoundedWithInFlight
<1>3. InFlight(m)' = InFlight(m) \ {p}
  BY <1>1 DEF InFlight
<1>4. count' = count \/ count' = [count EXCEPT ![slot[p]] = count[slot[p]] + 1]
  BY DEF IncrementPacketCount, CountPacket
<1>5. CASE count'[m] = count[m]
  <2>1. InFlight(m)' \subseteq InFlight(m) /\ count'[m] \in Nat
    BY <1>1, <1>3, <1>5
  <2> QED
    BY <1>2, <1>5, <2>1, RoomGrows
<1>6. CASE count'[m] = count[m] + 1 /\ slot[p] = m
  <2>1. p \in InFlight(m)
    BY <1>1, <1>6 DEF InFlight
  <2>2. Cardinality(InFlight(m)') = Cardinality(InFlight(m)) - 1
    BY <1>3, <2>1, InFlightFinite, FS_RemoveElement
  <2>3. Cardinality(InFlight(m)) \in Nat /\ Cardinality(Requests) \in Nat
    BY InFlightFinite
  <2> QED
    BY <1>1, <1>2, <1>6, <2>2, <2>3, LimitsAssumption DEF Bound
<1> QED
  BY <1>1, <1>4, <1>5, <1>6

LEMMA BoundedRequest ==
  ASSUME IsFiniteSet(Requests), Typed, BoundedWithInFlight,
         NEW p \in Requests, RequestStep(p), NEW m \in Minutes, Foreign(m)
  PROVE  count'[m] + Cardinality(InFlight(m)') <= Bound
<1> USE DEF timeMgmtVars, taskQueueVars, redisVars, cancelVars, historyVars
<1>0. /\ pc \in [Requests -> RequestStates]
      /\ cur \in [Requests -> HasTokens \cup {NoRemind}]
      /\ slot \in [Requests -> Minutes \cup {NoPlan}]
      /\ count[m] \in Nat
      /\ pc[p] = "lookup" => cur[p] \in Reminds
  BY RemindsAssumption
  DEF Typed, RequestsTyped, RequestShape, StoresTyped
<1>1. /\ count[m] + Cardinality(InFlight(m)) <= Bound
      /\ \A r \in Reminds : planned[r] # m
  BY DEF BoundedWithInFlight
<1>2. CASE FindSlot(p)
  BY <1>2, BoundedFindSlot
<1>3. CASE IncrementPacketCount(p)
  BY <1>3, BoundedCount
<1>4. CASE /\ ~FindSlot(p) /\ ~IncrementPacketCount(p)
  <2>1. count' = count
    BY <1>4
    DEF RequestStep, IsPacketCommitted, GetPlannedPacket, RegisterNotification,
        ContextDone, SaveCommittedPacket, UpdateThrottled, Finish
  <2>2. InFlight(m)' \subseteq InFlight(m)
    <3>1. CASE IsPacketCommitted(p)
      BY <3>1, <1>0 DEF IsPacketCommitted, Skip, Proceed, Goto, InFlight
    <3>2. CASE GetPlannedPacket(p)
      BY <3>2, <1>0, <1>1 DEF GetPlannedPacket, Goto, InFlight
    <3>3. CASE RegisterNotification(p)
      BY <3>3, <1>0
      DEF RegisterNotification, Advance, RetryOrAbort, Respond, Goto, InFlight
    <3>4. CASE ContextDone(p)
      BY <3>4, <1>0 DEF ContextDone, Respond, Goto, InFlight
    <3>5. CASE SaveCommittedPacket(p)
      BY <3>5, <1>0 DEF SaveCommittedPacket, Advance, Goto, InFlight
    <3>6. CASE UpdateThrottled(p)
      BY <3>6, <1>0
      DEF UpdateThrottled, Done, RetryOrAbort, Respond, Goto, InFlight
    <3>7. CASE Finish(p)
      BY <3>7, <1>0 DEF Finish, Respond, Goto, InFlight
    <3> QED
      BY <1>4, <3>1, <3>2, <3>3, <3>4, <3>5, <3>6, <3>7 DEF RequestStep
  <2> QED
    BY <1>0, <1>1, <2>1, <2>2, RoomGrows
<1> QED
  BY <1>2, <1>3, <1>4

LEMMA BoundedNext ==
  ASSUME IsFiniteSet(Requests), Typed, BoundedWithInFlight, [Next]_vars
  PROVE  BoundedWithInFlight'
<1> USE DEF timeMgmtVars, taskQueueVars, redisVars, requestVars, cancelVars,
            historyVars
<1> SUFFICES ASSUME NEW m \in Minutes, Foreign(m)
             PROVE  /\ \A r \in Reminds : planned'[r] # m
                    /\ count'[m] + Cardinality(InFlight(m)') <= Bound
  BY DEF BoundedWithInFlight, Foreign, Bound
<1>0. /\ count \in [Minutes -> Nat]
      /\ pc \in [Requests -> RequestStates]
      /\ count[m] + Cardinality(InFlight(m)) <= Bound
      /\ \A r \in Reminds : planned[r] # m
      /\ m # NoPlan
  BY TimeAssumption
  DEF Typed, StoresTyped, RequestsTyped, BoundedWithInFlight, NoPlan
<1>1. \A r \in Reminds : planned'[r] # m
  <2>1. planned' = planned \/ \E n \in Minutes : ExpirePlan(n)
    BY DEF Next, vars, Fetch, FetchFails, RequestStep, IsPacketCommitted,
           GetPlannedPacket, FindSlot, RegisterNotification, ContextDone,
           SaveCommittedPacket, IncrementPacketCount, UpdateThrottled, Finish,
           CancelStep, HandleRemindCancelled, DeleteTask, DeletionContextDone,
           AnswerCancel, Environment, RemoveReminds, Deliver, ExpireCommitted, ExpireCount,
           Crash
  <2> QED
    BY <2>1, <1>0 DEF ExpirePlan
<1>2. count'[m] + Cardinality(InFlight(m)') <= Bound
  <2>1. CASE \E p \in Requests : RequestStep(p)
    BY <2>1, BoundedRequest
  <2>2. CASE /\ InFlight(m)' \subseteq InFlight(m)
             /\ count'[m] \in Nat /\ count'[m] <= count[m]
    BY <2>2, <1>0, RoomGrows
  <2>3. ASSUME NEW p \in Requests,
               (\E window \in Windows : Fetch(p, window)) \/ FetchFails(p)
        PROVE  InFlight(m)' \subseteq InFlight(m) /\ count' = count
    BY <2>3, <1>0 DEF Fetch, FetchFails, Goto, InFlight
  <2>4. ASSUME NEW c \in Cancels, CancelStep(c)
        PROVE  InFlight(m)' = InFlight(m) /\ count' = count
    BY <2>4
    DEF CancelStep, HandleRemindCancelled, DeleteTask, DeletionContextDone,
        AnswerCancel, InFlight
  <2>5. CASE Environment
    <3>1. InFlight(m)' \subseteq InFlight(m)
      BY <2>5
      DEF Environment, RemoveReminds, Deliver, ExpireCommitted, ExpireCount,
          ExpirePlan, Crash, InFlight
    <3>2. count' = count \/ \E n \in Minutes : ExpireCount(n)
      BY <2>5
      DEF Environment, RemoveReminds, Deliver, ExpireCommitted, ExpirePlan, Crash
    <3>3. count'[m] \in Nat /\ count'[m] <= count[m]
      BY <3>2, <1>0 DEF ExpireCount
    <3> QED
      BY <3>1, <3>3, <2>2
  <2>6. CASE UNCHANGED vars
    BY <2>6, <2>2, <1>0 DEF vars, InFlight
  <2> QED
    BY <2>1, <2>2, <2>3, <2>4, <2>5, <2>6, <1>0 DEF Next
<1> QED
  BY <1>1, <1>2

\* With finitely many concurrent requests, a minute that no remind belongs to
\* or was planned in exceeds the cap by less than their number.
THEOREM OvershootIsBounded ==
  ASSUME IsFiniteSet(Requests)
  PROVE  Spec => []OvershootBounded
<1>1. Typed /\ BoundedWithInFlight => OvershootBounded
  <2> SUFFICES ASSUME Typed, BoundedWithInFlight, NEW m \in Minutes, Foreign(m)
               PROVE  count[m] <= Bound
    BY DEF OvershootBounded, Bound
  <2>1. /\ count[m] \in Nat /\ Cardinality(InFlight(m)) \in Nat
        /\ RequestCapPerMinute \in Nat /\ Cardinality(Requests) \in Nat
    BY InFlightFinite, LimitsAssumption DEF Typed, StoresTyped
  <2> QED
    BY <2>1 DEF BoundedWithInFlight, Bound
<1>2. Init => BoundedWithInFlight
  BY BoundedInit
<1>3. Typed /\ BoundedWithInFlight /\ [Next]_vars => BoundedWithInFlight'
  BY BoundedNext
<1> QED
  BY TypedInit, TypedNext, <1>1, <1>2, <1>3, PTL DEF Spec

-----------------------------------------------------------------------------
(* The counters and the markers.  A request that has written its marker     *)
(* and not yet counted its packet is counted by hand.                      *)

Counting == {p \in Requests : pc[p] = "count"}
Counted  == SumFunctionOnSet(count, Minutes) + Cardinality(Counting)

\* A remind that is held has no marker yet, unless it is exposed.
Unmarked ==
    \A r \in Reminds \ exposed, p \in Requests : Holds(p, r) => r \notin committed

LEMMA UnmarkedInit == Init => Unmarked
  BY DEF Init, Unmarked

LEMMA UnmarkedRequest ==
  ASSUME Typed, OnceEach, Unmarked, NEW p \in Requests, RequestStep(p)
  PROVE  Unmarked'
<1> USE DEF Unmarked, Holds, timeMgmtVars, taskQueueVars, redisVars, historyVars
<1>0. /\ pc \in [Requests -> RequestStates]
      /\ cur \in [Requests -> HasTokens \cup {NoRemind}]
      /\ HasTokens \subseteq Reminds
      /\ NoRemind \notin Reminds
  BY RemindsAssumption DEF Typed, RequestsTyped
<1>1. CASE IsPacketCommitted(p)
  BY <1>0, <1>1 DEF IsPacketCommitted, Skip, Proceed, Goto
<1>2. CASE GetPlannedPacket(p) \/ FindSlot(p)
  BY <1>0, <1>2 DEF GetPlannedPacket, FindSlot, Goto
<1>3. CASE RegisterNotification(p) \/ ContextDone(p)
  BY <1>0, <1>3
  DEF RegisterNotification, ContextDone, Advance, RetryOrAbort, Respond, Goto
<1>4. CASE SaveCommittedPacket(p)
  <2>1. \A r \in Reminds \ exposed, q \in Requests :
           Holds(p, r) /\ Holds(q, r) => p = q
    BY DEF OnceEach, Once
  <2> QED
    BY <1>0, <1>4, <2>1 DEF SaveCommittedPacket, Advance, Goto
<1>5. CASE IncrementPacketCount(p) \/ UpdateThrottled(p) \/ Finish(p)
  BY <1>0, <1>5
  DEF IncrementPacketCount, UpdateThrottled, Finish, Advance, Done,
      RetryOrAbort, Respond, Goto
<1> QED
  BY <1>1, <1>2, <1>3, <1>4, <1>5 DEF RequestStep

LEMMA UnmarkedNext == Typed /\ OnceEach /\ Unmarked /\ [Next]_vars => Unmarked'
<1> SUFFICES ASSUME Typed, OnceEach, Unmarked, [Next]_vars PROVE Unmarked'
  OBVIOUS
<1> USE DEF Unmarked, Holds, timeMgmtVars, taskQueueVars, redisVars,
            requestVars, cancelVars, historyVars
<1>0. pc \in [Requests -> RequestStates]
  BY DEF Typed, RequestsTyped
<1>1. ASSUME NEW p \in Requests,
             (\E window \in Windows : Fetch(p, window)) \/ FetchFails(p)
      PROVE  Unmarked'
  BY <1>0, <1>1 DEF Fetch, FetchFails, Goto
<1>2. ASSUME NEW p \in Requests, RequestStep(p) PROVE Unmarked'
  BY <1>2, UnmarkedRequest
<1>3. ASSUME NEW c \in Cancels, CancelStep(c) PROVE Unmarked'
  BY <1>3 DEF CancelStep, HandleRemindCancelled, DeleteTask, DeletionContextDone,
              AnswerCancel
<1>4. CASE Environment
  BY <1>4
  DEF Environment, RemoveReminds, Deliver, ExpireCommitted, ExpireCount,
      ExpirePlan, Crash
<1>5. CASE UNCHANGED vars
  BY <1>5 DEF vars
<1> QED
  BY <1>1, <1>2, <1>3, <1>4, <1>5 DEF Next

Matched ==
    /\ IsFiniteSet(committed)
    /\ faults = 0 =>
          /\ Counted >= Cardinality(committed)
          /\ exposed = {} => Counted = Cardinality(committed)

LEMMA CountingFinite ==
  ASSUME IsFiniteSet(Requests)
  PROVE  IsFiniteSet(Counting) /\ Cardinality(Counting) \in Nat
<1>1. Counting \in SUBSET Requests
  BY DEF Counting
<1> QED
  BY <1>1, FS_Subset, FS_CardinalityType

LEMMA CountsAddUp ==
  ASSUME IsFiniteSet(Minutes), NEW f \in [Minutes -> Nat]
  PROVE  SumFunctionOnSet(f, Minutes) \in Nat
  BY SumNat

\* All steps but two leave the counters, the markers and the packets between
\* them alone, or are faults.
LEMMA OthersCountNothing ==
  ASSUME Typed, [Next]_vars,
         ~ \E p \in Requests : SaveCommittedPacket(p) \/ IncrementPacketCount(p)
  PROVE  /\ committed' \subseteq committed
         /\ faults' = 0 => faults = 0 /\ UNCHANGED <<count, committed, Counting>>
         /\ exposed \subseteq exposed'
<1> USE DEF Counting, Fault, NoFault, timeMgmtVars, taskQueueVars, redisVars,
            requestVars, cancelVars, historyVars
<1>0. pc \in [Requests -> RequestStates] /\ faults \in Nat
  BY LimitsAssumption DEF Typed, RequestsTyped, StoresTyped
<1>1. ASSUME NEW p \in Requests,
             (\E window \in Windows : Fetch(p, window)) \/ FetchFails(p)
      PROVE  /\ UNCHANGED <<count, committed, Counting, exposed>>
             /\ faults' = 0 => faults = 0
  BY <1>0, <1>1 DEF Fetch, FetchFails, Goto
<1>2. ASSUME NEW p \in Requests, RequestStep(p)
      PROVE  /\ UNCHANGED <<count, committed, Counting>>
             /\ exposed \subseteq exposed'
             /\ faults' = 0 => faults = 0
  <2>1. CASE IsPacketCommitted(p)
    BY <1>0, <2>1 DEF IsPacketCommitted, Skip, Proceed, Goto
  <2>2. CASE GetPlannedPacket(p) \/ FindSlot(p)
    BY <1>0, <2>2 DEF GetPlannedPacket, FindSlot, Goto
  <2>3. CASE RegisterNotification(p) \/ ContextDone(p)
    BY <1>0, <2>3
    DEF RegisterNotification, ContextDone, Advance, RetryOrAbort, Respond, Goto
  <2>4. CASE UpdateThrottled(p) \/ Finish(p)
    BY <1>0, <2>4
    DEF UpdateThrottled, Finish, Done, RetryOrAbort, Respond, Goto
  <2> QED
    BY <1>2, <2>1, <2>2, <2>3, <2>4 DEF RequestStep
<1>3. ASSUME NEW c \in Cancels, CancelStep(c)
      PROVE  /\ UNCHANGED <<count, committed, Counting, exposed>>
             /\ faults' = 0 => faults = 0
  <2>1. CASE HandleRemindCancelled(c) \/ DeletionContextDone(c) \/ AnswerCancel(c)
    BY <1>0, <2>1 DEF HandleRemindCancelled, DeletionContextDone, AnswerCancel
  <2>2. CASE DeleteTask(c)
    <3>1. UNCHANGED <<count, committed, pc, exposed>>
      BY <2>2 DEF DeleteTask
    <3>2. NoFault \/ Fault
      BY <2>2 DEF DeleteTask
    <3> QED
      BY <1>0, <3>1, <3>2
  <2> QED
    BY <1>3, <2>1, <2>2 DEF CancelStep
<1>4. CASE Environment
  BY <1>0, <1>4
  DEF Environment, RemoveReminds, Deliver, ExpireCommitted, ExpireCount,
      ExpirePlan, Crash
<1>5. CASE UNCHANGED vars
  BY <1>5 DEF vars
<1> QED
  BY <1>1, <1>2, <1>3, <1>4, <1>5 DEF Next

\* A marker is written: its request is the one more that counts by hand.
LEMMA MarkerIsCounted ==
  ASSUME IsFiniteSet(Requests), IsFiniteSet(Minutes), Typed, Typed', Unmarked,
         Matched, NEW p \in Requests, SaveCommittedPacket(p)
  PROVE  Matched'
<1>1. /\ pc[p] = "save" /\ pc \in [Requests -> RequestStates]
      /\ pc' = [pc EXCEPT ![p] = "count"]
      /\ count' = count /\ count \in [Minutes -> Nat] /\ faults \in Nat
      /\ cur[p] \in Reminds
      /\ exposed \subseteq Reminds
  BY RemindsAssumption, LimitsAssumption
  DEF SaveCommittedPacket, Advance, Goto, Typed, RequestsTyped, RequestShape,
      StoresTyped
<1>2. \/ committed' = committed \cup {cur[p]}
      \/ committed' = committed /\ faults' # 0
  <2>1. CASE committed' = committed \cup {cur[p]}
    BY <2>1
  <2>2. CASE Fault /\ UNCHANGED committed
    BY <1>1, <2>2 DEF Fault
  <2> QED
    BY <2>1, <2>2 DEF SaveCommittedPacket
<1>3. IsFiniteSet(committed')
  BY <1>2, FS_AddElement DEF Matched
<1>4. ASSUME faults' = 0
      PROVE  /\ Counted' >= Cardinality(committed')
             /\ exposed' = {} => Counted' = Cardinality(committed')
  <2>1. /\ committed' = committed \cup {cur[p]}
        /\ exposed' = exposed /\ faults = 0
    BY <1>1, <1>4 DEF SaveCommittedPacket, Fault, NoFault
  <2>2. Cardinality(committed') =
           IF cur[p] \in committed THEN Cardinality(committed) ELSE Cardinality(committed) + 1
    BY <2>1, FS_AddElement DEF Matched
  <2>3. Counting' = Counting \cup {p} /\ p \notin Counting
    BY <1>1 DEF Counting
  <2>4. Cardinality(Counting') = Cardinality(Counting) + 1
    BY <2>3, CountingFinite, FS_AddElement
  <2>5. Cardinality(committed) \in Nat
    BY FS_CardinalityType DEF Matched
  <2>6. exposed = {} => cur[p] \notin committed
    BY <1>1 DEF Unmarked, Holds
  <2>7. SumFunctionOnSet(count, Minutes) \in Nat /\ Cardinality(Counting) \in Nat
    BY <1>1, CountsAddUp, CountingFinite
  <2> QED
    BY <1>1, <2>1, <2>2, <2>4, <2>5, <2>6, <2>7
    DEF Matched, Counted
<1> QED
  BY <1>3, <1>4 DEF Matched

\* A packet is counted: the counter takes over from the request.
LEMMA CounterTakesOver ==
  ASSUME IsFiniteSet(Requests), IsFiniteSet(Minutes), Typed, Typed', Matched,
         NEW p \in Requests, IncrementPacketCount(p)
  PROVE  Matched'
<1>1. /\ pc[p] = "count" /\ pc \in [Requests -> RequestStates]
      /\ pc' = [pc EXCEPT ![p] = "flag"]
      /\ count \in [Minutes -> Nat] /\ slot[p] \in Minutes
      /\ UNCHANGED <<committed, exposed>>
      /\ faults \in Nat
  BY LimitsAssumption
  DEF IncrementPacketCount, Advance, Goto, Typed, RequestsTyped, RequestShape,
      StoresTyped, historyVars
<1>2. ASSUME faults' = 0
      PROVE  /\ Counted' >= Cardinality(committed')
             /\ exposed' = {} => Counted' = Cardinality(committed')
  <2>1. faults = 0 /\ count' = [count EXCEPT ![slot[p]] = @ + 1]
    BY <1>1, <1>2 DEF IncrementPacketCount, CountPacket, Fault, NoFault
  <2>2. SumFunctionOnSet(count', Minutes) =
           SumFunctionOnSet(count, Minutes) - count[slot[p]] + count'[slot[p]]
    <3>1. \A m \in Minutes : count[m] \in Nat /\ count'[m] \in Nat
      BY <1>1, <2>1
    <3>2. \A m \in Minutes \ {slot[p]} : count[m] = count'[m]
      BY <1>1, <2>1
    <3> QED
      BY <1>1, <3>1, <3>2, SumUpdate
  <2>3. SumFunctionOnSet(count, Minutes) \in Nat /\ Cardinality(Counting) \in Nat
    BY <1>1, CountsAddUp, CountingFinite
  <2>4. SumFunctionOnSet(count', Minutes) = SumFunctionOnSet(count, Minutes) + 1
    BY <1>1, <2>1, <2>2, <2>3
  <2>6. Counting' = Counting \ {p} /\ p \in Counting
    BY <1>1 DEF Counting
  <2>7. Cardinality(Counting') = Cardinality(Counting) - 1
    BY <2>6, CountingFinite, FS_RemoveElement
  <2>8. Cardinality(committed) \in Nat
    BY FS_CardinalityType DEF Matched
  <2> QED
    BY <1>1, <2>1, <2>3, <2>4, <2>7, <2>8
    DEF Matched, Counted
<1> QED
  BY <1>1, <1>2 DEF Matched

LEMMA MatchedInit ==
  ASSUME IsFiniteSet(Minutes), Init
  PROVE  Matched
<1>1. count = [m \in Minutes |-> 0] /\ committed = {} /\ Counting = {}
  BY DEF Init, Counting
<1>2. SumFunctionOnSet(count, Minutes) = 0
  BY <1>1, SumZero
<1> QED
  BY <1>1, <1>2, FS_EmptySet DEF Matched, Counted

LEMMA MatchedNext ==
  ASSUME IsFiniteSet(Requests), IsFiniteSet(Minutes), Typed, Typed', Unmarked,
         Matched, [Next]_vars
  PROVE  Matched'
<1>1. CASE \E p \in Requests : SaveCommittedPacket(p) \/ IncrementPacketCount(p)
  BY <1>1, MarkerIsCounted, CounterTakesOver
<1>2. CASE ~ \E p \in Requests : SaveCommittedPacket(p) \/ IncrementPacketCount(p)
  <2>1. /\ committed' \subseteq committed
        /\ faults' = 0 => faults = 0 /\ UNCHANGED <<count, committed, Counting>>
        /\ exposed \subseteq exposed'
    BY <1>2, OthersCountNothing
  <2>2. IsFiniteSet(committed')
    BY <2>1, FS_Subset DEF Matched
  <2> QED
    BY <2>1, <2>2 DEF Matched, Counted
<1> QED
  BY <1>1, <1>2

\* Without faults the per-minute counters cover the markers, and equal them as
\* long as no remind was exposed, for finitely many requests and minutes.
THEOREM CountersMatch ==
  ASSUME IsFiniteSet(Requests), IsFiniteSet(Minutes)
  PROVE  Spec => []CountersMatchMarkers
<1>1. Init => Matched
  BY MatchedInit
<1>2. Typed /\ Typed' /\ Unmarked /\ Matched /\ [Next]_vars => Matched'
  BY MatchedNext
<1>3. Typed /\ Matched => CountersMatchMarkers
  <2>1. Typed => FoldFunction(+, 0, count) = SumFunctionOnSet(count, Minutes)
    BY FoldIsSum DEF Typed, StoresTyped
  <2> QED
    BY <2>1 DEF Matched, Counted, Counting, CountersMatchMarkers
<1> QED
  BY TypedInit, TypedNext, OnceInit, OnceNext, UnmarkedInit, UnmarkedNext,
     <1>1, <1>2, <1>3, PTL DEF Spec
=============================================================================
