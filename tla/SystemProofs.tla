---------------------------- MODULE SystemProofs ----------------------------
(* Proofs about System, for every value of its constants.                  *)
EXTENDS System, PlanningProofs

-----------------------------------------------------------------------------
(* What an answer 200 promises.  A remind of the commit window is followed *)
(* from the arrival of a request to its answer: until the commit phase it  *)
(* can be found by it, from then on it is to be committed or in the queue. *)

Shape ==
    /\ stage \in [Planners -> Stages]
    /\ call = [p \in Planners |-> call[p]]
    /\ left \in [Planners -> SUBSET Reminds]
    /\ due \in [Planners -> SUBSET Reminds]
    /\ known \subseteq Reminds
    /\ scheduled = [r \in Reminds |-> scheduled[r]]

Followed(p) ==
    /\ stage[p] \in {"plan", "planning", "commit"} => \A r \in due[p] :
          r \in known \cup deleted /\ Within(r, call[p].start, call[p].commitEnd)
    /\ stage[p] = "committing" =>
          due[p] \cap HasTokens \subseteq left[p] \cup Queued \cup deleted

Promised ==
    /\ Shape
    /\ throttled \subseteq Queued /\ committed \subseteq Queued
    /\ DueIsQueued
    /\ \A p \in Planners : Followed(p)

LEMMA PromisedInit == SystemInit => Promised
  BY SystemAssumption, PlanningAssumption
  DEF SystemInit, Init, Nowhere, Promised, Shape, Followed, DueIsQueued, Stages

\* A remind that is registered is in the queue, and others stay there.
LEMMA RegisteredIsQueued ==
  ASSUME scheduled = [x \in Reminds |-> scheduled[x]], NEW r \in Reminds,
         NEW slot \in SlotsRead(r), scheduled' = [scheduled EXCEPT ![r] = slot]
  PROVE  /\ Queued' = Queued \cup {r}
         /\ scheduled' = [x \in Reminds |-> scheduled'[x]]
<1>1. slot # NoSlot
  <2>1. ASSUME slot \in SlideMinutes(r) PROVE slot # NoSlot
    BY <2>1, SlideMinutesReach, PlanningAssumption DEF NoSlot
  <2> QED
    BY <2>1, SlotsReadAre
<1>2. /\ scheduled'[r] = slot
      /\ \A x \in Reminds \ {r} : scheduled'[x] = scheduled[x]
  OBVIOUS
<1> QED
  BY <1>1, <1>2 DEF Queued

\* The outcomes of a registration, for the queue.
LEMMA CommitQueues ==
  ASSUME Promised, NEW p \in Planners, NEW r \in Reminds, CommitOne(p, r) \/ CommitFails(p, r)
  PROVE  /\ Queued \subseteq Queued' /\ scheduled' = [x \in Reminds |-> scheduled'[x]]
         /\ throttled' \subseteq Queued' /\ committed' \subseteq Queued'
         /\ CommitOne(p, r) => r \in Queued'
<1>1. ASSUME NEW slot \in SlotsRead(r), NEW lost, CommitPacket(r, slot, lost),
             SetFlag(r) \/ UNCHANGED throttled
      PROVE  /\ Queued' = Queued \cup {r} /\ scheduled' = [x \in Reminds |-> scheduled'[x]]
             /\ throttled' \subseteq Queued' /\ committed' \subseteq Queued'
  <2>1. Queued' = Queued \cup {r} /\ scheduled' = [x \in Reminds |-> scheduled'[x]]
    BY <1>1, RegisteredIsQueued DEF CommitPacket, Promised, Shape
  <2>2. throttled' \subseteq throttled \cup {r} /\ committed' \subseteq committed \cup {r}
    BY <1>1 DEF CommitPacket, SetFlag
  <2> QED
    BY <2>1, <2>2 DEF Promised
<1>2. CASE CommitOne(p, r)
  <2>1. PICK slot \in SlotsRead(r), lost \in SUBSET Writes : CommitPacket(r, slot, lost)
    BY <1>2 DEF CommitOne
  <2>2. SetFlag(r)
    BY <1>2 DEF CommitOne
  <2> QED
    BY <1>1, <2>1, <2>2
<1>3. CASE CommitFails(p, r) /\ FlagFails(r)
  <2>1. PICK slot \in SlotsRead(r), lost \in SUBSET Writes : CommitPacket(r, slot, lost)
    BY <1>3 DEF FlagFails
  <2>2. SetFlag(r) \/ UNCHANGED throttled
    BY <1>3 DEF FlagFails
  <2> QED
    BY <1>1, <2>1, <2>2
<1>4. CASE ~CommitOne(p, r) /\ CommitFails(p, r) /\ RegistrationFails(r)
  <2>1. UNCHANGED <<committed, throttled>>
    BY <1>4 DEF RegistrationFails
  <2>2. CASE UNCHANGED scheduled
    <3>1. Queued' = Queued
      BY <2>2 DEF Queued
    <3> QED
      BY <1>4, <2>1, <2>2, <3>1 DEF Promised, Shape
  <2>3. CASE \E slot \in SlotsRead(r) : scheduled' = [scheduled EXCEPT ![r] = slot]
    BY <1>4, <2>1, <2>3, RegisteredIsQueued DEF Promised, Shape
  <2> QED
    BY <1>4, <2>2, <2>3 DEF RegistrationFails
<1> QED
  BY <1>2, <1>3, <1>4 DEF CommitFails

\* A step that leaves the requests where they are, but for reminds that are set
\* or deleted, keys that expire and requests that move on before their commit
\* phase.
LEMMA PromisedKept ==
  ASSUME Promised, Shape', UNCHANGED <<call, left, due, kept, scheduled>>,
         known \cup deleted \subseteq known' \cup deleted', deleted \subseteq deleted',
         committed' \subseteq committed, throttled' = throttled,
         \A p \in Planners : \/ stage'[p] = stage[p]
                             \/ {stage[p], stage'[p]} \subseteq {"plan", "planning", "commit"}
  PROVE  Promised'
<1>1. Queued' = Queued
  BY DEF Queued
<1> QED
  BY <1>1 DEF Promised, Followed, DueIsQueued, Within

\* The planning phase and what happens around the requests.
LEMMA PromisedPlanning ==
  ASSUME Promised, NEW p \in Planners,
         StartPlanning(p) \/ PlanningFails(p) \/ PlanningStep(p) \/ PlanningReturns(p)
  PROVE  Promised'
<1> USE DEF Promised, Shape, Stages, Goto, planningVars, redisVars, requestVars,
            historyVars, recordVars
<1>1. CASE StartPlanning(p)
  <2>1. UNCHANGED <<known, committed, scheduled, throttled, deleted, call, left, due, kept>>
    BY <1>1 DEF StartPlanning, Fetch
  <2>2. stage' = [stage EXCEPT ![p] = "planning"] /\ stage[p] = "plan"
    BY <1>1 DEF StartPlanning
  <2> QED
    BY <2>1, <2>2, PromisedKept
<1>2. CASE PlanningFails(p)
  <2>1. UNCHANGED <<known, committed, scheduled, throttled, deleted, call, left, due, kept>>
    BY <1>2 DEF PlanningFails
  <2>2. stage' = [stage EXCEPT ![p] = "commit"] /\ stage[p] = "plan"
    BY <1>2 DEF PlanningFails
  <2> QED
    BY <2>1, <2>2, PromisedKept
<1>3. CASE PlanningStep(p)
  <2>1. UNCHANGED <<known, committed, scheduled>>
    BY <1>3 DEF PlanningStep, MergeWithPreviousPlans, CalculateTargets,
                PrepareSlots, Place, SavePlan
  <2>2. UNCHANGED <<throttled, deleted, call, left, due, kept, stage>>
    BY <1>3 DEF PlanningStep
  <2> QED
    BY <2>1, <2>2, PromisedKept
<1>4. CASE PlanningReturns(p)
  <2>1. UNCHANGED <<known, committed, scheduled, throttled, deleted, call, left, due, kept>>
    BY <1>4 DEF PlanningReturns, Return
  <2>2. stage' = [stage EXCEPT ![p] = "commit"] /\ stage[p] = "planning"
    BY <1>4 DEF PlanningReturns, Goto
  <2> QED
    BY <2>1, <2>2, PromisedKept
<1> QED
  BY <1>1, <1>2, <1>3, <1>4

LEMMA PromisedAround ==
  ASSUME Promised,
         \/ Tick
         \/ \E r \in Reminds : UserSetsRemind(r) \/ UserDeletesRemind(r) \/ MarkerExpires(r)
         \/ \E m \in Minutes : CountExpires(m) \/ PlanExpires(m)
         \/ Restart
  PROVE  Promised'
<1> USE DEF Promised, Shape, redisVars, requestVars, historyVars
<1>1. CASE Tick
  BY <1>1, PromisedKept DEF Tick, vars
<1>2. ASSUME NEW r \in Reminds, UserSetsRemind(r) PROVE Promised'
  BY <1>2, PromisedKept DEF UserSetsRemind, SetRemind
<1>3. ASSUME NEW r \in Reminds, UserDeletesRemind(r) PROVE Promised'
  BY <1>3, PromisedKept DEF UserDeletesRemind
<1>4. ASSUME NEW r \in Reminds, MarkerExpires(r) PROVE Promised'
  BY <1>4, PromisedKept DEF MarkerExpires, ExpireCommitted
<1>5. ASSUME NEW m \in Minutes, CountExpires(m) \/ PlanExpires(m) PROVE Promised'
  BY <1>5, PromisedKept DEF CountExpires, ExpireCount, PlanExpires, ExpirePlan
<1>6. CASE Restart
  BY <1>6 DEF Restart, Crash, Stages, Followed, DueIsQueued, Queued
<1> QED
  BY <1>1, <1>2, <1>3, <1>4, <1>5, <1>6

\* The arrival: the window that is promised is the one the request will look at.
LEMMA PromisedBegin ==
  ASSUME Promised, NEW p \in Planners, NEW c \in Calls, Begin(p, c)
  PROVE  Promised'
<1> USE DEF Promised, Shape, Begin, Goto, vars, redisVars
<1>1. Shape'
  BY DEF Stages, PromisedWindow
<1>2. Queued' = Queued
  BY DEF Queued
<1>3. ASSUME NEW q \in Planners, q # p PROVE Followed(q)'
  BY <1>2, <1>3 DEF Followed
<1>4. Followed(p)'
  BY DEF Followed, Started, PromisedWindow, Within
<1> QED
  BY <1>1, <1>2, <1>3, <1>4 DEF DueIsQueued

\* The commit phase of one request.
LEMMA PromisedCommit ==
  ASSUME Promised, NEW p \in Planners,
         \/ StartCommit(p)
         \/ \E r \in Reminds : Skip(p, r) \/ CommitOne(p, r) \/ CommitFails(p, r)
         \/ Answer(p)
  PROVE  Promised'
<1>1. CASE StartCommit(p)
  <2> USE <1>1 DEF Promised, Shape, StartCommit, planningVars, redisVars, historyVars
  <2>0. Queued' = Queued
    BY DEF Queued
  <2>1. Shape' /\ throttled' \subseteq Queued' /\ committed' \subseteq Queued' /\ DueIsQueued'
    BY <2>0 DEF ToCommit, EndRequest, Goto, Stages, DueIsQueued
  <2>2. ASSUME NEW q \in Planners, q # p PROVE Followed(q)'
    BY <2>0, <2>2 DEF Followed, EndRequest, Goto
  <2>3. Followed(p)'
    <3>1. CASE left' = [left EXCEPT ![p] = ToCommit(p)] /\ UNCHANGED due
      <4>1. due[p] \subseteq ToCommit(p) \cup throttled \cup deleted
        BY DEF Followed, ToCommit, Stages
      <4> QED
        BY <2>0, <3>1, <4>1 DEF Followed, Goto, EndRequest
    <3>2. CASE EndRequest(p)
      BY <3>2 DEF EndRequest, Goto, Followed
    <3> QED
      BY <3>1, <3>2
  <2> QED
    BY <2>1, <2>2, <2>3
<1>2. ASSUME NEW r \in Reminds, Skip(p, r) PROVE Promised'
  <2> USE <1>2 DEF Promised, Shape, Skip, vars, redisVars, historyVars
  <2>0. Queued' = Queued
    BY DEF Queued
  <2>1. Shape' /\ throttled' \subseteq Queued' /\ committed' \subseteq Queued' /\ DueIsQueued'
    BY <2>0 DEF DueIsQueued
  <2>2. ASSUME NEW q \in Planners PROVE Followed(q)'
    BY <2>0 DEF Followed
  <2> QED
    BY <2>1, <2>2
<1>3. ASSUME NEW r \in Reminds, CommitOne(p, r) PROVE Promised'
  <2>0. /\ Queued \subseteq Queued' /\ scheduled' = [x \in Reminds |-> scheduled'[x]]
        /\ throttled' \subseteq Queued' /\ committed' \subseteq Queued' /\ r \in Queued'
    BY <1>3, CommitQueues
  <2>1. /\ UNCHANGED <<known, deleted, stage, call, due, kept>>
        /\ left' = [left EXCEPT ![p] = @ \ {r}]
    BY <1>3 DEF CommitOne
  <2>2. Shape' /\ DueIsQueued'
    BY <2>0, <2>1 DEF Promised, Shape, DueIsQueued
  <2>3. ASSUME NEW q \in Planners PROVE Followed(q)'
    BY <2>0, <2>1 DEF Promised, Shape, Followed
  <2> QED
    BY <2>0, <2>2, <2>3 DEF Promised
<1>4. ASSUME NEW r \in Reminds, CommitFails(p, r) PROVE Promised'
  <2>0. /\ Queued \subseteq Queued' /\ scheduled' = [x \in Reminds |-> scheduled'[x]]
        /\ throttled' \subseteq Queued' /\ committed' \subseteq Queued'
    BY <1>4, CommitQueues
  <2>1. UNCHANGED <<known, deleted, kept>> /\ EndRequest(p)
    BY <1>4 DEF CommitFails, historyVars
  <2>2. Shape' /\ DueIsQueued'
    BY <2>0, <2>1 DEF Promised, Shape, DueIsQueued, EndRequest, Goto, Stages
  <2>3. ASSUME NEW q \in Planners PROVE Followed(q)'
    BY <2>0, <2>1 DEF Promised, Shape, Followed, EndRequest, Goto
  <2> QED
    BY <2>0, <2>2, <2>3 DEF Promised
<1>5. CASE Answer(p)
  <2> USE <1>5 DEF Promised, Shape, Answer, planningVars, redisVars, EndRequest, Goto
  <2>0. Queued' = Queued
    BY DEF Queued
  <2>1. due[p] \cap HasTokens \subseteq Queued \cup deleted
    BY DEF Followed
  <2>2. Shape' /\ throttled' \subseteq Queued' /\ committed' \subseteq Queued' /\ DueIsQueued'
    BY <2>0, <2>1 DEF DueIsQueued, Stages
  <2>3. ASSUME NEW q \in Planners PROVE Followed(q)'
    BY <2>0 DEF Followed
  <2> QED
    BY <2>2, <2>3
<1> QED
  BY <1>1, <1>2, <1>3, <1>4, <1>5

LEMMA PromisedNext == Promised /\ [SystemNext]_systemVars => Promised'
<1> SUFFICES ASSUME Promised, [SystemNext]_systemVars PROVE Promised'
  OBVIOUS
<1>1. CASE UNCHANGED systemVars
  BY <1>1, PromisedKept
  DEF systemVars, vars, redisVars, requestVars, historyVars, Promised, Shape
<1> QED
  BY <1>1, PromisedPlanning, PromisedAround, PromisedBegin, PromisedCommit
  DEF SystemNext

\* A request answered with 200 has seen to it that every remind its commit window
\* (throttle_handler.go:158) held when it arrived is in the task queue, but for
\* those without tokens (throttle/service.go:127) and those deleted since:
\* whatever became of its planning phase, of markers, counts and flags, and
\* whatever other requests did meanwhile.
THEOREM OkQueuesTheWindow == SystemSpec => []DueIsQueued
<1>1. Promised => DueIsQueued
  BY DEF Promised
<1> QED
  BY <1>1, PromisedInit, PromisedNext, PTL DEF SystemSpec

-----------------------------------------------------------------------------
(* The type invariant.                                                     *)

Calling == [start : Nat, planEnd : Nat, commitEnd : Nat]

RequestsTyped ==
    /\ stage \in [Planners -> Stages]
    /\ call \in [Planners -> Calling]
    /\ left \in [Planners -> SUBSET Reminds]
    /\ took \in [Planners -> [Reminds -> Slots]]

RecordsTyped ==
    /\ recorder \in Recorders
    /\ after \in [Minutes -> Nat]
    /\ uncounted \in [Minutes -> Nat]

FlagsTyped == throttled \subseteq Reminds /\ deleted \subseteq Reminds

\* A planner is in its planning phase when its request is, and the planning
\* window of a request lies in the minutes there are.
InStep(p) ==
    /\ stage[p] = "planning" <=> pc[p] # "idle"
    /\ call[p].start .. (call[p].planEnd - 1) \subseteq Minutes

SystemTyped ==
    /\ Typed
    /\ now \in 0 .. LastMinute
    /\ RequestsTyped /\ RecordsTyped /\ FlagsTyped
    /\ \A p \in Planners : InStep(p)

LEMMA SystemTypedMeans == SystemTyped => SystemTypeOK
<1> SUFFICES ASSUME SystemTyped PROVE SystemTypeOK
  OBVIOUS
<1>1. TypeOK
  BY TypedIsTypeOK DEF SystemTyped
<1> QED
  BY <1>1 DEF SystemTyped, RequestsTyped, RecordsTyped, FlagsTyped, InStep, SystemTypeOK

LEMMA NoCallTyped ==
  NoCall \in Calling /\ NoCall.start .. (NoCall.planEnd - 1) = {}
  BY DEF NoCall, Calling

LEMMA SystemTypedInit == SystemInit => SystemTyped
<1> SUFFICES ASSUME SystemInit PROVE SystemTyped
  OBVIOUS
<1>1. Typed
  BY TypedInit DEF SystemInit
<1>2. RequestsTyped /\ RecordsTyped /\ FlagsTyped
  BY NoCallTyped, NowhereTyped DEF SystemInit, RequestsTyped, RecordsTyped, FlagsTyped, Stages
<1>3. \A p \in Planners : InStep(p)
  BY NoCallTyped DEF SystemInit, Init, InStep
<1> QED
  BY <1>1, <1>2, <1>3, SystemAssumption DEF SystemInit, SystemTyped

\* Requests that a step leaves alone.
LEMMA InStepKept ==
  ASSUME SystemTyped, NEW q \in Planners,
         stage'[q] = stage[q], call'[q] = call[q], pc'[q] = pc[q]
  PROVE  InStep(q)'
  BY DEF SystemTyped, InStep

LEMMA TypedUnchanged ==
  ASSUME SystemTyped, UNCHANGED planningVars, FaultsTyped'
  PROVE  Typed'
<1>1. StoreTyped' /\ LocalsTyped'
  BY DEF SystemTyped, Typed, StoreTyped, LocalsTyped, planningVars, redisVars, discoveryVars,
         plannerVars
<1>2. ASSUME NEW q \in Planners PROVE (WindowTyped(q) /\ ContextTyped(q))'
  BY OthersTyped DEF SystemTyped, planningVars, plannerVars
<1> QED
  BY <1>1, <1>2 DEF Typed

\* The times a call stands for.
LEMMA StartedTyped ==
  ASSUME SystemTyped, NEW c \in Calls
  PROVE  /\ Started(c) \in Calling
         /\ Started(c).start .. (Started(c).planEnd - 1) \subseteq Minutes
<1> DEFINE start == Given(c.from, now)
           planEnd == Given(c.planEnd, start + PlanningWindow)
           commitEnd == Given(c.commitEnd, start + ConfirmWindow)
<1>1. c.from \in Slots /\ c.planEnd \in Slots /\ c.commitEnd \in Slots
  BY SystemAssumption
<1>2. PlanningWindow \in Nat /\ ConfirmWindow \in Nat /\ LastMinute \in Nat
  BY SystemAssumption
<1>3. now \in 0 .. LastMinute /\ now \in Nat
  BY <1>2 DEF SystemTyped
<1>4. \A m \in Slots : m # NoSlot => m \in Nat
  BY PlanningAssumption DEF Slots
<1>5. start \in Nat /\ planEnd \in Nat /\ commitEnd \in Nat
  BY <1>1, <1>2, <1>3, <1>4 DEF Given
<1>6. start .. planEnd \subseteq Minutes
  BY <1>3, SystemAssumption
<1>7. Started(c) = [start |-> start, planEnd |-> planEnd, commitEnd |-> commitEnd]
  BY DEF Started
<1> HIDE DEF start, planEnd, commitEnd
<1> QED
  BY <1>5, <1>6, <1>7 DEF Calling

LEMMA BeginTyped ==
  ASSUME SystemTyped, NEW p \in Planners, NEW c \in Calls, Begin(p, c)
  PROVE  SystemTyped'
<1>1. Typed'
  BY StutterTyped DEF Begin, SystemTyped
<1>2. RequestsTyped' /\ RecordsTyped' /\ FlagsTyped'
  BY StartedTyped DEF Begin, Goto, SystemTyped, RequestsTyped, RecordsTyped, FlagsTyped, recordVars, historyVars, Stages
<1>3. ASSUME NEW q \in Planners PROVE InStep(q)'
  <2>1. pc' = pc /\ call' = [call EXCEPT ![p] = Started(c)] /\ stage' = [stage EXCEPT ![p] = "plan"]
    BY DEF Begin, Goto, vars, plannerVars
  <2>2. CASE q = p
    BY <2>1, <2>2, StartedTyped DEF Begin, SystemTyped, RequestsTyped, InStep
  <2>3. CASE q # p
    BY <2>1, <2>3, InStepKept DEF SystemTyped, RequestsTyped
  <2> QED
    BY <2>2, <2>3
<1> QED
  BY <1>1, <1>2, <1>3 DEF Begin, SystemTyped, vars, redisVars

LEMMA StartPlanningTyped ==
  ASSUME SystemTyped, NEW p \in Planners, StartPlanning(p)
  PROVE  SystemTyped'
<1> DEFINE window == [from |-> call[p].start, until |-> call[p].planEnd]
<1>1. window \in [from : Nat, until : Nat] /\ window.from .. (window.until - 1) \subseteq Minutes
  BY DEF SystemTyped, RequestsTyped, Calling, InStep
<1>2. Fetch(p, window, throttled)
  BY DEF StartPlanning
<1> HIDE DEF window
<1>3. Typed'
  BY <1>1, <1>2, FetchTyped DEF SystemTyped
<1>4. RequestsTyped' /\ RecordsTyped' /\ FlagsTyped'
  BY DEF StartPlanning, Goto, SystemTyped, RequestsTyped, RecordsTyped, FlagsTyped, recordVars, historyVars, Stages
<1>5. ASSUME NEW q \in Planners PROVE InStep(q)'
  <2>1. /\ pc' = [pc EXCEPT ![p] = "merge"] /\ call' = call
        /\ stage' = [stage EXCEPT ![p] = "planning"]
    BY <1>2 DEF StartPlanning, Goto, Fetch
  <2>2. CASE q = p
    BY <2>1, <2>2 DEF SystemTyped, Typed, LocalsTyped, RequestsTyped, InStep
  <2>3. CASE q # p
    BY <2>1, <2>3, InStepKept DEF SystemTyped, Typed, LocalsTyped, RequestsTyped
  <2> QED
    BY <2>2, <2>3
<1> QED
  BY <1>3, <1>4, <1>5 DEF StartPlanning, SystemTyped

LEMMA PlanningFailsTyped ==
  ASSUME SystemTyped, NEW p \in Planners, PlanningFails(p)
  PROVE  SystemTyped'
<1>1. Typed'
  BY FaultKept, TypedUnchanged DEF PlanningFails, SystemTyped, Typed
<1>2. RequestsTyped' /\ RecordsTyped' /\ FlagsTyped'
  BY DEF PlanningFails, Goto, SystemTyped, RequestsTyped, RecordsTyped, FlagsTyped, recordVars, historyVars, Stages
<1>3. ASSUME NEW q \in Planners PROVE InStep(q)'
  <2>1. pc' = pc /\ call' = call /\ stage' = [stage EXCEPT ![p] = "commit"]
    BY DEF PlanningFails, Goto, planningVars, plannerVars
  <2>2. CASE q = p
    BY <2>1, <2>2 DEF PlanningFails, SystemTyped, RequestsTyped, InStep
  <2>3. CASE q # p
    BY <2>1, <2>3, InStepKept DEF SystemTyped, RequestsTyped
  <2> QED
    BY <2>2, <2>3
<1> QED
  BY <1>1, <1>2, <1>3 DEF PlanningFails, SystemTyped, planningVars, redisVars

\* The steps inside PlanReminds, as seen by the requests.
LEMMA PlannerWorks ==
  ASSUME Typed, NEW p \in Planners,
         \/ MergeWithPreviousPlans(p)
         \/ CalculateTargets(p)
         \/ PrepareSlots(p)
         \/ \E r \in Reminds : Place(p, r)
         \/ \E m \in Minutes : SavePlan(p, m)
  PROVE  /\ Typed'
         /\ pc[p] # "idle" /\ pc'[p] # "idle"
         /\ \A q \in Planners : q # p => pc'[q] = pc[q]
         /\ UNCHANGED <<known, committed, count, scheduled, strategy>>
<1>1. Typed'
  BY MergeTyped, CalculateTyped, PrepareTyped, PlaceTyped, SaveTyped
<1> USE DEF Typed, LocalsTyped
<1>2. CASE MergeWithPreviousPlans(p)
  BY <1>1, <1>2 DEF MergeWithPreviousPlans, redisVars, discoveryVars
<1>3. CASE CalculateTargets(p)
  BY <1>1, <1>3 DEF CalculateTargets, redisVars, discoveryVars
<1>4. CASE PrepareSlots(p)
  BY <1>1, <1>4 DEF PrepareSlots, redisVars
<1>5. ASSUME NEW r \in Reminds, Place(p, r)
      PROVE  /\ pc[p] # "idle" /\ pc'[p] # "idle"
             /\ \A q \in Planners : q # p => pc'[q] = pc[q]
             /\ UNCHANGED <<known, committed, count, scheduled, strategy>>
  BY <1>5 DEF Place, redisVars, discoveryVars
<1>6. ASSUME NEW m \in Minutes, SavePlan(p, m)
      PROVE  /\ pc[p] # "idle" /\ pc'[p] # "idle"
             /\ \A q \in Planners : q # p => pc'[q] = pc[q]
             /\ UNCHANGED <<known, committed, count, scheduled, strategy>>
  BY <1>6 DEF SavePlan, discoveryVars
<1> QED
  BY <1>1, <1>2, <1>3, <1>4, <1>5, <1>6

LEMMA PlanningStepTyped ==
  ASSUME SystemTyped, NEW p \in Planners, PlanningStep(p)
  PROVE  SystemTyped'
<1>1. /\ Typed'
      /\ pc[p] # "idle" /\ pc'[p] # "idle"
      /\ \A q \in Planners : q # p => pc'[q] = pc[q]
      /\ UNCHANGED <<known, committed, count, scheduled, strategy>>
  BY PlannerWorks DEF PlanningStep, SystemTyped
<1>2. UNCHANGED <<now, throttled, deleted, recorder, after, uncounted, stage, call, left, took>>
  BY DEF PlanningStep, recordVars, requestVars, historyVars
<1>3. RequestsTyped' /\ RecordsTyped' /\ FlagsTyped'
  BY <1>2 DEF SystemTyped, RequestsTyped, RecordsTyped, FlagsTyped
<1>4. ASSUME NEW q \in Planners PROVE InStep(q)'
  <2>1. CASE q = p
    BY <1>1, <1>2, <2>1 DEF SystemTyped, InStep
  <2>2. CASE q # p
    BY <1>1, <1>2, <2>2, InStepKept
  <2> QED
    BY <2>1, <2>2
<1> QED
  BY <1>1, <1>2, <1>3, <1>4 DEF SystemTyped

LEMMA PlanningReturnsTyped ==
  ASSUME SystemTyped, NEW p \in Planners, PlanningReturns(p)
  PROVE  SystemTyped'
<1>1. Typed'
  BY ReturnTyped DEF PlanningReturns, SystemTyped
<1>2. RequestsTyped' /\ RecordsTyped' /\ FlagsTyped'
  BY DEF PlanningReturns, Goto, SystemTyped, RequestsTyped, RecordsTyped, FlagsTyped, recordVars, historyVars, Stages
<1>3. ASSUME NEW q \in Planners PROVE InStep(q)'
  <2>1. /\ pc' = [pc EXCEPT ![p] = "idle"] /\ call' = call
        /\ stage' = [stage EXCEPT ![p] = "commit"]
    BY DEF PlanningReturns, Return, Goto
  <2>2. CASE q = p
    BY <2>1, <2>2 DEF SystemTyped, Typed, LocalsTyped, RequestsTyped, InStep
  <2>3. CASE q # p
    BY <2>1, <2>3, InStepKept DEF SystemTyped, Typed, LocalsTyped, RequestsTyped
  <2> QED
    BY <2>2, <2>3
<1> QED
  BY <1>1, <1>2, <1>3 DEF PlanningReturns, SystemTyped

LEMMA EndRequestTyped ==
  ASSUME RequestsTyped, NEW p \in Planners, EndRequest(p)
  PROVE  RequestsTyped'
  BY NoCallTyped, NowhereTyped DEF RequestsTyped, EndRequest, Goto, Stages

\* The end of a request that is not planning.
LEMMA EndRequestInStep ==
  ASSUME SystemTyped, NEW p \in Planners, EndRequest(p), stage[p] # "planning", pc' = pc,
         NEW q \in Planners
  PROVE  InStep(q)'
<1>1. /\ call' = [call EXCEPT ![p] = NoCall]
      /\ stage' = [stage EXCEPT ![p] = "none"]
  BY DEF EndRequest, Goto
<1>2. CASE q = p
  BY <1>1, <1>2, NoCallTyped DEF SystemTyped, RequestsTyped, InStep
<1>3. CASE q # p
  BY <1>1, <1>3, InStepKept DEF SystemTyped, RequestsTyped
<1> QED
  BY <1>2, <1>3

LEMMA StartCommitTyped ==
  ASSUME SystemTyped, NEW p \in Planners, StartCommit(p)
  PROVE  SystemTyped'
<1>1. /\ UNCHANGED planningVars /\ UNCHANGED <<now, throttled, deleted, recordVars, uncounted>>
      /\ stage[p] = "commit"
  BY DEF StartCommit, historyVars
<1>2. pc' = pc
  BY <1>1 DEF planningVars, plannerVars
<1>3. FaultsTyped'
  BY FaultKept DEF StartCommit, SystemTyped, Typed
<1>4. Typed'
  BY <1>1, <1>3, TypedUnchanged
<1>5. RecordsTyped' /\ FlagsTyped'
  BY <1>1 DEF SystemTyped, RecordsTyped, FlagsTyped, recordVars
<1>6. CASE EndRequest(p)
  <2>1. RequestsTyped'
    BY <1>6, EndRequestTyped DEF SystemTyped
  <2>2. \A q \in Planners : InStep(q)'
    BY <1>1, <1>2, <1>6, EndRequestInStep
  <2> QED
    BY <1>1, <1>2, <1>4, <1>5, <2>1, <2>2 DEF SystemTyped
<1>7. CASE /\ left' = [left EXCEPT ![p] = ToCommit(p)]
           /\ Goto(p, "committing")
           /\ UNCHANGED <<call, took, due>>
  <2>1. ToCommit(p) \in SUBSET Reminds
    BY DEF ToCommit, SystemTyped, Typed, StoreTyped
  <2>2. RequestsTyped'
    BY <1>7, <2>1 DEF SystemTyped, RequestsTyped, Goto, Stages
  <2>3. ASSUME NEW q \in Planners PROVE InStep(q)'
    <3>1. CASE q = p
      BY <1>1, <1>2, <1>7, <3>1 DEF Goto, SystemTyped, RequestsTyped, InStep
    <3>2. CASE q # p
      BY <1>2, <1>7, <3>2, InStepKept DEF Goto, SystemTyped, RequestsTyped
    <3> QED
      BY <3>1, <3>2
  <2> QED
    BY <1>1, <1>2, <1>4, <1>5, <2>2, <2>3 DEF SystemTyped
<1> QED
  BY <1>6, <1>7 DEF StartCommit

LEMMA SkipTyped ==
  ASSUME SystemTyped, NEW p \in Planners, NEW r \in Reminds, Skip(p, r)
  PROVE  SystemTyped'
<1>1. Typed'
  BY StutterTyped DEF Skip, SystemTyped
<1>2. RequestsTyped' /\ RecordsTyped' /\ FlagsTyped'
  BY DEF Skip, SystemTyped, RequestsTyped, RecordsTyped, FlagsTyped, recordVars, historyVars
<1>3. ASSUME NEW q \in Planners PROVE InStep(q)'
  BY InStepKept DEF Skip, vars, plannerVars
<1> QED
  BY <1>1, <1>2, <1>3 DEF Skip, SystemTyped, vars, redisVars

LEMMA CommitOneTyped ==
  ASSUME SystemTyped, NEW p \in Planners, NEW r \in Reminds, CommitOne(p, r)
  PROVE  SystemTyped'
<1>1. PICK slot \in SlotsRead(r), lost \in SUBSET Writes :
          /\ CommitPacket(r, slot, lost)
          /\ IF r \in committed THEN Fault ELSE CommitFault(r, slot, lost)
          /\ took' = [took EXCEPT ![p][r] = slot]
          /\ uncounted' = IF "count" \in lost
                          THEN [uncounted EXCEPT ![slot] = @ + 1] ELSE uncounted
  BY DEF CommitOne
<1>2. FaultsTyped'
  BY <1>1, FaultKept, CommitFaultKept DEF SystemTyped, Typed
<1>3. Typed'
  BY <1>1, <1>2, CommitTyped DEF CommitOne, SystemTyped
<1>4. slot \in Minutes /\ slot \in Slots
  BY SlotsReadTyped DEF SystemTyped, Typed, StoreTyped
<1>5. RequestsTyped'
  BY <1>1, <1>4 DEF CommitOne, SystemTyped, RequestsTyped
<1>6. uncounted' \in [Minutes -> Nat]
  BY <1>1, <1>4 DEF SystemTyped, RecordsTyped
<1>7. RecordsTyped' /\ FlagsTyped'
  BY <1>6 DEF CommitOne, SetFlag, SystemTyped, RecordsTyped, FlagsTyped, recordVars
<1>8. ASSUME NEW q \in Planners PROVE InStep(q)'
  BY InStepKept DEF CommitOne, plannerVars
<1> QED
  BY <1>3, <1>5, <1>7, <1>8 DEF CommitOne, SystemTyped

LEMMA CommitFailsTyped ==
  ASSUME SystemTyped, NEW p \in Planners, NEW r \in Reminds, CommitFails(p, r)
  PROVE  SystemTyped'
<1>1. /\ UNCHANGED <<known, plan, planned, discoveryVars, plannerVars, now, deleted>>
      /\ UNCHANGED <<recorder, after, uncounted>>
      /\ EndRequest(p) /\ stage[p] = "committing"
  BY DEF CommitFails, historyVars, recordVars
<1>2. Typed' /\ throttled' \subseteq Reminds
  <2>1. CASE RegistrationFails(r)
    <3>1. /\ UNCHANGED <<committed, count, throttled>>
          /\ \/ UNCHANGED scheduled
             \/ \E slot \in SlotsRead(r) : scheduled' = [scheduled EXCEPT ![r] = slot]
      BY <2>1 DEF RegistrationFails
    <3>2. scheduled' \in [Reminds -> Slots]
      BY <3>1, SlotsReadTyped DEF SystemTyped, Typed, StoreTyped
    <3>3. StoreTyped'
      BY <1>1, <3>1, <3>2 DEF SystemTyped, Typed, StoreTyped, discoveryVars
    <3>4. FaultsTyped'
      BY <2>1, FaultKept DEF RegistrationFails, SystemTyped, Typed
    <3> QED
      BY <1>1, <3>1, <3>3, <3>4, OutsideTyped DEF SystemTyped, FlagsTyped, discoveryVars
  <2>2. CASE FlagFails(r)
    <3>1. PICK slot \in SlotsRead(r), lost \in SUBSET Writes :
              /\ CommitPacket(r, slot, lost)
              /\ IF r \in deleted \ committed THEN CommitFault(r, slot, lost) ELSE Fault
      BY <2>2 DEF FlagFails
    <3>2. FaultsTyped'
      BY <3>1, FaultKept, CommitFaultKept DEF SystemTyped, Typed
    <3>3. Typed'
      BY <1>1, <3>1, <3>2, CommitTyped DEF SystemTyped
    <3> QED
      BY <2>2, <3>3 DEF FlagFails, SetFlag, SystemTyped, FlagsTyped
  <2> QED
    BY <2>1, <2>2 DEF CommitFails
<1>3. RequestsTyped'
  BY <1>1, EndRequestTyped DEF SystemTyped
<1>4. \A q \in Planners : InStep(q)'
  BY <1>1, EndRequestInStep DEF plannerVars
<1> QED
  BY <1>1, <1>2, <1>3, <1>4 DEF SystemTyped, RecordsTyped, FlagsTyped

\* How many reminds a request has committed to a minute.
LEMMA AfterCountsNat ==
  ASSUME NEW p, NEW m \in Minutes
  PROVE  /\ AfterCounts(p)[m] = Cardinality({r \in Reminds : took[p][r] = m})
         /\ AfterCounts(p)[m] \in Nat
  BY SomeReminds DEF AfterCounts

LEMMA AnswerTyped ==
  ASSUME SystemTyped, NEW p \in Planners, Answer(p)
  PROVE  SystemTyped'
<1>1. /\ UNCHANGED planningVars /\ UNCHANGED <<now, throttled, deleted, uncounted>>
      /\ EndRequest(p) /\ stage[p] = "committing"
  BY DEF Answer
<1>2. FaultsTyped'
  BY FaultKept DEF Answer, SystemTyped, Typed
<1>3. Typed'
  BY <1>1, <1>2, TypedUnchanged
<1>4. RecordsTyped'
  <2>1. ASSUME NEW lost, Record(AfterCounts(p), lost) PROVE RecordsTyped'
    <3>1. ASSUME NEW m \in Minutes
          PROVE  after[m] + (IF m \in lost THEN 0 ELSE AfterCounts(p)[m]) \in Nat
      <4>1. AfterCounts(p)[m] \in Nat
        BY AfterCountsNat
      <4>2. after[m] \in Nat
        BY DEF SystemTyped, RecordsTyped
      <4> QED
        BY <4>1, <4>2
    <3> QED
      BY <1>1, <2>1, <3>1 DEF Record, SystemTyped, RecordsTyped
  <2>2. CASE UNCHANGED recordVars
    BY <1>1, <2>2 DEF recordVars, SystemTyped, RecordsTyped
  <2> QED
    BY <2>1, <2>2 DEF Answer
<1>5. RequestsTyped'
  BY <1>1, EndRequestTyped DEF SystemTyped
<1>6. pc' = pc
  BY <1>1 DEF planningVars, plannerVars
<1>7. \A q \in Planners : InStep(q)'
  BY <1>1, <1>6, EndRequestInStep
<1> QED
  BY <1>1, <1>3, <1>4, <1>5, <1>6, <1>7 DEF SystemTyped, FlagsTyped

\* Steps beside the requests.
LEMMA BesideTyped ==
  ASSUME SystemTyped, Typed', now' \in 0 .. LastMinute, FlagsTyped', uncounted' \in [Minutes -> Nat],
         UNCHANGED <<requestVars, recordVars, pc>>
  PROVE  SystemTyped'
<1>1. RequestsTyped' /\ RecordsTyped'
  BY DEF SystemTyped, RequestsTyped, RecordsTyped, requestVars, recordVars
<1>2. \A q \in Planners : InStep(q)'
  BY InStepKept DEF requestVars
<1> QED
  BY <1>1, <1>2 DEF SystemTyped

LEMMA AroundTyped ==
  ASSUME SystemTyped,
         \/ Tick
         \/ \E r \in Reminds : UserSetsRemind(r) \/ UserDeletesRemind(r) \/ MarkerExpires(r)
         \/ \E m \in Minutes : CountExpires(m) \/ PlanExpires(m)
         \/ Restart
  PROVE  SystemTyped'
<1>0. ASSUME UNCHANGED <<now, throttled, deleted, uncounted>>
      PROVE  now' \in 0 .. LastMinute /\ FlagsTyped' /\ uncounted' \in [Minutes -> Nat]
  BY <1>0 DEF SystemTyped, FlagsTyped, RecordsTyped
<1>1. CASE Tick
  <2>1. Typed'
    BY <1>1, StutterTyped DEF Tick, SystemTyped
  <2>2. now' \in 0 .. LastMinute
    BY <1>1, SystemAssumption DEF Tick, SystemTyped
  <2>3. FlagsTyped' /\ uncounted' \in [Minutes -> Nat]
    BY <1>1 DEF Tick, historyVars, SystemTyped, FlagsTyped, RecordsTyped
  <2> QED
    BY <1>1, <2>1, <2>2, <2>3, BesideTyped DEF Tick, vars, plannerVars
<1>2. ASSUME NEW r \in Reminds, UserSetsRemind(r) PROVE SystemTyped'
  <2>1. Typed'
    BY <1>2, SetRemindTyped DEF UserSetsRemind, SystemTyped
  <2> QED
    BY <1>0, <1>2, <2>1, BesideTyped DEF UserSetsRemind, SetRemind, plannerVars, historyVars
<1>3. ASSUME NEW r \in Reminds, UserDeletesRemind(r) PROVE SystemTyped'
  <2>1. StoreTyped' /\ FaultsTyped'
    BY <1>3 DEF UserDeletesRemind, redisVars, discoveryVars, SystemTyped, Typed, StoreTyped,
                FaultsTyped
  <2>2. Typed'
    BY <1>3, <2>1, OutsideTyped DEF UserDeletesRemind, discoveryVars, SystemTyped
  <2>3. now' \in 0 .. LastMinute /\ FlagsTyped' /\ uncounted' \in [Minutes -> Nat]
    BY <1>3 DEF UserDeletesRemind, historyVars, SystemTyped, FlagsTyped, RecordsTyped
  <2> QED
    BY <1>3, <2>2, <2>3, BesideTyped DEF UserDeletesRemind, plannerVars
<1>4. ASSUME NEW r \in Reminds, MarkerExpires(r) PROVE SystemTyped'
  <2>1. Typed'
    BY <1>4, MarkerExpiryTyped DEF MarkerExpires, SystemTyped
  <2> QED
    BY <1>0, <1>4, <2>1, BesideTyped
    DEF MarkerExpires, ExpireCommitted, plannerVars, historyVars
<1>5. ASSUME NEW m \in Minutes, CountExpires(m) PROVE SystemTyped'
  <2>1. Typed'
    BY <1>5, CountExpiryTyped DEF CountExpires, SystemTyped
  <2>2. uncounted' \in [Minutes -> Nat]
    BY <1>5 DEF CountExpires, SystemTyped, RecordsTyped, Typed, StoreTyped
  <2>3. now' \in 0 .. LastMinute /\ FlagsTyped'
    BY <1>5 DEF CountExpires, SystemTyped, FlagsTyped
  <2> QED
    BY <1>5, <2>1, <2>2, <2>3, BesideTyped DEF CountExpires, ExpireCount, plannerVars
<1>6. ASSUME NEW m \in Minutes, PlanExpires(m) PROVE SystemTyped'
  <2>1. Typed'
    BY <1>6, ExpireTyped DEF PlanExpires, SystemTyped
  <2> QED
    BY <1>0, <1>6, <2>1, BesideTyped DEF PlanExpires, ExpirePlan, plannerVars, historyVars
<1>7. CASE Restart
  <2>1. Typed'
    BY <1>7, CrashTyped DEF Restart, SystemTyped
  <2>2. RequestsTyped'
    BY <1>7, NoCallTyped, NowhereTyped DEF Restart, RequestsTyped, Stages
  <2>3. \A q \in Planners : InStep(q)'
    BY <1>7, NoCallTyped DEF Restart, Crash, InStep
  <2> QED
    BY <1>0, <1>7, <2>1, <2>2, <2>3
    DEF Restart, SystemTyped, RecordsTyped, recordVars, historyVars
<1> QED
  BY <1>1, <1>2, <1>3, <1>4, <1>5, <1>6, <1>7

LEMMA SystemTypedNext == SystemTyped /\ [SystemNext]_systemVars => SystemTyped'
<1> SUFFICES ASSUME SystemTyped, [SystemNext]_systemVars PROVE SystemTyped'
  OBVIOUS
<1>1. CASE UNCHANGED systemVars
  <2>1. Typed'
    BY <1>1, StutterTyped DEF systemVars, SystemTyped
  <2>2. now' \in 0 .. LastMinute /\ FlagsTyped' /\ uncounted' \in [Minutes -> Nat]
    BY <1>1 DEF systemVars, historyVars, SystemTyped, FlagsTyped, RecordsTyped
  <2> QED
    BY <1>1, <2>1, <2>2, BesideTyped DEF systemVars, vars, plannerVars
<1> QED
  BY <1>1, BeginTyped, StartPlanningTyped, PlanningFailsTyped, PlanningStepTyped,
     PlanningReturnsTyped, StartCommitTyped, SkipTyped, CommitOneTyped, CommitFailsTyped,
     AnswerTyped, AroundTyped
  DEF SystemNext

\* The whole program keeps its types, whatever is lost, deleted or has expired;
\* among the things this says is that a planner is in its planning phase exactly
\* when its request is, and that no count and no room is ever negative.
THEOREM SystemTypeCorrect == SystemSpec => []SystemTypeOK
  BY SystemTypedInit, SystemTypedNext, SystemTypedMeans, PTL DEF SystemSpec

-----------------------------------------------------------------------------
(* Steps with and without a fault, and what a step does to Redis and the   *)
(* queue.                                                                  *)

\* A fault is never forgotten.
LEMMA FaultsCount ==
  ASSUME SystemTyped
  PROVE  /\ Fault => faults' # 0
         /\ NoFault => faults' = faults
  BY DEF SystemTyped, Typed, FaultsTyped, Fault, NoFault

LEMMA FaultOrNot ==
  ASSUME [SystemNext]_systemVars
  PROVE  (overlapped => overlapped') /\ (Fault \/ NoFault)
<1> USE DEF historyVars, vars, NoFault
<1>1. CASE Tick \/ UNCHANGED systemVars
  BY <1>1 DEF Tick, systemVars
<1>2. ASSUME NEW r \in Reminds, UserSetsRemind(r) \/ UserDeletesRemind(r) \/ MarkerExpires(r)
      PROVE  (overlapped => overlapped') /\ (Fault \/ NoFault)
  BY <1>2 DEF UserSetsRemind, SetRemind, UserDeletesRemind, MarkerExpires, ExpireCommitted
<1>3. ASSUME NEW m \in Minutes, CountExpires(m) \/ PlanExpires(m)
      PROVE  (overlapped => overlapped') /\ (Fault \/ NoFault)
  BY <1>3 DEF CountExpires, ExpireCount, PlanExpires, ExpirePlan
<1>4. CASE Restart
  BY <1>4 DEF Restart, Crash
<1>5. ASSUME NEW p \in Planners,
             \/ \E c \in Calls : Begin(p, c)
             \/ StartPlanning(p) \/ PlanningFails(p) \/ PlanningReturns(p)
             \/ StartCommit(p) \/ Answer(p)
      PROVE  (overlapped => overlapped') /\ (Fault \/ NoFault)
  <2>1. ASSUME NEW c \in Calls, Begin(p, c) PROVE (overlapped => overlapped') /\ NoFault
    BY <2>1, Zenon DEF Begin
  <2>2. CASE StartPlanning(p)
    <3>1. UNCHANGED overlapped /\ \E r, x : Fetch(p, r, x)
      BY <2>2 DEF StartPlanning
    <3>2. PICK r, x : Fetch(p, r, x)
      BY <3>1
    <3>3. Fault \/ NoFault
      BY <3>2 DEF Fetch
    <3> QED
      BY <3>1, <3>3
  <2>3. CASE PlanningFails(p) \/ PlanningReturns(p)
    BY <2>3 DEF PlanningFails, PlanningReturns, Return
  <2>4. CASE StartCommit(p) \/ Answer(p)
    BY <2>4 DEF StartCommit, Answer
  <2> QED
    BY <1>5, <2>1, <2>2, <2>3, <2>4
<1>6. ASSUME NEW p \in Planners, PlanningStep(p)
      PROVE  (overlapped => overlapped') /\ (Fault \/ NoFault)
  BY <1>6 DEF PlanningStep, MergeWithPreviousPlans, CalculateTargets, PrepareSlots, Place, SavePlan
<1>7. ASSUME NEW p \in Planners, NEW r \in Reminds,
             Skip(p, r) \/ CommitOne(p, r) \/ CommitFails(p, r)
      PROVE  (overlapped => overlapped') /\ (Fault \/ NoFault)
  BY <1>7 DEF Skip, CommitOne, CommitFails, RegistrationFails, FlagFails, CommitFault
<1> QED
  BY <1>1, <1>2, <1>3, <1>4, <1>5, <1>6, <1>7 DEF SystemNext

LEMMA UnfaultedBefore ==
  ASSUME SystemTyped, [SystemNext]_systemVars, faults' = 0
  PROVE  faults = 0 /\ ~Fault
  BY FaultOrNot, FaultsCount

\* Without a fault a remind is committed to its minute and nothing is lost.
LEMMA PlainCommit ==
  ASSUME ~Fault, NEW r, NEW slot, NEW lost, CommitFault(r, slot, lost)
  PROVE  slot = ScheduledSlot(r) /\ lost = {}
  BY DEF CommitFault

LEMMA PlainCommitOne ==
  ASSUME ~Fault, NEW p \in Planners, NEW r \in Reminds, CommitOne(p, r)
  PROVE  r \notin committed /\ CommitPacket(r, ScheduledSlot(r), {})
<1>1. PICK slot \in SlotsRead(r), lost \in SUBSET Writes :
          /\ CommitPacket(r, slot, lost)
          /\ IF r \in committed THEN Fault ELSE CommitFault(r, slot, lost)
  BY DEF CommitOne
<1> QED
  BY <1>1, PlainCommit

LEMMA PlainCommitFails ==
  ASSUME ~Fault, NEW p \in Planners, NEW r \in Reminds, CommitFails(p, r)
  PROVE  \/ UNCHANGED <<committed, count, scheduled>> /\ r \in Queued \ committed
         \/ r \in deleted \ committed /\ CommitPacket(r, ScheduledSlot(r), {})
<1>1. CASE RegistrationFails(r)
  BY <1>1 DEF RegistrationFails
<1>2. CASE FlagFails(r)
  <2>1. PICK slot \in SlotsRead(r), lost \in SUBSET Writes :
            /\ CommitPacket(r, slot, lost)
            /\ IF r \in deleted \ committed THEN CommitFault(r, slot, lost) ELSE Fault
    BY <1>2 DEF FlagFails
  <2> QED
    BY <2>1, PlainCommit
<1> QED
  BY <1>1, <1>2 DEF CommitFails

LEMMA CommitsOrNot ==
  ASSUME SystemTyped, [SystemNext]_systemVars, ~Fault
  PROVE  \/ UNCHANGED <<committed, count, scheduled>>
         \/ \E r \in Reminds :
               CommitPacket(r, ScheduledSlot(r), {}) /\ ScheduledSlot(r) \in Minutes
<1> DEFINE Left == UNCHANGED <<committed, count, scheduled>>
<1>1. CASE Tick \/ Restart \/ UNCHANGED systemVars
  BY <1>1 DEF Tick, Restart, Crash, systemVars, vars, redisVars
<1>2. ASSUME NEW r \in Reminds, UserSetsRemind(r) \/ UserDeletesRemind(r) \/ MarkerExpires(r)
      PROVE  Left
  BY <1>2 DEF UserSetsRemind, SetRemind, UserDeletesRemind, MarkerExpires, ExpireCommitted,
              redisVars
<1>3. ASSUME NEW m \in Minutes, CountExpires(m) \/ PlanExpires(m) PROVE Left
  BY <1>3 DEF CountExpires, ExpireCount, PlanExpires, ExpirePlan
<1>4. ASSUME NEW p \in Planners,
             \/ \E c \in Calls : Begin(p, c)
             \/ StartPlanning(p) \/ PlanningFails(p) \/ PlanningReturns(p)
             \/ StartCommit(p) \/ Answer(p)
      PROVE  Left
  BY <1>4 DEF Begin, StartPlanning, Fetch, PlanningFails, PlanningReturns, Return, StartCommit,
              Answer, planningVars, vars, redisVars
<1>5. ASSUME NEW p \in Planners, PlanningStep(p) PROVE Left
  BY <1>5, PlannerWorks DEF PlanningStep, SystemTyped
<1>6. ASSUME NEW p \in Planners, NEW r \in Reminds, Skip(p, r) PROVE Left
  BY <1>6 DEF Skip, vars, redisVars
<1>7. ASSUME NEW p \in Planners, NEW r \in Reminds, CommitOne(p, r) \/ CommitFails(p, r)
      PROVE  Left \/ (CommitPacket(r, ScheduledSlot(r), {}) /\ ScheduledSlot(r) \in Minutes)
  <2>1. ScheduledSlot(r) \in Minutes
    BY ScheduledIsRead, SlotsReadTyped DEF SystemTyped, Typed, StoreTyped
  <2> QED
    BY <1>7, <2>1, PlainCommitOne, PlainCommitFails
<1> QED
  BY <1>1, <1>2, <1>3, <1>4, <1>5, <1>6, <1>7 DEF SystemNext

\* As long as nothing has failed, what is in the queue is marked.
Marked == faults = 0 => Queued \subseteq committed

LEMMA MarkedInit == SystemInit => Marked
  BY DEF SystemInit, Init, Nowhere, Marked, Queued

LEMMA MarkedNext == SystemTyped /\ Marked /\ [SystemNext]_systemVars => Marked'
<1> SUFFICES ASSUME SystemTyped, Marked, [SystemNext]_systemVars, faults' = 0
             PROVE  Queued' \subseteq committed'
  BY DEF Marked
<1>1. ~Fault /\ Queued \subseteq committed
  BY UnfaultedBefore DEF Marked
<1>2. CASE UNCHANGED <<committed, count, scheduled>>
  BY <1>1, <1>2 DEF Queued
<1>3. ASSUME NEW r \in Reminds, CommitPacket(r, ScheduledSlot(r), {})
      PROVE  Queued' \subseteq committed'
  <2>1. /\ scheduled' = [scheduled EXCEPT ![r] = ScheduledSlot(r)]
        /\ committed' = committed \cup {r}
    BY <1>3 DEF CommitPacket
  <2>2. \A x \in Reminds \ {r} : scheduled'[x] = scheduled[x]
    BY <2>1 DEF SystemTyped, Typed, StoreTyped
  <2> QED
    BY <1>1, <2>1, <2>2 DEF Queued
<1> QED
  BY <1>1, <1>2, <1>3, CommitsOrNot

-----------------------------------------------------------------------------
(* What Planning promises holds for the requests that run it.              *)

Sound == Capped /\ Reached

LEMMA SoundInit == SystemInit => Sound
  BY CappedInit, ReachedInit DEF SystemInit, Sound

LEMMA SoundUnchanged ==
  ASSUME Sound, UNCHANGED <<plan, planned, scheduled, discoveryVars, plannerVars>>
  PROVE  Sound'
  BY CappedUnchanged, ReachedUnchanged DEF Sound

LEMMA SoundPlanning ==
  ASSUME SystemTyped, Sound, NEW p \in Planners,
         StartPlanning(p) \/ PlanningFails(p) \/ PlanningStep(p) \/ PlanningReturns(p)
  PROVE  Sound'
<1> USE DEF Sound
<1>1. CASE StartPlanning(p)
  <2>1. \E r, x : Fetch(p, r, x)
    BY <1>1 DEF StartPlanning
  <2> QED
    BY <2>1, PlannerCapped, FetchReached DEF SystemTyped
<1>2. CASE PlanningFails(p)
  BY <1>2, SoundUnchanged DEF PlanningFails, planningVars, redisVars
<1>3. CASE PlanningReturns(p)
  BY <1>3, PlannerCapped, ReturnReached DEF PlanningReturns, SystemTyped
<1>4. CASE PlanningStep(p)
  <2> USE DEF SystemTyped
  <2>1. CASE MergeWithPreviousPlans(p)
    BY <2>1, PlannerCapped, MergeReached
  <2>2. CASE CalculateTargets(p)
    BY <2>2, CalculateCapped, CalculateReached
  <2>3. CASE PrepareSlots(p)
    BY <2>3, PlannerCapped, PrepareReached
  <2>4. ASSUME NEW r \in Reminds, Place(p, r) PROVE Sound'
    BY <2>4, PlaceCapped, PlaceReached
  <2>5. ASSUME NEW m \in Minutes, SavePlan(p, m) PROVE Sound'
    BY <2>5, PlannerCapped, SaveReached
  <2> QED
    BY <1>4, <2>1, <2>2, <2>3, <2>4, <2>5 DEF PlanningStep
<1> QED
  BY <1>1, <1>2, <1>3, <1>4

\* What is scheduled is as sound as the minute it is scheduled in.
LEMMA SoundCommit ==
  ASSUME SystemTyped, Sound, NEW p \in Planners, NEW r \in Reminds,
         CommitOne(p, r) \/ CommitFails(p, r)
  PROVE  Sound'
<1>1. UNCHANGED <<plan, planned, discoveryVars, plannerVars>>
  BY DEF CommitOne, CommitFails
<1>2. \/ UNCHANGED scheduled
      \/ \E slot \in SlotsRead(r) : scheduled' = [scheduled EXCEPT ![r] = slot]
  BY DEF CommitOne, CommitFails, RegistrationFails, FlagFails, CommitPacket
<1>3. Capped'
  BY <1>1, CappedUnchanged DEF Sound
<1>4. Reached'
  BY <1>1, <1>2, ScheduledReached, ReachedUnchanged
  DEF Sound, SystemTyped, discoveryVars, plannerVars
<1> QED
  BY <1>3, <1>4 DEF Sound

LEMMA SoundRequests ==
  ASSUME SystemTyped, Sound, NEW p \in Planners,
         \/ \E c \in Calls : Begin(p, c)
         \/ StartCommit(p)
         \/ \E r \in Reminds : Skip(p, r) \/ CommitOne(p, r) \/ CommitFails(p, r)
         \/ Answer(p)
  PROVE  Sound'
<1>1. ASSUME NEW c \in Calls, Begin(p, c) PROVE Sound'
  BY <1>1, SoundUnchanged DEF Begin, vars, redisVars
<1>2. CASE StartCommit(p)
  BY <1>2, SoundUnchanged DEF StartCommit, planningVars, redisVars
<1>3. ASSUME NEW r \in Reminds, Skip(p, r) PROVE Sound'
  BY <1>3, SoundUnchanged DEF Skip, vars, redisVars
<1>4. ASSUME NEW r \in Reminds, CommitOne(p, r) \/ CommitFails(p, r) PROVE Sound'
  BY <1>4, SoundCommit
<1>5. CASE Answer(p)
  BY <1>5, SoundUnchanged DEF Answer, planningVars, redisVars
<1> QED
  BY <1>1, <1>2, <1>3, <1>4, <1>5

LEMMA SoundNext == SystemTyped /\ Sound /\ [SystemNext]_systemVars => Sound'
<1> SUFFICES ASSUME SystemTyped, Sound, [SystemNext]_systemVars PROVE Sound'
  OBVIOUS
<1>1. CASE Tick \/ UNCHANGED systemVars
  BY <1>1, SoundUnchanged DEF Tick, systemVars, vars, redisVars
<1>2. ASSUME NEW r \in Reminds, UserSetsRemind(r) \/ UserDeletesRemind(r) \/ MarkerExpires(r)
      PROVE  Sound'
  BY <1>2, SoundUnchanged
  DEF UserSetsRemind, SetRemind, UserDeletesRemind, MarkerExpires, ExpireCommitted, redisVars
<1>5. ASSUME NEW m \in Minutes, CountExpires(m) PROVE Sound'
  BY <1>5, SoundUnchanged DEF CountExpires, ExpireCount
<1>3. ASSUME NEW m \in Minutes, PlanExpires(m) PROVE Sound'
  <2>1. Capped'
    BY <1>3, CappedUnchanged DEF PlanExpires, ExpirePlan, Sound
  <2>2. Reached'
    BY <1>3, ExpireReached DEF PlanExpires, SystemTyped, Sound
  <2> QED
    BY <2>1, <2>2 DEF Sound
<1>4. CASE Restart
  <2>1. Capped'
    BY <1>4, CappedKept DEF Restart, Crash, Prepared, Sound
  <2>2. Reached'
    BY <1>4, CrashReached DEF Restart, Sound
  <2> QED
    BY <2>1, <2>2 DEF Sound
<1> QED
  BY <1>1, <1>2, <1>3, <1>4, <1>5, SoundPlanning, SoundRequests DEF SystemNext

\* The planning phase and the commit phase together: no request plans or
\* schedules a remind out of its reach, however requests, new and deleted reminds,
\* failing calls, expiring keys and restarts are interleaved with the planning
\* windows moving on.
THEOREM SystemKeepsReach == SystemSpec => []PlannedWithinReach
<1>1. Sound => PlannedWithinReach
  BY ReachedMeans DEF Sound
<1> QED
  BY SystemTypedInit, SystemTypedNext, SoundInit, SoundNext, <1>1, PTL DEF SystemSpec

\* And no request ever sees more room in a minute than the cap leaves of it.
THEOREM SystemKeepsRoom == SystemSpec => []AvailableWithinCap
<1>1. SystemTyped /\ Sound => AvailableWithinCap
  BY CappedMeans DEF Sound, SystemTyped
<1> QED
  BY SystemTypedInit, SystemTypedNext, SoundInit, SoundNext, <1>1, PTL DEF SystemSpec

-----------------------------------------------------------------------------
(* Time.  A request takes up reminds from its own start on, and only those *)
(* it has not committed yet.                                               *)

Ahead(p) ==
    /\ stage[p] # "committing" => left[p] = {} /\ took[p] = Nowhere
    /\ \A r \in left[p] : Home(r) >= call[p].start /\ took[p][r] = NoSlot
    /\ strategy # "priority" =>
          \A r \in Reminds : took[p][r] # NoSlot => took[p][r] >= call[p].start

AllAhead == \A p \in Planners : Ahead(p)

LEMMA AheadMeans == AllAhead => NeverScheduledInPast
  BY DEF AllAhead, Ahead, NeverScheduledInPast

LEMMA AheadInit == SystemInit => AllAhead
  BY DEF SystemInit, AllAhead, Ahead, Nowhere

\* Requests that a step leaves alone, or moves on before their commit phase.
LEMMA AheadKept ==
  ASSUME NEW q \in Planners, Ahead(q),
         left'[q] = left[q], took'[q] = took[q], strategy' = strategy,
         \/ stage'[q] = stage[q] /\ call'[q] = call[q]
         \/ stage[q] # "committing" /\ stage'[q] # "committing"
  PROVE  Ahead(q)'
  BY DEF Ahead, Nowhere

LEMMA EndRequestAhead ==
  ASSUME SystemTyped, AllAhead, NEW p \in Planners, EndRequest(p), strategy' = strategy
  PROVE  AllAhead'
<1>1. ASSUME NEW q \in Planners PROVE Ahead(q)'
  <2>1. CASE q = p
    BY <2>1 DEF EndRequest, Goto, SystemTyped, RequestsTyped, Ahead, Nowhere
  <2>2. CASE q # p
    BY <2>2, AheadKept DEF EndRequest, Goto, SystemTyped, RequestsTyped, AllAhead
  <2> QED
    BY <2>1, <2>2
<1> QED
  BY <1>1 DEF AllAhead

LEMMA AheadPlanning ==
  ASSUME SystemTyped, AllAhead, NEW p \in Planners,
         \/ \E c \in Calls : Begin(p, c)
         \/ StartPlanning(p) \/ PlanningFails(p) \/ PlanningStep(p) \/ PlanningReturns(p)
  PROVE  AllAhead'
<1> USE DEF SystemTyped, RequestsTyped, AllAhead, Goto
<1>1. ASSUME NEW c \in Calls, Begin(p, c), NEW q \in Planners PROVE Ahead(q)'
  BY <1>1, AheadKept DEF Begin, vars, discoveryVars
<1>2. ASSUME StartPlanning(p), NEW q \in Planners PROVE Ahead(q)'
  BY <1>2, AheadKept DEF StartPlanning, Fetch, discoveryVars
<1>3. ASSUME PlanningFails(p), NEW q \in Planners PROVE Ahead(q)'
  BY <1>3, AheadKept DEF PlanningFails, planningVars, discoveryVars
<1>4. ASSUME PlanningStep(p), NEW q \in Planners PROVE Ahead(q)'
  <2>1. strategy' = strategy
    BY <1>4, PlannerWorks DEF PlanningStep
  <2> QED
    BY <1>4, <2>1, AheadKept DEF PlanningStep, requestVars
<1>5. ASSUME PlanningReturns(p), NEW q \in Planners PROVE Ahead(q)'
  BY <1>5, AheadKept DEF PlanningReturns, Return, discoveryVars
<1> QED
  BY <1>1, <1>2, <1>3, <1>4, <1>5

\* No remind that is committed goes to a minute before its own, unless the
\* priority strategy planned it there.
LEMMA CommitOneAhead ==
  ASSUME SystemTyped, Sound, AllAhead, NEW p \in Planners, NEW r \in Reminds, CommitOne(p, r)
  PROVE  AllAhead'
<1>0. PICK slot \in SlotsRead(r) : took' = [took EXCEPT ![p][r] = slot]
  BY DEF CommitOne
<1>1. /\ stage' = stage /\ call' = call /\ strategy' = strategy
      /\ left' = [left EXCEPT ![p] = @ \ {r}]
      /\ stage[p] = "committing" /\ r \in left[p]
  BY DEF CommitOne, discoveryVars
<1>2. strategy # "priority" => slot >= call[p].start
  <2>1. slot \in Nat
    BY SlotsReadTyped, PlanningAssumption DEF SystemTyped, Typed, StoreTyped
  <2>2. Home(r) >= call[p].start /\ call[p].start \in Nat /\ Home(r) \in Nat
    BY <1>1, HomeIsReachable DEF AllAhead, Ahead, SystemTyped, RequestsTyped, Calling
  <2>3. strategy # "priority" => slot >= Home(r)
    BY SlotsReadReachable DEF Sound, Reachable
  <2> QED
    BY <2>1, <2>2, <2>3
<1>3. ASSUME NEW q \in Planners PROVE Ahead(q)'
  <2>1. CASE q = p
    <3>1. /\ left'[p] = left[p] \ {r}
          /\ took'[p][r] = slot
          /\ \A x \in Reminds \ {r} : took'[p][x] = took[p][x]
      BY <1>0, <1>1 DEF SystemTyped, RequestsTyped
    <3>2. \A x \in left'[p] : Home(x) >= call[p].start /\ took'[p][x] = NoSlot
      BY <1>1, <3>1 DEF AllAhead, Ahead, SystemTyped, RequestsTyped
    <3>3. strategy # "priority" =>
              \A x \in Reminds : took'[p][x] # NoSlot => took'[p][x] >= call[p].start
      BY <1>1, <1>2, <3>1 DEF AllAhead, Ahead
    <3> QED
      BY <1>1, <2>1, <3>2, <3>3 DEF Ahead
  <2>2. CASE q # p
    BY <1>0, <1>1, <2>2, AheadKept DEF SystemTyped, RequestsTyped, AllAhead
  <2> QED
    BY <2>1, <2>2
<1> QED
  BY <1>3 DEF AllAhead

LEMMA AheadCommit ==
  ASSUME SystemTyped, Sound, AllAhead, NEW p \in Planners,
         \/ StartCommit(p)
         \/ \E r \in Reminds : Skip(p, r) \/ CommitOne(p, r) \/ CommitFails(p, r)
         \/ Answer(p)
  PROVE  AllAhead'
<1>1. CASE StartCommit(p)
  <2>1. strategy' = strategy
    BY <1>1 DEF StartCommit, planningVars, discoveryVars
  <2>2. CASE EndRequest(p)
    BY <2>1, <2>2, EndRequestAhead
  <2>3. CASE /\ left' = [left EXCEPT ![p] = ToCommit(p)]
             /\ Goto(p, "committing")
             /\ UNCHANGED <<call, took, due>>
    <3>1. ASSUME NEW q \in Planners PROVE Ahead(q)'
      <4>1. CASE q = p
        <5>1. took'[p] = Nowhere
          BY <1>1, <2>3 DEF StartCommit, AllAhead, Ahead
        <5>2. \A r \in ToCommit(p) : r \in Reminds /\ Home(r) >= call[p].start
          BY DEF ToCommit, Within, SystemTyped, Typed, StoreTyped
        <5> QED
          BY <2>3, <4>1, <5>1, <5>2 DEF Goto, Ahead, Nowhere, SystemTyped, RequestsTyped
      <4>2. CASE q # p
        BY <2>1, <2>3, <4>2, AheadKept DEF Goto, SystemTyped, RequestsTyped, AllAhead
      <4> QED
        BY <4>1, <4>2
    <3> QED
      BY <3>1 DEF AllAhead
  <2> QED
    BY <1>1, <2>2, <2>3 DEF StartCommit
<1>2. ASSUME NEW r \in Reminds, Skip(p, r) PROVE AllAhead'
  BY <1>2 DEF Skip, vars, discoveryVars, AllAhead, Ahead, SystemTyped, RequestsTyped
<1>3. ASSUME NEW r \in Reminds, CommitFails(p, r) PROVE AllAhead'
  BY <1>3, EndRequestAhead DEF CommitFails, discoveryVars
<1>4. CASE Answer(p)
  BY <1>4, EndRequestAhead DEF Answer, planningVars, discoveryVars
<1> QED
  BY <1>1, <1>2, <1>3, <1>4, CommitOneAhead

LEMMA AheadNext == SystemTyped /\ Sound /\ AllAhead /\ [SystemNext]_systemVars => AllAhead'
<1> SUFFICES ASSUME SystemTyped, Sound, AllAhead, [SystemNext]_systemVars PROVE AllAhead'
  OBVIOUS
<1>1. CASE Tick \/ UNCHANGED systemVars
  BY <1>1, AheadKept DEF Tick, systemVars, requestVars, vars, discoveryVars, AllAhead
<1>2. ASSUME NEW r \in Reminds, UserSetsRemind(r) \/ UserDeletesRemind(r) \/ MarkerExpires(r)
      PROVE  AllAhead'
  BY <1>2, AheadKept
  DEF UserSetsRemind, SetRemind, UserDeletesRemind, MarkerExpires, ExpireCommitted, requestVars,
      discoveryVars, AllAhead
<1>3. ASSUME NEW m \in Minutes, CountExpires(m) \/ PlanExpires(m) PROVE AllAhead'
  BY <1>3, AheadKept
  DEF CountExpires, ExpireCount, PlanExpires, ExpirePlan, requestVars, discoveryVars, AllAhead
<1>4. CASE Restart
  BY <1>4 DEF Restart, AllAhead, Ahead, Nowhere
<1> QED
  BY <1>1, <1>2, <1>3, <1>4, AheadPlanning, AheadCommit DEF SystemNext

\* A request that does not plan early schedules nothing before its own start
\* minute, although the plans it finds were made by requests that started before
\* it (throttle_handler.go:93) and it never looks at the clock again.
THEOREM NothingInThePast == SystemSpec => []NeverScheduledInPast
  BY SystemTypedInit, SystemTypedNext, SoundInit, SoundNext, AheadInit, AheadNext,
     AheadMeans, PTL DEF SystemSpec

-----------------------------------------------------------------------------
(* Two books of the packets: the counters the commit phase increments, and *)
(* the records of the requests, of which some are still in hand.  What the *)
(* counters have lost is added to them.                                    *)

TookAt(minutes, m) == Cardinality({r \in Reminds : minutes[r] = m})

InHand(taken, m) ==
    SumFunctionOnSet([p \in Planners |-> TookAt(taken[p], m)], Planners)

LEMMA TookAtNat ==
  ASSUME NEW minutes, NEW m
  PROVE  TookAt(minutes, m) \in Nat
<1>1. {r \in Reminds : minutes[r] = m} \in SUBSET Reminds
  OBVIOUS
<1> QED
  BY <1>1, SomeReminds DEF TookAt

LEMMA TookNone ==
  ASSUME NEW m \in Minutes
  PROVE  TookAt(Nowhere, m) = 0
<1>1. {r \in Reminds : Nowhere[r] = m} = {}
  BY PlanningAssumption DEF Nowhere, NoSlot
<1> QED
  BY <1>1, FS_EmptySet DEF TookAt

LEMMA InHandNat ==
  ASSUME NEW taken, NEW m
  PROVE  InHand(taken, m) \in Nat
<1> DEFINE hand == [p \in Planners |-> TookAt(taken[p], m)]
<1>1. \A p \in Planners : hand[p] \in Nat
  BY TookAtNat
<1>2. InHand(taken, m) = SumFunctionOnSet(hand, Planners)
  BY DEF InHand
<1> HIDE DEF hand
<1> QED
  BY <1>1, <1>2, SystemAssumption, SumNat

\* One request's share of what is in hand.
LEMMA InHandChanged ==
  ASSUME NEW taken, NEW p \in Planners, NEW new, NEW m,
         \A q \in Planners \ {p} : new[q] = taken[q]
  PROVE  InHand(new, m) = InHand(taken, m) - TookAt(taken[p], m) + TookAt(new[p], m)
<1> DEFINE hand == [q \in Planners |-> TookAt(taken[q], m)]
           then == [q \in Planners |-> TookAt(new[q], m)]
<1>1. \A q \in Planners : hand[q] \in Nat /\ then[q] \in Nat
  BY TookAtNat
<1>2. \A q \in Planners \ {p} : hand[q] = then[q]
  OBVIOUS
<1>3. /\ InHand(taken, m) = SumFunctionOnSet(hand, Planners)
      /\ InHand(new, m) = SumFunctionOnSet(then, Planners)
      /\ hand[p] = TookAt(taken[p], m) /\ then[p] = TookAt(new[p], m)
  BY DEF InHand
<1> HIDE DEF hand, then
<1>4. SumFunctionOnSet(then, Planners) = SumFunctionOnSet(hand, Planners) - hand[p] + then[p]
  BY <1>1, <1>2, SystemAssumption, SumUpdate
<1> QED
  BY <1>3, <1>4

\* A request without a share.
LEMMA InHandDropped ==
  ASSUME NEW taken \in [Planners -> [Reminds -> Slots]], NEW p \in Planners, NEW m \in Minutes
  PROVE  InHand([taken EXCEPT ![p] = Nowhere], m) = InHand(taken, m) - TookAt(taken[p], m)
<1> DEFINE new == [taken EXCEPT ![p] = Nowhere]
<1>1. new[p] = Nowhere /\ \A q \in Planners \ {p} : new[q] = taken[q]
  OBVIOUS
<1> HIDE DEF new
<1>2. InHand(new, m) = InHand(taken, m) - TookAt(taken[p], m) + TookAt(new[p], m)
  BY <1>1, InHandChanged
<1>3. InHand(taken, m) \in Nat /\ TookAt(taken[p], m) \in Nat
  BY InHandNat, TookAtNat
<1>4. InHand(new, m) = InHand(taken, m) - TookAt(taken[p], m)
  BY <1>1, <1>2, <1>3, TookNone
<1> QED
  BY <1>4 DEF new

\* A remind that was in no minute is in one.
LEMMA TookOneMore ==
  ASSUME NEW minutes \in [Reminds -> Slots], NEW r \in Reminds, minutes[r] = NoSlot,
         NEW slot \in Minutes, NEW m \in Minutes
  PROVE  TookAt([minutes EXCEPT ![r] = slot], m) =
             TookAt(minutes, m) + (IF m = slot THEN 1 ELSE 0)
<1> DEFINE before == {x \in Reminds : minutes[x] = m}
           then   == {x \in Reminds : [minutes EXCEPT ![r] = slot][x] = m}
<1>1. m # NoSlot
  BY PlanningAssumption DEF NoSlot
<1>2. IsFiniteSet(before) /\ Cardinality(before) \in Nat
  BY SomeReminds
<1>3. r \notin before
  BY <1>1
<1>4. CASE m = slot
  <2>1. then = before \cup {r}
    BY <1>4
  <2> HIDE DEF before, then
  <2>2. Cardinality(before \cup {r}) = Cardinality(before) + 1
    BY <1>2, <1>3, FS_AddElement
  <2> QED
    BY <1>4, <2>1, <2>2 DEF TookAt, before, then
<1>5. CASE m # slot
  <2>1. then = before
    BY <1>3, <1>5
  <2> QED
    BY <1>2, <1>5, <2>1 DEF TookAt
<1> QED
  BY <1>4, <1>5

BookedIn(m) ==
    /\ after[m] + InHand(took, m) <= count[m] + uncounted[m]
    /\ faults = 0 /\ deleted = {} /\ recorder # "noop" =>
           after[m] + InHand(took, m) = count[m]

Booked == \A m \in Minutes : BookedIn(m)

LEMMA BookedMeans == Booked => RecordsMatchCounters
<1> SUFFICES ASSUME Booked, NEW m \in Minutes
             PROVE  LET inHand == FoldFunction(+, 0, [p \in Planners |-> AfterCounts(p)[m]])
                    IN  /\ after[m] + inHand <= count[m] + uncounted[m]
                        /\ faults = 0 /\ deleted = {} /\ recorder # "noop" =>
                               after[m] + inHand = count[m]
  BY DEF RecordsMatchCounters
<1> DEFINE hand == [p \in Planners |-> AfterCounts(p)[m]]
<1>1. hand = [p \in Planners |-> TookAt(took[p], m)]
  BY DEF AfterCounts, TookAt
<1>2. InHand(took, m) = SumFunctionOnSet(hand, Planners) /\ DOMAIN hand = Planners
  BY <1>1 DEF InHand
<1> HIDE DEF hand
<1>3. FoldFunction(+, 0, hand) = SumFunctionOnSet(hand, Planners)
  BY <1>2, FoldIsSum
<1> QED
  BY <1>2, <1>3 DEF Booked, BookedIn, hand

LEMMA BookedInit == SystemInit => Booked
<1> SUFFICES ASSUME SystemInit, NEW m \in Minutes PROVE BookedIn(m)
  BY DEF Booked
<1> DEFINE hand == [p \in Planners |-> TookAt(took[p], m)]
<1>1. \A p \in Planners : hand[p] = 0 /\ hand[p] \in Nat
  BY TookNone DEF SystemInit
<1>2. InHand(took, m) = SumFunctionOnSet(hand, Planners)
  BY DEF InHand
<1> HIDE DEF hand
<1>3. InHand(took, m) = 0
  BY <1>1, <1>2, SystemAssumption, SumZero
<1> QED
  BY <1>3 DEF SystemInit, Init, BookedIn

LEMMA BookedKept ==
  ASSUME Booked, UNCHANGED <<count, uncounted, took, after, recorder>>, faults' = 0 => faults = 0,
         deleted \subseteq deleted'
  PROVE  Booked'
<1>1. deleted' = {} => deleted = {}
  OBVIOUS
<1> QED
  BY <1>1 DEF Booked, BookedIn

LEMMA BooksTyped ==
  ASSUME SystemTyped, NEW m \in Minutes
  PROVE  after[m] \in Nat /\ count[m] \in Nat /\ uncounted[m] \in Nat /\ InHand(took, m) \in Nat
  BY InHandNat DEF SystemTyped, Typed, StoreTyped, RecordsTyped

\* A request drops what it has in hand: some of it may have been recorded, and
\* what is lost goes with a fault or a deletion, or is nothing.
LEMMA BookedDropped ==
  ASSUME SystemTyped, Booked, NEW p \in Planners, took' = [took EXCEPT ![p] = Nowhere],
         UNCHANGED <<recorder, uncounted, deleted>>, faults' = 0 => faults = 0,
         \A m \in Minutes :
             /\ after'[m] \in after[m] .. (after[m] + TookAt(took[p], m))
             /\ count'[m] \in Nat /\ count'[m] >= count[m]
             /\ faults' = 0 /\ deleted = {} /\ recorder # "noop" =>
                   count'[m] = count[m] /\ after'[m] = after[m] + TookAt(took[p], m)
  PROVE  Booked'
<1>1. ASSUME NEW m \in Minutes
      PROVE  InHand(took', m) = InHand(took, m) - TookAt(took[p], m)
  <2>1. took \in [Planners -> [Reminds -> Slots]]
    BY DEF SystemTyped, RequestsTyped
  <2>2. InHand([took EXCEPT ![p] = Nowhere], m) = InHand(took, m) - TookAt(took[p], m)
    BY <2>1, InHandDropped
  <2> QED
    BY <2>2
<1>2. ASSUME NEW m \in Minutes PROVE BookedIn(m)'
  <2>1. TookAt(took[p], m) \in Nat
    BY TookAtNat
  <2>2. after[m] \in Nat /\ count[m] \in Nat /\ uncounted[m] \in Nat /\ InHand(took, m) \in Nat
    BY BooksTyped
  <2>3. BookedIn(m)
    BY DEF Booked
  <2>4. InHand(took', m) = InHand(took, m) - TookAt(took[p], m)
    BY <1>1
  <2>5. /\ after'[m] \in after[m] .. (after[m] + TookAt(took[p], m))
        /\ count'[m] \in Nat /\ count'[m] >= count[m]
        /\ faults' = 0 /\ deleted = {} /\ recorder # "noop" =>
              count'[m] = count[m] /\ after'[m] = after[m] + TookAt(took[p], m)
    OBVIOUS
  <2>6. after'[m] + InHand(took', m) <= count'[m] + uncounted'[m]
    BY <2>1, <2>2, <2>3, <2>4, <2>5 DEF BookedIn
  <2>7. faults' = 0 /\ deleted' = {} /\ recorder' # "noop" =>
            after'[m] + InHand(took', m) = count'[m]
    BY <2>1, <2>2, <2>3, <2>4, <2>5 DEF BookedIn
  <2> QED
    BY <2>6, <2>7 DEF BookedIn
<1> QED
  BY <1>2 DEF Booked

\* A packet is in hand when it is counted, or when its count is lost.
LEMMA CommitOneBooked ==
  ASSUME SystemTyped, AllAhead, Booked, NEW p \in Planners, NEW r \in Reminds, CommitOne(p, r)
  PROVE  Booked'
<1>1. PICK slot \in SlotsRead(r), lost \in SUBSET Writes :
          /\ CommitPacket(r, slot, lost)
          /\ IF r \in committed THEN Fault ELSE CommitFault(r, slot, lost)
          /\ took' = [took EXCEPT ![p][r] = slot]
          /\ uncounted' = IF "count" \in lost
                          THEN [uncounted EXCEPT ![slot] = @ + 1] ELSE uncounted
  BY DEF CommitOne
<1>2. slot \in Minutes
  BY SlotsReadTyped DEF SystemTyped, Typed, StoreTyped
<1>3. took[p] \in [Reminds -> Slots] /\ took[p][r] = NoSlot
  BY DEF CommitOne, SystemTyped, RequestsTyped, AllAhead, Ahead
<1>4. /\ took'[p] = [took[p] EXCEPT ![r] = slot]
      /\ \A q \in Planners \ {p} : took'[q] = took[q]
  BY <1>1 DEF SystemTyped, RequestsTyped
<1>5. UNCHANGED <<after, recorder, deleted>>
  BY DEF CommitOne, recordVars
<1>6. faults' = 0 => faults = 0 /\ "count" \notin lost
  <2>1. Fault => faults' # 0
    BY FaultsCount
  <2>2. ASSUME faults' = 0 PROVE faults = 0 /\ "count" \notin lost
    <3>1. NoFault /\ lost = {}
      BY <1>1, <2>1, <2>2 DEF CommitFault
    <3> QED
      BY <2>2, <3>1, FaultsCount
  <2> QED
    BY <2>2
<1>7. ASSUME NEW m \in Minutes PROVE BookedIn(m)'
  <2> DEFINE one == IF m = slot THEN 1 ELSE 0
  <2>1. TookAt(took'[p], m) = TookAt(took[p], m) + one
    BY <1>2, <1>3, <1>4, TookOneMore
  <2>2. InHand(took', m) = InHand(took, m) - TookAt(took[p], m) + TookAt(took'[p], m)
    BY <1>4, InHandChanged
  <2>3. /\ TookAt(took[p], m) \in Nat
        /\ after[m] \in Nat /\ count[m] \in Nat /\ uncounted[m] \in Nat /\ InHand(took, m) \in Nat
    BY TookAtNat, BooksTyped
  <2>4. InHand(took', m) = InHand(took, m) + one
    BY <2>1, <2>2, <2>3
  <2>5. count'[m] = IF "count" \in lost THEN count[m] ELSE count[m] + one
    BY <1>1, <1>2 DEF CommitPacket, SystemTyped, Typed, StoreTyped
  <2>6. uncounted'[m] = IF "count" \in lost THEN uncounted[m] + one ELSE uncounted[m]
    BY <1>1, <1>2 DEF SystemTyped, RecordsTyped
  <2>7. BookedIn(m)
    BY DEF Booked
  <2>8. after'[m] + InHand(took', m) <= count'[m] + uncounted'[m]
    BY <1>5, <2>3, <2>4, <2>5, <2>6, <2>7 DEF BookedIn
  <2>9. faults' = 0 /\ deleted' = {} /\ recorder' # "noop" =>
            after'[m] + InHand(took', m) = count'[m]
    BY <1>5, <1>6, <2>3, <2>4, <2>5, <2>7 DEF BookedIn
  <2> QED
    BY <2>8, <2>9 DEF BookedIn
<1> QED
  BY <1>7 DEF Booked

LEMMA StartCommitBooked ==
  ASSUME SystemTyped, AllAhead, Booked, NEW p \in Planners, StartCommit(p)
  PROVE  Booked'
<1>1. UNCHANGED <<count, uncounted, after, recorder, deleted>>
  BY DEF StartCommit, planningVars, redisVars, recordVars, historyVars
<1>2. took' = took
  <2>1. took[p] = Nowhere
    BY DEF StartCommit, AllAhead, Ahead
  <2>2. CASE EndRequest(p)
    BY <2>1, <2>2 DEF EndRequest, SystemTyped, RequestsTyped
  <2> QED
    BY <2>2 DEF StartCommit
<1>3. faults' = 0 => faults = 0
  BY FaultsCount DEF StartCommit
<1> QED
  BY <1>1, <1>2, <1>3, BookedKept

\* A request that gives up has something not recorded: something has failed, or
\* been deleted.
LEMMA CommitFailsBooked ==
  ASSUME SystemTyped, Marked, Booked, NEW p \in Planners, NEW r \in Reminds, CommitFails(p, r)
  PROVE  Booked'
<1>1. /\ took' = [took EXCEPT ![p] = Nowhere]
      /\ UNCHANGED <<after, recorder, uncounted, deleted>>
  BY DEF CommitFails, EndRequest, recordVars, historyVars
<1>2. faults' = 0 => faults = 0 /\ ~Fault
  <2>1. Fault \/ NoFault
    BY DEF CommitFails, RegistrationFails, FlagFails, CommitFault
  <2> QED
    BY <2>1, FaultsCount
<1>3. faults' = 0 => deleted # {}
  BY <1>2, PlainCommitFails DEF Marked
<1>4. count \in [Minutes -> Nat] /\ after \in [Minutes -> Nat]
  BY DEF SystemTyped, Typed, StoreTyped, RecordsTyped
<1>5. \A m \in Minutes : count'[m] \in Nat /\ count'[m] >= count[m]
  BY <1>4 DEF CommitFails, RegistrationFails, FlagFails, CommitPacket
<1>6. \A m \in Minutes : after'[m] \in after[m] .. (after[m] + TookAt(took[p], m))
  BY <1>1, <1>4, TookAtNat
<1> QED
  BY <1>1, <1>2, <1>3, <1>5, <1>6, BookedDropped

\* What a request has in hand moves to the records; a failing recorder loses it.
LEMMA AnswerBooked ==
  ASSUME SystemTyped, Booked, NEW p \in Planners, Answer(p)
  PROVE  Booked'
<1>1. /\ took' = [took EXCEPT ![p] = Nowhere]
      /\ UNCHANGED <<count, recorder, uncounted, deleted>>
  BY DEF Answer, EndRequest, planningVars, redisVars, recordVars, Record
<1>2. count \in [Minutes -> Nat] /\ after \in [Minutes -> Nat]
  BY DEF SystemTyped, Typed, StoreTyped, RecordsTyped
<1>3. \A m \in Minutes : /\ AfterCounts(p)[m] = TookAt(took[p], m)
                         /\ TookAt(took[p], m) \in Nat
  <2> TAKE m \in Minutes
  <2>1. AfterCounts(p)[m] = Cardinality({r \in Reminds : took[p][r] = m})
    BY DEF AfterCounts
  <2>2. TookAt(took[p], m) = Cardinality({r \in Reminds : took[p][r] = m})
    BY DEF TookAt
  <2> QED
    BY <2>1, <2>2, TookAtNat
<1>4. faults' = 0 => faults = 0
  BY FaultsCount DEF Answer
<1>5. ASSUME NEW m \in Minutes
      PROVE  /\ after'[m] \in after[m] .. (after[m] + TookAt(took[p], m))
             /\ faults' = 0 /\ recorder # "noop" => after'[m] = after[m] + TookAt(took[p], m)
  <2>1. CASE recorder = "noop" /\ UNCHANGED recordVars
    BY <1>2, <1>3, <2>1 DEF recordVars
  <2>2. CASE recorder # "noop" /\ Record(AfterCounts(p), {})
    <3>1. after'[m] = after[m] + AfterCounts(p)[m]
      BY <2>2 DEF Record
    <3> QED
      BY <1>2, <1>3, <3>1
  <2>3. CASE Fault /\ \E lost \in Dropped : Record(AfterCounts(p), lost)
    <3>1. PICK lost \in Dropped : Record(AfterCounts(p), lost)
      BY <2>3
    <3>2. after'[m] = after[m] + IF m \in lost THEN 0 ELSE AfterCounts(p)[m]
      BY <3>1 DEF Record
    <3> QED
      BY <1>2, <1>3, <2>3, <3>2, FaultsCount
  <2> QED
    BY <2>1, <2>2, <2>3 DEF Answer
<1>6. \A m \in Minutes :
         /\ after'[m] \in after[m] .. (after[m] + TookAt(took[p], m))
         /\ count'[m] \in Nat /\ count'[m] >= count[m]
         /\ faults' = 0 /\ deleted = {} /\ recorder # "noop" =>
               count'[m] = count[m] /\ after'[m] = after[m] + TookAt(took[p], m)
  BY <1>1, <1>2, <1>5
<1> QED
  BY <1>1, <1>4, <1>6, BookedDropped

LEMMA RestartBooked ==
  ASSUME SystemTyped, Booked, Restart
  PROVE  Booked'
<1>1. UNCHANGED <<count, uncounted, after, recorder>> /\ faults' # 0
  BY FaultsCount DEF Restart, Crash, redisVars, recordVars, historyVars
<1>2. ASSUME NEW m \in Minutes PROVE BookedIn(m)'
  <2> DEFINE hand == [p \in Planners |-> TookAt(took'[p], m)]
  <2>1. \A p \in Planners : hand[p] = 0 /\ hand[p] \in Nat
    BY TookNone DEF Restart
  <2>2. InHand(took', m) = SumFunctionOnSet(hand, Planners)
    BY DEF InHand
  <2> HIDE DEF hand
  <2>3. InHand(took', m) = 0
    BY <2>1, <2>2, SystemAssumption, SumZero
  <2>4. /\ BookedIn(m)
        /\ after[m] \in Nat /\ count[m] \in Nat /\ uncounted[m] \in Nat /\ InHand(took, m) \in Nat
    BY BooksTyped DEF Booked
  <2> QED
    BY <1>1, <2>3, <2>4 DEF BookedIn
<1> QED
  BY <1>2 DEF Booked

LEMMA PlanningBooked ==
  ASSUME SystemTyped, Booked, NEW p \in Planners,
         \/ \E c \in Calls : Begin(p, c)
         \/ StartPlanning(p) \/ PlanningFails(p) \/ PlanningStep(p) \/ PlanningReturns(p)
         \/ \E r \in Reminds : Skip(p, r)
  PROVE  Booked'
<1> USE FaultsCount, BookedKept DEF recordVars, historyVars
<1>1. ASSUME NEW c \in Calls, Begin(p, c) PROVE Booked'
  BY <1>1 DEF Begin, vars, redisVars
<1>2. CASE StartPlanning(p)
  BY <1>2 DEF StartPlanning, Fetch, redisVars
<1>3. CASE PlanningFails(p)
  BY <1>3 DEF PlanningFails, planningVars, redisVars
<1>4. CASE PlanningStep(p)
  <2>1. count' = count
    BY <1>4, PlannerWorks DEF PlanningStep, SystemTyped
  <2>2. Fault \/ NoFault
    BY <1>4 DEF PlanningStep, MergeWithPreviousPlans, CalculateTargets, PrepareSlots, Place,
                SavePlan, NoFault
  <2> QED
    BY <1>4, <2>1, <2>2 DEF PlanningStep, requestVars
<1>5. CASE PlanningReturns(p)
  BY <1>5 DEF PlanningReturns, Return, redisVars
<1>6. ASSUME NEW r \in Reminds, Skip(p, r) PROVE Booked'
  BY <1>6 DEF Skip, vars, redisVars
<1> QED
  BY <1>1, <1>2, <1>3, <1>4, <1>5, <1>6

LEMMA CountExpiresBooked ==
  ASSUME SystemTyped, Booked, NEW m \in Minutes, CountExpires(m)
  PROVE  Booked'
<1>1. /\ UNCHANGED <<after, recorder, took>> /\ faults' # 0
      /\ count' = [count EXCEPT ![m] = 0]
      /\ uncounted' = [uncounted EXCEPT ![m] = @ + count[m]]
  BY FaultsCount DEF CountExpires, ExpireCount, recordVars, requestVars
<1>2. ASSUME NEW n \in Minutes PROVE BookedIn(n)'
  <2>1. BookedIn(n)
    BY DEF Booked
  <2>2. /\ after[n] \in Nat /\ count[n] \in Nat /\ uncounted[n] \in Nat /\ InHand(took, n) \in Nat
    BY BooksTyped
  <2>3. count'[n] + uncounted'[n] = count[n] + uncounted[n]
    BY <1>1, <2>2 DEF SystemTyped, Typed, StoreTyped, RecordsTyped
  <2> QED
    BY <1>1, <2>1, <2>2, <2>3 DEF BookedIn
<1> QED
  BY <1>2 DEF Booked

LEMMA BookedNext ==
  SystemTyped /\ Marked /\ AllAhead /\ Booked /\ [SystemNext]_systemVars => Booked'
<1> SUFFICES ASSUME SystemTyped, Marked, AllAhead, Booked, [SystemNext]_systemVars
             PROVE  Booked'
  OBVIOUS
<1>1. CASE Tick \/ UNCHANGED systemVars
  BY <1>1, BookedKept
  DEF Tick, systemVars, requestVars, recordVars, historyVars, vars, redisVars
<1>2. ASSUME NEW r \in Reminds, UserSetsRemind(r) \/ UserDeletesRemind(r) PROVE Booked'
  BY <1>2, BookedKept
  DEF UserSetsRemind, SetRemind, UserDeletesRemind, requestVars, recordVars, historyVars, redisVars
<1>3. ASSUME NEW r \in Reminds, MarkerExpires(r) PROVE Booked'
  BY <1>3, BookedKept, FaultsCount
  DEF MarkerExpires, ExpireCommitted, requestVars, recordVars, historyVars
<1>4. ASSUME NEW m \in Minutes, PlanExpires(m) PROVE Booked'
  BY <1>4, BookedKept, FaultsCount
  DEF PlanExpires, ExpirePlan, requestVars, recordVars, historyVars
<1> QED
  BY <1>1, <1>2, <1>3, <1>4, PlanningBooked, StartCommitBooked, CommitOneBooked,
     CommitFailsBooked, AnswerBooked, CountExpiresBooked, RestartBooked
  DEF SystemNext

\* The records never claim more than was counted or has been lost of the counters
\* (throttle/service.go:210, throttle_repository.go:21), and without faults and
\* deletions every counted packet is recorded or in the hand of the request that
\* committed it (buildCommitResultRecords and IncrementPacketCount), for any
\* number of concurrent requests and reminds.
THEOREM RecordsAgree == SystemSpec => []RecordsMatchCounters
  BY SystemTypedInit, SystemTypedNext, MarkedInit, MarkedNext, SoundInit, SoundNext,
     AheadInit, AheadNext, BookedInit, BookedNext, BookedMeans, PTL DEF SystemSpec

-----------------------------------------------------------------------------
(* Plans that are kept.  Requests come one at a time, without faults and   *)
(* with the windows of the configuration; the request that runs, if there  *)
(* is one, has planned what its commit phase will look up.                 *)

Faultless == faults = 0 /\ ~overlapped

\* Whoever is planned and can still be committed by a request that starts at
\* `from' is in the plan of the minute it is planned in.
Keeps(from) ==
    \A r \in known \ committed :
        planned[r] # NoSlot /\ Home(r) >= from => r \in plan[planned[r]]

PlannedBefore(until) ==
    \A r \in Reminds : planned[r] # NoSlot => r \in known \cup deleted /\ Home(r) < until

\* The planning phase takes all of them up again, and saves each at last.
PlanningKeeps(p) ==
    /\ range[p] = [from |-> call[p].start, until |-> call[p].planEnd]
    /\ active[p] \cap committed = {}
    /\ \A r \in active[p] : r \in known \cup deleted /\ Home(r) < call[p].planEnd
    /\ \A r \in known \ committed :
          planned[r] # NoSlot /\ Home(r) >= call[p].start => r \in active[p]
    /\ pc[p] = "place" => \A r \in active[p] \ todo[p] : chosen[p][r] \in unsaved[p]
    /\ pc[p] = "save" => \A r \in active[p] :
          \/ chosen[p][r] \in unsaved[p]
          \/ planned[r] = chosen[p][r] /\ r \in plan[chosen[p][r]]

Running(p) ==
    /\ call[p].start <= now
    /\ stage[p] \in {"plan", "planning"} =>
          /\ call[p].planEnd = call[p].start + PlanningWindow
          /\ PlannedBefore(call[p].planEnd)
    /\ stage[p] \in {"plan", "commit", "committing"} => Keeps(call[p].start)
    /\ stage[p] = "planning" => PlanningKeeps(p)
    /\ stage[p] = "committing" => \A r \in left[p] \ committed :
          planned[r] # NoSlot => r \in plan[planned[r]]

Alone == \A p, q \in Planners : stage[p] # "none" /\ stage[q] # "none" => p = q

Keeping ==
    Faultless =>
        /\ Alone
        /\ PlannedBefore(now + PlanningWindow)
        /\ NoneRuns => Keeps(now)
        /\ \A p \in Planners : stage[p] # "none" => Running(p)

\* POST /throttle, whose windows begin now: they only move forward.
OrdinaryCalls == \A c \in Calls : c.from = NoSlot /\ c.planEnd = NoSlot

LEMMA KeepingMeans == Keeping => PlansKeepReminds
  BY DEF Keeping, Faultless, Keeps, PlansKeepReminds

LEMMA KeepingInit == SystemInit => Keeping
  BY PlanningAssumption
  DEF SystemInit, Init, Nowhere, Keeping, Alone, PlannedBefore, NoneRuns, Keeps

\* What has been without faults was so before, and a step of it is none.
LEMMA FaultlessBefore ==
  ASSUME SystemTyped, [SystemNext]_systemVars, Faultless'
  PROVE  Faultless /\ ~Fault /\ faults' = faults
  BY FaultOrNot, FaultsCount DEF Faultless, NoFault

\* A step of the one request that runs.
LEMMA KeepingStep ==
  ASSUME NEW p \in Planners, \A q \in Planners \ {p} : stage'[q] = "none",
         PlannedBefore(now + PlanningWindow)',
         stage'[p] # "none" => Running(p)',
         stage'[p] = "none" => Keeps(now)'
  PROVE  Keeping'
  BY DEF Keeping, Alone, NoneRuns

\* A step beside it.
LEMMA KeepingKept ==
  ASSUME SystemTyped, Keeping, Faultless, now' \in Nat, now <= now',
         known \cup deleted \subseteq known' \cup deleted',
         known' \subseteq Reminds, (known' \ known) \cap deleted = {},
         UNCHANGED <<stage, call, left, plan, planned, committed, plannerVars>>
  PROVE  Keeping'
<1>1. /\ now \in Nat /\ PlanningWindow \in Nat
      /\ \A r \in Reminds : Home(r) \in Nat
      /\ \A p \in Planners : call[p].start \in Nat
  BY SystemAssumption, HomeIsReachable DEF SystemTyped, RequestsTyped, Calling
<1>2. \A r \in known' \ known : planned[r] = NoSlot
  BY DEF Keeping, PlannedBefore
<1>3. ASSUME NEW from \in Nat, Keeps(from), NEW later \in Nat, from <= later
      PROVE  \A r \in known' \ committed' :
                 planned'[r] # NoSlot /\ Home(r) >= later => r \in plan'[planned'[r]]
  BY <1>1, <1>2, <1>3 DEF Keeps
<1>4. ASSUME NEW until \in Int, PlannedBefore(until), NEW later \in Int, until <= later
      PROVE  \A r \in Reminds :
                 planned'[r] # NoSlot => r \in known' \cup deleted' /\ Home(r) < later
  BY <1>1, <1>4 DEF PlannedBefore
<1>5. PlannedBefore(now + PlanningWindow)'
  BY <1>1, <1>4 DEF Keeping, PlannedBefore
<1>6. (NoneRuns => Keeps(now))'
  BY <1>1, <1>3 DEF Keeping, NoneRuns, Keeps
<1>7. ASSUME NEW p \in Planners, stage[p] # "none" PROVE Running(p)'
  <2>1. Running(p)
    BY <1>7 DEF Keeping
  <2>2. call'[p].start <= now'
    BY <1>1, <2>1 DEF Running
  <2>3. stage[p] \in {"plan", "planning"} =>
          (call[p].planEnd = call[p].start + PlanningWindow /\ PlannedBefore(call[p].planEnd))'
    <3>1. stage[p] \in {"plan", "planning"} => call[p].planEnd \in Int
      BY <1>1, <2>1 DEF Running
    <3> QED
      BY <1>4, <2>1, <3>1 DEF Running, PlannedBefore
  <2>4. stage[p] \in {"plan", "commit", "committing"} => Keeps(call[p].start)'
    BY <1>1, <1>3, <2>1 DEF Running, Keeps
  <2>5. stage[p] = "planning" => PlanningKeeps(p)'
    BY <1>2, <2>1 DEF Running, PlanningKeeps, plannerVars
  <2>6. (stage[p] = "committing" => \A r \in left[p] \ committed :
            planned[r] # NoSlot => r \in plan[planned[r]])'
    BY <2>1 DEF Running
  <2> QED
    BY <2>2, <2>3, <2>4, <2>5, <2>6 DEF Running
<1> QED
  BY <1>5, <1>6, <1>7 DEF Keeping, Alone

LEMMA OthersRest ==
  ASSUME Keeping, Faultless, NEW p \in Planners, stage[p] # "none"
  PROVE  \A q \in Planners \ {p} : stage[q] = "none"
  BY DEF Keeping, Alone

LEMMA BeginKeeping ==
  ASSUME SystemTyped, Keeping, Faultless, Faultless', OrdinaryCalls,
         NEW p \in Planners, NEW c \in Calls, Begin(p, c)
  PROVE  Keeping'
<1>1. NoneRuns
  BY DEF Begin, Faultless
<1>2. /\ call' = [call EXCEPT ![p] = Started(c)]
      /\ stage' = [stage EXCEPT ![p] = "plan"]
      /\ UNCHANGED <<plan, planned, committed, known, deleted, now>>
  BY DEF Begin, Goto, vars, redisVars
<1>3. Started(c).start = now /\ Started(c).planEnd = now + PlanningWindow
  BY DEF OrdinaryCalls, Started, Given
<1>4. call'[p].start = now /\ call'[p].planEnd = now + PlanningWindow
  BY <1>2, <1>3 DEF SystemTyped, RequestsTyped
<1>5. now \in Nat
  BY DEF SystemTyped
<1>6. PlannedBefore(now + PlanningWindow) /\ Keeps(now)
  BY <1>1 DEF Keeping
<1>7. stage'[p] = "plan" /\ \A q \in Planners \ {p} : stage'[q] = "none"
  BY <1>1, <1>2 DEF SystemTyped, RequestsTyped, NoneRuns
<1>8. Running(p)'
  BY <1>2, <1>4, <1>5, <1>6, <1>7 DEF Running, PlannedBefore, Keeps
<1>9. PlannedBefore(now + PlanningWindow)'
  BY <1>2, <1>6 DEF PlannedBefore
<1> QED
  BY <1>7, <1>8, <1>9, KeepingStep

LEMMA StartPlanningKeeping ==
  ASSUME SystemTyped, Promised, Marked, Keeping, Faultless, ~Fault,
         NEW p \in Planners, StartPlanning(p)
  PROVE  Keeping'
<1> DEFINE window == [from |-> call[p].start, until |-> call[p].planEnd]
           found  == {x \in known \ throttled : Home(x) \in window.from .. (window.until - 1)}
<1>1. /\ stage[p] = "plan" /\ Running(p)
      /\ \A q \in Planners \ {p} : stage[q] = "none"
  BY OthersRest DEF StartPlanning, Keeping
<1>2. /\ stage' = [stage EXCEPT ![p] = "planning"]
      /\ range' = [range EXCEPT ![p] = window]
      /\ active' = [active EXCEPT ![p] = Unprocessed(found, {})]
      /\ pc' = [pc EXCEPT ![p] = "merge"]
      /\ UNCHANGED <<plan, planned, committed, known, deleted, now, call>>
  <2>1. PICK unread \in SUBSET (found \cap committed) :
            /\ active' = [active EXCEPT ![p] = Unprocessed(found, unread)]
            /\ IF unread = {} THEN NoFault ELSE Fault
    BY DEF StartPlanning, Fetch
  <2>2. unread = {}
    BY <2>1
  <2> QED
    BY <2>1, <2>2 DEF StartPlanning, Fetch, Goto, redisVars
<1>3. active'[p] = found \ committed
  BY <1>2 DEF SystemTyped, Typed, LocalsTyped, Unprocessed
<1>4. /\ call[p].start \in Int /\ call[p].planEnd \in Int
      /\ \A r \in Reminds : Home(r) \in Int
      /\ known \subseteq Reminds /\ throttled \subseteq committed
  BY HomeIsReachable
  DEF SystemTyped, RequestsTyped, Calling, Typed, StoreTyped, Promised, Marked, Faultless
<1>5. /\ range'[p] = window /\ pc'[p] = "merge"
      /\ stage'[p] = "planning" /\ \A q \in Planners \ {p} : stage'[q] = "none"
  BY <1>1, <1>2 DEF SystemTyped, RequestsTyped, Typed, LocalsTyped
<1>6. \A r \in known \ committed :
          planned[r] # NoSlot /\ Home(r) >= call[p].start => r \in active'[p]
  BY <1>1, <1>3, <1>4 DEF Running, PlannedBefore
<1>7. \A r \in active'[p] : r \in known \cup deleted /\ Home(r) < call[p].planEnd
  BY <1>3, <1>4
<1>8. active'[p] \cap committed = {}
  BY <1>3
<1> HIDE DEF found
<1>9. PlanningKeeps(p)'
  BY <1>2, <1>5, <1>6, <1>7, <1>8 DEF PlanningKeeps
<1>10. Running(p)'
  BY <1>1, <1>2, <1>5, <1>9 DEF Running, PlannedBefore
<1>11. PlannedBefore(now + PlanningWindow)'
  BY <1>2 DEF Keeping, PlannedBefore
<1> QED
  BY <1>5, <1>10, <1>11, KeepingStep

\* A step inside the planning phase.
LEMMA PlannerKeeps ==
  ASSUME Typed, ~Fault, NEW p \in Planners,
         MergeWithPreviousPlans(p) \/ CalculateTargets(p) \/ PrepareSlots(p),
         UNCHANGED <<call, deleted>>, PlanningKeeps(p)
  PROVE  PlanningKeeps(p)' /\ planned' = planned
<1>1. /\ UNCHANGED <<range, active, chosen, unsaved, plan, planned, committed, known>>
      /\ pc[p] # "save"
  BY DEF MergeWithPreviousPlans, CalculateTargets, PrepareSlots, redisVars
<1>2. /\ pc'[p] = "place" => todo'[p] = active[p]
      /\ pc'[p] = "save" => active[p] = {}
  BY DEF MergeWithPreviousPlans, CalculateTargets, PrepareSlots, Typed, LocalsTyped
<1> QED
  BY <1>1, <1>2 DEF PlanningKeeps

LEMMA PlaceKeeps ==
  ASSUME Typed, NEW p \in Planners, NEW r \in Reminds, Place(p, r),
         UNCHANGED <<call, deleted>>, PlanningKeeps(p)
  PROVE  PlanningKeeps(p)' /\ planned' = planned
<1> DEFINE slot == SlotFor(p, r)
<1>1. /\ UNCHANGED <<range, active, plan, planned, committed, known>>
      /\ pc[p] = "place" /\ r \in todo[p]
  BY DEF Place, InTurn, redisVars
<1>2. /\ chosen' = [chosen EXCEPT ![p][r] = slot]
      /\ todo' = [todo EXCEPT ![p] = @ \ {r}]
      /\ unsaved' = [unsaved EXCEPT ![p] = @ \cup {slot}]
      /\ pc' = [pc EXCEPT ![p] = IF todo[p] = {r} THEN "save" ELSE "place"]
  BY DEF Place, SlotFor
<1> HIDE DEF slot
<1>3. /\ chosen'[p] = [chosen[p] EXCEPT ![r] = slot] /\ chosen[p] \in [Reminds -> Slots]
      /\ todo'[p] = todo[p] \ {r}
      /\ unsaved'[p] = unsaved[p] \cup {slot}
      /\ pc'[p] = IF todo[p] = {r} THEN "save" ELSE "place"
      /\ active[p] \subseteq Reminds
  BY <1>2 DEF Typed, LocalsTyped
<1>4. \A x \in active[p] \ todo'[p] : chosen'[p][x] \in unsaved'[p]
  BY <1>1, <1>3 DEF PlanningKeeps
<1>5. pc'[p] = "save" => todo'[p] = {}
  BY <1>3
<1> QED
  BY <1>1, <1>3, <1>4, <1>5 DEF PlanningKeeps

LEMMA SaveKeeps ==
  ASSUME Typed, ~Fault, NEW p \in Planners, NEW m \in Minutes, SavePlan(p, m),
         UNCHANGED <<call, deleted>>, PlanningKeeps(p)
  PROVE  /\ PlanningKeeps(p)'
         /\ \A r \in Reminds \ active[p] : planned'[r] = planned[r]
<1> DEFINE packets == PlannedPackets(p, m)
<1>1. /\ UNCHANGED <<range, active, chosen, todo, committed, known, pc>>
      /\ pc[p] = "save"
      /\ unsaved' = [unsaved EXCEPT ![p] = @ \ {m}]
      /\ plan' = [plan EXCEPT ![m] = packets]
      /\ planned' = [r \in Reminds |-> IF r \in packets THEN m ELSE planned[r]]
  BY DEF SavePlan, WritePlan
<1>2. packets \subseteq active[p] /\ \A r \in active[p] : r \in packets <=> chosen[p][r] = m
  BY DEF PlannedPackets
<1>3. /\ plan \in [Minutes -> SUBSET Reminds] /\ known \subseteq Reminds
      /\ active[p] \subseteq Reminds
  BY DEF Typed, StoreTyped, LocalsTyped
<1>4. unsaved'[p] = unsaved[p] \ {m}
  BY <1>1 DEF Typed, LocalsTyped
<1> HIDE DEF packets
<1>5. ASSUME NEW r \in active[p]
      PROVE  \/ chosen[p][r] \in unsaved'[p]
             \/ planned'[r] = chosen[p][r] /\ r \in plan'[chosen[p][r]]
  <2>1. CASE chosen[p][r] = m
    BY <1>1, <1>2, <1>3, <2>1
  <2>2. CASE chosen[p][r] # m
    <3>1. planned'[r] = planned[r]
      BY <1>1, <1>2, <1>3, <2>2
    <3>2. plan'[chosen[p][r]] = plan[chosen[p][r]]
      BY <1>1, <1>3, <2>2
    <3> QED
      BY <1>1, <1>4, <2>2, <3>1, <3>2 DEF PlanningKeeps
  <2> QED
    BY <2>1, <2>2
<1>6. \A r \in Reminds \ active[p] : planned'[r] = planned[r]
  BY <1>1, <1>2
<1> QED
  BY <1>1, <1>3, <1>5, <1>6 DEF PlanningKeeps

LEMMA PlanningStepKeeping ==
  ASSUME SystemTyped, Keeping, Faultless, ~Fault, NEW p \in Planners, PlanningStep(p)
  PROVE  Keeping'
<1>1. /\ stage[p] = "planning" /\ Running(p)
      /\ \A q \in Planners \ {p} : stage[q] = "none"
      /\ UNCHANGED <<stage, call, deleted, now>>
  BY OthersRest DEF PlanningStep, Keeping, requestVars
<1>2. UNCHANGED <<known, committed>>
  BY PlannerWorks DEF PlanningStep, SystemTyped
<1>3. PlanningKeeps(p)' /\ \A r \in Reminds \ active[p] : planned'[r] = planned[r]
  BY <1>1, PlannerKeeps, PlaceKeeps, SaveKeeps DEF PlanningStep, Running, SystemTyped
<1>4. PlannedBefore(call[p].planEnd)'
  BY <1>1, <1>2, <1>3 DEF Running, PlannedBefore, PlanningKeeps
<1>5. Running(p)'
  BY <1>1, <1>3, <1>4 DEF Running
<1>6. PlannedBefore(now + PlanningWindow)'
  <2>1. /\ call[p].planEnd <= now + PlanningWindow
        /\ call[p].planEnd \in Int /\ now + PlanningWindow \in Int
        /\ \A r \in Reminds : Home(r) \in Int
    BY <1>1, SystemAssumption, HomeIsReachable
    DEF Running, SystemTyped, RequestsTyped, Calling
  <2> QED
    BY <1>1, <1>4, <2>1 DEF PlannedBefore
<1> QED
  BY <1>1, <1>5, <1>6, KeepingStep

LEMMA PlanningReturnsKeeping ==
  ASSUME SystemTyped, Keeping, Faultless, NEW p \in Planners, PlanningReturns(p)
  PROVE  Keeping'
<1>1. /\ stage[p] = "planning" /\ Running(p)
      /\ \A q \in Planners \ {p} : stage[q] = "none"
  BY OthersRest DEF PlanningReturns, Keeping
<1>2. /\ stage' = [stage EXCEPT ![p] = "commit"]
      /\ UNCHANGED <<plan, planned, committed, known, deleted, now, call>>
      /\ pc[p] = "save" /\ unsaved[p] = {}
  BY DEF PlanningReturns, Return, Goto, redisVars
<1>3. Keeps(call[p].start)
  BY <1>1, <1>2 DEF Running, PlanningKeeps, Keeps
<1>4. stage'[p] = "commit" /\ \A q \in Planners \ {p} : stage'[q] = "none"
  BY <1>1, <1>2 DEF SystemTyped, RequestsTyped
<1>5. Running(p)'
  BY <1>1, <1>2, <1>3, <1>4 DEF Running, Keeps
<1>6. PlannedBefore(now + PlanningWindow)'
  BY <1>2 DEF Keeping, PlannedBefore
<1> QED
  BY <1>4, <1>5, <1>6, KeepingStep

LEMMA CommitKeeping ==
  ASSUME SystemTyped, Keeping, Faultless, ~Fault, NEW p \in Planners,
         \/ StartCommit(p)
         \/ \E r \in Reminds : Skip(p, r) \/ CommitOne(p, r) \/ CommitFails(p, r)
         \/ Answer(p)
  PROVE  Keeping'
<1> DEFINE Planned(r) == planned[r] # NoSlot => r \in plan[planned[r]]
           Goes ==
               /\ UNCHANGED <<plan, planned, known, deleted, now>> /\ committed \subseteq committed'
               /\ \A q \in Planners \ {p} : stage'[q] = stage[q]
               /\ stage'[p] # "none" =>
                     /\ stage'[p] = "committing" /\ call'[p] = call[p]
                     /\ \A r \in left'[p] \ committed' : Planned(r)
<1>1. /\ stage[p] \in {"commit", "committing"} /\ Running(p)
      /\ \A q \in Planners \ {p} : stage[q] = "none"
  <2>1. stage[p] \in {"commit", "committing"}
    BY DEF StartCommit, Skip, CommitOne, CommitFails, Answer
  <2> QED
    BY <2>1, OthersRest DEF Keeping
<1>2. Goes
  <2> USE DEF SystemTyped, RequestsTyped, Goto, EndRequest, planningVars, redisVars
  <2>1. CASE StartCommit(p)
    <3>1. /\ UNCHANGED <<plan, planned, known, deleted, now, committed>>
          /\ \A q \in Planners \ {p} : stage'[q] = stage[q]
          /\ stage'[p] # "none" =>
                stage'[p] = "committing" /\ call'[p] = call[p] /\ left'[p] = ToCommit(p)
      BY <2>1 DEF StartCommit
    <3>2. \A r \in ToCommit(p) : r \in known /\ Home(r) >= call[p].start
      <4>1. call[p].start \in Int /\ \A r \in Reminds : Home(r) \in Int
        BY HomeIsReachable DEF Calling
      <4> QED
        BY <4>1 DEF ToCommit, Within, Typed, StoreTyped
    <3>3. \A r \in ToCommit(p) \ committed : Planned(r)
      BY <1>1, <2>1, <3>2 DEF Running, Keeps, StartCommit
    <3> QED
      BY <3>1, <3>3
  <2>2. ASSUME NEW r \in Reminds, Skip(p, r) \/ CommitOne(p, r) PROVE Goes
    <3>1. /\ UNCHANGED <<plan, planned, known, deleted, now, stage, call>>
          /\ stage[p] = "committing" /\ left'[p] \subseteq left[p]
      BY <2>2 DEF Skip, CommitOne, vars
    <3>2. committed \subseteq committed'
      <4>1. CASE Skip(p, r)
        BY <4>1 DEF Skip, vars
      <4>2. CASE CommitOne(p, r)
        BY <4>2, PlainCommitOne DEF CommitPacket
      <4> QED
        BY <2>2, <4>1, <4>2
    <3> QED
      BY <1>1, <3>1, <3>2 DEF Running
  <2>3. ASSUME NEW r \in Reminds, CommitFails(p, r) PROVE Goes
    <3>1. UNCHANGED <<plan, planned, known, deleted, now>> /\ stage' = [stage EXCEPT ![p] = "none"]
      BY <2>3 DEF CommitFails
    <3>2. committed \subseteq committed'
      BY <2>3, PlainCommitFails DEF CommitPacket
    <3> QED
      BY <3>1, <3>2
  <2>4. CASE Answer(p)
    <3>1. UNCHANGED <<planningVars, now, deleted>> /\ stage' = [stage EXCEPT ![p] = "none"]
      BY <2>4 DEF Answer
    <3> QED
      BY <3>1
  <2> QED
    BY <2>1, <2>2, <2>3, <2>4
<1>3. Keeps(now)' /\ (call'[p] = call[p] => Keeps(call[p].start)')
  <2>1. /\ call[p].start \in Int /\ now \in Int /\ \A r \in Reminds : Home(r) \in Int
        /\ known \subseteq Reminds
    BY HomeIsReachable DEF SystemTyped, RequestsTyped, Calling, Typed, StoreTyped
  <2> QED
    BY <1>1, <1>2, <2>1 DEF Running, Keeps
<1>4. PlannedBefore(now + PlanningWindow)'
  BY <1>2 DEF Keeping, PlannedBefore
<1>5. stage'[p] # "none" => Running(p)'
  BY <1>1, <1>2, <1>3 DEF Running
<1> QED
  BY <1>1, <1>2, <1>3, <1>4, <1>5, KeepingStep

\* Keys expire, planning fails and the process dies only by a fault.
LEMMA FaultsOnly ==
  ASSUME ~Fault
  PROVE  /\ ~Restart
         /\ \A r \in Reminds : ~MarkerExpires(r)
         /\ \A m \in Minutes : ~CountExpires(m) /\ ~PlanExpires(m)
         /\ \A p \in Planners : ~PlanningFails(p)
  BY DEF Restart, Crash, MarkerExpires, ExpireCommitted, CountExpires, ExpireCount,
         PlanExpires, ExpirePlan, PlanningFails

LEMMA KeepingNext ==
  ASSUME OrdinaryCalls
  PROVE  SystemTyped /\ Promised /\ Marked /\ Keeping /\ [SystemNext]_systemVars => Keeping'
<1> SUFFICES ASSUME SystemTyped, Promised, Marked, Keeping, [SystemNext]_systemVars, Faultless'
             PROVE  Keeping'
  BY DEF Keeping, Faultless
<1>1. /\ Faultless /\ ~Fault
      /\ now \in Nat /\ known \subseteq Reminds
  BY FaultlessBefore DEF SystemTyped, Typed, StoreTyped
<1>2. CASE Tick \/ UNCHANGED systemVars
  BY <1>1, <1>2, KeepingKept
  DEF Tick, systemVars, requestVars, vars, redisVars
<1>3. ASSUME NEW r \in Reminds, UserSetsRemind(r) \/ UserDeletesRemind(r) PROVE Keeping'
  BY <1>1, <1>3, KeepingKept
  DEF UserSetsRemind, SetRemind, UserDeletesRemind, requestVars, redisVars
<1> QED
  BY <1>1, <1>2, <1>3, FaultsOnly, BeginKeeping, StartPlanningKeeping, PlanningStepKeeping,
     PlanningReturnsKeeping, CommitKeeping
  DEF SystemNext

\* For requests that come one at a time, without faults and with the windows of
\* the configuration: as the window moves on, plan:<minute> and planned:<id> part
\* only for reminds that can no longer be committed (SavePlan, plan/service.go).
THEOREM PlansAreKept ==
  ASSUME OrdinaryCalls
  PROVE  SystemSpec => []PlansKeepReminds
<1>1. SystemTyped /\ Promised /\ Marked /\ Keeping /\ [SystemNext]_systemVars => Keeping'
  BY KeepingNext
<1> QED
  BY <1>1, SystemTypedInit, SystemTypedNext, PromisedInit, PromisedNext, MarkedInit, MarkedNext,
     KeepingInit, KeepingMeans, PTL DEF SystemSpec

-----------------------------------------------------------------------------
(* The cap of a minute that no remind belongs to, for the same requests.   *)
(* What such a minute holds is counted apart from the program's counters:  *)
(* the reminds committed in it, those in its plan that are not committed,  *)
(* and those the running planner has placed in it.                         *)

Foreign(m) == \A r \in Reminds : Home(r) # m

TakenIn(m)     == Cardinality({r \in committed : scheduled[r] = m})
InPlan(m)      == Cardinality(plan[m] \ committed)
PlacedIn(p, m) == Cardinality({r \in active[p] \ todo[p] : chosen[p][r] = m})

\* Without faults the program's counters do not fall behind.
Counted == faults = 0 => \A m \in Minutes : count[m] >= TakenIn(m)

Placing(p, m) ==
    /\ pc[p] \in {"count", "prepare", "place"} =>
          \A r \in active[p] : prev[p][r] = m => r \in plan[m]
    /\ pc[p] = "prepare" /\ m \in WindowOf(p) => targets[p][m].current >= TakenIn(m)
    /\ pc[p] = "place" /\ m \in WindowOf(p) =>
          targets[p][m].current >= TakenIn(m) + PlacedIn(p, m)
    /\ pc[p] = "place" /\ m \notin WindowOf(p) =>
          \A r \in active[p] \ todo[p] : chosen[p][r] = m => prev[p][r] = m
    /\ pc[p] \in {"place", "save"} => TakenIn(m) + PlacedIn(p, m) <= CapPerMinute
    /\ pc[p] = "save" => todo[p] = {}

Filling ==
    Faultless => \A m \in Minutes : Foreign(m) =>
        /\ TakenIn(m) + InPlan(m) <= CapPerMinute
        /\ \A p \in Planners : Placing(p, m)

LEMMA FillingNat ==
  ASSUME Typed, NEW m \in Minutes
  PROVE  /\ TakenIn(m) \in Nat /\ InPlan(m) \in Nat
         /\ count[m] \in Nat /\ CapPerMinute \in Nat
         /\ \A p \in Planners : PlacedIn(p, m) \in Nat
<1>1. /\ {r \in committed : scheduled[r] = m} \subseteq Reminds
      /\ plan[m] \ committed \subseteq Reminds
      /\ \A p \in Planners : {r \in active[p] \ todo[p] : chosen[p][r] = m} \subseteq Reminds
      /\ count[m] \in Nat
  BY DEF Typed, StoreTyped, LocalsTyped
<1>2. TakenIn(m) \in Nat
  BY <1>1, SomeReminds DEF TakenIn
<1>3. InPlan(m) \in Nat
  BY <1>1, SomeReminds DEF InPlan
<1>4. \A p \in Planners : PlacedIn(p, m) \in Nat
  BY <1>1, SomeReminds DEF PlacedIn
<1> QED
  BY <1>1, <1>2, <1>3, <1>4, SlidingAssumption

\* A set of reminds within another has no more of them, and one remind more is
\* one more.
LEMMA FewerReminds ==
  ASSUME NEW S \in SUBSET Reminds, NEW T, T \subseteq S
  PROVE  Cardinality(T) <= Cardinality(S)
<1>1. IsFiniteSet(S)
  BY SomeReminds
<1> QED
  BY <1>1, FS_Subset

LEMMA OneRemindMore ==
  ASSUME NEW S \in SUBSET Reminds, NEW r \in Reminds, r \notin S
  PROVE  Cardinality(S \cup {r}) = Cardinality(S) + 1
<1>1. IsFiniteSet(S)
  BY SomeReminds
<1> QED
  BY <1>1, FS_AddElement

LEMMA FillingMeans == SystemTyped /\ Keeping /\ Filling => ForeignKeepsCap
<1> SUFFICES ASSUME SystemTyped, Keeping, Filling, NoneRuns, Faultless,
                    NEW m \in Minutes, Foreign(m)
             PROVE  Cardinality({r \in committed : scheduled[r] = m})
                    + Cardinality({r \in known \ committed : Home(r) >= now /\ planned[r] = m})
                        <= CapPerMinute
  BY DEF ForeignKeepsCap, Faultless, Foreign
<1> DEFINE waiting == {r \in known \ committed : Home(r) >= now /\ planned[r] = m}
<1>1. Keeps(now)
  BY DEF Keeping
<1>2. m # NoSlot /\ plan[m] \subseteq Reminds
  BY PlanningAssumption DEF NoSlot, SystemTyped, Typed, StoreTyped
<1>3. waiting \subseteq plan[m] \ committed
  BY <1>1, <1>2 DEF Keeps
<1>4. Cardinality(waiting) <= InPlan(m)
  BY <1>2, <1>3, FewerReminds DEF InPlan
<1>5. Cardinality(waiting) \in Nat
  BY <1>2, <1>3, SomeReminds
<1> HIDE DEF waiting
<1>6. TakenIn(m) + Cardinality(waiting) <= CapPerMinute
  BY <1>4, <1>5, FillingNat DEF Filling, SystemTyped
<1> QED
  BY <1>6 DEF TakenIn, waiting

LEMMA CountedInit == SystemInit => Counted
<1> SUFFICES ASSUME SystemInit, NEW m \in Minutes PROVE count[m] >= TakenIn(m)
  BY DEF Counted
<1>1. {r \in committed : scheduled[r] = m} = {} /\ count[m] = 0
  BY DEF SystemInit, Init
<1> QED
  BY <1>1, FS_EmptySet DEF TakenIn

LEMMA FillingInit == SystemInit => Filling
<1> SUFFICES ASSUME SystemInit, NEW m \in Minutes
             PROVE  TakenIn(m) + InPlan(m) <= CapPerMinute /\ \A p \in Planners : Placing(p, m)
  BY DEF Filling
<1>1. {r \in committed : scheduled[r] = m} = {} /\ plan[m] \ committed = {}
  BY DEF SystemInit, Init
<1>2. TakenIn(m) = 0 /\ InPlan(m) = 0
  BY <1>1, FS_EmptySet DEF TakenIn, InPlan
<1>3. \A p \in Planners : pc[p] = "idle"
  BY DEF SystemInit, Init
<1> QED
  BY <1>2, <1>3, SlidingAssumption DEF Placing

\* A commit adds at most one to one minute, and one to its counter.
LEMMA TakenByCommit ==
  ASSUME Typed, NEW r \in Reminds, NEW slot \in Minutes, CommitPacket(r, slot, {}),
         NEW m \in Minutes
  PROVE  /\ TakenIn(m)' <= TakenIn(m) + (IF m = slot THEN 1 ELSE 0)
         /\ TakenIn(m)' \in Nat
         /\ count'[m] = count[m] + (IF m = slot THEN 1 ELSE 0)
<1> DEFINE before == {x \in committed : scheduled[x] = m} \ {r}
           then == {x \in committed' : scheduled'[x] = m}
<1>1. /\ committed' = committed \cup {r} /\ committed \subseteq Reminds
      /\ scheduled' = [scheduled EXCEPT ![r] = slot]
      /\ scheduled \in [Reminds -> Slots]
      /\ count' = [count EXCEPT ![slot] = @ + 1]
      /\ count \in [Minutes -> Nat]
  BY DEF CommitPacket, Typed, StoreTyped
<1>2. then = IF m = slot THEN before \cup {r} ELSE before
  BY <1>1
<1>3. before \in SUBSET Reminds /\ r \notin before
  BY <1>1
<1>4. Cardinality(before) <= TakenIn(m)
  <2>1. {x \in committed : scheduled[x] = m} \in SUBSET Reminds
    BY <1>1
  <2> QED
    BY <2>1, FewerReminds DEF TakenIn
<1>5. TakenIn(m)' = Cardinality(then)
  BY DEF TakenIn
<1> HIDE DEF before, then
<1>6. Cardinality(before \cup {r}) = Cardinality(before) + 1 /\ Cardinality(before) \in Nat
  BY <1>3, OneRemindMore, SomeReminds
<1> QED
  BY <1>1, <1>2, <1>4, <1>5, <1>6, FillingNat

LEMMA CountedNext == SystemTyped /\ Counted /\ [SystemNext]_systemVars => Counted'
<1> SUFFICES ASSUME SystemTyped, Counted, [SystemNext]_systemVars, faults' = 0,
                    NEW m \in Minutes
             PROVE  count'[m] >= TakenIn(m)'
  BY DEF Counted
<1>1. ~Fault /\ count[m] >= TakenIn(m)
  BY UnfaultedBefore DEF Counted
<1>2. CASE UNCHANGED <<committed, count, scheduled>>
  BY <1>1, <1>2 DEF TakenIn
<1>3. ASSUME NEW r \in Reminds, NEW slot \in Minutes, CommitPacket(r, slot, {})
      PROVE  count'[m] >= TakenIn(m)'
  <2>1. /\ TakenIn(m)' <= TakenIn(m) + (IF m = slot THEN 1 ELSE 0)
        /\ TakenIn(m)' \in Nat
        /\ count'[m] = count[m] + (IF m = slot THEN 1 ELSE 0)
    BY <1>3, TakenByCommit DEF SystemTyped
  <2>2. TakenIn(m) \in Nat /\ count[m] \in Nat
    BY FillingNat DEF SystemTyped
  <2> QED
    BY <1>1, <2>1, <2>2
<1> QED
  BY <1>1, <1>2, <1>3, CommitsOrNot

\* A step of the one request that runs.
LEMMA FillingStep ==
  ASSUME SystemTyped, Keeping, Faultless, NEW p \in Planners, stage[p] # "none",
         \A q \in Planners \ {p} : pc'[q] = pc[q],
         \A m \in Minutes : Foreign(m) =>
             (TakenIn(m) + InPlan(m) <= CapPerMinute)' /\ Placing(p, m)'
  PROVE  Filling'
<1>1. \A q \in Planners \ {p} : stage[q] = "none"
  BY OthersRest
<1>2. \A q \in Planners \ {p} : pc'[q] = "idle"
  BY <1>1 DEF SystemTyped, InStep
<1>3. ASSUME NEW q \in Planners \ {p}, NEW m PROVE Placing(q, m)'
  BY <1>2 DEF Placing
<1>4. \A m : Foreign(m)' = Foreign(m)
  BY DEF Foreign
<1> QED
  BY <1>3, <1>4 DEF Filling

\* A step that neither plans nor commits.
LEMMA FillingKept ==
  ASSUME Filling, Faultless, UNCHANGED <<committed, scheduled, plan, plannerVars>>
  PROVE  Filling'
<1>1. ASSUME NEW m \in Minutes PROVE TakenIn(m)' = TakenIn(m) /\ InPlan(m)' = InPlan(m)
  BY DEF TakenIn, InPlan
<1>2. ASSUME NEW m \in Minutes, NEW p \in Planners, Placing(p, m) PROVE Placing(p, m)'
  <2>1. PlacedIn(p, m)' = PlacedIn(p, m)
    BY DEF PlacedIn, plannerVars
  <2> QED
    BY <1>1, <1>2, <2>1 DEF Placing, plannerVars, WindowOf
<1> QED
  BY <1>1, <1>2 DEF Filling, Foreign

\* Steps of the planner that leave the plans and the commits alone.
LEMMA MergeFills ==
  ASSUME Typed, ~Fault, NEW p \in Planners, MergeWithPreviousPlans(p), NEW m \in Minutes
  PROVE  Placing(p, m)'
<1>1. PICK merge \in Merges(p) : prev' = [prev EXCEPT ![p] = merge]
  BY DEF MergeWithPreviousPlans
<1>2. /\ prev'[p] = merge /\ pc'[p] = "count"
      /\ UNCHANGED <<active, plan>>
  BY <1>1 DEF MergeWithPreviousPlans, redisVars, Typed, LocalsTyped
<1>3. m # NoSlot
  BY PlanningAssumption DEF NoSlot
<1>4. \A r \in active[p] : merge[r] = m => r \in plan[m]
  BY <1>3 DEF Merges, PreviousSlots, Typed, LocalsTyped
<1> QED
  BY <1>2, <1>4 DEF Placing

LEMMA CalculateFills ==
  ASSUME Typed, ~Fault, NEW p \in Planners, CalculateTargets(p), NEW m \in Minutes,
         Placing(p, m), count[m] >= TakenIn(m)
  PROVE  Placing(p, m)'
<1> DEFINE read == CountsRead(p, {}, {})
<1>1. /\ UNCHANGED <<range, active, prev, plan, committed, scheduled>>
      /\ pc'[p] = "prepare" /\ pc[p] = "count"
      /\ BuildTargets(p, read)
  <2>1. PICK noCount \in SUBSET {n \in WindowOf(p) : count[n] > 0},
             noPlan \in SUBSET {n \in WindowOf(p) : plan[n] # {}} :
            /\ BuildTargets(p, CountsRead(p, noCount, noPlan))
            /\ IF noCount \cup noPlan = {} THEN NoFault ELSE Fault
    BY DEF CalculateTargets
  <2>2. noCount = {} /\ noPlan = {}
    BY <2>1
  <2> QED
    BY <2>1, <2>2 DEF CalculateTargets, redisVars, Typed, LocalsTyped
<1>2. PICK smoothed \in SmoothedTargets(p) :
          targets' = [targets EXCEPT ![p] = Built(p, read, smoothed)]
  BY <1>1 DEF BuildTargets, Built
<1>3. targets'[p] = Built(p, read, smoothed)
  BY <1>2 DEF Typed, LocalsTyped
<1>4. ASSUME m \in WindowOf(p) PROVE targets'[p][m].current >= TakenIn(m)
  <2>1. targets'[p][m].current = CurrentCount(p, m, count[m] + Cardinality(plan[m]))
    BY <1>3, <1>4 DEF Built, CountsRead
  <2>2. {r \in active[p] : prev[p][r] = m} \subseteq plan[m] /\ plan[m] \in SUBSET Reminds
    BY <1>1 DEF Placing, Typed, StoreTyped
  <2>3. Replanned(p, m) <= Cardinality(plan[m])
    BY <2>2, FewerReminds DEF Replanned
  <2>4. Replanned(p, m) \in Nat /\ Cardinality(plan[m]) \in Nat
    <3>1. {r \in active[p] : prev[p][r] = m} \in SUBSET Reminds
      BY <2>2
    <3> QED
      BY <2>2, <3>1, SomeReminds DEF Replanned
  <2>5. count[m] \in Nat /\ TakenIn(m) \in Nat
    BY FillingNat
  <2> QED
    BY <2>1, <2>3, <2>4, <2>5 DEF CurrentCount
<1>5. TakenIn(m)' = TakenIn(m) /\ WindowOf(p)' = WindowOf(p)
  BY <1>1 DEF TakenIn, WindowOf
<1> QED
  BY <1>1, <1>4, <1>5 DEF Placing

LEMMA PrepareFills ==
  ASSUME Typed, NEW p \in Planners, PrepareSlots(p), NEW m \in Minutes, Placing(p, m),
         TakenIn(m) + InPlan(m) <= CapPerMinute
  PROVE  Placing(p, m)'
<1>1. /\ UNCHANGED <<range, active, prev, plan, committed, scheduled, targets>>
      /\ pc[p] = "prepare" /\ todo'[p] = active[p]
      /\ pc'[p] = IF active[p] = {} THEN "save" ELSE "place"
  BY DEF PrepareSlots, redisVars, Typed, LocalsTyped
<1>2. PlacedIn(p, m)' = 0
  <2>1. {r \in active'[p] \ todo'[p] : chosen'[p][r] = m} = {}
    BY <1>1
  <2> QED
    BY <2>1, FS_EmptySet DEF PlacedIn
<1>3. TakenIn(m)' = TakenIn(m) /\ WindowOf(p)' = WindowOf(p)
  BY <1>1 DEF TakenIn, WindowOf
<1>4. TakenIn(m) \in Nat /\ InPlan(m) \in Nat /\ CapPerMinute \in Nat
  BY FillingNat
<1>5. \A r \in active'[p] \ todo'[p] : FALSE
  BY <1>1
<1> QED
  BY <1>1, <1>2, <1>3, <1>4, <1>5 DEF Placing

\* Whoever does not plan early places a remind in a foreign minute only when the
\* minute has room, or is the previous one of the remind behind the window.
LEMMA SlotHasRoom ==
  ASSUME Typed, Capped, strategy \in {"greedy", "bestfit"},
         NEW p \in Planners, NEW r \in Reminds, Place(p, r),
         SlotFor(p, r) # Home(r)
  PROVE  IF SlotFor(p, r) \in WindowOf(p)
         THEN targets[p][SlotFor(p, r)].current < CapPerMinute
         ELSE prev[p][r] = SlotFor(p, r)
<1> DEFINE slot == SlotFor(p, r)
<1>1. /\ Context(targets[p], WindowOf(p)) /\ Fits(targets[p])
      /\ DOMAIN targets[p] = WindowOf(p)
  BY PlannerContext DEF Place, Capped, Prepared, Context
<1>2. CASE slot = FindSlot(r, targets[p])
  BY <1>1, <1>2, FindSlotHasRoom DEF UnderCap
<1>3. CASE slot = prev[p][r] /\ HasCapacity(targets[p], slot)
  <2>1. ASSUME slot \in WindowOf(p) PROVE targets[p][slot].current < CapPerMinute
    <3>1. targets[p][slot] \in Entry
      BY <1>1, <2>1 DEF Context
    <3>2. targets[p][slot].available > 0
      BY <1>1, <1>3, <2>1 DEF HasCapacity
    <3>3. targets[p][slot].available + targets[p][slot].current <= CapPerMinute
      BY <1>1, <2>1, <3>2 DEF Fits
    <3> QED
      BY <3>1, <3>2, <3>3, SlidingAssumption DEF Entry
  <2> QED
    BY <1>3, <2>1
<1>4. slot = FindSlot(r, targets[p]) \/ (slot = prev[p][r] /\ HasCapacity(targets[p], slot))
  BY DEF SlotFor, SlotForNew, SlotForPlanned
<1> QED
  BY <1>2, <1>3, <1>4

LEMMA PlaceFills ==
  ASSUME Typed, Capped, strategy \in {"greedy", "bestfit"},
         NEW p \in Planners, NEW r \in Reminds, Place(p, r), active[p] \cap committed = {},
         NEW m \in Minutes, Foreign(m), Placing(p, m),
         TakenIn(m) + InPlan(m) <= CapPerMinute
  PROVE  Placing(p, m)'
<1> DEFINE slot == SlotFor(p, r)
           before == {x \in active[p] \ todo[p] : chosen[p][x] = m}
           then == {x \in active'[p] \ todo'[p] : chosen'[p][x] = m}
<1>1. /\ UNCHANGED <<range, active, prev, plan, committed, scheduled>>
      /\ pc[p] = "place" /\ r \in todo[p]
      /\ targets' = [targets EXCEPT ![p] = UpdateContext(targets[p], slot)]
      /\ chosen' = [chosen EXCEPT ![p][r] = slot]
      /\ todo' = [todo EXCEPT ![p] = @ \ {r}]
      /\ pc' = [pc EXCEPT ![p] = IF todo[p] = {r} THEN "save" ELSE "place"]
  BY DEF Place, InTurn, SlotFor, redisVars
<1>2. slot = m => IF m \in WindowOf(p) THEN targets[p][m].current < CapPerMinute
                  ELSE prev[p][r] = m
  BY SlotHasRoom DEF Foreign
<1>3. \A n \in WindowOf(p) : UpdateContext(targets[p], slot)[n].current =
          targets[p][n].current + (IF n = slot THEN 1 ELSE 0)
  BY <1>1, PlannerContext, UpdateCharges
<1>4. m \in WindowOf(p) => targets[p][m].current \in Nat
  BY <1>1, PlannerContext DEF Context, Entry
<1> HIDE DEF slot
<1>5. /\ chosen'[p] = [chosen[p] EXCEPT ![r] = slot] /\ chosen[p] \in [Reminds -> Slots]
      /\ todo'[p] = todo[p] \ {r} /\ r \in active[p] /\ active[p] \subseteq Reminds
      /\ pc'[p] = IF todo[p] = {r} THEN "save" ELSE "place"
      /\ targets'[p] = UpdateContext(targets[p], slot)
  BY <1>1 DEF Typed, LocalsTyped, ContextTyped
<1>6. then = IF m = slot THEN before \cup {r} ELSE before
  BY <1>1, <1>5
<1>7. before \in SUBSET Reminds /\ r \notin before
  BY <1>1, <1>5
<1>8. PlacedIn(p, m)' = Cardinality(then) /\ PlacedIn(p, m) = Cardinality(before)
  BY DEF PlacedIn
<1>9. ASSUME m \notin WindowOf(p) PROVE \A x \in then : prev[p][x] = m
  BY <1>1, <1>2, <1>6, <1>9 DEF Placing
<1>10. then \subseteq active[p]
  BY <1>1
<1> HIDE DEF before, then
<1>11. PlacedIn(p, m)' = PlacedIn(p, m) + (IF m = slot THEN 1 ELSE 0)
  <2>1. Cardinality(before \cup {r}) = Cardinality(before) + 1 /\ Cardinality(before) \in Nat
    BY <1>7, OneRemindMore, SomeReminds
  <2> QED
    BY <1>6, <1>8, <2>1
<1>12. /\ TakenIn(m) \in Nat /\ InPlan(m) \in Nat /\ PlacedIn(p, m) \in Nat
       /\ CapPerMinute \in Nat
  BY FillingNat
<1>13. TakenIn(m)' = TakenIn(m) /\ WindowOf(p)' = WindowOf(p)
  BY <1>1 DEF TakenIn, WindowOf
<1>14. m \in WindowOf(p) => targets'[p][m].current >= TakenIn(m) + PlacedIn(p, m)'
  BY <1>1, <1>3, <1>4, <1>5, <1>11, <1>12 DEF Placing
<1>15. TakenIn(m) + PlacedIn(p, m)' <= CapPerMinute
  <2>1. CASE m # slot
    BY <1>1, <1>11, <1>12, <2>1 DEF Placing
  <2>2. CASE m = slot /\ m \in WindowOf(p)
    BY <1>1, <1>2, <1>4, <1>11, <1>12, <2>2 DEF Placing
  <2>3. CASE m \notin WindowOf(p)
    <3>1. then \subseteq plan[m] \ committed
      BY <1>1, <1>9, <1>10, <2>3 DEF Placing
    <3>2. plan[m] \ committed \in SUBSET Reminds
      BY DEF Typed, StoreTyped
    <3>3. PlacedIn(p, m)' <= InPlan(m)
      BY <1>8, <3>1, <3>2, FewerReminds DEF InPlan
    <3> QED
      BY <1>11, <1>12, <3>3
  <2> QED
    BY <2>1, <2>2, <2>3
<1>16. \A x \in active[p] : prev[p][x] = m => x \in plan[m]
  BY <1>1 DEF Placing
<1>17. m \notin WindowOf(p) =>
          \A x \in active'[p] \ todo'[p] : chosen'[p][x] = m => prev'[p][x] = m
  BY <1>1, <1>9 DEF then
<1>18. pc'[p] = "save" => todo'[p] = {}
  BY <1>5
<1>19. pc'[p] \in {"place", "save"}
  BY <1>5
<1> QED
  BY <1>1, <1>13, <1>14, <1>15, <1>16, <1>17, <1>18, <1>19 DEF Placing

LEMMA SaveFills ==
  ASSUME Typed, ~Fault, NEW p \in Planners, NEW s \in Minutes, SavePlan(p, s),
         NEW m \in Minutes, Placing(p, m), TakenIn(m) + InPlan(m) <= CapPerMinute
  PROVE  (TakenIn(m) + InPlan(m) <= CapPerMinute)' /\ Placing(p, m)'
<1>1. /\ UNCHANGED <<pc, range, active, prev, todo, chosen, committed, scheduled>>
      /\ pc[p] = "save"
      /\ plan' = [plan EXCEPT ![s] = PlannedPackets(p, s)]
  BY DEF SavePlan, WritePlan
<1>2. TakenIn(m)' = TakenIn(m) /\ PlacedIn(p, m)' = PlacedIn(p, m)
  BY <1>1 DEF TakenIn, PlacedIn
<1>3. Placing(p, m)'
  BY <1>1, <1>2 DEF Placing
<1>4. CASE m # s
  <2>1. plan'[m] = plan[m]
    BY <1>1, <1>4 DEF Typed, StoreTyped
  <2>2. InPlan(m)' = InPlan(m)
    BY <1>1, <2>1 DEF InPlan
  <2> QED
    BY <1>2, <1>3, <2>2
<1>5. CASE m = s
  <2> DEFINE placed == {r \in active[p] \ todo[p] : chosen[p][r] = m}
  <2>1. plan'[m] = placed
    BY <1>1, <1>5 DEF Typed, StoreTyped, Placing, PlannedPackets
  <2>2. placed \in SUBSET Reminds
    BY DEF Typed, LocalsTyped
  <2>3. InPlan(m)' = Cardinality(placed \ committed)
    BY <1>1, <2>1 DEF InPlan
  <2>4. PlacedIn(p, m) = Cardinality(placed)
    BY DEF PlacedIn
  <2> HIDE DEF placed
  <2>5. Cardinality(placed \ committed) <= Cardinality(placed)
    BY <2>2, FewerReminds
  <2>6. Cardinality(placed \ committed) \in Nat
    BY <2>2, SomeReminds
  <2> QED
    BY <1>1, <1>2, <1>3, <2>3, <2>4, <2>5, <2>6, FillingNat DEF Placing
<1> QED
  BY <1>4, <1>5

\* One remind is committed, by a request that goes on or gives up.
LEMMA CommitFills ==
  ASSUME SystemTyped, Keeping, Counted, Faultless,
         NEW p \in Planners, stage[p] = "committing",
         NEW r \in Reminds, r \in left[p] \ committed,
         CommitPacket(r, ScheduledSlot(r), {}), UNCHANGED <<plan, planned, pc>>,
         NEW m \in Minutes, Foreign(m), TakenIn(m) + InPlan(m) <= CapPerMinute
  PROVE  (TakenIn(m) + InPlan(m) <= CapPerMinute)' /\ Placing(p, m)'
<1> DEFINE slot == ScheduledSlot(r)
           rest == plan[m] \ (committed \cup {r})
<1>1. committed' = committed \cup {r}
  BY DEF CommitPacket
<1>2. Placing(p, m)'
  BY DEF SystemTyped, InStep, Placing
<1>3. slot \in Minutes
  BY ScheduledIsRead, SlotsReadTyped DEF SystemTyped, Typed, StoreTyped
<1>4. /\ planned[r] # NoSlot => r \in plan[planned[r]]
      /\ plan[m] \in SUBSET Reminds
  BY DEF Keeping, Running, SystemTyped, Typed, StoreTyped
<1>5. TakenIn(m)' <= TakenIn(m) + (IF m = slot THEN 1 ELSE 0) /\ TakenIn(m)' \in Nat
  BY <1>3, TakenByCommit DEF SystemTyped
<1>6. InPlan(m)' = Cardinality(rest)
  BY <1>1 DEF InPlan
<1>7. rest \in SUBSET Reminds /\ r \notin rest
  BY <1>4
<1>8. Cardinality(rest) \in Nat
  BY <1>7, SomeReminds
<1>9. /\ TakenIn(m) \in Nat /\ InPlan(m) \in Nat /\ count[m] \in Nat /\ CapPerMinute \in Nat
      /\ count[m] >= TakenIn(m)
  BY FillingNat DEF SystemTyped, Counted, Faultless
<1>10. Cardinality(rest) <= InPlan(m)
  <2>1. plan[m] \ committed \in SUBSET Reminds /\ rest \subseteq plan[m] \ committed
    BY <1>4
  <2> QED
    BY <2>1, FewerReminds DEF InPlan
<1>11. CASE m # slot
  BY <1>2, <1>5, <1>6, <1>8, <1>9, <1>10, <1>11
<1>12. CASE m = slot /\ planned[r] # NoSlot
  <2>1. r \in plan[m] \ committed
    BY <1>4, <1>12 DEF ScheduledSlot
  <2>2. plan[m] \ committed = rest \cup {r}
    BY <2>1
  <2> HIDE DEF rest
  <2>3. InPlan(m) = Cardinality(rest) + 1
    BY <1>7, <2>2, OneRemindMore DEF InPlan
  <2> QED
    BY <1>2, <1>5, <1>6, <1>8, <1>9, <1>12, <2>3
<1>13. CASE m = slot /\ planned[r] = NoSlot
  <2>1. count[m] + Cardinality(plan[m]) < CapPerMinute
    <3>1. slot = FindSlotForCommit(r, {}) /\ Home(r) # slot
      BY <1>13 DEF ScheduledSlot, Foreign
    <3> QED
      BY <1>13, <3>1, FindSlotForCommitFinds DEF TotalCount
  <2>2. Cardinality(rest) <= Cardinality(plan[m]) /\ Cardinality(plan[m]) \in Nat
    BY <1>4, FewerReminds, SomeReminds
  <2> HIDE DEF rest
  <2> QED
    BY <1>2, <1>5, <1>6, <1>8, <1>9, <1>13, <2>1, <2>2
<1> QED
  BY <1>11, <1>12, <1>13

\* The commit phase takes up one remind.
LEMMA CommitPhaseFills ==
  ASSUME SystemTyped, Keeping, Counted, Filling, Faultless, ~Fault,
         NEW p \in Planners, NEW r \in Reminds, CommitOne(p, r) \/ CommitFails(p, r)
  PROVE  Filling'
<1>1. /\ stage[p] = "committing" /\ r \in left[p]
      /\ UNCHANGED <<plan, planned, plannerVars>>
  BY DEF CommitOne, CommitFails
<1>2. CASE UNCHANGED <<committed, count, scheduled>>
  BY <1>1, <1>2, FillingKept
<1>3. CASE r \notin committed /\ CommitPacket(r, ScheduledSlot(r), {})
  <2>1. pc' = pc
    BY <1>1 DEF plannerVars
  <2>2. \A m \in Minutes : Foreign(m) =>
            (TakenIn(m) + InPlan(m) <= CapPerMinute)' /\ Placing(p, m)'
    BY <1>1, <1>3, <2>1, CommitFills DEF Filling
  <2> QED
    BY <1>1, <2>1, <2>2, FillingStep
<1> QED
  BY <1>2, <1>3, PlainCommitOne, PlainCommitFails

LEMMA PlanningFills ==
  ASSUME SystemTyped, Sound, Keeping, Counted, Filling, Faultless, ~Fault,
         strategy \in {"greedy", "bestfit"},
         NEW p \in Planners, PlanningStep(p)
  PROVE  Filling'
<1>1. stage[p] = "planning" /\ active[p] \cap committed = {}
  BY DEF PlanningStep, Keeping, Running, PlanningKeeps
<1>2. \A q \in Planners \ {p} : pc'[q] = pc[q]
  BY PlannerWorks DEF PlanningStep, SystemTyped
<1>3. ASSUME NEW m \in Minutes, Foreign(m)
      PROVE  (TakenIn(m) + InPlan(m) <= CapPerMinute)' /\ Placing(p, m)'
  <2>1. TakenIn(m) + InPlan(m) <= CapPerMinute /\ Placing(p, m) /\ count[m] >= TakenIn(m)
    BY <1>3 DEF Filling, Counted, Faultless
  <2>2. ASSUME UNCHANGED <<committed, scheduled, plan>>
        PROVE  (TakenIn(m) + InPlan(m) <= CapPerMinute)'
    <3>1. TakenIn(m)' = TakenIn(m) /\ InPlan(m)' = InPlan(m)
      BY <2>2 DEF TakenIn, InPlan
    <3> QED
      BY <2>1, <3>1
  <2>3. CASE MergeWithPreviousPlans(p)
    BY <2>2, <2>3, MergeFills DEF SystemTyped, MergeWithPreviousPlans, redisVars
  <2>4. CASE CalculateTargets(p)
    BY <2>1, <2>2, <2>4, CalculateFills DEF SystemTyped, CalculateTargets, redisVars
  <2>5. CASE PrepareSlots(p)
    BY <2>1, <2>2, <2>5, PrepareFills DEF SystemTyped, PrepareSlots, redisVars
  <2>6. ASSUME NEW r \in Reminds, Place(p, r)
        PROVE  (TakenIn(m) + InPlan(m) <= CapPerMinute)' /\ Placing(p, m)'
    <3>1. Placing(p, m)'
      BY <1>1, <1>3, <2>1, <2>6, PlaceFills DEF SystemTyped, Sound
    <3> QED
      BY <2>2, <2>6, <3>1 DEF Place, redisVars
  <2>7. ASSUME NEW s \in Minutes, SavePlan(p, s)
        PROVE  (TakenIn(m) + InPlan(m) <= CapPerMinute)' /\ Placing(p, m)'
    BY <2>1, <2>7, SaveFills DEF SystemTyped
  <2> QED
    BY <2>3, <2>4, <2>5, <2>6, <2>7 DEF PlanningStep
<1> QED
  BY <1>1, <1>2, <1>3, FillingStep

\* The planner is at the start or the end of its work.
LEMMA AtRestFills ==
  ASSUME SystemTyped, Keeping, Filling, Faultless, NEW p \in Planners,
         StartPlanning(p) \/ PlanningReturns(p)
  PROVE  Filling'
<1>1. /\ UNCHANGED <<committed, scheduled, plan>>
      /\ stage[p] # "none"
      /\ pc'[p] \in {"idle", "merge"} /\ \A q \in Planners \ {p} : pc'[q] = pc[q]
  BY DEF StartPlanning, Fetch, PlanningReturns, Return, redisVars, SystemTyped, Typed, LocalsTyped
<1>2. ASSUME NEW m \in Minutes, Foreign(m)
      PROVE  (TakenIn(m) + InPlan(m) <= CapPerMinute)' /\ Placing(p, m)'
  <2>1. TakenIn(m)' = TakenIn(m) /\ InPlan(m)' = InPlan(m)
    BY <1>1 DEF TakenIn, InPlan
  <2> QED
    BY <1>1, <1>2, <2>1 DEF Filling, Placing
<1> QED
  BY <1>1, <1>2, FillingStep

LEMMA FillingNext ==
  ASSUME Strategies \subseteq {"greedy", "bestfit"}
  PROVE  SystemTyped /\ Sound /\ Keeping /\ Counted /\ Filling
             /\ [SystemNext]_systemVars => Filling'
<1> SUFFICES ASSUME SystemTyped, Sound, Keeping, Counted, Filling,
                    [SystemNext]_systemVars, Faultless'
             PROVE  Filling'
  BY DEF Filling, Faultless
<1>1. Faultless /\ ~Fault /\ strategy \in {"greedy", "bestfit"}
  BY FaultlessBefore DEF SystemTyped, Typed, StoreTyped
<1>2. CASE Tick \/ UNCHANGED systemVars
  BY <1>1, <1>2, FillingKept DEF Tick, systemVars, vars, redisVars
<1>3. ASSUME NEW r \in Reminds, UserSetsRemind(r) \/ UserDeletesRemind(r) PROVE Filling'
  BY <1>1, <1>3, FillingKept DEF UserSetsRemind, SetRemind, UserDeletesRemind, redisVars
<1>4. ASSUME NEW p \in Planners, \E c \in Calls : Begin(p, c) PROVE Filling'
  BY <1>1, <1>4, FillingKept DEF Begin, vars, redisVars
<1>5. ASSUME NEW p \in Planners, StartCommit(p) \/ Answer(p) PROVE Filling'
  BY <1>1, <1>5, FillingKept DEF StartCommit, Answer, planningVars, redisVars
<1>6. ASSUME NEW p \in Planners, NEW r \in Reminds, Skip(p, r) PROVE Filling'
  BY <1>1, <1>6, FillingKept DEF Skip, vars, redisVars
<1> QED
  BY <1>1, <1>2, <1>3, <1>4, <1>5, <1>6, FaultsOnly, CommitPhaseFills, PlanningFills,
     AtRestFills
  DEF SystemNext

\* For the same requests with a discovery that does not plan early: a minute no
\* remind belongs to takes no more than the cap, through any number of requests
\* that plan, replan and commit (hasAvailableCapacity, plan/service.go, and
\* Calculator.FindSlot), although the counters they read keep stale plans.
THEOREM ForeignMinutesKeepCap ==
  ASSUME OrdinaryCalls, Strategies \subseteq {"greedy", "bestfit"}
  PROVE  SystemSpec => []ForeignKeepsCap
<1>1. SystemTyped /\ Promised /\ Marked /\ Keeping /\ [SystemNext]_systemVars => Keeping'
  BY KeepingNext
<1>2. SystemTyped /\ Sound /\ Keeping /\ Counted /\ Filling
          /\ [SystemNext]_systemVars => Filling'
  BY FillingNext
<1> QED
  BY <1>1, <1>2, SystemTypedInit, SystemTypedNext, PromisedInit, PromisedNext, MarkedInit,
     MarkedNext, SoundInit, SoundNext, KeepingInit, CountedInit, CountedNext, FillingInit,
     FillingMeans, PTL DEF SystemSpec

=============================================================================
