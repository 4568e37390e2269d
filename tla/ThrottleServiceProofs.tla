----------------------- MODULE ThrottleServiceProofs -----------------------
(* Proofs about ThrottleService, for every value of its constants.         *)
EXTENDS ThrottleService, TLAPS

-----------------------------------------------------------------------------
(* Types.  A request that is busy with a remind has it, and its minute, in  *)
(* hand: without this TypeOK is not inductive.                             *)

RequestShape ==
    \A p \in Requests :
        /\ pc[p] \in {"idle", "loop"} => cur[p] = NoRemind
        /\ pc[p] \notin {"idle", "loop"} => cur[p] \in HasTokens
        /\ pc[p] = "probe" =>
              slot[p] \in Time[cur[p]] .. (Time[cur[p]] + SlideMinutes[cur[p]])
        /\ pc[p] \in {"register", "save", "count", "flag"} => slot[p] \in Minutes

RequestsTyped ==
    /\ pc \in [Requests -> RequestStates]
    /\ todo \in [Requests -> SUBSET Reminds]
    /\ cur \in [Requests -> HasTokens \cup {NoRemind}]
    /\ slot \in [Requests -> Minutes \cup {NoPlan}]
    /\ tries \in [Requests -> Nat]
    /\ batch \in [Requests -> SUBSET Reminds]
    /\ outcome \in [Requests -> {"none", "ok", "error"}]
    /\ RequestShape

CancelsTyped ==
    /\ cpc \in [Cancels -> CancelStates]
    /\ cnext \in [Cancels -> Nat \ {0}]
    /\ ctries \in [Cancels -> Nat]
    /\ cfailed \in [Cancels -> BOOLEAN]

StoresTyped ==
    /\ backend \in Backends
    /\ throttled \subseteq Reminds /\ removed \subseteq Reminds
    /\ queue \subseteq Reminds /\ delivered \subseteq Reminds
    /\ accepted \in [Reminds -> Nat]
    /\ committed \subseteq Reminds
    /\ count \in [Minutes -> Nat]
    /\ planned \in [Reminds -> Minutes \cup {NoPlan}]
    /\ faults \in 0 .. MaxFaults
    /\ exposed \subseteq Reminds /\ swept \subseteq Reminds

Typed == RequestsTyped /\ CancelsTyped /\ StoresTyped

LEMMA TypedInit == Init => Typed
  BY RemindsAssumption, TimeAssumption, LimitsAssumption
  DEF Init, Typed, RequestsTyped, CancelsTyped, StoresTyped, RequestShape,
      RequestStates, CancelStates, NoPlan

\* The ways a request moves on keep its part of the types.
LEMMA RespondTyped ==
  ASSUME RequestsTyped, NEW p \in Requests, NEW result \in {"ok", "error"},
         Respond(p, result)
  PROVE  RequestsTyped'
  BY DEF Respond, Goto, RequestsTyped, RequestShape, RequestStates

LEMMA AdvanceTyped ==
  ASSUME RequestsTyped, NEW p \in Requests,
         pc[p] \in {"register", "save", "count", "flag"},
         NEW state \in {"save", "count", "flag"}, Advance(p, state)
  PROVE  RequestsTyped'
  BY DEF Advance, Goto, RequestsTyped, RequestShape, RequestStates

LEMMA RetryTyped ==
  ASSUME RequestsTyped, NEW p \in Requests, NEW attempts \in Nat,
         RetryOrAbort(p, attempts)
  PROVE  RequestsTyped'
<1>1. CASE Respond(p, "error")
  BY <1>1, RespondTyped
<1>2. CASE /\ tries' = [tries EXCEPT ![p] = @ + 1]
           /\ UNCHANGED <<pc, todo, cur, slot, batch, outcome>>
  BY <1>2 DEF RequestsTyped, RequestShape
<1> QED
  BY <1>1, <1>2 DEF RetryOrAbort

LEMMA DoneTyped ==
  ASSUME RequestsTyped, NEW p \in Requests, Done(p)
  PROVE  RequestsTyped'
  BY DEF Done, Goto, RequestsTyped, RequestShape, RequestStates

LEMMA TypedRequest ==
  ASSUME Typed, NEW p \in Requests, RequestStep(p)
  PROVE  RequestsTyped' /\ StoresTyped' /\ UNCHANGED cancelVars
<1> USE DEF Typed, Fault, NoFault, timeMgmtVars, taskQueueVars, redisVars,
            historyVars
<1>0. /\ cur[p] \in HasTokens \cup {NoRemind}
      /\ pc[p] \notin {"idle", "loop"} => cur[p] \in Reminds
      /\ pc[p] \in {"register", "save", "count", "flag"} => slot[p] \in Minutes
  BY RemindsAssumption DEF RequestsTyped, RequestShape
<1>1. CASE IsPacketCommitted(p)
  <2> USE <1>1 DEF IsPacketCommitted
  <2>1. UNCHANGED cancelVars
    OBVIOUS
  <2>2. PICK r \in todo[p] : /\ Skip(p, r) \/ (r \in HasTokens /\ Proceed(p, r))
                             /\ NoFault \/ Fault
    OBVIOUS
  <2>3. r \in Reminds
    BY DEF RequestsTyped
  <2>4. StoresTyped'
    BY <2>2, <2>3, LimitsAssumption DEF StoresTyped, Skip, Proceed
  <2>5. CASE Skip(p, r)
    <3>1. RequestsTyped'
      BY <2>5 DEF Skip, RequestsTyped, RequestShape
    <3> QED
      BY <2>1, <2>4, <3>1
  <2>6. CASE r \in HasTokens /\ Proceed(p, r)
    <3>1. RequestsTyped'
      BY <2>6 DEF Proceed, Goto, RequestsTyped, RequestShape, RequestStates
    <3> QED
      BY <2>1, <2>4, <3>1
  <2> QED
    BY <2>2, <2>5, <2>6
<1>2. CASE GetPlannedPacket(p)
  <2> USE <1>2 DEF GetPlannedPacket
  <2>1. StoresTyped' /\ UNCHANGED cancelVars
    BY LimitsAssumption DEF StoresTyped
  <2>2. /\ cur[p] \in HasTokens
        /\ cur[p] \in Reminds
    BY <1>0 DEF RequestsTyped, RequestShape
  <2>3. /\ Time[cur[p]] \in Minutes
        /\ Time[cur[p]] \in Time[cur[p]] .. (Time[cur[p]] + SlideMinutes[cur[p]])
    <3>1. Time[cur[p]] \in Nat /\ SlideMinutes[cur[p]] \in Nat
      BY <2>2, TimeAssumption
    <3> QED
      BY <2>2, <3>1, TimeAssumption
  <2>4. planned[cur[p]] # NoPlan => planned[cur[p]] \in Minutes
    BY <2>2 DEF StoresTyped
  <2>5. RequestsTyped'
    BY <2>2, <2>3, <2>4 DEF Goto, RequestsTyped, RequestShape, RequestStates
  <2> QED
    BY <2>1, <2>5
<1>3. CASE FindSlot(p)
  <2> USE <1>3 DEF FindSlot
  <2>1. StoresTyped' /\ UNCHANGED cancelVars
    BY LimitsAssumption DEF StoresTyped
  <2>2. /\ cur[p] \in HasTokens
        /\ cur[p] \in Reminds
        /\ Time[cur[p]] \in Minutes
        /\ slot[p] \in Time[cur[p]] .. (Time[cur[p]] + SlideMinutes[cur[p]])
        /\ slot[p] \in Minutes
        /\ slot[p] # Time[cur[p]] + SlideMinutes[cur[p]] =>
              slot[p] + 1 \in Minutes \cap
                 (Time[cur[p]] .. (Time[cur[p]] + SlideMinutes[cur[p]]))
    <3>1. /\ cur[p] \in HasTokens
          /\ cur[p] \in Reminds
          /\ slot[p] \in Time[cur[p]] .. (Time[cur[p]] + SlideMinutes[cur[p]])
      BY <1>0 DEF RequestsTyped, RequestShape
    <3>2. Time[cur[p]] .. (Time[cur[p]] + SlideMinutes[cur[p]]) \subseteq Minutes
      BY <3>1, TimeAssumption
    <3>3. /\ Time[cur[p]] \in Minutes
          /\ Time[cur[p]] \in Nat
          /\ SlideMinutes[cur[p]] \in Nat
      BY <3>1, TimeAssumption
    <3>4. slot[p] # Time[cur[p]] + SlideMinutes[cur[p]] =>
             slot[p] + 1 \in Time[cur[p]] .. (Time[cur[p]] + SlideMinutes[cur[p]])
      BY <3>1, <3>3
    <3> QED
      BY <3>1, <3>2, <3>3, <3>4
  <2>3. \/ Goto(p, "register") /\ UNCHANGED slot
        \/ Goto(p, "register") /\ slot' = [slot EXCEPT ![p] = Time[cur[p]]]
        \/ /\ slot[p] # Time[cur[p]] + SlideMinutes[cur[p]]
           /\ slot' = [slot EXCEPT ![p] = slot[p] + 1]
           /\ UNCHANGED pc
    OBVIOUS
  <2>4. RequestsTyped'
    BY <2>2, <2>3 DEF Goto, RequestsTyped, RequestShape, RequestStates
  <2> QED
    BY <2>1, <2>4
<1>4. CASE RegisterNotification(p)
  <2> USE <1>4 DEF RegisterNotification
  <2>1. StoresTyped' /\ UNCHANGED cancelVars
    BY <1>0, LimitsAssumption DEF StoresTyped, Accept
  <2>2. Advance(p, "save") \/ RetryOrAbort(p, MaxRetries)
    OBVIOUS
  <2>3. RequestsTyped'
    BY <2>2, AdvanceTyped, RetryTyped, LimitsAssumption
  <2> QED
    BY <2>1, <2>3
<1>5. CASE ContextDone(p)
  BY <1>5, RespondTyped, LimitsAssumption DEF ContextDone, StoresTyped
<1>6. CASE SaveCommittedPacket(p)
  BY <1>6, <1>0, AdvanceTyped, LimitsAssumption DEF SaveCommittedPacket, StoresTyped
<1>7. CASE IncrementPacketCount(p)
  BY <1>7, <1>0, AdvanceTyped, LimitsAssumption
  DEF IncrementPacketCount, CountPacket, StoresTyped
<1>8. CASE UpdateThrottled(p)
  <2> USE <1>8 DEF UpdateThrottled
  <2>1. StoresTyped' /\ UNCHANGED cancelVars
    BY <1>0, LimitsAssumption DEF StoresTyped, SetFlag
  <2>2. Done(p) \/ RetryOrAbort(p, FlagAttempts)
    OBVIOUS
  <2>3. RequestsTyped'
    BY <2>2, DoneTyped, RetryTyped, LimitsAssumption
  <2> QED
    BY <2>1, <2>3
<1>9. CASE Finish(p)
  BY <1>9, RespondTyped DEF Finish, StoresTyped
<1> QED
  BY <1>1, <1>2, <1>3, <1>4, <1>5, <1>6, <1>7, <1>8, <1>9 DEF RequestStep

LEMMA TypedCancel ==
  ASSUME Typed, NEW c \in Cancels, CancelStep(c)
  PROVE  CancelsTyped' /\ StoresTyped' /\ UNCHANGED requestVars
<1> USE DEF Typed, Fault, NoFault, timeMgmtVars, taskQueueVars, redisVars,
            historyVars
<1>1. CASE HandleRemindCancelled(c)
  BY <1>1 DEF HandleRemindCancelled, CancelsTyped, CancelStates, StoresTyped
<1>2. CASE DeleteTask(c)
  <2> USE <1>2 DEF DeleteTask
  <2>1. queue' \subseteq queue /\ UNCHANGED requestVars
    BY DEF RemoveTask
  <2>2. /\ \/ NextId(c, FALSE) \/ NextId(c, TRUE)
           \/ /\ ctries' = [ctries EXCEPT ![c] = @ + 1]
              /\ UNCHANGED <<cnext, cfailed>>
        /\ UNCHANGED cpc
    OBVIOUS
  <2>3. CancelsTyped'
    <3>1. CASE NextId(c, FALSE)
      BY <2>2, <3>1 DEF CancelsTyped, NextId
    <3>2. CASE NextId(c, TRUE)
      BY <2>2, <3>2 DEF CancelsTyped, NextId
    <3>3. CASE /\ ctries' = [ctries EXCEPT ![c] = @ + 1]
               /\ UNCHANGED <<cnext, cfailed>>
      BY <2>2, <3>3 DEF CancelsTyped
    <3> QED
      BY <2>2, <3>1, <3>2, <3>3
  <2>4. CancelIds[c][cnext[c]] \in Reminds
    BY RemindsAssumption DEF CancelsTyped
  <2>5. /\ swept' \subseteq swept \cup {CancelIds[c][cnext[c]]}
        /\ faults' = faults \/ (faults < MaxFaults /\ faults' = faults + 1)
        /\ UNCHANGED <<accepted, delivered, backend, timeMgmtVars, redisVars,
                       exposed>>
    OBVIOUS
  <2>6. StoresTyped'
    BY <2>1, <2>4, <2>5, LimitsAssumption DEF StoresTyped
  <2> QED
    BY <2>1, <2>3, <2>6
<1>3. CASE AnswerCancel(c)
  BY <1>3 DEF AnswerCancel, CancelsTyped, CancelStates, StoresTyped
<1>4. CASE DeletionContextDone(c)
  <2>1. Len(CancelIds[c]) + 1 \in Nat \ {0}
    BY RemindsAssumption
  <2>2. CancelsTyped' /\ UNCHANGED requestVars
    BY <1>4, <2>1 DEF DeletionContextDone, CancelsTyped
  <2>3. StoresTyped'
    BY <1>4, LimitsAssumption DEF DeletionContextDone, StoresTyped
  <2> QED
    BY <2>2, <2>3
<1> QED
  BY <1>1, <1>2, <1>3, <1>4 DEF CancelStep

LEMMA TypedEnvironment ==
  ASSUME Typed, Environment
  PROVE  Typed'
<1> USE DEF Typed, Fault, NoFault, timeMgmtVars, taskQueueVars, redisVars,
            requestVars, cancelVars, historyVars
<1>1. ASSUME NEW c \in Cancels, RemoveReminds(c) PROVE Typed'
  <2>1. CancelledIds(c) \subseteq Reminds
    BY RemindsAssumption DEF CancelledIds
  <2> QED
    BY <1>1, <2>1
    DEF RemoveReminds, RequestsTyped, RequestShape, CancelsTyped, CancelStates,
        StoresTyped
<1>2. ASSUME NEW r \in Reminds, Deliver(r) \/ ExpireCommitted(r) PROVE Typed'
  BY <1>2, LimitsAssumption
  DEF Deliver, ExpireCommitted, RequestsTyped, RequestShape, CancelsTyped,
      StoresTyped
<1>3. ASSUME NEW m \in Minutes, ExpireCount(m) \/ ExpirePlan(m) PROVE Typed'
  BY <1>3, LimitsAssumption
  DEF ExpireCount, ExpirePlan, RequestsTyped, RequestShape, CancelsTyped,
      StoresTyped
<1>4. CASE Crash
  BY <1>4, LimitsAssumption
  DEF Crash, RequestsTyped, RequestShape, RequestStates, CancelsTyped,
      CancelStates, StoresTyped
<1> QED
  BY <1>1, <1>2, <1>3, <1>4 DEF Environment

LEMMA TypedNext == Typed /\ [Next]_vars => Typed'
<1> SUFFICES ASSUME Typed, [Next]_vars PROVE Typed'
  OBVIOUS
<1> USE DEF Typed, timeMgmtVars, taskQueueVars, redisVars, requestVars,
            cancelVars, historyVars
<1>1. ASSUME NEW p \in Requests, NEW window \in Windows, Fetch(p, window)
      PROVE  Typed'
  BY <1>1, RemindsAssumption
  DEF Fetch, Goto, RequestsTyped, RequestShape, RequestStates, CancelsTyped,
      StoresTyped
<1>2. ASSUME NEW p \in Requests, FetchFails(p) PROVE Typed'
  BY <1>2, LimitsAssumption
  DEF FetchFails, Fault, RequestsTyped, RequestShape, CancelsTyped, StoresTyped
<1>3. ASSUME NEW p \in Requests, RequestStep(p) PROVE Typed'
  BY <1>3, TypedRequest DEF CancelsTyped
<1>4. ASSUME NEW c \in Cancels, CancelStep(c) PROVE Typed'
  BY <1>4, TypedCancel DEF RequestsTyped, RequestShape
<1>5. CASE Environment
  BY <1>5, TypedEnvironment
<1>6. CASE UNCHANGED vars
  BY <1>6
  DEF vars, RequestsTyped, RequestShape, CancelsTyped, StoresTyped
<1> QED
  BY <1>1, <1>2, <1>3, <1>4, <1>5, <1>6 DEF Next

\* Every variable keeps its type: requests never lose the remind and the minute
\* they are busy with, and minutes, ids and retry counters stay in range.
THEOREM TypeCorrect == Spec => []TypeOK
<1>1. Typed => TypeOK
  BY DEF Typed, TypeOK, RequestsTyped, CancelsTyped, StoresTyped
<1> QED
  BY TypedInit, TypedNext, <1>1, PTL DEF Spec

-----------------------------------------------------------------------------
(* Nothing is hidden before it is handed over.  The order of the calls does *)
(* it: a request that is past the registration of its remind was answered  *)
(* by the queue, markers and flags are written only there, and only ids    *)
(* that time-mgmt has removed are deleted from the queue.                  *)

PastRegistration(p) == pc[p] \in {"save", "count", "flag"}

Handover ==
    /\ QueueConfigured =>
          \A p \in Requests : PastRegistration(p) => accepted[cur[p]] > 0
    /\ QueueConfigured => \A r \in Reminds : Hidden(r) => accepted[r] > 0
    /\ \A r \in Reminds :
          accepted[r] > 0 => r \in queue \cup delivered \cup removed
    /\ \A c \in Cancels : cpc[c] # "none" => CancelledIds(c) \subseteq removed

LEMMA HandoverInit == Init => Handover
  BY DEF Init, Handover, Hidden, PastRegistration, CancelledIds

\* What a request does to the queue and the markers, whatever its control does.
LEMMA RequestEffect ==
  ASSUME Typed, NEW p \in Requests, RequestStep(p)
  PROVE  /\ \A q \in Requests \ {p} : pc'[q] = pc[q] /\ cur'[q] = cur[q]
         /\ PastRegistration(p)' =>
               /\ cur'[p] = cur[p]
               /\ \/ PastRegistration(p)
                  \/ Accept(cur[p]) /\ cur[p] \in Reminds
                  \/ ~QueueConfigured
         /\ UNCHANGED <<queue, accepted>> \/ (Accept(cur[p]) /\ cur[p] \in Reminds)
         /\ committed' \cup throttled' # committed \cup throttled =>
               /\ PastRegistration(p)
               /\ cur[p] \in Reminds
               /\ UNCHANGED <<queue, accepted>>
               /\ \/ committed' = committed \cup {cur[p]} /\ UNCHANGED throttled
                  \/ throttled' = throttled \cup {cur[p]} /\ UNCHANGED committed
         /\ committed \subseteq committed'
         /\ UNCHANGED <<backend, delivered, removed, cpc>>
<1> USE DEF timeMgmtVars, taskQueueVars, redisVars, cancelVars, historyVars,
            PastRegistration
<1>0. /\ pc[p] \in RequestStates
      /\ pc[p] \notin {"idle", "loop"} => cur[p] \in Reminds
      /\ pc \in [Requests -> RequestStates]
      /\ cur \in [Requests -> HasTokens \cup {NoRemind}]
  BY RemindsAssumption DEF Typed, RequestsTyped, RequestShape
<1>1. CASE IsPacketCommitted(p)
  BY <1>1, <1>0 DEF IsPacketCommitted, Skip, Proceed, Goto
<1>2. CASE GetPlannedPacket(p)
  BY <1>2, <1>0 DEF GetPlannedPacket, Goto
<1>3. CASE FindSlot(p)
  BY <1>3, <1>0 DEF FindSlot, Goto
<1>4. CASE RegisterNotification(p)
  BY <1>4, <1>0
  DEF RegisterNotification, Accept, Advance, RetryOrAbort, Respond, Goto
<1>5. CASE ContextDone(p)
  BY <1>5, <1>0 DEF ContextDone, Respond, Goto
<1>6. CASE SaveCommittedPacket(p)
  BY <1>6, <1>0 DEF SaveCommittedPacket, Advance, Goto
<1>7. CASE IncrementPacketCount(p)
  BY <1>7, <1>0 DEF IncrementPacketCount, CountPacket, Advance, Goto
<1>8. CASE UpdateThrottled(p)
  BY <1>8, <1>0 DEF UpdateThrottled, SetFlag, Done, RetryOrAbort, Respond, Goto
<1>9. CASE Finish(p)
  BY <1>9, <1>0 DEF Finish, Respond, Goto
<1> QED
  BY <1>1, <1>2, <1>3, <1>4, <1>5, <1>6, <1>7, <1>8, <1>9 DEF RequestStep

LEMMA HandoverRequest ==
  ASSUME Typed, Handover, NEW p \in Requests, RequestStep(p)
  PROVE  Handover'
<1> USE DEF Handover, PastRegistration, Hidden, Accept
<1>1. accepted \in [Reminds -> Nat]
  BY DEF Typed, StoresTyped
<1>2. \A r \in Reminds : accepted'[r] >= accepted[r]
  BY <1>1, RequestEffect
<1>3. QueueConfigured =>
         \A q \in Requests : PastRegistration(q)' => accepted'[cur'[q]] > 0
  <2> SUFFICES ASSUME QueueConfigured, NEW q \in Requests, PastRegistration(q)'
               PROVE  accepted'[cur'[q]] > 0
    OBVIOUS
  <2>0. PastRegistration(q) => cur[q] \in Reminds
    BY RemindsAssumption DEF Typed, RequestsTyped, RequestShape
  <2>1. CASE q # p
    <3>1. PastRegistration(q) /\ cur'[q] = cur[q]
      BY <2>1, RequestEffect
    <3> QED
      BY <3>1, <2>0, <1>1, <1>2, RequestEffect
  <2>2. CASE q = p
    <3>1. CASE PastRegistration(p)
      BY <3>1, <2>0, <2>2, <1>1, <1>2, RequestEffect
    <3>2. CASE Accept(cur[p]) /\ cur[p] \in Reminds
      <4>1. accepted'[cur[p]] = accepted[cur[p]] + 1 /\ accepted[cur[p]] \in Nat
        BY <3>2, <1>1
      <4>2. cur'[p] = cur[p]
        BY <2>2, RequestEffect
      <4> QED
        BY <4>1, <4>2, <2>2
    <3> QED
      BY <3>1, <3>2, <2>2, RequestEffect
  <2> QED
    BY <2>1, <2>2
<1>4. QueueConfigured => \A r \in Reminds : Hidden(r)' => accepted'[r] > 0
  <2> SUFFICES ASSUME QueueConfigured, NEW r \in Reminds, Hidden(r)'
               PROVE  accepted'[r] > 0
    OBVIOUS
  <2>1. CASE Hidden(r)
    BY <2>1, <1>1, <1>2, RequestEffect
  <2>2. CASE ~Hidden(r)
    <3>1. r = cur[p] /\ PastRegistration(p) /\ UNCHANGED accepted
      BY <2>2, RequestEffect
    <3>2. accepted[cur[p]] > 0
      BY <3>1
    <3> QED
      BY <3>1, <3>2
  <2> QED
    BY <2>1, <2>2
<1>5. \A r \in Reminds :
         accepted'[r] > 0 => r \in queue' \cup delivered' \cup removed'
  BY <1>1, RequestEffect
<1>6. \A c \in Cancels : cpc'[c] # "none" => CancelledIds(c) \subseteq removed'
  BY RequestEffect
<1> QED
  BY <1>3, <1>4, <1>5, <1>6, RequestEffect DEF CancelledIds, QueueConfigured

LEMMA HandoverNext == Typed /\ Handover /\ [Next]_vars => Handover'
<1> SUFFICES ASSUME Typed, Handover, [Next]_vars PROVE Handover'
  OBVIOUS
<1> USE DEF Handover, PastRegistration, Hidden, CancelledIds,
            QueueConfigured, timeMgmtVars, taskQueueVars, redisVars, requestVars, cancelVars, historyVars
<1>0. /\ pc \in [Requests -> RequestStates]
      /\ cpc \in [Cancels -> CancelStates]
      /\ accepted \in [Reminds -> Nat]
  BY DEF Typed, RequestsTyped, CancelsTyped, StoresTyped
<1>1. ASSUME NEW p \in Requests,
             (\E window \in Windows : Fetch(p, window)) \/ FetchFails(p)
      PROVE  Handover'
  BY <1>1, <1>0 DEF Fetch, FetchFails, Goto
<1>2. ASSUME NEW p \in Requests, RequestStep(p) PROVE Handover'
  BY <1>2, HandoverRequest
<1>3. ASSUME NEW c \in Cancels,
             HandleRemindCancelled(c) \/ DeletionContextDone(c) \/ AnswerCancel(c)
      PROVE  Handover'
  BY <1>3, <1>0 DEF HandleRemindCancelled, DeletionContextDone, AnswerCancel
<1>4. ASSUME NEW c \in Cancels, DeleteTask(c) PROVE Handover'
  <2>1. CancelIds[c][cnext[c]] \in removed
    <3>1. cnext[c] \in 1 .. Len(CancelIds[c])
      BY <1>4, RemindsAssumption DEF DeleteTask, Typed, CancelsTyped
    <3>2. CancelledIds(c) \subseteq removed
      BY <1>4 DEF DeleteTask
    <3> QED
      BY <3>1, <3>2
  <2>2. queue' = queue \/ queue' = queue \ {CancelIds[c][cnext[c]]}
    BY <1>4 DEF DeleteTask, RemoveTask
  <2>3. UNCHANGED <<cpc, accepted, delivered, backend, timeMgmtVars, redisVars,
                   requestVars>>
    BY <1>4 DEF DeleteTask
  <2> QED
    BY <2>1, <2>2, <2>3
<1>5. ASSUME NEW c \in Cancels, RemoveReminds(c) PROVE Handover'
  BY <1>5, <1>0 DEF RemoveReminds
<1>6. ASSUME NEW r \in Reminds, Deliver(r) \/ ExpireCommitted(r) PROVE Handover'
  BY <1>6, <1>0 DEF Deliver, ExpireCommitted
<1>7. ASSUME NEW m \in Minutes, ExpireCount(m) \/ ExpirePlan(m) PROVE Handover'
  BY <1>7, <1>0 DEF ExpireCount, ExpirePlan
<1>8. CASE Crash
  BY <1>8, <1>0 DEF Crash
<1>9. CASE UNCHANGED vars
  BY <1>9 DEF vars
<1> QED
  BY <1>1, <1>2, <1>3, <1>4, <1>5, <1>6, <1>7, <1>8, <1>9
  DEF Next, CancelStep, Environment

\* No notification is lost: a remind whose marker or flag is set was accepted
\* by the queue, and is still there, or was sent, or was deleted by the user.
THEOREM NothingLost == Spec => []HiddenIsHandedOver
<1>1. Handover => HiddenIsHandedOver
  BY DEF Handover, HiddenIsHandedOver
<1> QED
  BY TypedInit, TypedNext, HandoverInit, HandoverNext, <1>1, PTL DEF Spec

-----------------------------------------------------------------------------
(* A deletion that met no request is final.  A swept remind is gone from    *)
(* time-mgmt, so no request fetches it again, and none has it in hand.     *)

SweptInert ==
    \A r \in swept :
        /\ r \in removed /\ r \notin queue
        /\ \A p \in Requests : r \notin todo[p] /\ cur[p] # r

LEMMA SweptInit == Init => SweptInert
  BY DEF Init, SweptInert

\* What a request may hold and register after a step it already held before.
LEMMA RequestReach ==
  ASSUME Typed, NEW p \in Requests, RequestStep(p)
  PROVE  /\ \A q \in Requests \ {p} : todo'[q] = todo[q] /\ cur'[q] = cur[q]
         /\ todo'[p] \subseteq todo[p]
         /\ cur'[p] \in todo[p] \cup {cur[p], NoRemind}
         /\ queue' = queue \/ queue' = queue \cup {cur[p]}
         /\ UNCHANGED <<removed, swept>>
<1> USE DEF timeMgmtVars, taskQueueVars, redisVars, cancelVars, historyVars
<1>0. /\ todo \in [Requests -> SUBSET Reminds]
      /\ cur \in [Requests -> HasTokens \cup {NoRemind}]
  BY DEF Typed, RequestsTyped
<1>1. CASE IsPacketCommitted(p)
  BY <1>1, <1>0 DEF IsPacketCommitted, Skip, Proceed
<1>2. CASE GetPlannedPacket(p)
  BY <1>2, <1>0 DEF GetPlannedPacket
<1>3. CASE FindSlot(p)
  BY <1>3, <1>0 DEF FindSlot
<1>4. CASE RegisterNotification(p)
  BY <1>4, <1>0
  DEF RegisterNotification, Accept, Advance, RetryOrAbort, Respond
<1>5. CASE ContextDone(p)
  BY <1>5, <1>0 DEF ContextDone, Respond
<1>6. CASE SaveCommittedPacket(p)
  BY <1>6, <1>0 DEF SaveCommittedPacket, Advance
<1>7. CASE IncrementPacketCount(p)
  BY <1>7, <1>0 DEF IncrementPacketCount, CountPacket, Advance
<1>8. CASE UpdateThrottled(p)
  BY <1>8, <1>0 DEF UpdateThrottled, SetFlag, Done, RetryOrAbort, Respond
<1>9. CASE Finish(p)
  BY <1>9, <1>0 DEF Finish, Respond
<1> QED
  BY <1>1, <1>2, <1>3, <1>4, <1>5, <1>6, <1>7, <1>8, <1>9 DEF RequestStep

LEMMA SweptNext == Typed /\ Handover /\ SweptInert /\ [Next]_vars => SweptInert'
<1> SUFFICES ASSUME Typed, Handover, SweptInert, [Next]_vars PROVE SweptInert'
  OBVIOUS
<1> USE DEF SweptInert, timeMgmtVars, taskQueueVars, redisVars, requestVars,
            cancelVars, historyVars
<1>0. /\ todo \in [Requests -> SUBSET Reminds]
      /\ swept \subseteq Reminds
      /\ NoRemind \notin Reminds
  BY RemindsAssumption DEF Typed, RequestsTyped, StoresTyped
<1>1. ASSUME NEW p \in Requests,
             (\E window \in Windows : Fetch(p, window)) \/ FetchFails(p)
      PROVE  SweptInert'
  BY <1>1, <1>0 DEF Fetch, FetchFails
<1>2. ASSUME NEW p \in Requests, RequestStep(p) PROVE SweptInert'
  BY <1>2, <1>0, RequestReach
<1>3. ASSUME NEW c \in Cancels,
             HandleRemindCancelled(c) \/ DeletionContextDone(c) \/ AnswerCancel(c)
      PROVE  SweptInert'
  BY <1>3 DEF HandleRemindCancelled, DeletionContextDone, AnswerCancel
<1>4. ASSUME NEW c \in Cancels, DeleteTask(c) PROVE SweptInert'
  <2> DEFINE id == CancelIds[c][cnext[c]]
  <2>1. id \in removed
    <3>1. cnext[c] \in 1 .. Len(CancelIds[c])
      BY <1>4, RemindsAssumption DEF DeleteTask, Typed, CancelsTyped
    <3>2. CancelledIds(c) \subseteq removed
      BY <1>4 DEF DeleteTask, Handover
    <3> QED
      BY <3>1, <3>2 DEF CancelledIds
  <2>2. queue' = queue \/ queue' = queue \ {id}
    BY <1>4 DEF DeleteTask, RemoveTask
  <2>3. \/ swept' = swept
        \/ /\ swept' = swept \cup {id}
           /\ queue' = queue \ {id}
           /\ \A p \in Requests : id \notin todo[p] /\ cur[p] # id
    BY <1>4 DEF DeleteTask, RemoveTask
  <2>4. UNCHANGED <<todo, cur, removed>>
    BY <1>4 DEF DeleteTask
  <2> QED
    BY <2>1, <2>2, <2>3, <2>4
<1>5. ASSUME NEW c \in Cancels, RemoveReminds(c) PROVE SweptInert'
  BY <1>5 DEF RemoveReminds
<1>6. ASSUME NEW r \in Reminds, Deliver(r) \/ ExpireCommitted(r) PROVE SweptInert'
  BY <1>6 DEF Deliver, ExpireCommitted
<1>7. ASSUME NEW m \in Minutes, ExpireCount(m) \/ ExpirePlan(m) PROVE SweptInert'
  BY <1>7 DEF ExpireCount, ExpirePlan
<1>8. CASE Crash
  BY <1>8, <1>0 DEF Crash
<1>9. CASE UNCHANGED vars
  BY <1>9 DEF vars
<1> QED
  BY <1>1, <1>2, <1>3, <1>4, <1>5, <1>6, <1>7, <1>8, <1>9
  DEF Next, CancelStep, Environment

\* A remind whose deletion met no request that held it is never put back into
\* the queue, however many requests run and fail afterwards.
THEOREM DeletionIsFinal == Spec => []SweptStaysOut
<1>1. SweptInert => SweptStaysOut
  BY DEF SweptInert, SweptStaysOut
<1> QED
  BY TypedInit, TypedNext, HandoverInit, HandoverNext, SweptInit, SweptNext,
     <1>1, PTL DEF Spec

-----------------------------------------------------------------------------
(* A 200 answer accounts for the batch.  While a request runs, each remind  *)
(* it fetched is still to come, is in hand, or was accepted.               *)

AccountedFor(p, r) ==
    r \in todo[p] \/ (pc[p] # "idle" /\ cur[p] = r) \/ accepted[r] > 0

Accounted ==
    /\ \A p \in Requests : /\ pc[p] = "idle" => todo[p] = {}
                           /\ outcome[p] = "ok" => pc[p] = "idle"
    /\ QueueConfigured =>
          \A p \in Requests : pc[p] # "idle" \/ outcome[p] = "ok" =>
              \A r \in batch[p] \cap HasTokens : AccountedFor(p, r)

LEMMA AccountedInit == Init => Accounted
  BY DEF Init, Accounted

\* Once accepted, always accepted.
LEMMA AcceptedGrows ==
  ASSUME Typed, [Next]_vars, NEW r \in Reminds, accepted[r] > 0
  PROVE  accepted'[r] > 0
<1> USE DEF timeMgmtVars, taskQueueVars, redisVars, requestVars, cancelVars,
            historyVars
<1>0. accepted \in [Reminds -> Nat]
  BY DEF Typed, StoresTyped
<1>1. CASE UNCHANGED accepted
  BY <1>1
<1>2. ASSUME NEW p \in Requests, RequestStep(p) PROVE accepted'[r] > 0
  BY <1>2, <1>0, RequestEffect DEF Accept
<1> QED
  BY <1>1, <1>2
  DEF Next, vars, Fetch, FetchFails, CancelStep, HandleRemindCancelled,
      DeleteTask, DeletionContextDone, AnswerCancel, Environment,
      RemoveReminds, Deliver, ExpireCommitted, ExpireCount, ExpirePlan, Crash

\* The ways a request leaves the remind in hand behind: it answers with an
\* error, or the queue has accepted the remind.
LEMMA RequestAccounts ==
  ASSUME Typed, Handover, Accounted, NEW p \in Requests, RequestStep(p)
  PROVE  /\ \A q \in Requests \ {p} :
               /\ todo'[q] = todo[q] /\ pc'[q] = pc[q] /\ cur'[q] = cur[q]
               /\ batch'[q] = batch[q] /\ outcome'[q] = outcome[q]
         /\ batch'[p] = batch[p]
         /\ pc[p] # "idle"
         /\ pc'[p] = "idle" => todo'[p] = {}
         /\ outcome'[p] = "ok" => pc'[p] = "idle"
         /\ QueueConfigured /\ (pc'[p] # "idle" \/ outcome'[p] = "ok") =>
               \A r \in batch[p] \cap HasTokens :
                  AccountedFor(p, r) => AccountedFor(p, r)'
<1> USE DEF timeMgmtVars, taskQueueVars, redisVars, cancelVars, historyVars,
            AccountedFor
<1>0. /\ pc \in [Requests -> RequestStates]
      /\ todo \in [Requests -> SUBSET Reminds]
      /\ cur \in [Requests -> HasTokens \cup {NoRemind}]
      /\ batch \in [Requests -> SUBSET Reminds]
      /\ outcome \in [Requests -> {"none", "ok", "error"}]
      /\ accepted \in [Reminds -> Nat]
      /\ NoRemind \notin Reminds
      /\ pc[p] = "loop" => cur[p] = NoRemind
      /\ outcome[p] = "ok" => pc[p] = "idle"
  BY RemindsAssumption
  DEF Typed, RequestsTyped, RequestShape, StoresTyped, Accounted
<1>1. \A r \in Reminds : accepted[r] > 0 => accepted'[r] > 0
  BY AcceptedGrows DEF Next
<1>2. QueueConfigured => \A r \in committed \cap Reminds : accepted[r] > 0
  BY DEF Handover, Hidden
<1>3. QueueConfigured /\ pc[p] = "flag" => accepted[cur[p]] > 0
  BY DEF Handover, PastRegistration
<1>4. CASE IsPacketCommitted(p)
  BY <1>4, <1>0, <1>2 DEF IsPacketCommitted, Skip, Proceed, Goto
<1>5. CASE GetPlannedPacket(p)
  BY <1>5, <1>0 DEF GetPlannedPacket, Goto
<1>6. CASE FindSlot(p)
  BY <1>6, <1>0 DEF FindSlot, Goto
<1>7. CASE RegisterNotification(p)
  BY <1>7, <1>0, <1>1
  DEF RegisterNotification, Advance, RetryOrAbort, Respond, Goto
<1>8. CASE ContextDone(p)
  BY <1>8, <1>0 DEF ContextDone, Respond, Goto
<1>9. CASE SaveCommittedPacket(p)
  BY <1>9, <1>0 DEF SaveCommittedPacket, Advance, Goto
<1>10. CASE IncrementPacketCount(p)
  BY <1>10, <1>0 DEF IncrementPacketCount, Advance, Goto
<1>11. CASE UpdateThrottled(p)
  BY <1>11, <1>0, <1>3 DEF UpdateThrottled, Done, RetryOrAbort, Respond, Goto
<1>12. CASE Finish(p)
  BY <1>12, <1>0 DEF Finish, Respond, Goto
<1> QED
  BY <1>4, <1>5, <1>6, <1>7, <1>8, <1>9, <1>10, <1>11, <1>12 DEF RequestStep

LEMMA AccountedNext == Typed /\ Handover /\ Accounted /\ [Next]_vars => Accounted'
<1> SUFFICES ASSUME Typed, Handover, Accounted, [Next]_vars PROVE Accounted'
  OBVIOUS
<1> USE DEF timeMgmtVars, taskQueueVars, redisVars, requestVars, cancelVars,
            historyVars
<1>0. /\ pc \in [Requests -> RequestStates]
      /\ todo \in [Requests -> SUBSET Reminds]
      /\ batch \in [Requests -> SUBSET Reminds]
      /\ outcome \in [Requests -> {"none", "ok", "error"}]
      /\ HasTokens \subseteq Reminds
  BY RemindsAssumption DEF Typed, RequestsTyped
<1>1. \A r \in Reminds : accepted[r] > 0 => accepted'[r] > 0
  BY AcceptedGrows
<1>2. ASSUME NEW p \in Requests, NEW window \in Windows, Fetch(p, window)
      PROVE  Accounted'
  BY <1>2, <1>0, RemindsAssumption
  DEF Fetch, Goto, Accounted, AccountedFor, QueueConfigured, RequestStates
<1>3. ASSUME NEW p \in Requests, FetchFails(p) PROVE Accounted'
  BY <1>3, <1>0 DEF FetchFails, Accounted, AccountedFor, QueueConfigured
<1>4. ASSUME NEW p \in Requests, RequestStep(p) PROVE Accounted'
  <2>1. backend' = backend
    BY <1>4, RequestEffect
  <2>2. ASSUME NEW q \in Requests
        PROVE  /\ pc'[q] = "idle" => todo'[q] = {}
               /\ outcome'[q] = "ok" => pc'[q] = "idle"
    BY <1>4, RequestAccounts DEF Accounted
  <2>3. ASSUME QueueConfigured, NEW q \in Requests,
               pc'[q] # "idle" \/ outcome'[q] = "ok",
               NEW r \in batch'[q] \cap HasTokens
        PROVE  AccountedFor(q, r)'
    <3>1. CASE q = p
      BY <1>4, <2>3, <3>1, RequestAccounts DEF Accounted
    <3>2. CASE q # p
      <4>1. AccountedFor(q, r)
        BY <1>4, <2>3, <3>2, RequestAccounts DEF Accounted
      <4> QED
        BY <1>4, <3>2, <4>1, <1>0, <1>1, RequestAccounts DEF AccountedFor
    <3> QED
      BY <3>1, <3>2
  <2> QED
    BY <2>1, <2>2, <2>3 DEF Accounted, QueueConfigured
<1>5. ASSUME NEW c \in Cancels, CancelStep(c) PROVE Accounted'
  BY <1>5
  DEF CancelStep, HandleRemindCancelled, DeleteTask, DeletionContextDone,
      AnswerCancel, Accounted,
      AccountedFor, QueueConfigured
<1>6. ASSUME NEW c \in Cancels, RemoveReminds(c) PROVE Accounted'
  BY <1>6 DEF RemoveReminds, Accounted, AccountedFor, QueueConfigured
<1>7. ASSUME NEW r \in Reminds, Deliver(r) \/ ExpireCommitted(r) PROVE Accounted'
  BY <1>7
  DEF Deliver, ExpireCommitted, Accounted, AccountedFor, QueueConfigured
<1>8. ASSUME NEW m \in Minutes, ExpireCount(m) \/ ExpirePlan(m) PROVE Accounted'
  BY <1>8 DEF ExpireCount, ExpirePlan, Accounted, AccountedFor, QueueConfigured
<1>9. CASE Crash
  <2>1. \A p \in Requests : /\ pc'[p] = "idle" /\ todo'[p] = {}
                            /\ outcome'[p] = "ok" => pc[p] = "idle" /\ outcome[p] = "ok"
    BY <1>9 DEF Crash
  <2>2. UNCHANGED <<batch, accepted, backend>>
    BY <1>9 DEF Crash
  <2> QED
    BY <2>1, <2>2 DEF Accounted, AccountedFor, QueueConfigured
<1>10. CASE UNCHANGED vars
  BY <1>10 DEF vars, Accounted, AccountedFor, QueueConfigured
<1> QED
  BY <1>2, <1>3, <1>4, <1>5, <1>6, <1>7, <1>8, <1>9, <1>10
  DEF Next, Environment

\* A 200 answer accounts for the batch: every remind with a token that the
\* request fetched was accepted, by it or by a request before it.
THEOREM OkIsComplete == Spec => []OkAccountsForBatch
<1>1. Typed /\ Accounted => OkAccountsForBatch
  <2> SUFFICES ASSUME Typed, Accounted, QueueConfigured, NEW p \in Requests,
                      outcome[p] = "ok", NEW r \in batch[p] \cap HasTokens
               PROVE  accepted[r] > 0
    BY DEF OkAccountsForBatch
  <2>1. AccountedFor(p, r)
    BY DEF Accounted
  <2>2. pc[p] = "idle"
    BY DEF Accounted
  <2> QED
    BY <2>1, <2>2 DEF Accounted, AccountedFor
<1> QED
  BY TypedInit, TypedNext, HandoverInit, HandoverNext, AccountedInit,
     AccountedNext, <1>1, PTL DEF Spec

-----------------------------------------------------------------------------
(* The refinement.  Every step hands a remind over, hides it, reveals it,   *)
(* sends or cancels its notification, withdraws reminds, or does nothing    *)
(* the promise can see.                                                    *)

HandedOver == {r \in Reminds : accepted[r] > 0}

promiseVars == <<HandedOver, queue, delivered, committed \cup throttled, removed>>

LEMMA PromiseInit == Init => Promise!Init
  BY DEF Init, Promise!Init

\* A request hands its remind over, or hides it after it was handed over.
LEMMA RequestKeepsPromise ==
  ASSUME Typed, Handover, QueueConfigured, NEW p \in Requests, RequestStep(p)
  PROVE  \/ \E r \in Reminds : Promise!HandOver(r) \/ Promise!Hide(r)
         \/ UNCHANGED promiseVars
<1>0. accepted \in [Reminds -> Nat]
  BY DEF Typed, StoresTyped
<1>1. CASE /\ UNCHANGED <<queue, accepted>>
           /\ committed' \cup throttled' = committed \cup throttled
  BY <1>1, RequestEffect DEF promiseVars, HandedOver
<1>2. CASE committed' \cup throttled' # committed \cup throttled
  <2>1. /\ PastRegistration(p) /\ cur[p] \in Reminds
        /\ UNCHANGED <<queue, accepted, delivered, removed>>
        /\ committed' \cup throttled' = (committed \cup throttled) \cup {cur[p]}
    BY <1>2, RequestEffect
  <2>2. accepted[cur[p]] > 0
    BY <2>1 DEF Handover
  <2>3. cur[p] \in queue \cup delivered \cup removed
    BY <2>1, <2>2 DEF Handover
  <2> QED
    BY <2>1, <2>2, <2>3 DEF Promise!Hide
<1>3. CASE /\ Accept(cur[p]) /\ cur[p] \in Reminds
           /\ committed' \cup throttled' = committed \cup throttled
  <2>1. HandedOver' = HandedOver \cup {cur[p]}
    BY <1>3, <1>0 DEF Accept, HandedOver
  <2>2. queue' = queue \cup {cur[p]} /\ UNCHANGED <<delivered, removed>>
    BY <1>3, RequestEffect DEF Accept
  <2> QED
    BY <1>3, <2>1, <2>2 DEF HandedOver, Promise!HandOver
<1> QED
  BY <1>1, <1>2, <1>3, RequestEffect

LEMMA PromiseNext ==
  ASSUME Typed, Handover, QueueConfigured, [Next]_vars
  PROVE  [Promise!Next]_(Promise!vars)
<1> USE DEF timeMgmtVars, taskQueueVars, redisVars, requestVars, cancelVars,
            historyVars
<1>0. /\ accepted \in [Reminds -> Nat]
      /\ \A c \in Cancels : CancelledIds(c) \subseteq Reminds
  BY RemindsAssumption DEF Typed, StoresTyped, CancelledIds
<1>1. CASE UNCHANGED promiseVars
  BY <1>1 DEF promiseVars, HandedOver, Promise!vars
<1>2. ASSUME NEW p \in Requests, RequestStep(p)
      PROVE  [Promise!Next]_(Promise!vars)
  BY <1>2, <1>1, RequestKeepsPromise DEF Promise!Next
<1>3. ASSUME NEW c \in Cancels, DeleteTask(c)
      PROVE  [Promise!Next]_(Promise!vars)
  <2> DEFINE id == CancelIds[c][cnext[c]]
  <2>1. cnext[c] \in 1 .. Len(CancelIds[c])
    BY <1>3, RemindsAssumption DEF DeleteTask, Typed, CancelsTyped
  <2>2. CancelledIds(c) \subseteq removed
    BY <1>3 DEF DeleteTask, Handover
  <2>3. id \in removed /\ id \in Reminds
    BY <2>1, <2>2, <1>0 DEF CancelledIds
  <2>4. /\ queue' = queue \/ queue' = queue \ {id}
        /\ UNCHANGED <<accepted, delivered, committed, throttled, removed>>
    BY <1>3 DEF DeleteTask, RemoveTask
  <2>5. CASE queue' = queue
    BY <2>4, <2>5, <1>1 DEF promiseVars, HandedOver
  <2>6. CASE queue' = queue \ {id}
    BY <2>3, <2>4, <2>6 DEF Promise!Cancel, Promise!Next
  <2> QED
    BY <2>4, <2>5, <2>6
<1>4. ASSUME NEW c \in Cancels, RemoveReminds(c)
      PROVE  [Promise!Next]_(Promise!vars)
  BY <1>4, <1>0 DEF RemoveReminds, Promise!Withdraw, Promise!Next
<1>5. ASSUME NEW r \in Reminds, Deliver(r)
      PROVE  [Promise!Next]_(Promise!vars)
  BY <1>5 DEF Deliver, Promise!Send, Promise!Next
<1>6. ASSUME NEW r \in Reminds, ExpireCommitted(r)
      PROVE  [Promise!Next]_(Promise!vars)
  <2>1. CASE r \in throttled
    BY <1>6, <2>1, <1>1 DEF ExpireCommitted, promiseVars, HandedOver
  <2>2. CASE r \notin throttled
    BY <1>6, <2>2 DEF ExpireCommitted, Promise!Reveal, Promise!Next
  <2> QED
    BY <2>1, <2>2
<1>7. CASE \/ \E p \in Requests :
                 (\E window \in Windows : Fetch(p, window)) \/ FetchFails(p)
           \/ \E c \in Cancels :
                 \/ HandleRemindCancelled(c)
                 \/ DeletionContextDone(c)
                 \/ AnswerCancel(c)
           \/ \E m \in Minutes : ExpireCount(m) \/ ExpirePlan(m)
           \/ Crash
           \/ UNCHANGED vars
  BY <1>7, <1>1
  DEF Fetch, FetchFails, HandleRemindCancelled, DeletionContextDone,
      AnswerCancel, ExpireCount,
      ExpirePlan, Crash, vars, promiseVars, HandedOver
<1> QED
  BY <1>2, <1>3, <1>4, <1>5, <1>6, <1>7 DEF Next, CancelStep, Environment

\* With a task queue configured the commit phase implements the promise: for
\* any number of requests, reminds, cancellations and faults.
THEOREM Implementation ==
  ASSUME "none" \notin Backends
  PROVE  Spec => PromiseKept
<1>1. Typed => QueueConfigured
  BY DEF Typed, StoresTyped, QueueConfigured
<1>2. Typed /\ Handover /\ [Next]_vars => [Promise!Next]_(Promise!vars)
  BY <1>1, PromiseNext
<1> QED
  BY TypedInit, TypedNext, HandoverInit, HandoverNext, PromiseInit, <1>2, PTL
  DEF Spec, PromiseKept, Promise!Spec
=============================================================================
