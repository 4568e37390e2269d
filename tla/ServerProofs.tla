---------------------------- MODULE ServerProofs ----------------------------
(* Proofs about Server, for every value of its constants.                  *)
EXTENDS Server, TLAPS

-----------------------------------------------------------------------------
(* Types.                                                                  *)

LEMMA TypeInit == Init => TypeOK
  BY ServerAssumption
  DEF Init, TypeOK, Phases, RequestStates, NoCode, RedisDepth

LEMMA TypeRequest ==
  ASSUME TypeOK, NEW p \in Handlers, RequestStep(p)
  PROVE  TypeOK'
<1> USE ServerAssumption
    DEF TypeOK, RequestStates, Goto, Fault, NoFault, processVars, cancelVars
<1>1. CASE IsPacketCommitted(p)
  BY <1>1 DEF IsPacketCommitted, remoteVars, historyVars
<1>2. CASE RegisterNotification(p)
  <2>1. faults' \in 0 .. MaxFaults
    BY <1>2 DEF RegisterNotification
  <2>2. /\ tries' \in [Handlers -> 0 .. MaxRetries - 1]
        /\ state' \in [Handlers -> RequestStates]
    BY <1>2 DEF RegisterNotification, RetryOrAbort
  <2>3. /\ queue' \subseteq Reminds /\ accepted' \in [Reminds -> Nat]
        /\ wire' \in [Reminds -> Nat] /\ exposed' \subseteq Reminds
    BY <1>2 DEF RegisterNotification, Accept
  <2> QED
    BY <1>2, <2>1, <2>2, <2>3 DEF RegisterNotification
<1>3. CASE SaveCommittedPacket(p)
  BY <1>3 DEF SaveCommittedPacket, SaveMarker, historyVars
<1>4. CASE UpdateThrottled(p)
  BY <1>4 DEF UpdateThrottled, SetFlag, historyVars
<1> QED
  BY <1>1, <1>2, <1>3, <1>4 DEF RequestStep

LEMMA TypeNext == TypeOK /\ [Next]_vars => TypeOK'
<1> SUFFICES ASSUME TypeOK, [Next]_vars PROVE TypeOK'
  OBVIOUS
<1> USE ServerAssumption
    DEF TypeOK, Phases, RequestStates, NoCode, RedisDepth, Fault, NoFault,
        processVars, requestVars, cancelVars, remoteVars, historyVars
<1>1. CASE OpenNext \/ Listen \/ Drained \/ DrainTimesOut \/ CloseNext
  BY <1>1 DEF OpenNext, Listen, Drained, DrainTimesOut, CloseNext, Return
<1>2. CASE StartUpFails \/ ServerFails \/ Signal \/ Restart
  BY <1>2 DEF StartUpFails, ServerFails, Signal, Restart, Return
<1>3. CASE Exit \/ Crash
  <2>1. Die /\ faults' \in 0 .. MaxFaults /\ exitCode' \in {NoCode, 0, 1, 137}
    BY <1>3 DEF Exit, Crash
  <2>2. cut' \subseteq Handlers \cup Reminds /\ exposed' \subseteq Reminds
    BY <2>1 DEF Die, ActiveRequests
  <2>3. /\ state' \in [Handlers -> RequestStates]
        /\ tries' \in [Handlers -> 0 .. MaxRetries - 1]
        /\ cancel' \in [Reminds -> {"none", "sent", "deleting", "ok"}]
        /\ ctries' \in [Reminds -> 0 .. MaxRetries - 1]
    BY <2>1 DEF Die
  <2> QED
    BY <2>1, <2>2, <2>3 DEF Die
<1>4. ASSUME NEW p \in Handlers, RequestStep(p) PROVE TypeOK'
  BY <1>4, TypeRequest
<1>5. ASSUME NEW p \in Handlers, NEW r \in Reminds, Arrive(p, r) PROVE TypeOK'
  BY <1>5 DEF Arrive, Goto
<1>6. ASSUME NEW r \in Reminds, RemoveRemind(r) \/ HandleRemindCancelled(r)
      PROVE  TypeOK'
  BY <1>6 DEF RemoveRemind, HandleRemindCancelled
<1>7. ASSUME NEW r \in Reminds, Delete(r) PROVE TypeOK'
  BY <1>7 DEF Delete, RemoveTask, RetryOrRedeliver
<1>8. ASSUME NEW r \in Reminds, Late(r) \/ ExpireCommitted(r) PROVE TypeOK'
  BY <1>8 DEF Late, Accept, ExpireCommitted
<1>9. CASE UNCHANGED vars
  BY <1>9 DEF vars
<1> QED
  BY <1>1, <1>2, <1>3, <1>4, <1>5, <1>6, <1>7, <1>8, <1>9 DEF Next, RunStep

\* The process, its requests and the stores keep their types, the attempts stay
\* below their limit, and the history names what it should.
THEOREM ServerTypeCorrect == Spec => []TypeOK
  BY TypeInit, TypeNext, PTL DEF Spec

-----------------------------------------------------------------------------
(* The exit code.  A process that will exit with 0 has waited for its      *)
(* requests, and Redis stays open as long as there may be any.             *)

Lifecycle ==
    /\ phase = "starting" => exitCode = NoCode /\ ~Active /\ cut = {} /\ blind = {}
    /\ phase \in {"serving", "draining"} =>
          exitCode = NoCode /\ opened = RedisDepth /\ cut = {} /\ blind = {}
    /\ phase = "closing" /\ exitCode = 0 => ~Active /\ cut = {} /\ blind = {}
    /\ phase = "down" => ~Active /\ ExitZeroIsClean

\* A request step finds Redis open unless run() is closing, and a request or a
\* deletion keeps run() from exiting with 0.
LEMMA LifecycleActive ==
  ASSUME TypeOK, Lifecycle, Active
  PROVE  /\ phase \in {"serving", "draining", "closing"}
         /\ phase \in {"serving", "draining"} => RedisOpen
         /\ phase = "closing" => exitCode # 0
  BY DEF TypeOK, Lifecycle, Phases, RedisOpen, RedisDepth

LEMMA LifecycleInit == Init => Lifecycle
  BY DEF Init, Lifecycle, Active, ActiveRequests

LEMMA LifecycleRun ==
  ASSUME TypeOK, Lifecycle,
         RunStep \/ StartUpFails \/ ServerFails \/ Signal \/ Crash \/ Restart
  PROVE  Lifecycle'
<1> USE DEF Lifecycle, ExitZeroIsClean, NoCode, RedisDepth, processVars,
            requestVars, cancelVars, historyVars
<1>1. CASE OpenNext \/ Listen \/ Drained \/ DrainTimesOut \/ CloseNext
  BY <1>1 DEF OpenNext, Listen, Drained, DrainTimesOut, CloseNext, Return,
              Active, ActiveRequests
<1>2. CASE Exit \/ Crash
  <2>1. Die /\ (exitCode' = 0 => phase = "closing" /\ exitCode = 0)
    BY <1>2 DEF Exit, Crash
  <2>2. ~Active'
    BY <2>1 DEF Die, Active, ActiveRequests, TypeOK
  <2>3. exitCode' = 0 => cut' = {} /\ blind' = {}
    BY <2>1 DEF Die, Active, ActiveRequests
  <2> QED
    BY <2>1, <2>2, <2>3 DEF Die
<1>3. CASE StartUpFails \/ ServerFails \/ Signal \/ Restart
  BY <1>3 DEF StartUpFails, ServerFails, Signal, Restart, Return, Active,
              ActiveRequests
<1> QED
  BY <1>1, <1>2, <1>3 DEF RunStep

\* Steps of the handlers and of the world leave run() alone: the history of the
\* process changes only when Redis is closed under a request.
LEMMA LifecycleKept ==
  ASSUME TypeOK, Lifecycle, UNCHANGED processVars, UNCHANGED cut,
         Active \/ phase = "serving" \/ (Active' => Active),
         RedisOpen => UNCHANGED blind,
         ~Active => UNCHANGED blind
  PROVE  Lifecycle'
<1> USE DEF processVars, ExitZeroIsClean
<1>1. CASE Active
  BY <1>1, LifecycleActive DEF Lifecycle
<1>2. CASE ~Active /\ (phase = "serving" \/ ~Active')
  BY <1>2 DEF Lifecycle, RedisOpen
<1> QED
  BY <1>1, <1>2

LEMMA LifecycleNext == TypeOK /\ Lifecycle /\ [Next]_vars => Lifecycle'
<1> SUFFICES ASSUME TypeOK, Lifecycle, [Next]_vars PROVE Lifecycle'
  OBVIOUS
<1>1. CASE RunStep \/ StartUpFails \/ ServerFails \/ Signal \/ Crash \/ Restart
  BY <1>1, LifecycleRun
<1>2. ASSUME NEW p \in Handlers, RequestStep(p) PROVE Lifecycle'
  <2>1. Active
    BY <1>2 DEF RequestStep, IsPacketCommitted, RegisterNotification,
                SaveCommittedPacket, UpdateThrottled, Active, ActiveRequests
  <2>2. UNCHANGED <<processVars, cut>> /\ (RedisOpen => UNCHANGED blind)
    BY <1>2 DEF RequestStep, IsPacketCommitted, RegisterNotification,
                SaveCommittedPacket, UpdateThrottled, historyVars
  <2> QED
    BY <2>1, <2>2, LifecycleKept
<1>3. ASSUME NEW p \in Handlers, NEW r \in Reminds, Arrive(p, r) PROVE Lifecycle'
  BY <1>3, LifecycleKept DEF Arrive, historyVars
<1>4. ASSUME NEW r \in Reminds,
             \/ RemoveRemind(r) \/ HandleRemindCancelled(r) \/ Delete(r)
             \/ Late(r) \/ ExpireCommitted(r)
      PROVE  Lifecycle'
  <2>1. UNCHANGED <<processVars, cut, blind>>
    BY <1>4 DEF RemoveRemind, HandleRemindCancelled, Delete, Late,
                ExpireCommitted, historyVars
  <2>2. CASE HandleRemindCancelled(r)
    BY <2>1, <2>2, LifecycleKept DEF HandleRemindCancelled
  <2>3. CASE RemoveRemind(r) \/ Delete(r) \/ Late(r) \/ ExpireCommitted(r)
    <3>1. Active' => Active
      BY <2>3 DEF RemoveRemind, Delete, Late, ExpireCommitted, RetryOrRedeliver,
                  Active, ActiveRequests, requestVars, cancelVars, TypeOK
    <3> QED
      BY <2>1, <3>1, LifecycleKept
  <2> QED
    BY <1>4, <2>2, <2>3
<1>5. CASE UNCHANGED vars
  BY <1>5, LifecycleKept
  DEF vars, processVars, requestVars, cancelVars, historyVars, Active, ActiveRequests
<1> QED
  BY <1>1, <1>2, <1>3, <1>4, <1>5 DEF Next

\* A process that exits with 0 has cut off no request and has closed Redis under
\* none, however its start-up, its requests and its signals fell.
THEOREM CleanStop == Spec => []ExitZeroIsClean
<1>1. TypeOK /\ Lifecycle => ExitZeroIsClean
  BY DEF TypeOK, Phases, Lifecycle, ExitZeroIsClean, NoCode
<1> QED
  BY TypeInit, TypeNext, LifecycleInit, LifecycleNext, <1>1, PTL DEF Spec

-----------------------------------------------------------------------------
(* What hides a remind from later requests follows its acceptance.         *)

HandedOver ==
    /\ \A r \in committed \cup throttled : accepted[r] > 0
    /\ \A p \in Handlers : state[p] \in {"mark", "flag"} => accepted[cur[p]] > 0

LEMMA HandedOverInit == Init => HandedOver
  BY DEF Init, HandedOver

LEMMA HandedOverRequest ==
  ASSUME TypeOK, HandedOver, NEW p \in Handlers, RequestStep(p)
  PROVE  HandedOver'
<1> USE DEF TypeOK, HandedOver, Goto, remoteVars
<1>1. CASE IsPacketCommitted(p)
  BY <1>1 DEF IsPacketCommitted
<1>2. CASE RegisterNotification(p)
  BY <1>2 DEF RegisterNotification, RetryOrAbort, Accept
<1>3. CASE SaveCommittedPacket(p)
  BY <1>3 DEF SaveCommittedPacket, SaveMarker
<1>4. CASE UpdateThrottled(p)
  BY <1>4 DEF UpdateThrottled, SetFlag
<1> QED
  BY <1>1, <1>2, <1>3, <1>4 DEF RequestStep

LEMMA HandedOverNext == TypeOK /\ HandedOver /\ [Next]_vars => HandedOver'
<1> SUFFICES ASSUME TypeOK, HandedOver, [Next]_vars PROVE HandedOver'
  OBVIOUS
<1> USE DEF HandedOver, requestVars, remoteVars
<1>1. CASE RunStep
  BY <1>1 DEF RunStep, OpenNext, Listen, Drained, DrainTimesOut, CloseNext,
              Exit, Die
<1>2. CASE StartUpFails \/ ServerFails \/ Signal \/ Restart
  BY <1>2 DEF StartUpFails, ServerFails, Signal, Restart
<1>3. CASE Crash
  BY <1>3 DEF Crash, Die
<1>4. ASSUME NEW p \in Handlers, RequestStep(p) PROVE HandedOver'
  BY <1>4, HandedOverRequest
<1>5. ASSUME NEW p \in Handlers, NEW r \in Reminds, Arrive(p, r) PROVE HandedOver'
  BY <1>5 DEF Arrive, Goto, TypeOK
<1>6. ASSUME NEW r \in Reminds,
             RemoveRemind(r) \/ HandleRemindCancelled(r) \/ Delete(r)
      PROVE  HandedOver'
  BY <1>6 DEF RemoveRemind, HandleRemindCancelled, Delete
<1>7. ASSUME NEW r \in Reminds, Late(r) \/ ExpireCommitted(r) PROVE HandedOver'
  BY <1>7 DEF Late, Accept, ExpireCommitted, TypeOK
<1>8. CASE UNCHANGED vars
  BY <1>8 DEF vars
<1> QED
  BY <1>1, <1>2, <1>3, <1>4, <1>5, <1>6, <1>7, <1>8 DEF Next

\* A remind that later requests skip was accepted by the queue, whatever timed
\* out, stopped, crashed or was restarted in between.
THEOREM NothingHiddenIsLost == Spec => []HiddenIsHandedOver
<1>1. HandedOver => HiddenIsHandedOver
  BY DEF HandedOver, HiddenIsHandedOver
<1> QED
  BY TypeInit, TypeNext, HandedOverInit, HandedOverNext, <1>1, PTL DEF Spec

-----------------------------------------------------------------------------
(* A deletion that is final: nobody is left who could register the remind. *)

Final ==
    /\ \A r \in Reminds : cancel[r] # "none" => r \in removed
    /\ \A r \in swept :
          /\ r \in removed /\ r \notin queue /\ wire[r] = 0
          /\ \A p \in Handlers : cur[p] = r => state[p] = "none"

LEMMA FinalInit == Init => Final
  BY DEF Init, Final

LEMMA FinalRequest ==
  ASSUME TypeOK, Final, NEW p \in Handlers, RequestStep(p)
  PROVE  Final'
<1> USE DEF TypeOK, Final, Goto, cancelVars, remoteVars, historyVars
<1>1. CASE IsPacketCommitted(p)
  BY <1>1 DEF IsPacketCommitted
<1>2. CASE RegisterNotification(p)
  BY <1>2 DEF RegisterNotification, RetryOrAbort, Accept
<1>3. CASE SaveCommittedPacket(p)
  BY <1>3 DEF SaveCommittedPacket
<1>4. CASE UpdateThrottled(p)
  BY <1>4 DEF UpdateThrottled
<1> QED
  BY <1>1, <1>2, <1>3, <1>4 DEF RequestStep

LEMMA FinalNext == TypeOK /\ Final /\ [Next]_vars => Final'
<1> SUFFICES ASSUME TypeOK, Final, [Next]_vars PROVE Final'
  OBVIOUS
<1> USE DEF Final, requestVars, cancelVars, remoteVars, historyVars
<1>1. CASE RunStep
  BY <1>1 DEF RunStep, OpenNext, Listen, Drained, DrainTimesOut, CloseNext,
              Exit, Die, TypeOK
<1>2. CASE StartUpFails \/ ServerFails \/ Signal \/ Restart
  BY <1>2 DEF StartUpFails, ServerFails, Signal, Restart
<1>3. CASE Crash
  BY <1>3 DEF Crash, Die, TypeOK
<1>4. ASSUME NEW p \in Handlers, RequestStep(p) PROVE Final'
  BY <1>4, FinalRequest
<1>5. ASSUME NEW p \in Handlers, NEW r \in Reminds, Arrive(p, r) PROVE Final'
  BY <1>5 DEF Arrive, Goto, TypeOK
<1>6. ASSUME NEW r \in Reminds, RemoveRemind(r) \/ HandleRemindCancelled(r)
      PROVE  Final'
  BY <1>6 DEF RemoveRemind, HandleRemindCancelled, TypeOK
<1>7. ASSUME NEW r \in Reminds, Delete(r) PROVE Final'
  BY <1>7 DEF Delete, RemoveTask, RetryOrRedeliver, TypeOK
<1>8. ASSUME NEW r \in Reminds, Late(r) \/ ExpireCommitted(r) PROVE Final'
  BY <1>8 DEF Late, Accept, ExpireCommitted, TypeOK
<1>9. CASE UNCHANGED vars
  BY <1>9 DEF vars
<1> QED
  BY <1>1, <1>2, <1>3, <1>4, <1>5, <1>6, <1>7, <1>8, <1>9 DEF Next

\* A deletion that met no request and no late registration of the remind is
\* final.
THEOREM DeletionStaysFinal == Spec => []SweptStaysOut
<1>1. Final => SweptStaysOut
  BY DEF Final, SweptStaysOut
<1> QED
  BY TypeInit, TypeNext, FinalInit, FinalNext, <1>1, PTL DEF Spec

-----------------------------------------------------------------------------
(* Once accepted, a remind that is not exposed has one request that will   *)
(* mark it, or its marker.                                                 *)

Once(r) ==
    /\ \A p, q \in Handlers : Holds(p, r) /\ Holds(q, r) => p = q
    /\ wire[r] = 0
    /\ accepted[r] <= 1
    /\ \A p \in Handlers : cur[p] = r /\ state[p] = "register" => accepted[r] = 0
    /\ accepted[r] > 0 =>
          r \in committed \/ \E p \in Handlers : cur[p] = r /\ state[p] = "mark"

OnceEach == \A r \in Reminds : r \notin exposed => Once(r)

LEMMA OnceInit == Init => OnceEach
  BY DEF Init, OnceEach, Once, Holds

\* What the steps of a request do to one remind.
LEMMA OnceRequest ==
  ASSUME TypeOK, OnceEach, NEW p \in Handlers, RequestStep(p),
         NEW r \in Reminds, r \notin exposed'
  PROVE  Once(r)'
<1> USE DEF TypeOK, Holds, Goto, remoteVars, historyVars
<1>1. exposed \subseteq exposed'
  BY DEF RequestStep, IsPacketCommitted, RegisterNotification,
         SaveCommittedPacket, UpdateThrottled
<1>2. Once(r)
  BY <1>1 DEF OnceEach
<1>3. CASE IsPacketCommitted(p)
  <2>1. CASE cur[p] # r \/ Goto(p, "none")
    BY <1>2, <1>3, <2>1 DEF IsPacketCommitted, Once
  <2>2. CASE cur[p] = r /\ Goto(p, "register") /\ ~Goto(p, "none")
    <3>1. r \notin committed /\ \A q \in Handlers : ~Holds(q, r)
      BY <1>3, <2>2 DEF IsPacketCommitted
    <3>2. accepted[r] = 0
      BY <1>2, <3>1 DEF Once
    <3> QED
      BY <1>2, <1>3, <2>2, <3>1, <3>2 DEF IsPacketCommitted, Once
  <2> QED
    BY <1>3, <2>1, <2>2 DEF IsPacketCommitted
<1>4. CASE RegisterNotification(p)
  <2>1. CASE Accept(cur[p]) /\ Goto(p, "mark") /\ UNCHANGED wire
    <3>1. CASE cur[p] = r
      BY <1>2, <1>4, <2>1, <3>1 DEF RegisterNotification, Accept, Once
    <3>2. CASE cur[p] # r
      BY <1>2, <1>4, <2>1, <3>2 DEF RegisterNotification, Accept, Once
    <3> QED
      BY <3>1, <3>2
  <2>2. CASE /\ RetryOrAbort(p)
             /\ exposed' = exposed \cup {cur[p]}
             /\ \/ Accept(cur[p]) /\ UNCHANGED wire
                \/ wire' = [wire EXCEPT ![cur[p]] = @ + 1] /\ UNCHANGED accepted
    BY <1>2, <1>4, <2>2 DEF RegisterNotification, RetryOrAbort, Accept, Once
  <2>3. CASE RetryOrAbort(p) /\ UNCHANGED <<accepted, wire>>
    BY <1>2, <1>4, <2>3 DEF RegisterNotification, RetryOrAbort, Once
  <2> QED
    BY <1>4, <2>1, <2>2, <2>3 DEF RegisterNotification
<1>5. CASE SaveCommittedPacket(p)
  BY <1>2, <1>5 DEF SaveCommittedPacket, SaveMarker, Once
<1>6. CASE UpdateThrottled(p)
  BY <1>2, <1>6 DEF UpdateThrottled, Once
<1> QED
  BY <1>3, <1>4, <1>5, <1>6 DEF RequestStep

LEMMA OnceNext == TypeOK /\ OnceEach /\ [Next]_vars => OnceEach'
<1> SUFFICES ASSUME TypeOK, OnceEach, [Next]_vars PROVE OnceEach'
  OBVIOUS
<1> USE DEF OnceEach, Holds, requestVars, remoteVars, historyVars
<1>1. CASE OpenNext \/ Listen \/ Drained \/ DrainTimesOut \/ CloseNext
  BY <1>1 DEF OpenNext, Listen, Drained, DrainTimesOut, CloseNext, Once
<1>2. CASE StartUpFails \/ ServerFails \/ Signal \/ Restart
  BY <1>2 DEF StartUpFails, ServerFails, Signal, Restart, Once
<1>3. CASE Exit \/ Crash
  <2>1. Die
    BY <1>3 DEF Exit, Crash
  <2> QED
    BY <2>1 DEF Die, Once
<1>4. ASSUME NEW p \in Handlers, RequestStep(p) PROVE OnceEach'
  BY <1>4, OnceRequest
<1>5. ASSUME NEW p \in Handlers, NEW r \in Reminds, Arrive(p, r) PROVE OnceEach'
  BY <1>5 DEF Arrive, Goto, Once, TypeOK
<1>6. ASSUME NEW r \in Reminds,
             RemoveRemind(r) \/ HandleRemindCancelled(r) \/ Delete(r)
      PROVE  OnceEach'
  BY <1>6 DEF RemoveRemind, HandleRemindCancelled, Delete, Once
<1>7. ASSUME NEW r \in Reminds, Late(r) \/ ExpireCommitted(r) PROVE OnceEach'
  BY <1>7 DEF Late, Accept, ExpireCommitted, Once, TypeOK
<1>8. CASE UNCHANGED vars
  BY <1>8 DEF vars, Once
<1> QED
  BY <1>1, <1>2, <1>3, <1>4, <1>5, <1>6, <1>7, <1>8 DEF Next, RunStep

\* Late attempts, stops, restarts and Redis errors add no cause of a second
\* notification to the ones exposed names: a remind that another request was at,
\* whose attempt went unanswered, or whose marker failed.
THEOREM TwiceHasCauses == Spec => []TwiceOnlyIfExposed
<1>1. TypeOK /\ OnceEach => TwiceOnlyIfExposed
  BY DEF TypeOK, OnceEach, Once, TwiceOnlyIfExposed
<1> QED
  BY TypeInit, TypeNext, OnceInit, OnceNext, <1>1, PTL DEF Spec
=============================================================================
