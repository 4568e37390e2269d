------------------------------- MODULE Server -------------------------------
(***************************************************************************)
(* cmd/main.go: the life of the process - start-up, serving, the drain     *)
(* after a signal and the deferred closes - around the handlers that run   *)
(* in it, and the attempts of the task queue client as messages that may   *)
(* outlive the attempt, the request and the process that sent them.        *)
(*                                                                         *)
(* A throttle request carries one remind here and its calls are reduced to *)
(* those whose effect depends on the life of the process; ThrottleService  *)
(* has whole batches in a process that dies only at once.                  *)
(***************************************************************************)
EXTENDS Integers, FiniteSets

CONSTANTS
    Reminds,
    Handlers,     \* slots for concurrent throttle requests
    MaxRetries,   \* attempts of the task queue client per call
    Backends,     \* the task queues the service may be built for
    MaxStarts,    \* bound on how often the process is started
    MaxFaults     \* bound on failures and crashes

ASSUME ServerAssumption ==
    /\ MaxRetries \in Nat \ {0}
    /\ Backends \subseteq {"primind", "gcloud"}
    /\ MaxStarts \in Nat \ {0}
    /\ MaxFaults \in Nat

\* What run() opens, in this order, and closes in the reverse order: the
\* observability resources, the recorder, the task queue, the Redis client.
QueueDepth == 3
RedisDepth == 4

NoCode == -1

VARIABLES
    backend,
    phase, opened,      \* the process: where run() is, how much it has opened
    exitCode, starts,   \*   its exit code, how often it was started
    state, cur, tries,  \* a throttle request: next call, its remind, attempts
    cancel, ctries,     \* the cancellation of a remind: how far it is
    committed,          \* Redis: committed:<id>
    throttled, removed, \* time-mgmt: flag set; deleted by the user
    queue, accepted,    \* task queue: pending, times accepted
    wire,               \* registrations given up but still on their way
    faults,
    cut, blind,         \* history of this process: requests its exit cut off,
                        \*   requests that met a closed Redis client
    exposed, swept      \* history, see IsPacketCommitted and Delete

processVars == <<phase, opened, exitCode, starts>>
requestVars == <<state, cur, tries>>
cancelVars  == <<cancel, ctries>>
remoteVars  == <<committed, throttled, removed, queue, accepted, wire>>
historyVars == <<cut, blind, exposed, swept>>
vars == <<backend, processVars, requestVars, cancelVars, remoteVars, faults,
          historyVars>>

Phases == {"starting", "serving", "draining", "closing", "down"}
RequestStates == {"none", "check", "register", "mark", "flag"}

Init ==
    /\ backend \in Backends
    /\ phase = "starting" /\ opened = 0 /\ exitCode = NoCode /\ starts = 1
    /\ state = [p \in Handlers |-> "none"]
    /\ cur \in [Handlers -> Reminds]
    /\ tries = [p \in Handlers |-> 0]
    /\ cancel = [r \in Reminds |-> "none"]
    /\ ctries = [r \in Reminds |-> 0]
    /\ committed = {} /\ throttled = {} /\ removed = {} /\ queue = {}
    /\ accepted = [r \in Reminds |-> 0]
    /\ wire = [r \in Reminds |-> 0]
    /\ faults = 0
    /\ cut = {} /\ blind = {} /\ exposed = {} /\ swept = {}

-----------------------------------------------------------------------------
Fault   == faults < MaxFaults /\ faults' = faults + 1
NoFault == UNCHANGED faults

RedisOpen == opened >= RedisDepth
\* The Cloud Tasks client is closed at the end, the other one has no cleanup.
QueueOpen == backend = "gcloud" => opened >= QueueDepth

ActiveRequests == {p \in Handlers : state[p] # "none"}
Active == ActiveRequests # {} \/ \E r \in Reminds : cancel[r] = "deleting"

\* p has decided to hand r over and no later run can see it yet.
Holds(p, r) == cur[p] = r /\ state[p] \in {"register", "mark"}

-----------------------------------------------------------------------------
(* run().                                                                  *)

\* One resource after the other; the configuration is loaded in between.
OpenNext ==
    /\ phase = "starting"
    /\ opened < RedisDepth
    /\ opened' = opened + 1
    /\ UNCHANGED <<backend, phase, exitCode, starts, requestVars, cancelVars,
                   remoteVars, faults, historyVars>>

\* `return code': from here on the deferred closes run.
Return(code) ==
    /\ phase' = "closing"
    /\ exitCode' = code
    /\ UNCHANGED <<opened, starts>>

\* A resource cannot be opened, or the configuration is not valid.  The task
\* queue client of the local build always can.
StartUpFails ==
    /\ phase = "starting"
    /\ opened < RedisDepth
    /\ opened + 1 = QueueDepth => backend = "gcloud"
    /\ Fault
    /\ Return(1)
    /\ UNCHANGED <<backend, requestVars, cancelVars, remoteVars, historyVars>>

Listen ==
    /\ phase = "starting"
    /\ opened = RedisDepth
    /\ phase' = "serving"
    /\ UNCHANGED <<backend, opened, exitCode, starts, requestVars, cancelVars,
                   remoteVars, faults, historyVars>>

\* ListenAndServe returns with an error.
ServerFails ==
    /\ phase = "serving"
    /\ Fault
    /\ Return(1)
    /\ UNCHANGED <<backend, requestVars, cancelVars, remoteVars, historyVars>>

\* SIGTERM: srv.Shutdown closes the listener.  cancel() reaches no request:
\* their contexts are not derived from the one of run().
Signal ==
    /\ phase = "serving"
    /\ phase' = "draining"
    /\ UNCHANGED <<backend, opened, exitCode, starts, requestVars, cancelVars,
                   remoteVars, faults, historyVars>>

\* srv.Shutdown returns once no request is active ...
Drained ==
    /\ phase = "draining"
    /\ ~Active
    /\ Return(0)
    /\ UNCHANGED <<backend, requestVars, cancelVars, remoteVars, faults, historyVars>>

\* Mutant of DrainTimesOut: the error of Shutdown is only logged.
DrainTimesOutSilently ==
    /\ phase = "draining"
    /\ Active
    /\ Return(0)
    /\ UNCHANGED <<backend, requestVars, cancelVars, remoteVars, faults, historyVars>>

\* ... or after ten seconds with an error, while the requests go on.
DrainTimesOut ==
    /\ phase = "draining"
    /\ Active
    /\ Return(1)
    /\ UNCHANGED <<backend, requestVars, cancelVars, remoteVars, faults, historyVars>>

\* Mutant of CloseNext: the flush of the observability resources, the last one,
\* has no time limit.
CloseUnlimited ==
    /\ phase = "closing"
    /\ opened > 1
    /\ opened' = opened - 1
    /\ UNCHANGED <<backend, phase, exitCode, starts, requestVars, cancelVars,
                   remoteVars, faults, historyVars>>

\* A deferred close; the one of the observability resources is limited to 5 s.
CloseNext ==
    /\ phase = "closing"
    /\ opened > 0
    /\ opened' = opened - 1
    /\ UNCHANGED <<backend, phase, exitCode, starts, requestVars, cancelVars,
                   remoteVars, faults, historyVars>>

\* The process is gone and its requests with it, accepted reminds without a
\* marker included.  A cancellation that got no answer is delivered again.
Die ==
    /\ phase' = "down"
    /\ opened' = 0
    /\ cut' = ActiveRequests \cup {r \in Reminds : cancel[r] = "deleting"}
    /\ exposed' = exposed \cup {cur[p] : p \in {q \in Handlers : state[q] = "mark"}}
    /\ state' = [p \in Handlers |-> "none"]
    /\ tries' = [p \in Handlers |-> 0]
    /\ cancel' = [r \in Reminds |-> IF cancel[r] = "deleting" THEN "sent" ELSE cancel[r]]
    /\ ctries' = [r \in Reminds |-> 0]
    /\ UNCHANGED <<backend, starts, cur, remoteVars, blind, swept>>

Exit ==
    /\ phase = "closing"
    /\ opened = 0
    /\ Die
    /\ UNCHANGED <<exitCode, faults>>

Crash ==
    /\ phase # "down"
    /\ Fault
    /\ Die
    /\ exitCode' = 137

\* The platform starts the process again.
Restart ==
    /\ phase = "down"
    /\ starts < MaxStarts
    /\ phase' = "starting"
    /\ exitCode' = NoCode
    /\ starts' = starts + 1
    /\ cut' = {} /\ blind' = {}
    /\ UNCHANGED <<backend, opened, requestVars, cancelVars, remoteVars, faults,
                   exposed, swept>>

-----------------------------------------------------------------------------
(* A throttle request.                                                     *)

Goto(p, s) ==
    /\ state' = [state EXCEPT ![p] = s]
    /\ tries' = [tries EXCEPT ![p] = 0]

\* The request arrives, its remind is fetched.
Arrive(p, r) ==
    /\ phase = "serving"
    /\ state[p] = "none"
    /\ r \notin throttled \cup removed
    /\ cur' = [cur EXCEPT ![p] = r]
    /\ Goto(p, "check")
    /\ UNCHANGED <<backend, processVars, cancelVars, remoteVars, faults, historyVars>>

\* A remind whose marker is there is skipped; a marker that cannot be read, which
\* no closed client can, is taken for none.  History: r may be notified twice
\* when its marker went unseen or another request is at it.
IsPacketCommitted(p) ==
    LET r == cur[p] IN
    /\ state[p] = "check"
    /\ \/ /\ RedisOpen /\ r \in committed
          /\ Goto(p, "none")
          /\ NoFault
          /\ UNCHANGED historyVars
       \/ /\ Goto(p, "register")
          /\ IF RedisOpen /\ r \in committed THEN Fault ELSE NoFault
          /\ blind' = IF RedisOpen THEN blind ELSE blind \cup {p}
          /\ exposed' = IF r \in committed \/ \E q \in Handlers : Holds(q, r)
                        THEN exposed \cup {r} ELSE exposed
          /\ UNCHANGED <<cut, swept>>
    /\ UNCHANGED <<backend, processVars, cur, cancelVars, remoteVars>>

Known(r) == backend = "gcloud" /\ accepted[r] > 0

\* The task queue service takes a registration.
Accept(r) ==
    /\ queue' = queue \cup {r}
    /\ accepted' = [accepted EXCEPT ![r] = @ + 1]

\* Mutants of RetryOrAbort: one attempt too many; retries without a limit; the
\* last failure is dropped.
RetryOnceMore(p) ==
    IF tries[p] < MaxRetries
    THEN /\ tries' = [tries EXCEPT ![p] = @ + 1]
         /\ UNCHANGED state
    ELSE Goto(p, "none")

RetryForever(p) == UNCHANGED <<state, tries>>

SwallowError(p) ==
    IF tries[p] + 1 < MaxRetries
    THEN /\ tries' = [tries EXCEPT ![p] = @ + 1]
         /\ UNCHANGED state
    ELSE Goto(p, "mark")

\* The attempt failed: back off and try again, or answer 500.
RetryOrAbort(p) ==
    IF tries[p] + 1 < MaxRetries
    THEN /\ tries' = [tries EXCEPT ![p] = @ + 1]
         /\ UNCHANGED state
    ELSE Goto(p, "none")

\* One attempt.
RegisterNotification(p) ==
    LET r == cur[p] IN
    /\ state[p] = "register"
    /\ \/ \* It is answered.
          /\ QueueOpen /\ ~Known(r)
          /\ Accept(r)
          /\ Goto(p, "mark")
          /\ NoFault
          /\ UNCHANGED <<wire, exposed>>
       \/ \* It is accepted, the answer is lost or cannot be decoded.
          /\ QueueOpen /\ ~Known(r)
          /\ Accept(r)
          /\ exposed' = exposed \cup {r}
          /\ RetryOrAbort(p)
          /\ Fault
          /\ UNCHANGED wire
       \/ \* It times out on its way.
          /\ QueueOpen
          /\ wire' = [wire EXCEPT ![r] = @ + 1]
          /\ exposed' = exposed \cup {r}
          /\ RetryOrAbort(p)
          /\ Fault
          /\ UNCHANGED <<queue, accepted>>
       \/ \* It is refused, or cannot be sent.
          /\ RetryOrAbort(p)
          /\ IF ~QueueOpen \/ Known(r) THEN NoFault ELSE Fault
          /\ UNCHANGED <<queue, accepted, wire, exposed>>
    /\ UNCHANGED <<backend, processVars, cur, cancelVars, committed, throttled,
                   removed, cut, blind, swept>>

\* Mutant of SaveMarker: the marker has no lifetime.
SaveExpired(r) == UNCHANGED committed

SaveMarker(r) == committed' = committed \cup {r}

\* A marker that cannot be written, which no closed client can, is logged and
\* passed over.
SaveCommittedPacket(p) ==
    /\ state[p] = "mark"
    /\ Goto(p, "flag")
    /\ \/ /\ RedisOpen
          /\ SaveMarker(cur[p])
          /\ NoFault
          /\ UNCHANGED historyVars
       \/ /\ IF RedisOpen THEN Fault ELSE NoFault
          /\ blind' = IF RedisOpen THEN blind ELSE blind \cup {p}
          /\ exposed' = exposed \cup {cur[p]}
          /\ UNCHANGED <<committed, cut, swept>>
    /\ UNCHANGED <<backend, processVars, cur, cancelVars, throttled, removed,
                   queue, accepted, wire>>

SetFlag(r) == throttled' = throttled \cup ({r} \ removed)

\* The flag is set and the answer is 200, or the answer is 500: the flag is not
\* set, or nobody heard that it is.
UpdateThrottled(p) ==
    /\ state[p] = "flag"
    /\ Goto(p, "none")
    /\ \/ /\ SetFlag(cur[p])
          /\ NoFault
       \/ /\ SetFlag(cur[p]) \/ UNCHANGED throttled
          /\ Fault
    /\ UNCHANGED <<backend, processVars, cur, cancelVars, committed, removed,
                   queue, accepted, wire, historyVars>>

\* committed:<id> runs out.
ExpireCommitted(r) ==
    /\ r \in committed
    /\ Fault
    /\ committed' = committed \ {r}
    /\ exposed' = exposed \cup {r}
    /\ UNCHANGED <<backend, processVars, requestVars, cancelVars, throttled, removed,
                   queue, accepted, wire, cut, blind, swept>>

-----------------------------------------------------------------------------
(* A cancellation.                                                         *)

\* The user deletes r in time-mgmt, which publishes it.
RemoveRemind(r) ==
    /\ r \notin removed
    /\ removed' = removed \cup {r}
    /\ cancel' = [cancel EXCEPT ![r] = "sent"]
    /\ UNCHANGED <<backend, processVars, requestVars, ctries, committed, throttled,
                   queue, accepted, wire, faults, historyVars>>

HandleRemindCancelled(r) ==
    /\ phase = "serving"
    /\ cancel[r] = "sent"
    /\ cancel' = [cancel EXCEPT ![r] = "deleting"]
    /\ ctries' = [ctries EXCEPT ![r] = 0]
    /\ UNCHANGED <<backend, processVars, requestVars, remoteVars, faults, historyVars>>

\* Mutant of RemoveTask: the task is looked for in another queue; 404.
RemoveElsewhere(r) == UNCHANGED queue

RemoveTask(r) == queue' = queue \ {r}

\* Mutant of RetryOrRedeliver: the failure is logged and answered with 200.
RetryOrDrop(r) ==
    IF ctries[r] + 1 < MaxRetries
    THEN /\ ctries' = [ctries EXCEPT ![r] = @ + 1]
         /\ UNCHANGED cancel
    ELSE /\ ctries' = [ctries EXCEPT ![r] = 0]
         /\ cancel' = [cancel EXCEPT ![r] = "none"]

\* The attempt failed: back off and try again, or answer 500, and then the
\* event is delivered again.
RetryOrRedeliver(r) ==
    IF ctries[r] + 1 < MaxRetries
    THEN /\ ctries' = [ctries EXCEPT ![r] = @ + 1]
         /\ UNCHANGED cancel
    ELSE /\ ctries' = [ctries EXCEPT ![r] = 0]
         /\ cancel' = [cancel EXCEPT ![r] = "sent"]

\* One attempt to delete the task; 404 counts as deleted.  History: the deletion
\* is final if nobody was about to register r and no registration of r was still
\* on its way.
Delete(r) ==
    /\ cancel[r] = "deleting"
    /\ \/ /\ QueueOpen
          /\ RemoveTask(r)
          /\ cancel' = [cancel EXCEPT ![r] = "ok"]
          /\ swept' = IF wire[r] = 0 /\ \A p \in Handlers : cur[p] = r => state[p] = "none"
                      THEN swept \cup {r} ELSE swept
          /\ NoFault
          /\ UNCHANGED ctries
       \/ /\ IF QueueOpen THEN Fault ELSE NoFault
          /\ RetryOrRedeliver(r)
          /\ UNCHANGED <<queue, swept>>
    /\ UNCHANGED <<backend, processVars, requestVars, committed, throttled, removed,
                   accepted, wire, cut, blind, exposed>>

-----------------------------------------------------------------------------
(* The task queue service.                                                 *)

\* A registration nobody waits for any more arrives, or gets lost.
Late(r) ==
    /\ wire[r] > 0
    /\ wire' = [wire EXCEPT ![r] = @ - 1]
    /\ \/ ~Known(r) /\ Accept(r)
       \/ UNCHANGED <<queue, accepted>>
    /\ UNCHANGED <<backend, processVars, requestVars, cancelVars, committed,
                   throttled, removed, faults, historyVars>>

-----------------------------------------------------------------------------
RunStep == OpenNext \/ Listen \/ Drained \/ DrainTimesOut \/ CloseNext \/ Exit

RequestStep(p) ==
    \/ IsPacketCommitted(p)
    \/ RegisterNotification(p)
    \/ SaveCommittedPacket(p)
    \/ UpdateThrottled(p)

Next ==
    \/ RunStep
    \/ StartUpFails \/ ServerFails \/ Signal \/ Crash \/ Restart
    \/ \E p \in Handlers : RequestStep(p) \/ \E r \in Reminds : Arrive(p, r)
    \/ \E r \in Reminds :
          \/ RemoveRemind(r) \/ HandleRemindCancelled(r) \/ Delete(r)
          \/ Late(r)
          \/ ExpireCommitted(r)

Spec == Init /\ [][Next]_vars

\* run() goes on, its timers fire and start-up and Close() return; every remote
\* call of a handler returns; an event that was not answered with 200 is
\* delivered again.
FairSpec ==
    /\ Spec
    /\ WF_vars(RunStep)
    /\ \A p \in Handlers : WF_vars(RequestStep(p))
    /\ \A r \in Reminds : WF_vars(HandleRemindCancelled(r)) /\ WF_vars(Delete(r))

-----------------------------------------------------------------------------
(* Properties.                                                             *)

TypeOK ==
    /\ backend \in Backends
    /\ phase \in Phases
    /\ opened \in 0 .. RedisDepth
    /\ exitCode \in {NoCode, 0, 1, 137}
    /\ starts \in 1 .. MaxStarts
    /\ state \in [Handlers -> RequestStates]
    /\ cur \in [Handlers -> Reminds]
    /\ tries \in [Handlers -> 0 .. MaxRetries - 1]
    /\ cancel \in [Reminds -> {"none", "sent", "deleting", "ok"}]
    /\ ctries \in [Reminds -> 0 .. MaxRetries - 1]
    /\ committed \subseteq Reminds /\ throttled \subseteq Reminds
    /\ removed \subseteq Reminds /\ queue \subseteq Reminds
    /\ accepted \in [Reminds -> Nat]
    /\ wire \in [Reminds -> Nat]
    /\ faults \in 0 .. MaxFaults
    /\ cut \subseteq Handlers \cup Reminds /\ blind \subseteq Handlers
    /\ exposed \subseteq Reminds /\ swept \subseteq Reminds

\* Exit code 0 means a clean stop: no request was cut off, and none ran on with
\* its Redis client closed.  Requests do run on when the drain times out, and
\* they then take a closed client for an absent marker; the exit code tells.
ExitZeroIsClean == exitCode = 0 => cut = {} /\ blind = {}

\* A remind is accepted a second time only if another request was at it, an
\* attempt went unanswered (and may still be on its way after the request or
\* the process has gone), the process died between registration and marker, or
\* the marker failed: it could not be written, could not be read - for a Redis
\* error or because the client was closed under the request - or ran out.
TwiceOnlyIfExposed == \A r \in Reminds : accepted[r] > 1 => r \in exposed

\* A deletion is final if no request was about to register the remind and no
\* registration of it was still on its way.
SweptStaysOut == swept \cap queue = {}

\* A remind with a marker or a flag was accepted by the queue, through timeouts,
\* drains, crashes and restarts.
HiddenIsHandedOver == \A r \in committed \cup throttled : accepted[r] > 0

\* The process stops once it got a signal, even if its requests never end, and
\* a request ends, even if its Redis client is closed under it.
StopEnds == phase \in {"draining", "closing"} ~> phase = "down"

RequestEnds == \A p \in Handlers : state[p] # "none" ~> state[p] = "none"

\* While a process keeps serving, the deletion of a removed remind is carried
\* through, whatever process took the event first.
CancellationEnds ==
    <>[](phase = "serving") => \A r \in Reminds : r \in removed ~> cancel[r] = "ok"
=============================================================================
