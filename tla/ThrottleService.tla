-------------------------- MODULE ThrottleService --------------------------
(***************************************************************************)
(* Package internal/service/throttle: the commit phase of a throttle       *)
(* request (ProcessReminds) and the cancellation of reminds                *)
(* (HandleRemindCancelled), run by concurrent HTTP handlers over three     *)
(* services that share no transaction: time-mgmt (the `throttled' flag),   *)
(* the task queue (the notification itself) and Redis (the committed       *)
(* markers, the per-minute counters and the plans of the planning phase).  *)
(*                                                                         *)
(* Every remote call is one step of its own, so that requests interleave   *)
(* between any two calls.  A call may fail before or after it took effect; *)
(* the process may crash; Redis keys may expire.  MaxFaults bounds how     *)
(* often that happens in a behaviour.                                      *)
(***************************************************************************)
EXTENDS Integers, FiniteSets, Sequences, Functions

CONSTANTS
    Reminds,             \* the reminds time-mgmt knows
    HasTokens,           \* those with at least one non-empty FCM token
    Time,                \* Time[r]: the minute of the remind's original time
    SlideMinutes,        \* SlideMinutes[r]: whole minutes of its slide window
    Minutes,             \* the minutes a notification can be scheduled in
    Windows,             \* the sets of reminds a commit window can cover
    InitialPlans,        \* what the planning phase may have left in Redis
    Requests,            \* slots for concurrent throttle requests
    Cancels,             \* cancellation events
    CancelIds,           \* CancelIds[c]: the list of remind_ids of event c
    NoRemind,            \* "no remind in hand"
    RequestCapPerMinute, \* config.Throttle.RequestCapPerMinute
    MaxRetries,          \* attempts of the task queue client per call
    FlagAttempts,        \* attempts of updateThrottledWithRetry
    Backends,            \* the task queues the service may be started with
    MaxFaults            \* bound on failed calls, crashes and expiries

NoPlan == -1

ASSUME RemindsAssumption ==
    /\ HasTokens \subseteq Reminds
    /\ NoRemind \notin Reminds
    /\ Windows \subseteq SUBSET Reminds
    /\ CancelIds \in [Cancels -> Seq(Reminds)]

ASSUME TimeAssumption ==
    /\ Minutes \subseteq Nat
    /\ Time \in [Reminds -> Minutes]
    /\ SlideMinutes \in [Reminds -> Nat]
    /\ \A r \in Reminds : Time[r] .. (Time[r] + SlideMinutes[r]) \subseteq Minutes
    /\ InitialPlans \subseteq [Reminds -> Minutes \cup {NoPlan}]

ASSUME LimitsAssumption ==
    /\ RequestCapPerMinute \in Nat \ {0}
    /\ MaxRetries \in Nat \ {0}
    /\ FlagAttempts \in Nat \ {0}
    /\ MaxFaults \in Nat
    /\ Backends \subseteq {"none", "primind", "gcloud"}

VARIABLES
    throttled, removed,           \* time-mgmt: flag set; deleted by the user
    backend,                      \* the task queue client of this process
    queue, accepted, delivered,   \* task queue: pending, times accepted, fired
    committed, count, planned,    \* Redis: committed:<id>, packets:<min>, planned:<id>
    pc, todo, cur, slot, tries,   \* a request: where it is, reminds left, the
                                  \*   one in hand, its minute, failed attempts
    batch, outcome,               \* a request: what it fetched, its last answer
    cpc, cnext, ctries, cfailed,  \* a cancellation handler: where it is, index of
                                  \*   the id in hand, failed attempts, any error
    faults,                       \* faults so far
    exposed, swept                \* history, see Proceed and DeleteTask

timeMgmtVars  == <<throttled, removed>>
taskQueueVars == <<backend, queue, accepted, delivered>>
redisVars     == <<committed, count, planned>>
requestVars   == <<pc, todo, cur, slot, tries, batch, outcome>>
cancelVars    == <<cpc, cnext, ctries, cfailed>>
historyVars   == <<exposed, swept>>
vars == <<timeMgmtVars, taskQueueVars, redisVars, requestVars, cancelVars,
          faults, historyVars>>

RequestStates == {"idle", "loop", "lookup", "probe", "register", "save",
                  "count", "flag"}
CancelStates  == {"none", "sent", "deleting", "ok", "failed"}

Init ==
    /\ throttled = {} /\ removed = {}
    /\ backend \in Backends
    /\ queue = {} /\ delivered = {} /\ accepted = [r \in Reminds |-> 0]
    /\ committed = {} /\ count = [m \in Minutes |-> 0]
    /\ planned \in InitialPlans
    /\ pc = [p \in Requests |-> "idle"]
    /\ todo = [p \in Requests |-> {}]
    /\ cur = [p \in Requests |-> NoRemind]
    /\ slot = [p \in Requests |-> NoPlan]
    /\ tries = [p \in Requests |-> 0]
    /\ batch = [p \in Requests |-> {}]
    /\ outcome = [p \in Requests |-> "none"]
    /\ cpc = [c \in Cancels |-> "none"]
    /\ cnext = [c \in Cancels |-> 1]
    /\ ctries = [c \in Cancels |-> 0]
    /\ cfailed = [c \in Cancels |-> FALSE]
    /\ faults = 0
    /\ exposed = {} /\ swept = {}

-----------------------------------------------------------------------------
(* Building blocks.                                                        *)

\* Without a URL the client is nil; Cloud Tasks refuses a name it has seen.
QueueConfigured   == backend # "none"
RejectsKnownNames == backend = "gcloud"

Fault   == faults < MaxFaults /\ faults' = faults + 1
NoFault == UNCHANGED faults

Goto(p, state) == pc' = [pc EXCEPT ![p] = state]

\* `return &Response{...}, err': the handler answers and its locals are gone.
Respond(p, result) ==
    /\ Goto(p, "idle")
    /\ outcome' = [outcome EXCEPT ![p] = result]
    /\ todo' = [todo EXCEPT ![p] = {}]
    /\ cur' = [cur EXCEPT ![p] = NoRemind]
    /\ slot' = [slot EXCEPT ![p] = NoPlan]
    /\ tries' = [tries EXCEPT ![p] = 0]
    /\ UNCHANGED batch

\* On to the call `state' of the remind in hand.
Advance(p, state) ==
    /\ Goto(p, state)
    /\ tries' = [tries EXCEPT ![p] = 0]
    /\ UNCHANGED <<todo, cur, slot, batch, outcome>>

\* The remind is done; on to the next one of the batch.
Done(p) ==
    /\ Goto(p, "loop")
    /\ cur' = [cur EXCEPT ![p] = NoRemind]
    /\ slot' = [slot EXCEPT ![p] = NoPlan]
    /\ tries' = [tries EXCEPT ![p] = 0]
    /\ UNCHANGED <<todo, batch, outcome>>

\* Mutants of RetryOrAbort: the error is swallowed and the remind goes on as
\* if registered; only this remind is given up.
SwallowError(p, attempts) == attempts \in Nat /\ Advance(p, "save")

GiveUpRemind(p, attempts) == attempts \in Nat /\ Done(p)

\* A failed attempt: back off and try again, or give the whole batch up.
RetryOrAbort(p, attempts) ==
    \/ /\ tries[p] + 1 < attempts
       /\ tries' = [tries EXCEPT ![p] = @ + 1]
       /\ UNCHANGED <<pc, todo, cur, slot, batch, outcome>>
    \/ /\ tries[p] + 1 >= attempts
       /\ Respond(p, "error")

\* Mutant of TotalCount: the remind in hand is taken to be counted already.
OthersCount(m) == count[m] + Cardinality({r \in Reminds : planned[r] = m}) - 1

\* slot.Counter.GetTotalCountForMinute: committed plus planned packets.
TotalCount(m) == count[m] + Cardinality({r \in Reminds : planned[r] = m})

\* p has decided to hand r over and has not yet reached the committed marker.
Holds(p, r) == cur[p] = r /\ pc[p] \in {"lookup", "probe", "register", "save"}

-----------------------------------------------------------------------------
(* ProcessReminds, one action per remote call.                             *)

\* GetRemindsByTimeRange, then filterUnthrottled on the snapshot.
Fetch(p, window) ==
    /\ pc[p] = "idle"
    /\ LET found == window \ (removed \cup throttled) IN
       /\ todo' = [todo EXCEPT ![p] = found]
       /\ batch' = [batch EXCEPT ![p] = found]
    /\ Goto(p, "loop")
    /\ outcome' = [outcome EXCEPT ![p] = "none"]
    /\ UNCHANGED <<cur, slot, tries, timeMgmtVars, taskQueueVars, redisVars,
                   cancelVars, faults, historyVars>>

\* time-mgmt cannot be reached: the request fails before it touched anything.
FetchFails(p) ==
    /\ pc[p] = "idle"
    /\ Fault
    /\ batch' = [batch EXCEPT ![p] = {}]
    /\ outcome' = [outcome EXCEPT ![p] = "error"]
    /\ UNCHANGED <<pc, todo, cur, slot, tries, timeMgmtVars, taskQueueVars,
                   redisVars, cancelVars, historyVars>>

\* Mutant of Skip: the `continue' is missing and the skipped remind goes on.
SkipNothing(p, r) ==
    /\ todo' = [todo EXCEPT ![p] = @ \ {r}]
    /\ cur' = [cur EXCEPT ![p] = r]
    /\ Goto(p, "lookup")
    /\ UNCHANGED <<slot, tries, batch, outcome, exposed>>

\* `continue': r is skipped, its throttled flag is left as it is.
Skip(p, r) ==
    /\ todo' = [todo EXCEPT ![p] = @ \ {r}]
    /\ UNCHANGED <<pc, cur, slot, tries, batch, outcome, exposed>>

\* r is taken in hand.  History: it is exposed to a second notification when
\* its marker was there all along, or when another request is at it too.
Proceed(p, r) ==
    /\ todo' = [todo EXCEPT ![p] = @ \ {r}]
    /\ cur' = [cur EXCEPT ![p] = r]
    /\ Goto(p, "lookup")
    /\ exposed' = IF r \in committed \/ \E q \in Requests : Holds(q, r)
                  THEN exposed \cup {r} ELSE exposed
    /\ UNCHANGED <<slot, tries, batch, outcome>>

\* The idempotency check, with the device check that follows it.  When Redis
\* does not answer, r is treated as not committed.
IsPacketCommitted(p) ==
    /\ pc[p] = "loop"
    /\ \E r \in todo[p] :
          \/ /\ r \in committed \/ r \notin HasTokens
             /\ Skip(p, r)
             /\ NoFault
          \/ /\ r \notin committed
             /\ r \in HasTokens
             /\ Proceed(p, r)
             /\ NoFault
          \/ /\ r \in committed \cap HasTokens
             /\ Proceed(p, r)
             /\ Fault
    /\ UNCHANGED <<swept, timeMgmtVars, taskQueueVars, redisVars, cancelVars>>

\* calculateScheduledTime: the planned time if Redis has one; on a miss or an
\* error, FindSlot from the original minute on.
GetPlannedPacket(p) ==
    LET r == cur[p] IN
    /\ pc[p] = "lookup"
    /\ \/ /\ planned[r] # NoPlan
          /\ slot' = [slot EXCEPT ![p] = planned[r]]
          /\ Goto(p, "register")
          /\ NoFault
       \/ /\ slot' = [slot EXCEPT ![p] = Time[r]]
          /\ Goto(p, "probe")
          /\ IF planned[r] = NoPlan THEN NoFault ELSE Fault
    /\ UNCHANGED <<todo, cur, tries, batch, outcome, timeMgmtVars,
                   taskQueueVars, redisVars, cancelVars, historyVars>>

\* One round of FindSlot: count one minute, take it if it is under the cap,
\* else look at the next minute of the slide window, and fall back to the
\* original minute when the window is exhausted.  A failed count settles on
\* the original minute, and passes over any later one.
FindSlot(p) ==
    LET r     == cur[p]
        room  == TotalCount(slot[p]) < RequestCapPerMinute
        first == slot[p] = Time[r]
        last  == slot[p] = Time[r] + SlideMinutes[r]
        passOver == (~room /\ NoFault) \/ (~first /\ Fault)
    IN
    /\ pc[p] = "probe"
    /\ \/ /\ (room /\ NoFault) \/ (first /\ Fault)
          /\ Goto(p, "register")
          /\ UNCHANGED slot
       \/ /\ last
          /\ passOver
          /\ slot' = [slot EXCEPT ![p] = Time[r]]
          /\ Goto(p, "register")
       \/ /\ ~last
          /\ passOver
          /\ slot' = [slot EXCEPT ![p] = @ + 1]
          /\ UNCHANGED pc
    /\ UNCHANGED <<todo, cur, tries, batch, outcome, timeMgmtVars,
                   taskQueueVars, redisVars, cancelVars, historyVars>>

\* The queue takes the task named after the remind.
Accept(r) ==
    /\ queue' = queue \cup {r}
    /\ accepted' = [accepted EXCEPT ![r] = @ + 1]
    /\ UNCHANGED <<delivered, backend>>

\* registerToQueueWithTime and the attempts of the queue client under it.  An
\* attempt is answered, or is accepted while the answer is lost, or is refused:
\* for good if the queue already knows the name, else by a fault.
RegisterNotification(p) ==
    LET r == cur[p]
        known == RejectsKnownNames /\ accepted[r] > 0
    IN
    /\ pc[p] = "register"
    /\ \/ /\ ~QueueConfigured
          /\ Advance(p, "save")
          /\ NoFault
          /\ UNCHANGED <<taskQueueVars, exposed>>
       \/ /\ QueueConfigured
          /\ ~known
          /\ Accept(r)
          /\ Advance(p, "save")
          /\ NoFault
          /\ UNCHANGED exposed
       \/ /\ QueueConfigured
          /\ ~known
          /\ Accept(r)
          /\ exposed' = exposed \cup {r}
          /\ RetryOrAbort(p, MaxRetries)
          /\ Fault
       \/ /\ QueueConfigured
          /\ RetryOrAbort(p, MaxRetries)
          /\ IF known THEN NoFault ELSE Fault
          /\ UNCHANGED <<taskQueueVars, exposed>>
    /\ UNCHANGED <<swept, timeMgmtVars, redisVars, cancelVars>>

\* The client of the request is gone: ctx.Done() wins the wait before a retry.
ContextDone(p) ==
    /\ pc[p] \in {"register", "flag"}
    /\ tries[p] > 0
    /\ Fault
    /\ Respond(p, "error")
    /\ UNCHANGED <<timeMgmtVars, taskQueueVars, redisVars, cancelVars,
                   historyVars>>

\* SET committed:<id>.  A failure is logged and the remind goes on unmarked.
SaveCommittedPacket(p) ==
    /\ pc[p] = "save"
    /\ Advance(p, "count")
    /\ \/ /\ committed' = committed \cup {cur[p]}
          /\ NoFault
          /\ UNCHANGED exposed
       \/ /\ Fault
          /\ exposed' = exposed \cup {cur[p]}
          /\ UNCHANGED committed
    /\ UNCHANGED <<count, planned, swept, timeMgmtVars, taskQueueVars, cancelVars>>

\* Mutants of CountPacket: the counter goes down; nothing is counted.
UncountPacket(m) == count' = [count EXCEPT ![m] = @ - 1]
CountNothing(m)  == m \in Minutes /\ UNCHANGED count

CountPacket(m) == count' = [count EXCEPT ![m] = @ + 1]

\* INCRBY packets:<minute> 1.  A failure is logged and the count stays short.
IncrementPacketCount(p) ==
    /\ pc[p] = "count"
    /\ Advance(p, "flag")
    /\ \/ /\ CountPacket(slot[p])
          /\ NoFault
       \/ /\ Fault
          /\ UNCHANGED count
    /\ UNCHANGED <<committed, planned, timeMgmtVars, taskQueueVars, cancelVars,
                   historyVars>>

\* Mutant of SetFlag: the call passes FALSE.
ClearFlag(r) == throttled' = throttled \ {r}

\* POST reminds/<id>/throttled; a removed remind has no flag to set.
SetFlag(r) == throttled' = throttled \cup ({r} \ removed)

\* updateThrottledWithRetry.  time-mgmt may answer anything about a remind it
\* has removed; otherwise a failed attempt is a fault, with or without effect.
UpdateThrottled(p) ==
    LET r == cur[p] IN
    /\ pc[p] = "flag"
    /\ \/ /\ SetFlag(r)
          /\ Done(p)
          /\ NoFault
       \/ /\ SetFlag(r)
          /\ RetryOrAbort(p, FlagAttempts)
          /\ Fault
       \/ /\ RetryOrAbort(p, FlagAttempts)
          /\ IF r \in removed THEN NoFault ELSE Fault
          /\ UNCHANGED throttled
    /\ UNCHANGED <<removed, taskQueueVars, redisVars, cancelVars, historyVars>>

\* Every remind of the batch is behind: 200 with the counts.
Finish(p) ==
    /\ pc[p] = "loop"
    /\ todo[p] = {}
    /\ Respond(p, "ok")
    /\ UNCHANGED <<timeMgmtVars, taskQueueVars, redisVars, cancelVars, faults,
                   historyVars>>

-----------------------------------------------------------------------------
(* HandleRemindCancelled.                                                  *)

CancelledIds(c) == {CancelIds[c][i] : i \in 1 .. Len(CancelIds[c])}

\* The user deletes the reminds of a task; time-mgmt forgets them, then sends
\* the event.
RemoveReminds(c) ==
    /\ cpc[c] = "none"
    /\ removed' = removed \cup CancelledIds(c)
    /\ cpc' = [cpc EXCEPT ![c] = "sent"]
    /\ UNCHANGED <<throttled, cnext, ctries, cfailed, taskQueueVars, redisVars,
                   requestVars, faults, historyVars>>

\* The handler takes the event, or takes it again after it answered 500.
\* Without a queue or without ids there is nothing to delete.
HandleRemindCancelled(c) ==
    /\ cpc[c] \in {"sent", "failed"}
    /\ cpc' = [cpc EXCEPT ![c] = IF QueueConfigured /\ CancelIds[c] # <<>>
                                 THEN "deleting" ELSE "ok"]
    /\ cnext' = [cnext EXCEPT ![c] = 1]
    /\ ctries' = [ctries EXCEPT ![c] = 0]
    /\ cfailed' = [cfailed EXCEPT ![c] = FALSE]
    /\ UNCHANGED <<timeMgmtVars, taskQueueVars, redisVars, requestVars, faults,
                   historyVars>>

\* On to the next id; the error of this one, if any, is collected.
NextId(c, failed) ==
    /\ cnext' = [cnext EXCEPT ![c] = @ + 1]
    /\ ctries' = [ctries EXCEPT ![c] = 0]
    /\ cfailed' = [cfailed EXCEPT ![c] = @ \/ failed]

\* Mutant of RemoveTask: the task path is wrong, and 404 counts as deleted.
RemoveElsewhere(r) == r \in Reminds /\ UNCHANGED queue

RemoveTask(r) == queue' = queue \ {r}

\* One attempt of DeleteTask; 404 counts as deleted, and a failed attempt may
\* have deleted.  History: r is swept when its deletion found no request that
\* could still register it.
DeleteTask(c) ==
    LET r == CancelIds[c][cnext[c]] IN
    /\ cpc[c] = "deleting"
    /\ cnext[c] <= Len(CancelIds[c])
    /\ \/ /\ RemoveTask(r)
          /\ NextId(c, FALSE)
          /\ NoFault
          /\ swept' = IF \E p \in Requests : r \in todo[p] \/ cur[p] = r
                      THEN swept ELSE swept \cup {r}
       \/ /\ UNCHANGED queue \/ RemoveTask(r)
          /\ Fault
          /\ \/ /\ ctries[c] + 1 < MaxRetries
                /\ ctries' = [ctries EXCEPT ![c] = @ + 1]
                /\ UNCHANGED <<cnext, cfailed>>
             \/ /\ ctries[c] + 1 >= MaxRetries
                /\ NextId(c, TRUE)
          /\ UNCHANGED swept
    /\ UNCHANGED <<cpc, accepted, delivered, backend, timeMgmtVars, redisVars,
                   requestVars, exposed>>

\* The sender of the event is gone, which was the fault the attempt before failed
\* of: ctx.Done() wins the wait before a retry, and the calls for the remaining
\* ids do not get out.
DeletionContextDone(c) ==
    /\ cpc[c] = "deleting"
    /\ ctries[c] > 0
    /\ NoFault
    /\ cnext' = [cnext EXCEPT ![c] = Len(CancelIds[c]) + 1]
    /\ ctries' = [ctries EXCEPT ![c] = 0]
    /\ cfailed' = [cfailed EXCEPT ![c] = TRUE]
    /\ UNCHANGED <<cpc, timeMgmtVars, taskQueueVars, redisVars, requestVars,
                   historyVars>>

\* Every id has been tried: 200, or 500 if a deletion failed.
AnswerCancel(c) ==
    /\ cpc[c] = "deleting"
    /\ cnext[c] > Len(CancelIds[c])
    /\ cpc' = [cpc EXCEPT ![c] = IF cfailed[c] THEN "failed" ELSE "ok"]
    /\ UNCHANGED <<cnext, ctries, cfailed, timeMgmtVars, taskQueueVars,
                   redisVars, requestVars, faults, historyVars>>

-----------------------------------------------------------------------------
(* The environment.                                                        *)

\* A pending task reaches its schedule time and the notification is sent.
Deliver(r) ==
    /\ r \in queue
    /\ queue' = queue \ {r}
    /\ delivered' = delivered \cup {r}
    /\ UNCHANGED <<accepted, backend, timeMgmtVars, redisVars, requestVars,
                   cancelVars, faults, historyVars>>

\* The process dies with everything in flight; the three services do not.
Crash ==
    /\ Fault
    /\ pc' = [p \in Requests |-> "idle"]
    /\ todo' = [p \in Requests |-> {}]
    /\ cur' = [p \in Requests |-> NoRemind]
    /\ slot' = [p \in Requests |-> NoPlan]
    /\ tries' = [p \in Requests |-> 0]
    /\ outcome' = [p \in Requests |-> IF pc[p] = "idle" THEN outcome[p] ELSE "error"]
    /\ cpc' = [c \in Cancels |-> IF cpc[c] = "deleting" THEN "failed" ELSE cpc[c]]
    /\ exposed' = exposed \cup {r \in Reminds : \E p \in Requests :
                                   pc[p] = "save" /\ cur[p] = r}
    /\ UNCHANGED <<batch, cnext, ctries, cfailed, swept, timeMgmtVars, taskQueueVars, redisVars>>

\* TTLs: two hours for a marker, one for a counter, half an hour for a plan.
ExpireCommitted(r) ==
    /\ r \in committed
    /\ Fault
    /\ committed' = committed \ {r}
    /\ exposed' = exposed \cup {r}
    /\ UNCHANGED <<count, planned, swept, timeMgmtVars, taskQueueVars,
                   requestVars, cancelVars>>

ExpireCount(m) ==
    /\ count[m] > 0
    /\ Fault
    /\ count' = [count EXCEPT ![m] = 0]
    /\ UNCHANGED <<committed, planned, timeMgmtVars, taskQueueVars, requestVars,
                   cancelVars, historyVars>>

ExpirePlan(m) ==
    /\ \E r \in Reminds : planned[r] = m
    /\ Fault
    /\ planned' = [r \in Reminds |-> IF planned[r] = m THEN NoPlan ELSE planned[r]]
    /\ UNCHANGED <<committed, count, timeMgmtVars, taskQueueVars, requestVars,
                   cancelVars, historyVars>>

-----------------------------------------------------------------------------
RequestStep(p) ==
    \/ IsPacketCommitted(p)
    \/ GetPlannedPacket(p)
    \/ FindSlot(p)
    \/ RegisterNotification(p)
    \/ ContextDone(p)
    \/ SaveCommittedPacket(p)
    \/ IncrementPacketCount(p)
    \/ UpdateThrottled(p)
    \/ Finish(p)

CancelStep(c) ==
    \/ HandleRemindCancelled(c)
    \/ DeleteTask(c)
    \/ DeletionContextDone(c)
    \/ AnswerCancel(c)

Environment ==
    \/ \E c \in Cancels : RemoveReminds(c)
    \/ \E r \in Reminds : Deliver(r) \/ ExpireCommitted(r)
    \/ \E m \in Minutes : ExpireCount(m) \/ ExpirePlan(m)
    \/ Crash

Next ==
    \/ \E p \in Requests :
          \/ \E window \in Windows : Fetch(p, window)
          \/ FetchFails(p)
          \/ RequestStep(p)
    \/ \E c \in Cancels : CancelStep(c)
    \/ Environment

Spec == Init /\ [][Next]_vars

\* Goroutines run and every remote call returns (HTTP clients and contexts
\* have timeouts), and the scheduler keeps sending throttle requests.
Fairness ==
    /\ \A p \in Requests : WF_vars(RequestStep(p))
    /\ \A p \in Requests : WF_vars(\E window \in Windows : Fetch(p, window))
    /\ \A c \in Cancels : WF_vars(CancelStep(c))

FairSpec == Spec /\ Fairness

-----------------------------------------------------------------------------
(* Properties.                                                             *)

TypeOK ==
    /\ throttled \subseteq Reminds /\ removed \subseteq Reminds
    /\ backend \in Backends
    /\ queue \subseteq Reminds /\ delivered \subseteq Reminds
    /\ accepted \in [Reminds -> Nat]
    /\ committed \subseteq Reminds
    /\ count \in [Minutes -> Nat]
    /\ planned \in [Reminds -> Minutes \cup {NoPlan}]
    /\ pc \in [Requests -> RequestStates]
    /\ todo \in [Requests -> SUBSET Reminds]
    /\ cur \in [Requests -> HasTokens \cup {NoRemind}]
    /\ slot \in [Requests -> Minutes \cup {NoPlan}]
    /\ tries \in [Requests -> Nat]
    /\ batch \in [Requests -> SUBSET Reminds]
    /\ outcome \in [Requests -> {"none", "ok", "error"}]
    /\ cpc \in [Cancels -> CancelStates]
    /\ cnext \in [Cancels -> Nat \ {0}]
    /\ ctries \in [Cancels -> Nat]
    /\ cfailed \in [Cancels -> BOOLEAN]
    /\ faults \in 0 .. MaxFaults
    /\ exposed \subseteq Reminds /\ swept \subseteq Reminds

\* A remind that later runs will not look at any more, because its marker or
\* its flag is set, was accepted by the queue, and its notification is pending
\* or sent unless the user deleted the remind: whatever fails, crashes or
\* interleaves, ProcessReminds never loses a notification.
Hidden(r) == r \in committed \/ r \in throttled

HiddenIsHandedOver ==
    QueueConfigured =>
        \A r \in Reminds : Hidden(r) =>
            /\ accepted[r] > 0
            /\ r \in queue \cup delivered \cup removed

\* The queue accepts a remind a second time only if it was exposed: the marker
\* was unreadable, was not written, has expired or was cut off by a crash, an
\* accepted registration went unanswered, or two requests held the remind at
\* once.  Nothing else in ProcessReminds notifies a user twice.
TwiceOnlyIfExposed ==
    \A r \in Reminds : accepted[r] > 1 => r \in exposed

\* A deletion that met no request holding the remind is final: no request
\* puts the remind back into the queue.
SweptStaysOut == swept \cap queue = {}

\* A 200 answer accounts for the batch: each fetched remind that has a token
\* was accepted by the queue, by this request or by the one whose marker it met.
OkAccountsForBatch ==
    QueueConfigured =>
        \A p \in Requests : outcome[p] = "ok" =>
            \A r \in batch[p] \cap HasTokens : accepted[r] > 0

\* FindSlot counts a minute and commits to it several calls later, so the cap
\* is not a hard bound on the notifications that are moved into a minute.  What
\* holds in a minute where no remind belongs or was planned is that the counter
\* exceeds the cap by less than the number of concurrent requests.
Foreign(m) ==
    \A r \in Reminds : Time[r] # m /\ \A plan \in InitialPlans : plan[r] # m

OvershootBounded ==
    \A m \in Minutes : Foreign(m) =>
        count[m] <= RequestCapPerMinute + Cardinality(Requests) - 1

\* Without faults the per-minute counters never under-report the committed
\* packets, and as long as no remind was exposed they match them: each marker
\* is counted once, by the request that wrote it.
CountersMatchMarkers ==
    faults = 0 =>
        LET counted == FoldFunction(+, 0, count)
                       + Cardinality({p \in Requests : pc[p] = "count"})
        IN  /\ counted >= Cardinality(committed)
            /\ exposed = {} => counted = Cardinality(committed)

\* The commit phase keeps the promise of NotificationPromise.
Promise == INSTANCE NotificationPromise WITH
    handed    <- {r \in Reminds : accepted[r] > 0},
    pending   <- queue,
    sent      <- delivered,
    hidden    <- committed \cup throttled,
    withdrawn <- removed

PromiseKept == Promise!Spec

\* The idempotency check of service.go:103 taken at its word: the queue accepts
\* no remind twice.
AcceptedOnce == \A r \in Reminds : accepted[r] <= 1

\* The answer of remind_cancel_handler.go:78 taken at its word: when every
\* deletion succeeded, the notifications are gone from the queue.
CancelledIsNotQueued ==
    \A c \in Cancels : cpc[c] = "ok" => CancelledIds(c) \cap queue = {}

\* Every remind that has a token and stays in the commit window reaches the
\* queue, whatever (boundedly many) faults its earlier runs met, unless the
\* user deletes it first.  With a queue that refuses known names the code
\* keeps this only as long as nothing fails: a lost answer leaves a remind that
\* ends every batch before the reminds behind it.
EveryRemindHandedOver ==
    (RejectsKnownNames => [](faults = 0)) =>
        \A r \in HasTokens : <>(accepted[r] > 0 \/ r \in removed)

\* Without faults every accepted remind gets its flag in time-mgmt, although
\* requests that meet the marker skip it without setting the flag.
FlagFollows ==
    [](faults = 0) =>
        \A r \in Reminds : accepted[r] > 0 ~> (r \in throttled \/ r \in removed)
=============================================================================
