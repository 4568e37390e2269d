------------------------------- MODULE System -------------------------------
(***************************************************************************)
(* internal/handler/throttle_handler.go: a throttle request from its       *)
(* arrival to its answer.  The request fixes its start minute, plans the   *)
(* reminds of the planning window (the steps of Planning), commits those   *)
(* of the commit window, records the result and answers; meanwhile time    *)
(* passes, users set reminds and other requests run.                       *)
(*                                                                         *)
(* The commit of one remind is one step here, with the outcomes that       *)
(* decide the answer; ThrottleService has its calls one by one.  A task    *)
(* queue is configured.                                                    *)
(***************************************************************************)
EXTENDS Planning

CONSTANTS
    Calls,          \* requests: records [from, planEnd, commitEnd] of minutes,
                    \*   NoSlot for a query parameter that is not there
    PlanningWindow, \* config.Throttle.PlanningWindowMinutes
    ConfirmWindow,  \* config.Throttle.ConfirmWindowMinutes
    HasTokens,      \* the reminds with at least one FCM token
    Recorders,      \* the result recorders the service may be started with
    LastMinute,     \* bound on the time that passes
    Deletable       \* bound on what users delete

\* A query parameter or, when it is not there, what stands for it.
Given(parameter, default) == IF parameter # NoSlot THEN parameter ELSE default

ASSUME SystemAssumption ==
    /\ IsFiniteSet(Planners)
    /\ HasTokens \subseteq Reminds
    /\ Calls \subseteq [from : Slots, planEnd : Slots, commitEnd : Slots]
    /\ PlanningWindow \in Nat /\ ConfirmWindow \in Nat
    /\ LastMinute \in Nat
    /\ 0 .. (LastMinute + PlanningWindow) \subseteq Minutes
    /\ \A c \in Calls, minute \in 0 .. LastMinute :
          LET start == Given(c.from, minute)
          IN  start .. Given(c.planEnd, start + PlanningWindow) \subseteq Minutes
    /\ Recorders \subseteq {"noop", "influxdb", "bigquery"}

VARIABLES
    now,            \* the current minute
    throttled,      \* time-mgmt: the reminds whose flag is set
    deleted,        \* time-mgmt: the reminds users have deleted
    recorder,       \* the result recorder of this process
    after,          \* its records, added up: reminds scheduled in a minute
    stage, call,    \* a request: where it is, its start and its window ends
    left, took,     \*   reminds to commit, the minutes of those committed
    due, kept,      \* history, see Begin and Answer
    uncounted,      \* history: counts that are lost, see CommitOne
    overlapped      \* history: two requests have been in flight at once

requestVars == <<stage, call, left, took, due>>
recordVars  == <<recorder, after>>
planningVars == <<known, redisVars, discoveryVars, plannerVars>>
historyVars == <<kept, uncounted, overlapped>>
systemVars == <<vars, now, throttled, deleted, recordVars, requestVars, historyVars>>

NoCall == [start |-> 0, planEnd |-> 0, commitEnd |-> 0]
Stages == {"none", "plan", "planning", "commit", "committing"}

SystemInit ==
    /\ Init
    /\ now = 0
    /\ throttled = {} /\ deleted = {}
    /\ recorder \in Recorders
    /\ after = [m \in Minutes |-> 0]
    /\ stage = [p \in Planners |-> "none"]
    /\ call = [p \in Planners |-> NoCall]
    /\ left = [p \in Planners |-> {}]
    /\ took = [p \in Planners |-> Nowhere]
    /\ due = [p \in Planners |-> {}]
    /\ kept = {} /\ overlapped = FALSE
    /\ uncounted = [m \in Minutes |-> 0]

-----------------------------------------------------------------------------
NoneRuns == \A p \in Planners : stage[p] = "none"

Goto(p, s) == stage' = [stage EXCEPT ![p] = s]

Within(r, from, until) == Home(r) \in from .. (until - 1)

\* Mutant of Started: the commit window ends a minute early.
StartedShort(c) ==
    [start     |-> Given(c.from, now),
     planEnd   |-> Given(c.planEnd, Given(c.from, now) + PlanningWindow),
     commitEnd |-> Given(c.commitEnd, Given(c.from, now) + ConfirmWindow - 1)]

\* HandleThrottle and HandleThrottleBatch: `now', truncated to the minute and
\* never looked at again, and the ends of both windows.
Started(c) ==
    LET start == Given(c.from, now) IN
    [start     |-> start,
     planEnd   |-> Given(c.planEnd, start + PlanningWindow),
     commitEnd |-> Given(c.commitEnd, start + ConfirmWindow)]

\* What the commit window of a call promises to take.
PromisedWindow(c) ==
    LET start == Given(c.from, now)
    IN  {r \in known : Within(r, start, Given(c.commitEnd, start + ConfirmWindow))}

\* A request arrives.  History: `due' is what its commit window holds now.
Begin(p, c) ==
    /\ stage[p] = "none"
    /\ Overlap \/ NoneRuns
    /\ overlapped' = (overlapped \/ ~NoneRuns)
    /\ call' = [call EXCEPT ![p] = Started(c)]
    /\ due' = [due EXCEPT ![p] = PromisedWindow(c)]
    /\ Goto(p, "plan")
    /\ UNCHANGED <<vars, now, throttled, deleted, recordVars, left, took, kept,
                   uncounted>>

\* PlanReminds is called with [start, planEnd) ...
StartPlanning(p) ==
    /\ stage[p] = "plan"
    /\ Fetch(p, [from |-> call[p].start, until |-> call[p].planEnd], throttled)
    /\ Goto(p, "planning")
    /\ UNCHANGED <<now, throttled, deleted, recordVars, call, left, took, due,
                   historyVars>>

\* ... or cannot fetch the reminds, which costs the request its plan only.
PlanningFails(p) ==
    /\ stage[p] = "plan"
    /\ Fault
    /\ Goto(p, "commit")
    /\ UNCHANGED <<planningVars, now, throttled, deleted, recordVars, call, left, took,
                   due, historyVars>>

\* A step inside PlanReminds.
PlanningStep(p) ==
    /\ stage[p] = "planning"
    /\ \/ MergeWithPreviousPlans(p)
       \/ CalculateTargets(p)
       \/ PrepareSlots(p)
       \/ \E r \in Reminds : Place(p, r)
       \/ \E m \in Minutes : SavePlan(p, m)
    /\ UNCHANGED <<now, throttled, deleted, recordVars, requestVars, historyVars>>

PlanningReturns(p) ==
    /\ stage[p] = "planning"
    /\ Return(p)
    /\ Goto(p, "commit")
    /\ UNCHANGED <<now, throttled, deleted, recordVars, call, left, took, due,
                   historyVars>>

\* The answer is out, the locals of the request are gone.
EndRequest(p) ==
    /\ Goto(p, "none")
    /\ call' = [call EXCEPT ![p] = NoCall]
    /\ left' = [left EXCEPT ![p] = {}]
    /\ took' = [took EXCEPT ![p] = Nowhere]
    /\ due' = [due EXCEPT ![p] = {}]

\* Mutant of ToCommit: reminds whose minute has passed are caught up on.
ToCommitLate(p) == {r \in known \ throttled : Home(r) < call[p].commitEnd}

\* The unthrottled reminds of [start, commitEnd).
ToCommit(p) ==
    {r \in known \ throttled : Within(r, call[p].start, call[p].commitEnd)}

\* ProcessReminds fetches them; when it cannot, the answer is 500.
StartCommit(p) ==
    /\ stage[p] = "commit"
    /\ \/ /\ left' = [left EXCEPT ![p] = ToCommit(p)]
          /\ Goto(p, "committing")
          /\ NoFault
          /\ UNCHANGED <<call, took, due>>
       \/ /\ EndRequest(p)
          /\ Fault
    /\ UNCHANGED <<planningVars, now, throttled, deleted, recordVars, historyVars>>

\* Mutant of Skip: a marker that cannot be read is taken for one.
SkipUnread(p, r) ==
    /\ stage[p] = "committing"
    /\ r \in left[p]
    /\ IF r \in committed \/ r \notin HasTokens THEN NoFault ELSE Fault
    /\ left' = [left EXCEPT ![p] = @ \ {r}]
    /\ UNCHANGED <<planningVars, now, throttled, deleted, recordVars, stage, call,
                   took, due, historyVars>>

\* A remind with a marker or without a token is passed over.
Skip(p, r) ==
    /\ stage[p] = "committing"
    /\ r \in left[p]
    /\ r \in committed \/ r \notin HasTokens
    /\ left' = [left EXCEPT ![p] = @ \ {r}]
    /\ UNCHANGED <<vars, now, throttled, deleted, recordVars, stage, call, took, due,
                   historyVars>>

\* POST reminds/<id>/throttled; a deleted remind has no flag to set.
SetFlag(r) == throttled' = throttled \cup ({r} \ deleted)

\* Any other, or one whose marker could not be read, is committed and flagged.
\* History: an increment that failed is one count lost, as an expired counter is
\* all of them.
CommitOne(p, r) ==
    /\ stage[p] = "committing"
    /\ r \in left[p] \cap HasTokens
    /\ \E slot \in SlotsRead(r), lost \in SUBSET Writes :
          /\ CommitPacket(r, slot, lost)
          /\ IF r \in committed THEN Fault ELSE CommitFault(r, slot, lost)
          /\ took' = [took EXCEPT ![p][r] = slot]
          /\ uncounted' = IF "count" \in lost
                          THEN [uncounted EXCEPT ![slot] = @ + 1] ELSE uncounted
    /\ SetFlag(r)
    /\ left' = [left EXCEPT ![p] = @ \ {r}]
    /\ UNCHANGED <<known, plan, planned, discoveryVars, plannerVars, now, deleted,
                   recordVars, stage, call, due, kept, overlapped>>

\* The queue refuses r - Cloud Tasks every r it has taken before, which its
\* marker failed to tell - or takes it and the answer is lost.
RegistrationFails(r) ==
    /\ \/ /\ UNCHANGED scheduled
          /\ IF r \in Queued \ committed THEN NoFault ELSE Fault
       \/ /\ \E slot \in SlotsRead(r) : scheduled' = [scheduled EXCEPT ![r] = slot]
          /\ Fault
    /\ UNCHANGED <<committed, count, throttled>>

\* r is committed, and time-mgmt does not take its flag or the answer is lost;
\* about a remind it has deleted it may answer anything.
FlagFails(r) ==
    /\ \E slot \in SlotsRead(r), lost \in SUBSET Writes :
          /\ CommitPacket(r, slot, lost)
          /\ IF r \in deleted \ committed THEN CommitFault(r, slot, lost) ELSE Fault
    /\ SetFlag(r) \/ UNCHANGED throttled

\* Either gives the batch up with a 500, nothing is recorded.
CommitFails(p, r) ==
    /\ stage[p] = "committing"
    /\ r \in left[p] \cap HasTokens
    /\ RegistrationFails(r) \/ FlagFails(r)
    /\ EndRequest(p)
    /\ UNCHANGED <<known, plan, planned, discoveryVars, plannerVars, now, deleted,
                   recordVars, historyVars>>

\* Mutant of AfterCounts: a shifted remind is counted where it came from.
AfterCountsUnshifted(p) ==
    [m \in Minutes |-> Cardinality({r \in Reminds : took[p][r] # NoSlot /\ Home(r) = m})]

\* buildCommitResultRecords: the reminds it committed, by the minute they are
\* scheduled in.  Lanes and the other columns of a record are left out.
AfterCounts(p) ==
    [m \in Minutes |-> Cardinality({r \in Reminds : took[p][r] = m})]

\* RecordBatchResults.  Records that cannot be written are dropped, and the
\* recorder reports no error.
Record(records, lost) ==
    /\ after' = [m \in Minutes |-> after[m] + IF m \in lost THEN 0 ELSE records[m]]
    /\ UNCHANGED recorder

\* What one failed call of the recorder drops: BigQuery takes all records in a
\* call, InfluxDB one.
Dropped == IF recorder = "bigquery" THEN {Minutes} ELSE {{m} : m \in Minutes}

\* The batch is through: it is recorded and the answer is 200.  History:
\* `kept' gathers what the commit windows of such requests held at their start.
Answer(p) ==
    /\ stage[p] = "committing"
    /\ left[p] = {}
    /\ \/ /\ recorder = "noop"
          /\ NoFault
          /\ UNCHANGED recordVars
       \/ /\ recorder # "noop"
          /\ NoFault
          /\ Record(AfterCounts(p), {})
       \/ /\ recorder # "noop"
          /\ Fault
          /\ \E lost \in Dropped : Record(AfterCounts(p), lost)
    /\ kept' = kept \cup due[p]
    /\ UNCHANGED <<uncounted, overlapped>>
    /\ EndRequest(p)
    /\ UNCHANGED <<planningVars, now, throttled, deleted>>

-----------------------------------------------------------------------------
(* Around the requests.                                                    *)

Tick ==
    /\ now < LastMinute
    /\ now' = now + 1
    /\ UNCHANGED <<vars, throttled, deleted, recordVars, requestVars, historyVars>>

UserSetsRemind(r) ==
    /\ r \notin deleted
    /\ SetRemind(r)
    /\ UNCHANGED <<now, throttled, deleted, recordVars, requestVars, historyVars>>

\* What was fetched, planned, marked or counted of r stays.
UserDeletesRemind(r) ==
    /\ r \in known \cap Deletable
    /\ known' = known \ {r}
    /\ deleted' = deleted \cup {r}
    /\ UNCHANGED <<redisVars, discoveryVars, plannerVars, faults, now, throttled,
                   recordVars, requestVars, historyVars>>

\* Keys of Redis run out.
MarkerExpires(r) ==
    /\ ExpireCommitted(r)
    /\ UNCHANGED <<now, throttled, deleted, recordVars, requestVars, historyVars>>

CountExpires(m) ==
    /\ ExpireCount(m)
    /\ uncounted' = [uncounted EXCEPT ![m] = @ + count[m]]
    /\ UNCHANGED <<now, throttled, deleted, recordVars, requestVars, kept, overlapped>>

PlanExpires(m) ==
    /\ ExpirePlan(m)
    /\ UNCHANGED <<now, throttled, deleted, recordVars, requestVars, historyVars>>

\* The process dies and is started again.
Restart ==
    /\ Crash
    /\ stage' = [p \in Planners |-> "none"]
    /\ call' = [p \in Planners |-> NoCall]
    /\ left' = [p \in Planners |-> {}]
    /\ took' = [p \in Planners |-> Nowhere]
    /\ due' = [p \in Planners |-> {}]
    /\ UNCHANGED <<now, throttled, deleted, recordVars, historyVars>>

SystemNext ==
    \/ \E p \in Planners :
          \/ \E c \in Calls : Begin(p, c)
          \/ StartPlanning(p)
          \/ PlanningFails(p)
          \/ PlanningStep(p)
          \/ PlanningReturns(p)
          \/ StartCommit(p)
          \/ \E r \in Reminds : Skip(p, r) \/ CommitOne(p, r) \/ CommitFails(p, r)
          \/ Answer(p)
    \/ Tick
    \/ \E r \in Reminds :
          \/ UserSetsRemind(r) \/ UserDeletesRemind(r)
          \/ MarkerExpires(r)
    \/ \E m \in Minutes : CountExpires(m) \/ PlanExpires(m)
    \/ Restart

SystemSpec == SystemInit /\ [][SystemNext]_systemVars

-----------------------------------------------------------------------------
(* Properties.                                                             *)

SystemTypeOK ==
    /\ TypeOK
    /\ now \in 0 .. LastMinute
    /\ throttled \subseteq Reminds /\ deleted \subseteq Reminds
    /\ uncounted \in [Minutes -> Nat]
    /\ stage \in [Planners -> Stages]
    /\ left \in [Planners -> SUBSET Reminds]
    /\ took \in [Planners -> [Reminds -> Slots]]
    /\ \A p \in Planners : (stage[p] = "planning") <=> (pc[p] # "idle")

\* A request answered with 200 leaves no remind behind: whatever its commit
\* window held when it began is in the task queue, unless it has no token or was
\* deleted.  The request looks at time-mgmt only after the planning phase,
\* whatever became of that phase and however late it got; an unread marker, a
\* lost one or a lost count makes no difference, nor does what other requests do.
\* A scheduler that calls at least once per commit window relies on this: the
\* window starts at `now', so that a remind whose minute has gone by
\* (throttle_handler.go:158) is out of reach of every later request.
DueIsQueued == kept \cap HasTokens \subseteq Queued \cup deleted

\* No request schedules a notification in a minute before its own start, with
\* a discovery that does not plan early: a plan made for an earlier window is
\* never used after the minute it names has passed.
NeverScheduledInPast ==
    strategy # "priority" =>
        \A p \in Planners, r \in Reminds :
            took[p][r] # NoSlot => took[p][r] >= call[p].start

\* The records never say more than the counters, but for increments that failed
\* and counters that have expired, and without faults and deletions they say the
\* same once the requests have answered: two bookkeepings in different stores,
\* filled in different phases, of shifted packets.  A request that gave up has
\* counted and not recorded.
RecordsMatchCounters ==
    \A m \in Minutes :
        LET inHand == FoldFunction(+, 0, [p \in Planners |-> AfterCounts(p)[m]])
        IN  /\ after[m] + inHand <= count[m] + uncounted[m]
            /\ faults = 0 /\ deleted = {} /\ recorder # "noop" =>
                   after[m] + inHand = count[m]

\* Requests that come one at a time, with the windows of the configuration and
\* without faults, fill no minute that no remind belongs to beyond the cap; see
\* Planning!ForeignWithinCap.  Reminds that can no longer be committed, because
\* their minute has passed, leave stale plans behind and do not count.
ForeignKeepsCap ==
    NoneRuns /\ ~overlapped /\ faults = 0 =>
      \A m \in Minutes : (\A r \in Reminds : Home(r) # m) =>
        Cardinality({r \in committed : scheduled[r] = m})
        + Cardinality({r \in known \ committed : Home(r) >= now /\ planned[r] = m})
            <= CapPerMinute

\* Between such requests a remind that can still be committed is in the plan of
\* the minute it would be scheduled in, as the planning window moves on: plans
\* are overwritten, but never with the loss of such a remind.
PlansKeepReminds ==
    NoneRuns /\ ~overlapped /\ faults = 0 => \A r \in known \ committed :
        planned[r] # NoSlot /\ Home(r) >= now => r \in plan[planned[r]]
=============================================================================
