# A verification project for primind-notification-throttling

The program is a Go service that spreads push notifications over time. A scheduler calls
`POST /api/v1/throttle` every minute or so; each call plans the reminds of the next 30 minutes
(smoothing their numbers per minute and sliding reminds inside their slide windows) and then commits
those of the next 5 minutes: each is registered with a task queue, marked in Redis, counted, and flagged
as throttled in the time-mgmt service. When a user deletes a task, `POST /api/v1/remind/cancel` deletes
the queued notifications again.

This directory holds TLA+ modules translated from the source, TLC configurations that check them on small
instances, and TLAPS proofs for every value of the constants. `PROJECT.json` maps every definition to the lines
it models. Run a check with `tlc -config X.cfg M`, the proofs with `tlapm M.tla` for each `*Proofs` module.

## Inventory

| part | state | operations | talks to |
|---|---|---|---|
| commit phase, `service/throttle/service.go` | none of its own; one goroutine per request | `ProcessReminds`: per remind check, schedule, register, mark, count, flag | time-mgmt, Redis, task queue, slot calculator |
| cancellation, `service/throttle/cancel_handler.go` | none | `HandleRemindCancelled`: delete each queued task | task queue |
| slot calculator and counter, `service/slot` | none | `FindSlot`, `GetTotalCountForMinute` | Redis |
| planning phase, `service/plan/service.go` | local: targets, plans by minute | `PlanReminds`: fetch, filter, merge with previous plans, targets, slots, `SavePlan` per minute | time-mgmt, Redis, smoothing, sliding |
| slide discovery, `service/sliding` | `PriorityDiscovery.assignments`, shared by all requests and unsynchronised; the per-run `SlideContext` | `FindSlotForLoose/Strict`, `UpdateContext`, `PrepareSlots` | the planning phase |
| smoothing, `service/smoothing` | none | `CalculateTargets`: kernel convolution, `normalizeToSum`, capped availability | the planning phase |
| lane classifier, `service/lane` | none | `Classify`: strict when the slide window is at most 150 s | planning, commit |
| Redis repository, `infra/repository` | `committed:<id>` (2 h), `packets:<min>` (1 h), `plan:<min>` and `planned:<id>` (30 min) | get, set, increment, scan | Redis |
| task queue clients, `infra/taskqueue` | none | `RegisterNotification`, `DeleteTask` with retries and back-off | PRIMIND tasks or Cloud Tasks |
| time-mgmt client, `infra/timemgmt` | none | `GetRemindsByTimeRange`, `UpdateThrottled` | time-mgmt |
| HTTP handlers, `handler` | per request: start minute, window ends | `HandleThrottle`, `HandleThrottleBatch`: plan, then commit, then record; `HandleRemindCancel` | all of the above |
| result recorders, `infra/throttlerecorder` | the external history | `RecordBatchResults`, one record or one batch at a time | InfluxDB or BigQuery |
| the process, `cmd/main.go` | what is open, exit code | start-up, serving, drain for 10 s, deferred closes | everything it opens |
| health, observability, generated code, load-test stub | – | – | not modelled, see below |

All services are singletons; HTTP handlers run concurrently on them. Nothing prevents two throttle requests
from overlapping, and no lock or transaction spans the stores.

### Hard behaviours, and what makes each part correct

* Commit phase: four calls on three stores per remind, each of which may fail, fail after taking effect, or
  be cut off by a crash. Correct when no notification is lost (a remind that later runs skip really is in the
  queue's hands), when duplicates have only the causes the design accepts, when the 200 answer accounts for the
  batch, and when every remind eventually gets there.
* Cancellation: races the commit phase. Correct when a deletion is final.
* Capacity: the count of a minute is read long before the packet is counted. Correct when the overshoot
  is bounded and the counters agree with the markers.
* Planning: reads plans that other requests are writing, keeps stale plan keys, and with the priority
  strategy reads slots another request has prepared. Correct when each active remind is planned once, inside its
  slide window, under the cap as far as its window allows.
* Sliding: minute-granular windows over second-granular times. Correct against "the best minute of the window".
* Smoothing: floating-point weights rounded to integers. Correct when no remind is lost in rounding and the edges
  of the window are treated alike.
* Requests: the start minute is fixed on arrival while planning takes its time, a failed planning phase does not
  stop the commit phase, a failed commit phase records nothing. Correct when an answer 200 accounts for the commit
  window, nothing is scheduled in the past, and the records never say more than happened.
* The process: a drain that takes too long closes Redis under running requests; an attempt at a remote call may
  outlive its request and the process. Correct when a stop ends, its exit code tells whether it was clean, and
  none of it loses a notification.

`PROJECT.json` lists the hazards one by one with their lines.

## Modules

* `ThrottleService` - the commit phase, the slot calculator and counter under it, and the cancellation handler.
* `NotificationPromise` - what the commit phase promises, in six actions: hand over, hide, reveal, send,
  withdraw, cancel. `ThrottleService` implements it (`PromiseKept`).
* `MCThrottleService` - reminds, times, windows and plans as small sets for TLC.
* `ThrottleServiceProofs` - types, nothing lost, deletions, the answer, and that the steps of `ThrottleService` are
  steps of `NotificationPromise`. `CountingProofs` - duplicates have causes, the overshoot of a minute, counters
  and markers.
* `Sums` - lemmas about sums, products, least and largest elements of finite sets, which the others cite.
* `Sliding` - the three slide strategies and the batch allocation, as operators on a slide context.
* `Smoothing` - the smoothing strategies: kernel, edges, convolution, rounding, availability, as operators on
  distributions. `MCSmoothing` calls them on every small distribution. `SmoothingProofs` is about the operators,
  `TargetsProofs` about the calls.
* `Planning` - `PlanReminds` run by concurrent planners over Redis; extends `Sliding` and `Smoothing`.
  `PlanningProofs` is about its steps, and about planners on their own.
* `MCPlanning` - reminds, times, slide windows and planning windows for TLC.
* `System` - whole throttle requests: plan, commit, record, answer, with a clock; extends `Planning`, whose
  steps are steps of its requests. `MCSystem` is its instance for TLC. `SystemProofs` is what is proved about it,
  from the lemmas of `PlanningProofs` about those steps.
* `Server` - the life of the process around its handlers, and attempts that outlive them; it has its own,
  coarser, throttle request and cancellation, of one remind each. `ServerProofs` is what is proved about it.

The commit of a remind thus appears at three grains: each remote call a step (`ThrottleService`), those whose
effect depends on the life of the process (`Server`), and all in one step (`System`, `Planning`). Each module keeps
at its grain what its questions turn on, and the others only the outcomes. At every grain the code logs some errors and
goes on, and so does the model: a marker that cannot be read is taken for none, a marker or a count that cannot be
written is passed over, a plan or a count that cannot be read falls back to the slot calculator or to zero. What
ends a request with a 500 is a registration or a flag that fails in all its attempts; either may have taken effect.

### ThrottleService and the code

A request `p` is a goroutine in `ProcessReminds`; `pc[p]` names the remote call it is about to make and `todo`,
`cur`, `slot` and `tries` are its locals. The reminds of a batch are taken in any order (the code takes the order of
the answer, which time-mgmt chooses).

| `pc` | action | code |
|---|---|---|
| `idle` | `Fetch`, `FetchFails` | `GetRemindsByTimeRange`, `filterUnthrottled` |
| `loop` | `IsPacketCommitted` with `Skip` or `Proceed`; `Finish` | idempotency check, device check, next remind; the answer |
| `lookup` | `GetPlannedPacket` | `calculateScheduledTime` |
| `probe` | `FindSlot`, once per minute | `Calculator.FindSlot` |
| `register` | `RegisterNotification`, once per attempt; `ContextDone` | `registerToQueueWithTime` and the client |
| `save` | `SaveCommittedPacket` | `SET committed:<id>` |
| `count` | `IncrementPacketCount` | `INCRBY packets:<minute>` |
| `flag` | `UpdateThrottled`, once per attempt; `ContextDone` | `updateThrottledWithRetry` |

A cancellation `c` is removed in time-mgmt and published (`RemoveReminds`), taken by the handler, possibly again
after a 500 (`HandleRemindCancelled`), deletes one id per step (`DeleteTask`) and answers (`AnswerCancel`). When
its sender goes away between two attempts, the rest of the ids is given up (`DeletionContextDone`).
The environment delivers a queued task, crashes the process, and lets Redis keys expire.

Abstractions: a remind is a model value with a minute and a whole number of minutes of slide window, because the
commit phase shifts by whole minutes; its devices are reduced to "has a token". `registerToQueueWithTime` sends
one task per remind, so `accepted` counts the times the queue took it. The task queue the process was
built with is the variable `backend`, chosen at the start: none (no URL), PRIMIND tasks, or Cloud Tasks, whose client
names the task after the remind and so meets a refusal when it sends a task again. `exposed` and `swept` are history variables: they record that a remind may be
notified twice, and that a deletion met no request that held the remind; no guard reads them.

Bounds of `ThrottleService`: `MaxFaults` caps failed calls, crashes and expiries in a behaviour (a call may fail without effect or after
taking effect). `MaxRetries` and `FlagAttempts` are the program's own retry counts (3 each), cut to 1 or 2.

### Planning, Sliding and the code

A planner `p` is a goroutine in `PlanReminds`; `active`, `prev`, `targets`, `todo`, `chosen` and `unsaved` are its
locals (the reminds not yet committed, their previous minutes, the slide context, what is left to place, the minutes
chosen, `plansByMinute`). `plan`, `planned`, `committed` and `count` are Redis, `assignments` is the map of
the one `PriorityDiscovery`.

| `pc` | action | code |
|---|---|---|
| `idle` | `Fetch` | `GetRemindsByTimeRange`, `filterAlreadyProcessed` |
| `merge` | `MergeWithPreviousPlans` | `GetPlansInRange`, `mergeWithPreviousPlans` |
| `count` | `CalculateTargets` | `getCurrentCountsByMinuteExcludingReplanned`, the smoothing strategy (`Smoothing`) |
| `prepare` | `PrepareSlots` | `collectPriorityItems`, `PrepareSlots`, `AllocateBatch` |
| `place` | `Place`, once per remind, loose before strict | `processPreviouslyPlanned`, `processRemind` |
| `save` | `SavePlan`, once per minute; `Return` | `SavePlan` |

Abstractions. Times are counted in ticks (half minutes in the runs), so a remind has a minute and a remainder; every
strategy moves whole minutes, which `PlannedTime` puts back together. Each of the three bulk reads is one step:
between them, and between any two placements and saves, other requests step. Of the keys a bulk read asks for any
number may fail: markers (`Unprocessed`), all plans together (`MergeWithPreviousPlans`), counters and plans minute by
minute (`CountsRead`). The order of a map (`plansByMinute`), of a scan (several plans that hold a remind) and
of a heap with equal keys is left open. `Commit` stands for the commit phase of any request and takes one step, its
detail being `ThrottleService`: the slot is the planned one or what the slot calculator finds with any of its reads
failing (`SlotsRead`), and the marker and the count (`Writes`) may be lost. `ExpirePlan` removes `plan:<m>` and its
`planned:<id>` together, as they are written; counters (`ExpireCount`) and markers (`ExpireCommitted`) run out too.
`InitiallyKnown` and `SetRemind` are time-mgmt; `Overlap = FALSE` restricts the runs to requests one at a time.

Bounds of `Planning`: `MaxFaults` caps the steps with a fault; here a fault is an outage, which spoils as many calls of
its step as it likes, an expiry or a crash. Minutes 0 to 3, slide windows of up to two minutes.

### Smoothing and the code

The code computes with floating-point numbers and normalises them at the end to integers with a given sum. The
module computes with the numerators over a common denominator: `TriangularWeight` is the kernel without its scale,
`KernelMass` the part of it inside the window, by which `Convolve` divides, and `LargestRemainder` the rounding.
Two values that are equal as rationals may differ in the last bit as floats; the code sorts remainders with an
unstable sort, and the module leaves the order of equal ones open, which covers either.

### System and the code

A request `p` is a goroutine in `processThrottle`; `call` holds its start and window ends, `left` the reminds to
commit, `took` the minutes of those it committed. `HasTokens` are the reminds with an FCM token.

| `stage` | action | code |
|---|---|---|
| `none` | `Begin` | `HandleThrottle`, `HandleThrottleBatch`: `now`, `plan_end`, `commit_end` |
| `plan` | `StartPlanning`, `PlanningFails` | the call of `PlanReminds`, or its error |
| `planning` | `PlanningStep`, `PlanningReturns` | `PlanReminds`, see above |
| `commit` | `StartCommit` | `ProcessReminds` fetches its reminds, or fails |
| `committing` | `Skip`, `CommitOne`, `CommitFails`, `Answer` | its loop: a remind with a marker or without a token is passed over, any other committed and flagged, whether its marker and its count are written or not; or the registration fails (`RegistrationFails`) or the flag does (`FlagFails`), and the answer is 500; the records and the answer |

`Tick` lets time pass between any two steps, users set and delete reminds (`UserSetsRemind`, `UserDeletesRemind`; what
Redis and running requests hold of a deleted one stays), and `MarkerExpires`, `CountExpires`, `PlanExpires` and
`Restart` are the faults of the environment. `after` adds up the `after_count` column of all records by minute. `due`,
`kept`, `uncounted` and `overlapped` are history variables: what the commit window held when the request arrived,
those of the requests answered with 200, the counts that failed or have expired, and whether two requests have ever
been in flight at once; no guard reads them.

Bounds of `System`: `LastMinute` on the clock, `Minutes` with room for the planning window after it, `Deletable` on what
users delete, `MaxFaults` as in `Planning`.

### Server and the code

`phase` is where `run()` is: `starting`, `serving`, `draining` (in `srv.Shutdown`), `closing` (in its deferred
functions), `down`. `opened` counts the resources it holds, in their order: observability, recorder, task queue,
Redis; the deferred closes take them back from the top (`CloseNext`). `Signal` starts the drain; it ends with
`Drained` when no request is active or with `DrainTimesOut`. The contexts of requests do not derive from that of
`run()`, so neither stops a request; a request that goes on finds Redis closed (`RedisOpen`) and reads no marker
and writes none, and with the Cloud Tasks client closed cannot register. An open Redis may fail as well, which the
code treats alike: an unread marker is taken for none, one that cannot be written is logged. Markers run out
(`ExpireCommitted`). `Crash` may happen anywhere; the platform
starts the process again (`Restart`), at most `MaxStarts` times.

A registration whose attempt times out stays on the `wire`: it may arrive (`Late`) after a later attempt, after the
request, after the process, or never. `cut`, `blind`, `exposed` and `swept` are history variables. `exposed` gathers
the reminds that may be notified twice: one whose marker is there and goes unread or runs out, one another request
holds without a marker yet, one whose registration got no answer, and one whose marker is not written, because Redis
fails, is closed, or the process ends first.

Bounds of `Server`: `MaxStarts`, and `MaxFaults` on failed calls, expiries, crashes and failures of start-up. A drain
that times out is no fault: it needs only a slow request, and nor is a call on a closed client.

## Runs

| run | instance | shows |
|---|---|---|
| `faults` | 2 requests, 2 reminds (one planned), 1 cancellation, 1 fault anywhere, both queues | types; nothing is lost; duplicates only when exposed; deletions that met no request are final; a 200 answer accounts for its batch; the code implements `NotificationPromise` |
| `capacity` | 3 reminds in minute 0 and one without tokens, cap 1, slide 1 minute, 2 requests, with and without a queue | minute 1 overshoots by at most one; counters agree with the markers |
| `liveness` | 2 requests, 1 fault, both queues | every remind reaches the queue; without faults flags follow |
| `idempotency` | 2 requests, no faults | *violated*: two overlapping requests register the same remind |
| `cancel_race` | 2 requests, 1 cancellation, no faults | *violated*: a running request puts a cancelled remind back |
| `system` | requests one at a time, ordinary and with virtual times, 3 reminds of minute 1, one without tokens and set later, one that may be deleted, cap 1, best fit, triangular kernel, BigQuery, 3 minutes of clock, 1 outage in any step | a 200 has queued what the commit window held on arrival, although markers, counts and plans are lost; nothing is scheduled before the request's start; records never exceed what was counted; without a fault minutes reminds are moved into keep the cap and plans lose no remind |
| `system_overlap` | 2 overlapping requests, 2 reminds, any strategy, passthrough, InfluxDB or none, 2 minutes of clock, no faults | types, with no negative count; the same promise and records; no remind beyond its reach, no room beyond the cap, also when the assignments of the priority strategy are replaced half way |
| `smoothing` | up to 4 minutes with up to 4 reminds each, 1 outside, radii 0 to 2 | the targets add up; both edges alike; an even spread is kept |
| `server` | 2 requests and a cancellation of 1 remind, 2 attempts per call, 2 starts, 2 faults, both queues, Redis failing, closed or losing markers | exit code 0 means a clean stop; duplicates only when exposed; deletions are final or redelivered; nothing hidden is lost; stops and requests end |
| `plan_batch` | 1 priority planner, no faults | *violated*: the cap, by reminds planned before |
| `plan_stale` | 1 best-fit planner, no faults | *violated*: replanned packets are still counted where they were |
| `plan_seconds` | 1 best-fit planner, no faults | *violated*: the planned time ends after the slide window |

Two requests are enough for every race the code has: each property is about one remind, and what a request does
to a remind depends on the others only through the three stores; a third request adds no state of a store
that two cannot produce. One fault with two requests reaches every single-failure interleaving; sequences of faults
(a crash, then an expired marker, then a lost answer) are the subject of the proofs, which bound neither, and
`server` has two faults because it takes two to exhaust the attempts of a call. In the system runs an outage may
spoil several calls of a step, so that one is worth several single failures; overlapping requests and outages are
checked in runs of their own, and their combination is left to the proofs, which assume neither. Capacity and plans from
request to request are checked for best fit, and proved for greedy as well. The cap is 60
where it must not matter and 1 where it must. Requests are symmetric, and symmetry is used in safety runs only.

In the planning and system runs two minutes after the reminds' own are enough for a remind to be moved, moved again
and left behind in a stale plan; half of the reminds have a remainder below the minute, and widths on both sides of
the strict limit make both lanes and both branches of each strategy happen. In `system` the planning window is three
minutes and the commit window one, so that a remind is planned by several requests before one commits it, and
the clock passes its minute; the virtual times of a batch request start in a later minute and commit a wider
window. `ForeignKeepsCap` and `PlansKeepReminds` are stated for requests that come one at a time and without
faults, because the code promises neither otherwise: two planners that count the same minute at the same moment both
fill it, and a plan that is not saved leaves the old one behind. The second half of `RecordsMatchCounters` is stated
without faults and deletions: after a lost count or a request that gave up, the stores differ for good.

Only `server` turns off deadlock checking: the number of starts is bounded there, and the last process may end
with nothing left to do. Everywhere else requests keep coming, so the system never stops.

The violations are findings about the code; `PROJECT.json` quotes the lines they contradict. No fault is needed
for any.

## Fairness

`FairSpec` assumes weak fairness of each request's steps and each handler's steps: a goroutine runs, and every
remote call returns because the HTTP clients and contexts have timeouts (a failed attempt is a step too). It
also assumes that throttle requests keep being sent for the commit window: the scheduler calls the endpoint
periodically, and the service has no other trigger. Nothing is assumed of faults, deliveries, cancellations or
expiries. `liveness` bounds faults, as any statement that a retried call succeeds must. For the queue that refuses
known names `EveryRemindHandedOver` is stated without faults: there a lost answer leaves a remind that ends every
batch that meets it (hazard at `gcloud.go:141`).

`Server!FairSpec` assumes weak fairness of `run()` (its timers fire, start-up and the closes return; the close of the
observability resources has a time limit of its own), of each request's calls, and of the cancellation: the handler
runs, and the platform delivers an event again that was not answered with 200. No fairness is assumed of the start
of a process after the last one, so `CancellationEnds` is about behaviours in which some process keeps serving.

## Proofs

The theorems hold for any sets of reminds, requests, minutes and cancellations and any bounds, under the
named assumptions of the modules: the types of the constants; finitely many requests and reminds where they are
counted; and that `Minutes` is large enough for the slide window of every remind and the planning window of every
call. The code computes minutes as it needs them, so the last is a statement about the model's set and none about
the program. The theorems of `System` are about the steps of `Planning` taken by its requests, with new and deleted
reminds, expiring plans, markers and counters and restarts between them; those of `PlanningProofs` about the planners by themselves, with a commit
phase that may commit any remind at any time.

Commit phase:

* `TypeCorrect`: `Spec => []TypeOK`. `TypeOK` is not inductive: a request might stand at `register` without a minute in
  hand. The invariant `Typed` adds `RequestShape`: outside `idle` and `loop` a request has a remind with tokens,
  while probing its minute is inside the slide window, and from `register` on it is a minute.
* `NothingLost`: `Spec => []HiddenIsHandedOver`. The invariant `Handover` says that a request past its registration
  holds a remind the queue accepted, that markers and flags exist only for accepted reminds, that an accepted
  remind is pending, sent or removed, and that a handler deletes only ids time-mgmt has removed. The lemma
  `RequestEffect` collects what a request's step can do to the stores, so that each conjunct is argued once.
* `DeletionIsFinal`: `Spec => []SweptStaysOut`. A deletion is recorded as final when no request held the remind; the
  invariant `SweptInert` says that none can get hold of it afterwards, because time-mgmt no longer answers with it.
* `OkIsComplete`: `Spec => []OkAccountsForBatch`. The invariant `Accounted` follows each remind of a running request's
  batch that has a token: still to do, in hand, or accepted.
* `DuplicatesHaveCauses`: `Spec => []TwiceOnlyIfExposed`. The invariant `OnceEach` says that a remind nobody recorded as
  exposed is held by at most one request between check and marker, is not accepted while it is held before its
  acceptance, and from then on has its marker or a request about to write it.
* `OvershootIsBounded`: `Spec => []OvershootBounded`, for finitely many requests. The count alone is not inductive;
  `BoundedWithInFlight` adds to it the requests that have chosen the minute and not yet counted: a request enters a
  foreign minute only when the count is below the cap, and at most all requests are in flight with it.
* `CountersMatch`: `Spec => []CountersMatchMarkers`, for finitely many requests and minutes. The invariant `Matched`
  counts a packet from the write of its marker on: in the counters, or in a request that stands before its
  increment. That a marker written a second time is counted twice is why it needs `OnceEach` and, with it, that
  only exposed reminds are marked again.
* `Implementation`: with a queue configured, `Spec => PromiseKept`: initial states map to initial states and every step
  to a step or a stutter of `NotificationPromise`, on top of `Handover`. Without a queue it is false: reminds are marked as if sent.

Smoothing. The code's operators are folds over the minutes of a window, whose length nothing bounds. What a sum is
for every length takes an induction that `Sums` does once: it counts a sum of naturals as the pairs `<<x, n>>` with
`n < f[x]`, so that the laws of sums are laws of the cardinality of finite sets (`SumIsUnits`), and proves existence
of least and largest elements over subsets.

* `TargetsAddUp`: `Spec => []NothingLost` of `MCSmoothing`. `Result` says that the targets are an outcome of the
  strategy for this distribution; `NormalizedSum` that rounding down loses as much as the remainders add up to, which
  is a whole number of units below the length of the window, and those are given back.
* `EvenIsKept`, `EdgesAreAlike`: counts that are their own exact shares are not changed by
  rounding (`NormalizedExact`); a convolution of equal counts is equal counts, because each minute divides by the
  part of its kernel inside the window; and convolving, adding up and rounding commute with reversing the window.
  The last is about sets of outcomes: equal remainders may be raised in any order, so the outcomes of the mirrored
  counts are the mirrored outcomes.

Planning and whole requests:

* `PlanningTypeCorrect`, `SystemTypeCorrect`. A planner's context is a function on its window, its entries natural
  numbers; this rests on the targets of `SmoothingProofs`, and on greedy finding the first and best fit the best minute of
  a finite set that is not empty. `InStep` adds that a request is in its planning phase exactly when its planner runs.
  The current count of a minute stays natural although reads fail one by one, because the subtraction is clamped.
* `RoomWithinCap`, `SystemKeepsRoom`: `[]AvailableWithinCap`. `Fits` holds of the context a planner builds from any
  counts it may have read (`Available`), and booking a slot moves one from the room to the count.
* `PlannedInReach`, `SystemKeepsReach`: `[]PlannedWithinReach`. The minutes of a remind live in five places: the plans,
  the planned packets, the commits, the locals of planners and the assignments all requests share under the
  priority strategy. `Reached` bounds each of them; of an assignment it may say nothing about the request that reads
  it, which another request may have allocated it behind, only that it starts by the remind's deadline.
* `NothingInThePast`: `SystemSpec => []NeverScheduledInPast`. `Ahead` says that the reminds a request has yet to commit
  belong to minutes from its start on; `Sound` (room and reach) gives that the minute of a plan is not before
  the remind's own unless the strategy plans early, however old the plan.
* `RecordsAgree`: `SystemSpec => []RecordsMatchCounters`. `Booked` keeps, minute by minute, what is recorded plus what is
  in the hands of all requests below the counter and the counts that are lost (`uncounted`: failed increments and
  expired counters), and equal to the counter as long as nothing fails and nothing is deleted; a request that drops
  its hand moves it to the records, or has met a fault or a deleted remind (`BookedDropped`). That a packet is not
  counted again on a later run takes `Marked`: without faults, what is queued has its marker.
* `OkQueuesTheWindow`: `SystemSpec => []DueIsQueued`. The invariant `Promised` follows each remind of a commit
  window from the arrival of its request: until the commit phase starts time-mgmt still has it inside the window the
  request will ask for, or it is queued or deleted; afterwards it is to be committed, queued or deleted. Reminds
  without tokens are exempt, because `Skip` passes them over. Nothing is asked of markers and flags but that
  they exist on queued reminds only, so it holds whatever markers, counts, plans and flags are lost.
* `PlansAreKept`: `SystemSpec => []PlansKeepReminds`, for calls that plan from now on with the configured windows
  (`OrdinaryCalls`). The invariant `Keeping` says that between requests every planned remind that can still be
  committed is in its plan, and belongs before the end of the window the next request will have. A request that plans
  therefore finds all of them (`PlanningKeeps`): while it places them the plans may be behind, while it saves them
  each is either in its plan or in a minute still to be saved, and no plan is overwritten without those it keeps. The
  assumption is needed: a batch request whose virtual times lie ahead plans reminds that the window of the next
  ordinary request does not reach, and a plan of a minute both touch is then saved without them. A remind is
  left out of a plan only with its marker set or its flag, and without faults both mean that it is committed (`Promised`,
  `Marked`); a request that is committing has its reminds still in their plans.
* `ForeignMinutesKeepCap`: `SystemSpec => []ForeignKeepsCap`, for the same calls and strategies that do not plan early
  (with the priority strategy it is false, see `plan_batch`). The counters a planner reads are no measure of what a
  minute holds: they keep stale plans. `Filling` counts instead the reminds committed in the minute and those in
  its plan, which together stay within the cap, and those the running planner has placed there: `Counted` says that without faults
  the counters never fall behind what is committed, so the `current` of the context is at least what is committed and
  placed, and a remind is placed only below the cap. Only a remind that stays where it was planned is
  placed outside the window of the context, and the plan of that minute bounds those.

The process:

* `ServerTypeCorrect`: `Spec => []TypeOK` of `Server`.
* `CleanStop`: `Spec => []ExitZeroIsClean`. The exit code alone says nothing before the end; `Lifecycle`
  ties it to the phases: Redis is open and nothing cut off while the process serves or drains, and a process that
  will exit with 0 has no request left.
* `NothingHiddenIsLost`, `DeletionStaysFinal`, `TwiceHasCauses`: the same three properties as in the commit phase,
  through drains, closed clients, late attempts and restarts. Their invariants `HandedOver`, `Final` and `OnceEach`
  differ from those of the commit phase by what is on the wire, and by requests that go on without Redis. The causes of
  a duplicate are those listed under `exposed`; the invariant ties each of them to the step where the code goes on.

Only model-checked: liveness, since the prover does not reason about ENABLED; and, of the two properties above, the
batch windows with virtual times of the run `system` that `OrdinaryCalls` leaves out.

## Plan

Written, in this order: `ThrottleService`, `NotificationPromise` and their proofs, `Sliding`, `Planning`, `Smoothing`,
`System`, `Server`, their proofs. What could follow:

1. The recording of smoothing targets in `System`: a second column of the records, for the commit window only.
2. A bound on overlapping planners: by how much two of them can overfill a minute, as `OvershootBounded` has it for
   the commit phase.
3. `PlansKeepReminds` for batch requests: the windows under which virtual times that lie ahead lose no plan.

## Not modelled, and why

* Health checks: a ping per request, without state; nothing in the service reads the result. Observability: logs,
  metrics and traces, which no property is about.
* Configuration: parsing, defaults and validation of environment variables, read once; the values are the CONSTANTS.
* Generated protobuf code and the mocks: no logic of this repository.
* The load-test stub: it stands in for time-mgmt in load tests and is no part of the program.
* HTTP and protobuf encodings, and requests rejected for them: they change no state.
* `RecordSmoothingTargets`, records of zeros (`FillAllMinutes`), lanes and the other columns of a record.
* `GetCommittedPacket` and `DeletePlan` of the repository: no caller.
