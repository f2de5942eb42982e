# Marathon in TLA+

Marathon is a Mesos framework that keeps apps and pods running.  It stores what
should run (groups of run specs), launches *instances* on the offers that Mesos
makes, watches their tasks, replaces the ones that end and kills the ones that
are no longer wanted.  This directory holds TLA+ modules that model the core of
that scheduler, TLC configurations that check them on small instances, and
TLAPS proofs of the properties that matter most.

All source paths below are relative to `src/main/scala/mesosphere/marathon/` in the repository.

## Inventory

| Component | State | Operations | Talks to | Hard part |
|---|---|---|---|---|
| Instance state machine (`core/instance`, `core/task/Task.scala`, `core/condition`) | `Instance`: condition, goal, tasks, reservation | the ten `InstanceUpdateOperation`s | called by the tracker | every operation meets instances it was not decided for |
| Instance tracker (`core/task/tracker`) | in-memory instances, update queue, repository writes in flight, subscribers | `process`, queries, subscribe, load | repository, launch queue, kill service, everyone who reads instances | one write per instance at a time; timeouts; crash between store and memory |
| Offer processing (`core/launcher`) | none of its own, state is saved in the tracker before an offer is accepted | match, save, accept, revert | offer matcher, tracker, driver | a failed save, no driver, stale reverts |
| Offer matcher manager (`core/matcher/manager`, `core/flow`) | launch tokens, queued offers, matchers, running matches | match offer, add/remove matcher, set tokens, deadline tick | launch queue's matchers, offer processing | token accounting, answers after the deadline, rounds that must end |
| Launch queue (`core/launchqueue`) | queued adds, one `TaskLauncherActor` per run spec, rate limiter delays, revive state | add, match, notifications, revive/suppress | tracker, matcher manager, driver | a stale view of the instances; waiting for ever |
| Kill service (`core/task/termination`) | instances to kill, kills in flight, retry timer | kill, goal change, terminal event, retry | tracker, driver | bounded kills in flight, lost kills, retries |
| Status updates and jobs (`core/task/update`, `core/task/jobs`) | none | `publish`, expunge lost, time out reservations, kill overdue | tracker, kill service | late, repeated, reordered statuses |
| Offer reconciliation (`core/matcher/reconcile`) | none | unreserve what is no longer needed | tracker, groups | stale snapshot |
| Deployments (`core/deployment`) | running plans, step status, per-step actors | start, stop, scale, replace, cancel, force | tracker, launch queue, kill service, health | steps racing instance changes; minimum capacity during a replace |
| Scheduler actor and service (`MarathonSchedulerActor.scala`, `MarathonSchedulerService.scala`) | locked run specs, leader state | scale, reconcile, deploy | all of the above | locks released on every path |
| Groups (`core/group`, `state/Group*.scala`) | root group, versions | update root, validate | repositories, deployments | serialised updates, persisted before published |
| Election and leadership (`core/election`, `core/leadership`) | leader candidate, when-leader actors | offer, abdicate, start/stop actors | everything started when leader | losing leadership in mid-start |
| Storage (`core/storage`, `storage`) | ZooKeeper store, caches, migrations, garbage collection | store, get, delete, GC mark and sweep | repositories | GC racing new versions, cache against store |
| Health and readiness (`core/health`, `core/readiness`) | health per instance, failure counts | probe, result, kill unhealthy | kill service, tracker | consecutive failures against grace periods |
| Heartbeat (`core/heartbeat`) | skipped beats | monitor, react | driver | reconnect loops |
| HTTP API, RAML, metrics, plugins, events (`api`, `raml`, `metrics`, `plugin`, `core/event`) | none of interest | conversion, validation, reporting | | formats, not protocols |

Behaviours that make this system hard, and that the models contain: every
caller reads an instance, decides and has the operation applied later, when the
instance may have changed; Mesos repeats, delays and reorders statuses; the
repository may fail; the driver may be gone; tasks of an older incarnation
outlive the instance's memory of them; timeouts race late answers.


## Modules

| Module | Models |
|---|---|
| `Instances` | the data model and the pure functions: `TaskCondition`, `Task.update`, `conditionFromTasks`, `computeHealth`, `InstanceUpdater`, `InstanceUpdateOpResolver` |
| `InstanceLifecycle` | one instance and everyone who works on it |
| `AtomicUpdates` | abstract: what a caller of the tracker may rely on |
| `InstanceTracker` | `InstanceTrackerDelegate`, `InstanceTrackerActor`, the repository and a subscriber; implements `AtomicUpdates` |
| `KillService` | `KillServiceActor` with the tracker, its callers and Mesos around it |
| `Deployments` | `MarathonSchedulerActor` (locks, deploy, scale, recovery), `DeploymentManagerActor`, the life of a `DeploymentActor`, the repository of plans |
| `TaskReplace` | `TaskReplaceActor` with `ReadinessBehavior`: the step of a deployment that replaces instances |
| `OfferMatcherManager` | `OfferMatcherManagerActor`: launch tokens, rounds of offers, deadlines |
| `TaskLauncher` | `TaskLauncherActor` and `RateLimiterActor`, between the tracker's update steps and the offer processor |
| `MC...` | constants for TLC |
| `InstanceLifecycleProofs`, `InstanceTrackerProofs`, `KillServiceProofs`, `DeploymentsProofs`, `DeploymentsConflictProofs`, `OfferMatcherManagerProofs`, `TaskLauncherProofs`, `TaskReplaceProofs` | the theorems |

The models meet at the tracker.  `InstanceLifecycle` takes from it that
operations on an instance are applied one at a time to its latest state, which
is what `InstanceTracker` is checked for; `KillService`, `TaskLauncher` and
`TaskReplace` see the instances and the events that the tracker publishes.
`OfferMatcherManager` asks the launchers and hands what they answer to the offer
processor: the operations it rejects are the `RejectOp` of `TaskLauncher`.
`Deployments` starts the steps of which `TaskReplace` is one, and its recovery
of plans is the `Failover` of `TaskReplace`.

Operators whose comment starts with *Defect:* are variants of the definition
that follows them, each with one plausible mistake; they are used to show that
a property notices it, and no specification refers to them.

### Instances and InstanceLifecycle

`instance` is the instance in the tracker.  `pending` holds the operations that
callers have decided on and the tracker has not applied yet: `Decide...`
actions read `instance` and add to `pending`, `Apply` takes any of them and
replaces `instance` by what `resolve` says.  This is how the code works
(`await(instanceTracker.specInstances(...))`, then `instanceTracker.process(op)`),
and it is where stale decisions come from.

`launch` is the one operation `OfferProcessorImpl` works on: `saving`,
`reverting` after a failed save, `saved`.  `mesos` is what Mesos knows of each
task, by incarnation and container; `Report` delivers the current status of a
task, and since what it decided may be applied much later, statuses arrive
late, repeatedly and out of order.  `launches` counts how often an incarnation
has been handed to Mesos.  A task that Mesos reports as gone by its operator or
as unknown is terminal for Marathon, but it "might still be running, and might
return to the RUNNING state" (`TaskCondition.scala:54-67`): such a status
(`mayReturn`) ends nothing, and the task goes on from it as from any other.
`vanished` is a history variable: the tasks of which Mesos has ever said this.

Left out of the data: the timestamps `since`, `activeSince`, `stagedAt`, agent
and network information, the events attached to an effect.  The run spec exists
throughout, so `OfferMatcherReconciler`'s case of an unknown run spec does not
arise.  Whether an offer fits is left open: an offer may match at any time.

### InstanceTracker and AtomicUpdates

A call (`Updates`) is a create, a change, an expunge or a query with
`readAfterWrite`.  `Process` puts it into the delegate's `queue` or fails it
when the queue is full; `Dispatch` is the `groupBy`/`mapAsync(1)` of the stream:
the call at the head goes to the actor's `mailbox` when its app's substream
(`asked`) is idle.  The actor's cases are `Load`, `HandleUpdate`, `HandleQuery`
and `HandleRepositoryStateUpdated`; `writes` are the calls of `store` and
`delete` that have not completed, `stepping` the effects whose update steps
run.  `Expire` is the deadline in the `UpdateContext`, `AskTimeout` the ask
that gives up.  The ask starts after the deadline was computed with the same
duration, so a call whose ask times out has expired.

An instance is the set of updates that made it, which is enough to tell a lost,
repeated or overwritten update from a kept one.  What an update makes of an
instance is `Instances`.  A change may also turn out to be a no-op.  `Crash`
stands for everything after which a new process loads the repository: the crash
strategy, a failed load, the end of leadership; of the writes in progress, any
number may have been made.

Simplifications: a substream belongs to one app (in the code several apps may
share one by their hash, which only serialises more); a substream holds one
call, without the small buffers of the stream library; `Revert`, which stores a
copy whatever the instance is, is in `InstanceLifecycle` only; queries without
`readAfterWrite` read the memory and change nothing; one subscriber stands for
all, as they do not interact.

`AtomicUpdates` is the promise: a call takes effect at one moment between call
and answer; "ok" means it has, "failed" that it never will, and only the loss
of the leader leaves the outcome open.  The refinement mapping takes the
repository for the abstract state and calls an update applied when its write
has completed.

### KillService

`instancesToKill`, `inFlight` and `retryTimer` are the actor's own state
(`givenUp` is a history variable, the places of the chunk that the last call of
`processKills` spent without issuing a kill), and
`Receive` takes the next message through the cases of `receive`.  `take` leaves
the order of the hash map open.  `Retry(overdue)` is the timer; which kills
have waited for long enough is open too.  Around the actor: `ReadInstances` and
`KillInstancesAndForget` are a caller that reads instances and asks for their
end later; `SetGoal`, `Decommission`, `Relaunch` and `ExpungeUnreachable` change
the tracker's instances; the `Task...` actions are Mesos, each together with
what `TaskStatusUpdateProcessorImpl.publish` makes of the status.

`Restart` is a new leader: its actor runs `preStart` in steps, while everything
around it goes on.  It has asked the tracker for the doomed instances (`query`)
and subscribes to the events (`Subscribe`); only then it handles messages.  The
tracker answers with what it knows at that moment (`QueryAnswered`), before or
after the subscription, and the answer is piped to the actor (`QueryPiped`)
behind what has been sent in between; or the ask fails or times out, and the
failure that is piped instead is a message nobody handles (`QueryFails`).  Events
that are published before the subscription are not received.  `unheard` is a
history variable: the instances of whose state this actor has been told nothing
that is still true.

Simplifications: an instance has one task at a time, numbered by incarnation;
the conditions are Running (all of the active ones), Unreachable, Killed (all
of the terminal ones) and Expunged; a status is published in the same step as
the task changes, as `InstanceLifecycle` has the delays; the promise of
`KillInstances` has no caller in the code.  `MaxMailbox` stops the environment
from sending more while that many messages are unread; what the actor causes
itself is not bounded by it.

### Deployments

`lockedRunSpecs` and `currentLockVersion` are `MarathonSchedulerActor`'s;
`awaited` is the lock version that the `onComplete` of a plan's future will
release, `releases` the `RemoveLocks` messages on their way, `scaling` the
calls of `scale`.  `runningDeployments`, `actor`, `operations` and `waiting`
belong to the manager: the status of a plan, its `DeploymentActor`, calls of the
repository that have not completed, and the waits for cancelled conflicts.  The
manager takes its messages in order (`Receive`); everything it starts ends at
any time.  What a forced plan carries along is the status of its conflicts when
it arrived (`seen`), as in the code.  A `DeploymentActor` ends with a
`DeploymentFinished` (`Ends`), or an exception stops it and nobody is told
(`Throws`, the manager's `supervisorStrategy`); `died` remembers the latter.

`Restart` is a new leader: any of the operations in progress have been made, and
the stored plans are deployed again in any order.  A plan is submitted once.
Only plans that are listed can be cancelled, and the list has those that are
deploying or canceling, so the case of `cancelDeployment` for a scheduled plan
does not arise.  Left out: the steps of a plan, the list of deployments itself
and the answers to the sender.

### TaskReplace

The variables named in `state` are those of `TaskReplaceActor.State` and
`ReadinessBehavior`.  `Initialize` is the whole of `initializing` with
`computeRestartStrategy`, `Handle` has one action per case of
`readinessBehavior orElse replaceBehavior`.  `goals` are calls of `setGoal` in
progress, `adds` the queue of `LaunchQueueActor`.  The tracker publishes events
in order (`update`), launches and kills happen at any time, and each of the
actions that use `fault` is something that goes wrong: a task, a health check, the leader, a call
of the launch queue (which then forgets its queue, as `LaunchQueueActor` restarts), a caller's timeout,
a `setGoal`, or somebody who ends a new instance.  `history` records which.

The fractions of the upgrade strategy are tenths.  Unreachable instances are not
told apart from ended ones.  Reservations are Stopped and used again under the
same id (`reusable`), all others are expunged.  An `Add` is one step, after the
goals that were set before it; in the code it reads the stopped instances
without waiting for updates that are queued, and reschedules and schedules in
several calls.  This decides only whether a reservation just stopped is used
again or a fresh instance is created.  `instancesStarted` is an
integer and may become negative (see "Replacing" below).

### OfferMatcherManager

The variables have the actor's names.  `asked` are calls of `matchOffer`,
`answers` their results on the way back; a matcher may never answer, so `Answer`
has no fairness.  An offer has an age instead of a deadline.  The books
(`offerQueues`, `unprocessedOffers`, `asked`, `promises`) are passed through the
functions a handler calls, in the code's order.  Left out: the flag that asks
for the offer to be sent again, and the `catch` of an exception in
`addInstances`.

### TaskLauncher

`query` is what the actor waits for: nothing (`active`), the instances at the
start, or one instance (`syncing`), while everything else is stashed.  `tracker`
holds the instances, `change` the one change of the run spec whose update steps
run: the rate limiter first, then the launch queue, which waits for the
launcher's answer.  `delayUpdates` keeps the order of the rate limiter's
messages, but a direct answer may overtake what goes through the launch queue.
Deadlines are numbers without an order that pass at any time.  `ops` are the
operations in the hands of the offer processor.  `unheard` is a history variable
and no state of the code: the versions whose last `DelayUpdate` the actor has
dropped although it knew an older one.

Left out: reservations, a failed load (the actor then fails), purging.

## What the runs check

All passing runs set `CHECK_DEADLOCK FALSE`: calls, incarnations, requests and
restarts are bounded, and when they are used up nothing has to happen.

| Run | Instance | Shows |
|---|---|---|
| `lifecycle_ephemeral` | 1 container with health, 2 incarnations, 3 points in time, 2 concurrent decisions, failing writes, no driver, tasks that return after having been reported as unknown | `TypeOK`; `ConditionFollowsTasks`: the condition agrees with the tasks; `TerminalOnlyIfDead`: no task is taken for over while Mesos runs it, unless Mesos has said that it may return; `ScheduledIsNotRunning`: nothing that still runs is launched again, with the same exception; `IncarnationLaunchedOnce`; `DecommissionedIsRemoved`; `HealthyIsEarned`: no order of reports, relaunches and reverts leaves a stale verdict |
| `lifecycle_resident` | a reservation, agents declared gone, rightly or by mistake; no health, no time | `ReservationKept`: a reservation is given up only when the operator has declared the agent gone |
| `lifecycle_revert` | the same without failing writes | violates `DecommissionedIsFinal`, see below |
| `tracker_atomic` | create, change, expunge and query of one app, queue of 2, deadlines, failing writes, a crash | `TypeOK`; `AtomicCalls`: the tracker implements `AtomicUpdates`; `MemoryIsPersisted`: what no change is on its way for is in the repository as it is in memory; `OneChangeAtATime`: never two changes of an instance between resolution and memory, unless the ask of one has timed out (no ask does in this run); `ReadsSeeWrites` |
| `tracker_timeouts` | two apps, asks time out, writes and steps may hang for ever, a failed write may have been made, a crash | `EveryCallAnswered`; `SubscriberFollows`: snapshot and changes leave no gap |
| `kill_doomed` | 2 instances without reservations, one of them with an unknown task, chunk of 1, relaunches, lost kills, a missing driver, a new leader whose query may fail or be late | `InFlightBounded`; `DoomedIsKilled`: "a doomed instance's task will be killed (eventually)", but for the three cases below |
| `kill_unreachable` | 2 instances, one reserved, chunk of 1, partitions, kills asked for with old copies | `InFlightWatched`: a kill in flight has a running timer and no double; `WaitsForRoomOnly`: kills are queued only while each place of the chunk is taken or was spent on an unreachable instance |
| `deployments` | 3 plans on 2 run specs, one in conflict with both others, forced or not; 1 of: scale, cancellation, failed repository operation, ask timeout, exception in a deployment's actor, restart | `TypeOK`; `LocksAreOwned`: no lock is left behind; `LastLockHolds`: late releases do not take the newest lock away; `DeployingConflictFree`: the manager never regards two conflicting plans as deploying; `RunningGoesOn`: no plan is forgotten when a step fails, but one whose actor an exception has stopped |
| `offer_matching` | 3 offers, 2 matchers, 2 operations, a queue or parallel rounds, 3 changes of tokens and matchers | `TypeOK` (tokens are not overdrawn); `OpsAccountedFor`: every operation is in one place, launched or rejected, and no offer gets too many; `RoundsGoOn`; `WantedIsPublished`; `EveryOfferCompleted` |
| `launcher` | 2 instances of 2 versions with 1 offer and 2 changes or failures; 1 instance in any condition with 2 offers and 1 change or failure | `TypeOK`; `ViewFollowsTracker`; `NoneForgotten`: when all is quiet the launcher is registered if something is to be launched (except for versions in `unheard`, see below) and only then; `DelayIsHeard`: no update of a delay is lost but those the actor drops knowingly; `OffersAreOfUse` |
| `task_replace` | 8 upgrades of 1 or 2 instances (see `MCUpgrades`), each with 1 or 2 faults | `TypeOK`; `HealthyKept` (if there were fewer instances than `minimumHealthCapacity` asks for, as many as there were) and `CapacityKept`: the limits of the upgrade strategy, while nothing goes wrong; `FinishedIsReplaced` and `Finishes`: through faults |
| `replace_interference` | a resident run spec with 2 instances, 1 fault | violates `SoleOrchestrator`, see below |

The properties that are proved for every value of the constants (below) are not
repeated in the run with a reservation, nor the type
invariant of `KillService` in its runs.

The bounds are chosen so that each hazard fits.  Two incarnations are the
smallest number with a task that outlives its instance's memory; two pending
operations let every pair of decisions race; three updates of one instance
allow a write that is overtaken; two instances and a chunk of one leave a kill
in flight and one in the queue; one message from outside, and those that the
actor's own calls lead to, can be out of date when they are read.  `kill_doomed` has no kills asked for with old copies
(`MaxRequests = 0`) and no partitions, which `kill_unreachable` has: together with
the unknown task, the new leader and the liveness property they would exceed the
time of a run.  One crash or restart is enough, as nothing but the
repository is left after it.  Three plans are the fewest with a conflict that is
itself overridden by a third; three offers leave one in progress, one queued and
one too many; two versions have two deadlines with one timer; the upgrades cover each
branch of `computeRestartStrategy`, and two faults are a failover after a failed
task.

### Fairness

- `InstanceLifecycle`: time passes, reconciliation asks for every task at an
  interval, the expunge job has a timer, the tracker applies what is queued
  (`FairSpec`, for `ExpiredIsExpunged` only).
- `InstanceTracker`: the stream dispatches, time passes and the ask's timer
  fires.  Nothing is assumed of the repository, the update steps or the actor.
- `KillService`: the actor handles messages, its timer fires again and
  again while there is a driver, the tracker applies `setGoal`, Mesos does not lose
  every kill of a task, a driver returns, an instance that stays unreachable is
  expunged.
- `OfferMatcherManager`: time passes and the actor's timer fires.  Nothing is
  assumed of the matchers.
- `TaskReplace`: the actor handles its messages and is started again by its
  supervisor, calls of the tracker and the launch queue end or time out,
  scheduled instances are launched, run, and become healthy and ready, and kills succeed.
  Each of these can be withheld by a fault, of which there are finitely many.

## Where the code and its documentation disagree

Two runs show a violation:

`lifecycle_revert`.  `Goal.scala:44` says of Decommissioned: "instance with this
goal won't transition into any other Goal from now on".  An offer is matched for
an instance that waits on its reservation; the instance is decommissioned before
the launch is saved.  It is not `isScheduled` any more, so `Provision` fails, and
`OfferProcessorImpl.saveTask` reverts to the copy that was matched (line 145),
whose goal is Running.  The launch is then handed to Mesos as if it had been saved.
An instance without a reservation cannot get there: there is no copy to revert to.

`replace_interference`.  `TaskReplaceActor` keeps the instances to kill by id.
If an old resident instance fails by itself, the actor stops it, the launch
queue uses the stopped instance for the new version under the same id, and the
kill that was queued or under way for the old one ends the new one.  The actor
then logs that "someone is interfering with current deployment" and only
decrements `instancesStarted`; nothing is launched in its place and the
deployment does not finish.

The models show the following as well.  Where a property is named, the given
change of a run's constants makes TLC find the violation.

Instances and kills

- `ExpiredIsExpunged` (`lifecycle_ephemeral` with `FairSpec`, `Times = {0, 1, 2, 3}`,
  `MaxIncarnation = 1`, `GoalChanges = {}`, no failing writes, a driver): an unreachable
  instance that is reported again only after `expungeAfter` is never expunged.
  The match in `InstanceUpdater.mesosUpdate` (line 133) has no case for the
  effect, and every later report fails in the same way.
  `docs/docs/configure-task-handling.md:22`: "a task instance will be expunged if
  it has been unreachable for more than 120 seconds".
- `IncarnationLaunchedOnce` (`lifecycle_ephemeral` with `Times = {0}`,
  `UnreachableEnabled = FALSE`, `Resident = TRUE`, `GoalChanges = {"GoalStopped"}`, no failing
  writes, a driver): an instance that is stopped during its launch;
  `OfferProcessorImpl.saveTask` (line 176) returns the operation even if it could
  not be saved and has been reverted, so it is handed to Mesos; the relaunch has
  the same task id, whose incarnation "counts how often a task has been
  launched" (`Task.scala:295`).
- `AcknowledgedIsKept` (`tracker_timeouts` with `Spec`, `Updates <- Changing`,
  `AppOf <- OneApp`, `QueueSize = 3`, no ambiguous failures, no crash): after an
  ask timeout the substream is free although the write is still running; the
  next update is acknowledged and then overwritten, while
  `InstanceTrackerDelegate.scala:102` says that updates are serialised.
- `DoomedIsKilled` excepts three cases in which the code does not keep the promise of
  `Goal.scala:14`, "A doomed instance's task will be killed (eventually)"; without
  the first or the third exception `kill_doomed` is violated.
  `overlooked`: the query of a new leader fails or times out
  (`KillServiceActor:72-79`; the failure is a message without a case in `receive`),
  or an event comes after the tracker's answer and before the subscription; this
  actor will not hear of the goal again.
  `mistaken`: the kill of an unknown task of a known instance, or one asked for with
  a copy of the previous incarnation, is queued or in flight under the instance's
  id, and other kills of the instance are ignored (line 143).
  `clogged`: kills that nobody will answer take up all of the chunk.  Such are the
  ones just named, of which the unknown task's never leaves, and kills of an
  instance that had ended when they were issued and is still known, which a copy
  that is out of date leads to: it changes no more, so no event says that it is
  over.  With a chunk of 1 the second case is part of the third.
- `WaitsForRoomOnly` excepts the places of the chunk that were spent on unreachable
  instances (`givenUp`; without it `kill_unreachable` is violated).  These are
  left alone or decommissioned and put nothing in flight, so nothing triggers
  the rest of the queue (`KillServiceActor:164`; the comment at line 29 says more
  kills are issued when instances are reported terminal).
- `DecommissionedIsFinal` is violated in another way as well: a
  `RescheduleReserved` that was decided before a decommission (`LaunchQueueActor:195`)
  sets the goal of an instance with a reservation back to Running.
- `DecommissionedIsRemoved` does not hold in `lifecycle_resident`: abandoning
  the reservation of a decommissioned instance (TASK_GONE_BY_OPERATOR) keeps it.
- `TerminalOnlyIfDead` and `ScheduledIsNotRunning` except the tasks that Mesos had reported
  as gone by its operator or as unknown.  Marathon replaces them at once; one that
  returns runs beside its replacement until it is heard of, and is then killed as a
  task of an earlier incarnation, or of no instance.
- `ScheduledIsNotRunning` does not hold in `lifecycle_ephemeral` with `NumTasks = 2`
  (and `Times = {0}`, `UnreachableEnabled = FALSE`, `MaxPending = 1`): a pod of which one
  container has failed has the condition Failed and so counts as scheduled
  (`Instance.isScheduled`), while another container still runs.
- A kill that is never confirmed is retried for ever; the comment of
  `KillServiceActor` promises a maximum number of retries.

Deployments

- `ActorsAreRunning` (`deployments`): a conflict that was [Scheduled] when the
  forced plan arrived and is [Deploying] when its deletion has completed is
  removed without stopping its actor (`DeploymentManagerActor:281`), since "they
  haven't been started yet, so there is nothing to cancel" (line 277).  Two
  deployments then work on the same run spec; `DeployingConflictFree` speaks of
  the manager's books only.
- `waitForCanceledConflicts` (line 264) looks at the same old statuses, so a
  deployment that was cancelled for this plan is not waited for, although step 4
  of the documentation (line 91) says so.
- Conflicting plans may both be stored when a restart, or a failed delete, comes
  between; the documentation (line 75) says "no conflicting deployments are
  stored".
- A deployment that is refused has replaced the lock of the one that runs
  (`MarathonSchedulerActor:284`) and releases it, so a scale operation may run
  beside a deployment, against the comment at line 60.  Nor does `deploy` look
  for the lock of a running scale operation (line 61).
- When a `DeploymentActor` throws, the manager's `supervisorStrategy` stops it
  (`DeploymentManagerActor:152`) and nothing else happens: the plan stays in
  `runningDeployments`, as deploying, and in the repository, its result is never
  known and its lock never released.  Cancelling it only marks it as canceling.  A
  forced plan takes it for a conflict, finds it stopped and goes on; all
  other plans for its run specs are refused until the next leader deploys it
  again.  `RunningGoesOn` excepts it (`died`).

Launching

- Matchers that are added while rounds run are not asked
  (`OfferMatcherManagerActor:159`): the extended queues are not stored.
- `DelayIsRespected` (`launcher`): a `DelayUpdate` is dropped while no instance of the version
  is scheduled (`TaskLauncherActor:238`).  If the update that announces a failure
  precedes the update of the instance and a delay for the version is known already,
  the instance is launched at once, without the delay of
  `docs/docs/backoff.md`.
- The same drop can leave a version waiting although its delay has passed.  It
  takes more events than the run allows: an operation on an instance of a first
  version is answered by a sync before its save; the launcher learns the delay of
  that version from another instance, which is expunged; the operation is saved,
  so the version is not scheduled when the end of its delay is announced, and
  likewise the end of a second version's delay, which had the only timer; then
  the operation is reverted.  The instance is scheduled with a deadline that has
  passed, but no timer and no update makes the launcher register; the next
  message about anything does.  `NoneForgotten` excepts the versions in `unheard`
  for this reason.
- `MatchedOnce` (`launcher`): a sync that is answered before the save makes the
  instance scheduled again, and it is used for a second offer, which the mark
  should prevent (`TaskLauncherActor:269`).  The second save fails, and its
  revert takes back a launch that has been made.  A late `InstanceOpAccepted` of
  the first removes the timer of the second (line 284).
- A failed query while syncing is stashed like everything else: the launcher
  never gets out of `syncing` (line 209).
- `scheduleNextManageOfferStatus` is called on delay updates only: when the timer
  has fired for one version, that of the next is not set.  The clean-up of overdue delays
  makes up for it, after `maxLaunchDelay`.

Replacing

- `assume(canStartNewInstances, "must be able to start new instances")`
  (`TaskReplaceActor:385`) passes although nothing can be started, when old
  instances are not healthy and there is no over-capacity: none is killed and
  none started, for ever.  `Instance.hasConfiguredHealthChecks` counts readiness
  checks too, for which no instance is ever `healthy`; a resident app with the
  default strategy and only a readiness check is therefore never upgraded.
- The future of `killNextOldInstance` is dropped: a kill that fails is never made
  up for.
- A call of the launch queue that its caller has given up still adds its
  instances; `targetCountReached` (`ReadinessBehavior:70`) wants the exact number.
- After a restart the actor does not count the instances that are being killed:
  it may go over the capacity and finish before they have ended; the rule for extra
  instances (line 372) kills healthy old ones before new ones are up, against
  `docs/docs/deployments.md:41`.  Without health checks, new instances that are
  only scheduled count as healthy and ready then.
- Scheduled old instances count as healthy, so one that runs may be killed in
  their place (`HealthyKept` assumes none is waiting).
- An event that is stashed while the actor starts is applied to a state that
  has it already: the end of a new instance by others is not counted among the
  started ones and then subtracted from them as well (`TaskReplaceActor:133`), which makes `instancesStarted`
  -1 with `Upgrade(1, 5, 0, FALSE, TRUE, FALSE, 1, 0, 3)`.
- `instanceTerminated` does not cancel subscriptions (comment at `ReadinessBehavior:74`).

## What is proved

The theorems hold for every value of the constants that satisfies the
assumptions named next to them (`LifecycleAssumption`, `InstancesAssumption`, `TrackerAssumption`,
`KillAssumption`, `DeploymentsAssumption`, `OfferMatcherAssumption`,
`TaskLauncherAssumption`, `TaskReplaceAssumption`, `NoneAssumption`; they only
state the types of the constants, that there are finitely many instances, offers
and matchers, that limits such as the chunk size are not zero, and that `None` is
not an instance).  Three theorems about the tracker have a hypothesis on the
environment as well, and three about the lifecycle have one on the run spec; it is
part of their statement.

`InstanceLifecycleProofs`

- `TypeCorrect`: `Spec => []TypeOK`.
- `ConditionCorrect`: `Spec => []ConditionFollowsTasks`.  It is not inductive by
  itself, because a revert brings back an older copy: the invariant says of
  *every* copy in the state (the instance, the copies in pending reverts and in
  `launch`) that its condition agrees with its tasks.
- `TerminalCorrect`: `Spec => []TerminalOnlyIfDead`.  The invariant is again
  about all copies and also about the statuses on their way: a terminal status
  that has been reported and not applied belongs to a task that is dead, and
  dead tasks stay dead, or it is a status after which a task may return, and Mesos has
  given one of this task (`InstancesConfirmed`, `VanishedSeen`); and a task that
  has never been launched is unknown to Mesos (`UnlaunchedUnknown`).
- `HealthCorrect` (`HealthyIsEarned`) and `ReservationCorrect` (`ReservationKept`).
  `CopiesOK` says of every copy that a revert may put back that it has earned its
  health, with any number of containers, and that it has a reservation; `resolveHealth` and `resolveReservation`
  are the lemmas about the operations.
- `LaunchedOnceCorrect` (`IncarnationLaunchedOnce`) and `RemovedCorrect`
  (`DecommissionedIsRemoved`), if
  the run spec has no persistent volumes (`Resident = FALSE`).  The hypothesis is
  needed: with volumes TLC finds both violated (see above).
  `EphemeralInv` says that then nothing can be reverted to, rescheduled or
  stopped, and that at most one launch is under way, whose incarnation follows the
  instance's until it is saved and has not been launched (`LaunchOK`).
- `ScheduledCorrect` (`ScheduledIsNotRunning`), if in addition the run spec has one
  container; for pods and with volumes TLC finds it violated.  `AloneInv` adds
  that only tasks of the current incarnation live, but for those that had vanished
  (`vanished`), and that an instance without tasks has not been launched (`WaitingOK`).

`InstanceTrackerProofs`

- `TypeCorrect` and `SubscriberCorrect` (`SubscriberFollows`), for every
  environment.  `ViewInv` adds what the property lacks: the channel of a subscriber
  has its one snapshot in front, until the subscriber has it (`ChannelOK`).
- `OneChangeCorrect` (`OneChangeAtATime`), for every environment, too.  A call whose ask
  has timed out is answered and may still be on its way, so the invariant is about
  the calls `underWay`: those that the substream of their app waits for, one per app,
  and those whose ask has timed out.  `CallsInv` says that nothing else has left the
  queue for the mailbox, the writes and the steps, and that each is in one
  place only (`PlacesOK`).
- `MemoryCorrect` (`MemoryIsPersisted`) and `ReadsCorrect` (`ReadsSeeWrites`), if no
  ask times out before the tracker has answered (`AskMayTimeOut = FALSE`; otherwise
  the substream of an app is free while a write is still running) and a write that is
  reported as failed has not been made
  (`FailuresAmbiguous = FALSE`; otherwise the repository may hold an update that
  nobody remembers).  `OrderInv` adds how the repository compares (`EffectsOK`): a write in progress
  puts its own update on top of what is stored, a message about a completed one
  carries what is stored, and the memory differs from the repository only where
  such a message is still in the mailbox; a query waits behind the calls it
  comes after (`AheadOK`).
- `AtomicCorrect` (`AtomicCalls`): under the same two hypotheses the tracker
  implements `AtomicUpdates`.  `RefinementStep` maps each action: `Process` is
  `Call` or `Refuse` (a full queue); of the handlers, `HandleUpdate` is `Refuse`
  when the update is out of time or does not suit the instance,
  `HandleQuery` is `Read`, and `HandleRepositoryStateUpdated` is `Acknowledge` of a
  no-op; `WriteSucceeds` is `TakeEffect`, `WriteFails` is `Refuse`, `StepsDone` is
  `Acknowledge`, `Crash` is `LoseLeader`, and all others change nothing that a
  caller sees.

`KillServiceProofs`

- `TypeCorrect`, `BoundCorrect` (`InFlightBounded`) and `WatchCorrect`
  (`InFlightWatched`).  The invariant is the conjunction of the three, split
  into the actor's state (`ServiceOK`) and the rest (`EnvironmentOK`).  They
  need each other: the bound after a retry holds because a retried kill is in
  flight already, the timer is right after a termination because `processKills`
  decides on it again, and an instance is not queued twice because every way
  into the queue looks at what is in flight.  `Processed` states what one call
  of `processKills` guarantees and every handler cites it.
- `RoomCorrect` (`WaitsForRoomOnly`), for every environment.  What `processKills` takes
  out of the queue is in flight afterwards or counted in `givenUp` (`Processed`),
  and it takes out as much as there is room for; a retry puts nothing more in
  flight and takes nothing out; and between the calls nothing else joins the queue.

`DeploymentsProofs`

- `TypeCorrect`: `Spec => []TypeOK`.
- `OwnersCorrect` (`LocksAreOwned`) and `LastLockCorrect` (`LastLockHolds`).  The
  property speaks of the latest lock only; the invariant follows every version
  that was ever given out: it belongs to one scale operation, to one plan whose
  result is awaited or to releases on their way, never to two of them
  (`VersionsOK`).  For a lock to find its owner again after a failed step, a plan
  whose result is awaited must be known to the manager or its `StartDeployment`
  must be in the mailbox (`AwaitedOK`), and nothing is known of a plan before it
  is submitted (`SubmittedOK`).

`DeploymentsConflictProofs`

- `GoesOnCorrect` (`RunningGoesOn`) and `ConflictFreeCorrect`
  (`DeployingConflictFree`).  The second is about two deploying plans only, while
  what keeps them apart happens earlier: of two plans in conflict that are
  scheduled or deploying, one is *overriding* the other, that is, everything that
  leads it on is still the deletion of its conflicts, and the other is one of
  those it saw when it arrived (`OverridingOK`).  That an old status suffices to
  take the conflict down is `SeenOK`: a plan that was seen deploying is not
  scheduled any more, one that was seen canceling does not deploy.  Both rest on
  a plan being started once, with nothing known of it before (`FreshOK`).  Each
  handler is shown to be about one plan, apart from the conflicts that
  `cancelDeletedConflicts` takes down, and `StepAbout` says what such a step
  preserves.

`OfferMatcherManagerProofs`

- `TypeCorrect`, `OpsCorrect` (`OpsAccountedFor`), `RoundsCorrect` (`RoundsGoOn`)
  and `WantedCorrect` (`WantedIsPublished`).  One step of the actor passes its
  books through several functions (an answer is entered, the round finished, the
  next offer that waits started or the overdue ones rejected), so the invariant
  `BooksOK` is about books and not about variables, and names the rounds that are
  *open*: their answer has been entered and their next question not yet asked.
  One lemma per function (`Entered`, `Scheduled`, `Started`, `Closed`, ...) says
  which books it leaves behind.  What the properties lack for being inductive:
  an offer is in one of three states (in progress, waiting, completed) and nobody
  is asked about an offer that is neither in progress nor completed, since an
  answer to an earlier question would otherwise be taken for one of the round
  (`OffersOK`).

`TaskLauncherProofs`

- `TypeCorrect`: `Spec => []TypeOK`.
- `DelaysCorrect` (`DelayIsHeard`) and `OffersCorrect` (`OffersAreOfUse`), from
  `DelayInv`.  A direct answer of the rate limiter and its notifications reach the
  launcher on different ways, so the property has to look at the *last* update on
  its way for each version: that one carries the rate limiter's delay, and if there
  is none the launcher knows the delay or has dropped it (`HeardOK`).  Next to it: a
  delay that is needed is known, asked for or answered (`KnownOK`), and a launcher
  that may launch something is registered, or a message, an update or a timer that
  makes it look again is on its way (`RegisteredOK`).
- `FollowsCorrect` (`ViewFollowsTracker`), from `ViewInv`: of the messages about a
  change at most one is awaited, and it is about the change that has been sent
  (`ChangeOK`); an instance that was deleted and is there again will be heard of
  later than its deletion (`DeletedOK`); while an instance is marked for an
  operation, the operation is still in the hands of the offer processor.
- `NoneForgottenCorrect` (`NoneForgotten`), from both.

`TaskReplaceProofs`

- `TypeCorrect`: `Spec => []TypeOK`.
- `FinishedCorrect` (`FinishedIsReplaced`), from `Known`.  The actor is over with
  the old instances when `oldActiveInstanceIds` is empty, so the invariant says
  what that set may miss: an old instance that is to run, or runs, is in it, or
  what excuses it is on record (`KnownOK`).  It is removed from the set by messages
  only, hence a message that an old instance has ended is about one that
  neither runs nor ever will again (`MessagesOK`, and `OldKept` says what no
  step does to an old instance); and the set is computed from the goals, so
  nothing has been killed when the actor starts for the first time
  (`FirstOK`).  That a late answer of the launch queue does not bring back an actor
  that has given up is `CallsOK`: at most one call is waited for by an actor that
  starts, and none by one that has stopped.
- `CapacityCorrect` (`CapacityKept`), from `Quiet`, which says what is so as long as
  nothing goes wrong.  The actor counts what it *asked* the launch queue for, the
  property what *is* there, so the calls in between have to fit as well:
  the new instances, and then what every queued call adds, never exceed
  `instancesStarted`, and this count and the active old instances are within the
  capacity (`CapacityQuiet`; `Sums` states a sum over a sequence by its partial
  sums, without recursion).  A stopped instance of a resident run spec may be
  used again and is then a new one, so the kills on their way must be of old
  instances that are still to run, each to be killed once (`KillsQuiet`), and what
  the launch queue creates must not be there already (`NewQuiet`).
- `HealthyCorrect` (`HealthyKept`), from `Quiet` and `AllUp`: an old instance is up
  until it is killed (`OldUp`), what the actor counts is a new one that is up
  (`NewUp`), and the old ones still to be killed, with the new ones counted, are
  enough (`EnoughUp`).  For a new instance to be counted once, and never to be
  forgotten, the mailbox must be in order: what is said of an old instance comes
  before anything about a new one that has its id, an event that a new instance runs
  arrives once and before the actor counts it, and a readiness check answers once
  (`HeardOK`, `SentBefore`).  `KillsLeaveEnough` is about the arithmetic of
  `nrToKillImmediately`.

Only model-checked: the liveness properties (`DoomedIsKilled`,
`EveryCallAnswered`, `EveryOfferCompleted`, `Finishes`), which need fairness.
Every invariant that a passing run checks is proved, in the cases named above.

## What is not modelled

See the components in `PROJECT.json`.  HTTP, RAML conversion, validation,
metrics, plugins and events have no protocol state.  Migrations run once with
nothing else running.  ZooKeeper appears only as a repository whose writes are
atomic, unordered and may fail.  Of the deployments, how a plan is computed from
two groups (`DeploymentPlan`) and the steps that only start or stop instances
are left out; whether the resources of an offer fit is left open everywhere.

## Plan

Modules to come: garbage collection (scan and compaction against stores),
leadership (the coordinator and when-leader actors), reviving and suppressing offers, counting health check
failures, the heartbeat monitor.
