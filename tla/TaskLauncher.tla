---------------------------- MODULE TaskLauncher ----------------------------
(* TaskLauncherActor of one run spec: its view of the tracker's instances, *)
(* the back-off delays it hears of from RateLimiterActor, and whether it   *)
(* is registered as an offer matcher.  Around it are the tracker with its  *)
(* update steps, which change one instance of the run spec at a time, and  *)
(* the offer processor, which saves and accepts matched operations.        *)
(*                                                                         *)
(* An instance is "scheduled" (Instance.isScheduled: waiting for its first *)
(* launch, or its tasks have ended and its goal is to run), "provisioned"  *)
(* or "launched".  Run specs have no reservations.  Time is abstracted to  *)
(* deadlines that pass, in any order: 0 stands for one that has passed.    *)
EXTENDS Naturals, Sequences, FiniteSets

CONSTANTS
    Instances,
    Refs,               \* RunSpecConfigRefs, the versions of the run spec
    None,
    Scenarios,          \* what the tracker has loaded, and the two bounds below
    MaxDeadline         \* deadlines that are pending at the same time

VARIABLES
    tracker,            \* the tracker's instances
    change,             \* the change whose update steps are running
    running,            \* instances whose tasks Mesos has been given
    instanceMap,
    launchAllowedAt,
    unheard,            \* no state of the code: the versions whose last
                        \* DelayUpdate was dropped while an older one is known
    offerOperationAcceptTimeout,
    recheckBackOff,     \* the deadlines whose first the timer waits for
    registeredAsMatcher,
    query,              \* the query the actor waits for: loading or syncing
    instanceChanges,    \* InstanceUpdated and InstanceDeleted from the steps
    mailbox,            \* messages of the timers and the offer processor
    taskLaunchDelays,   \* RateLimiter
    getDelay,           \* GetDelay messages
    delayUpdates,       \* DelayUpdates on their way to the launcher
    ops,                \* matched operations that are not finished
    offers, events      \* how many fitting offers, and changes from outside and
                        \* failures, may still come

heard == <<launchAllowedAt, unheard>>
view == <<instanceMap, heard, offerOperationAcceptTimeout, recheckBackOff,
          registeredAsMatcher, query>>
limiter == <<taskLaunchDelays, getDelay, delayUpdates>>
outside == <<tracker, change, running>>
counters == <<offers, events>>
inbox == <<instanceChanges, mailbox>>
vars == <<view, limiter, outside, inbox, ops, counters>>

Conditions == {"scheduled", "provisioned", "launched"}
Value == [cond : Conditions, ref : Refs] \cup {None}
Deadline == 0..MaxDeadline

ASSUME TaskLauncherAssumption ==
    /\ IsFiniteSet(Instances) /\ IsFiniteSet(Refs)
    /\ None \notin Nat /\ None \notin [cond : Conditions, ref : Refs]
    /\ MaxDeadline \in Nat
    /\ Scenarios \subseteq [loaded : [Instances -> Value], offers : Nat, events : Nat]

NoChange == [phase |-> "none"]
NoQuery == [kind |-> "none"]
ask(kind, S) == [kind |-> kind, of |-> S, failed |-> FALSE]

(* The message an update step waits for the answer of is awaited.          *)
InstanceChange ==
    [kind : {"InstanceUpdated", "InstanceDeleted"}, instance : Instances, awaited : BOOLEAN]
Message ==
    [kind : {"Rejected", "RejectedTimeout", "Accepted"}, instance : Instances]
    \cup {[kind |-> "RecheckIfBackOffUntilReached"]}
Op == [instance : Instances, ref : Refs, phase : {"matched", "saving", "failed", "unlaunched"}]

TypeOK ==
    /\ tracker \in [Instances -> Value]
    /\ \/ change = NoChange
       \/ change \in [instance : Instances, ref : Refs, kind : {"InstanceUpdated", "InstanceDeleted"},
                      delay : {"none", "add", "advance"}, phase : {"rate", "queue", "sent"}]
    /\ running \subseteq Instances
    /\ instanceMap \in [Instances -> Value]
    /\ launchAllowedAt \in [Refs -> Deadline \cup {None}]
    /\ unheard \subseteq Refs
    /\ offerOperationAcceptTimeout \in [Instances -> {None, "runs", "fired"}]
    /\ recheckBackOff \subseteq Deadline \ {0}
    /\ registeredAsMatcher \in BOOLEAN
    /\ \/ query = NoQuery
       \/ query \in [kind : {"loading", "syncing"}, of : SUBSET Instances, failed : BOOLEAN]
    /\ instanceChanges \in Seq(InstanceChange)
    /\ mailbox \subseteq Message
    /\ taskLaunchDelays \in [Refs -> Deadline \cup {None}]
    /\ getDelay \subseteq Refs
    /\ delayUpdates \in Seq([ref : Refs, delay : Deadline, reply : BOOLEAN])
    /\ ops \subseteq Op
    /\ offers \in Nat /\ events \in Nat

(* A leader starts with what the tracker has loaded, no delays, and a      *)
(* launcher that asks for the instances.                                   *)
Init ==
    /\ \E s \in Scenarios : tracker = s.loaded /\ offers = s.offers /\ events = s.events
    /\ change = NoChange
    /\ running = {i \in Instances : tracker[i] /= None /\ tracker[i].cond = "launched"}
    /\ instanceMap = [i \in Instances |-> None]
    /\ launchAllowedAt = [r \in Refs |-> None]
    /\ unheard = {}
    /\ offerOperationAcceptTimeout = [i \in Instances |-> None]
    /\ recheckBackOff = {}
    /\ registeredAsMatcher = FALSE
    /\ query = ask("loading", Instances)
    /\ instanceChanges = <<>>
    /\ mailbox = {}
    /\ taskLaunchDelays = [r \in Refs |-> None]
    /\ getDelay = {}
    /\ delayUpdates = <<>>
    /\ ops = {}

is(value, cond) == value /= None /\ value.cond = cond
isScheduled(value) == is(value, "scheduled")

-----------------------------------------------------------------------------
scheduledVersions(map) == {map[i].ref : i \in {j \in Instances : isScheduled(map[j])}}
launchAllowed(allowed, r) == allowed[r] = 0
shouldLaunchInstances(map, allowed) == \E r \in scheduledVersions(map) : launchAllowed(allowed, r)
manageOfferMatcherStatus ==
    registeredAsMatcher' = shouldLaunchInstances(instanceMap', launchAllowedAt')

active == query = NoQuery
syncInstance(i) == query' = ask("syncing", {i})

(* LoadedInstances: the launcher waits for the delays of the versions.     *)
ReceiveLoadedInstances ==
    /\ query.kind = "loading"
    /\ instanceMap' = tracker
    /\ getDelay' = getDelay \cup scheduledVersions(instanceMap')
    /\ query' = NoQuery
    /\ UNCHANGED <<heard, offerOperationAcceptTimeout, recheckBackOff, registeredAsMatcher,
                   taskLaunchDelays, delayUpdates, outside, inbox, ops, counters>>

(* Versions no instance waits for are forgotten, so that their delay is    *)
(* asked for when they come back.                                          *)
removeInstanceFromInternalState(i) ==
    /\ instanceMap' = [instanceMap EXCEPT ![i] = None]
    /\ offerOperationAcceptTimeout' = [offerOperationAcceptTimeout EXCEPT ![i] = None]
    /\ launchAllowedAt' = [r \in Refs |-> IF r \in scheduledVersions(instanceMap')
                                          THEN launchAllowedAt[r] ELSE None]
    /\ unheard' = unheard \cap scheduledVersions(instanceMap')
    /\ manageOfferMatcherStatus

(* SynchronizedInstance.  Of a version it knows no delay of the launcher   *)
(* asks for it; it is not registered for that version before the answer.   *)
ReceiveSynchronizedInstance ==
    /\ query.kind = "syncing"
    /\ ~ query.failed
    /\ \E i \in query.of :
          \/ /\ tracker[i] = None
             /\ removeInstanceFromInternalState(i)
             /\ UNCHANGED getDelay
          \/ /\ tracker[i] /= None
             /\ instanceMap' = [instanceMap EXCEPT ![i] = tracker[i]]
             /\ offerOperationAcceptTimeout' =
                   [offerOperationAcceptTimeout EXCEPT
                       ![i] = IF is(tracker[i], "provisioned") THEN @ ELSE None]
             /\ getDelay' = getDelay \cup
                   {r \in {tracker[i].ref} : launchAllowedAt[r] = None}
             /\ UNCHANGED heard
             /\ manageOfferMatcherStatus
    /\ query' = NoQuery
    /\ UNCHANGED <<recheckBackOff, taskLaunchDelays, delayUpdates, outside, inbox, ops, counters>>

(* The messages of an active launcher.  All others are stashed meanwhile.  *)
(* They come from different senders, in any order.                         *)
Receives(m) ==
    /\ active
    /\ m \in mailbox
    /\ mailbox' = mailbox \ {m}

(* Defect: delays that are over count too.                                 *)
scheduleForAnyDelay == recheckBackOff' = {launchAllowedAt'[r] : r \in Refs} \ {None}

(* A timer set for the first of the deadlines that are pending.            *)
scheduleNextManageOfferStatus ==
    recheckBackOff' = {launchAllowedAt'[r] : r \in Refs} \ {0, None}

(* The update of a version no known instance waits for is not handled.     *)
ReceiveDelayUpdate ==
    /\ active
    /\ delayUpdates /= <<>>
    /\ delayUpdates' = Tail(delayUpdates)
    /\ LET m == Head(delayUpdates) IN
       \/ /\ m.ref \in scheduledVersions(instanceMap)
          /\ launchAllowedAt' = [launchAllowedAt EXCEPT ![m.ref] = m.delay]
          /\ unheard' = unheard \ {m.ref}
          /\ UNCHANGED instanceMap
          /\ manageOfferMatcherStatus
          /\ scheduleNextManageOfferStatus
       \/ /\ m.ref \notin scheduledVersions(instanceMap)
          /\ unheard' = unheard \cup {r \in {m.ref} : launchAllowedAt[r] /= None}
          /\ UNCHANGED <<launchAllowedAt, instanceMap, registeredAsMatcher, recheckBackOff>>
    /\ UNCHANGED <<offerOperationAcceptTimeout, query, taskLaunchDelays, getDelay, inbox, outside,
                   ops, counters>>

ReceiveRecheck(m) ==
    /\ m.kind = "RecheckIfBackOffUntilReached"
    /\ Receives(m)
    /\ UNCHANGED <<instanceMap, heard>>
    /\ manageOfferMatcherStatus
    /\ UNCHANGED <<offerOperationAcceptTimeout, recheckBackOff, query, limiter, instanceChanges,
                   outside, ops, counters>>

(* InstanceOpRejected by the timer: only if the operation is in flight.    *)
ReceiveRejectedTimeout(m) ==
    /\ m.kind = "RejectedTimeout"
    /\ Receives(m)
    /\ IF is(instanceMap[m.instance], "provisioned") /\ offerOperationAcceptTimeout[m.instance] /= None
       THEN syncInstance(m.instance) ELSE UNCHANGED query
    /\ UNCHANGED <<instanceMap, heard, offerOperationAcceptTimeout, recheckBackOff,
                   registeredAsMatcher, limiter, instanceChanges, outside, ops, counters>>

(* Defect: the mark is not taken back.                                     *)
ReceiveRejectedOnly(m) ==
    /\ m.kind = "Rejected"
    /\ Receives(m)
    /\ UNCHANGED <<view, limiter, instanceChanges, outside, ops, counters>>

ReceiveRejected(m) ==
    /\ m.kind = "Rejected"
    /\ Receives(m)
    /\ syncInstance(m.instance)
    /\ UNCHANGED <<instanceMap, heard, offerOperationAcceptTimeout, recheckBackOff,
                   registeredAsMatcher, limiter, instanceChanges, outside, ops, counters>>

ReceiveAccepted(m) ==
    /\ m.kind = "Accepted"
    /\ Receives(m)
    /\ offerOperationAcceptTimeout' = [offerOperationAcceptTimeout EXCEPT ![m.instance] = None]
    /\ UNCHANGED <<instanceMap, heard, recheckBackOff, registeredAsMatcher, query,
                   limiter, instanceChanges, outside, ops, counters>>

(* sender() ! Done: the update steps go on.                                *)
ReceivesChange(m) ==
    /\ active
    /\ instanceChanges /= <<>>
    /\ m = Head(instanceChanges)
    /\ instanceChanges' = Tail(instanceChanges)
    /\ change' = IF m.awaited THEN NoChange ELSE change

ReceiveInstanceUpdated(m) ==
    /\ m.kind = "InstanceUpdated"
    /\ ReceivesChange(m)
    /\ syncInstance(m.instance)
    /\ UNCHANGED <<instanceMap, heard, offerOperationAcceptTimeout, recheckBackOff,
                   registeredAsMatcher, limiter, tracker, running, mailbox, ops, counters>>

ReceiveInstanceDeleted(m) ==
    /\ m.kind = "InstanceDeleted"
    /\ ReceivesChange(m)
    /\ removeInstanceFromInternalState(m.instance)
    /\ UNCHANGED <<recheckBackOff, query, limiter, tracker, running, mailbox, ops, counters>>

(* Defect: the registration is kept.                                       *)
MatchOfferOnly(i) ==
    /\ active
    /\ offers > 0
    /\ isScheduled(instanceMap[i])
    /\ launchAllowed(launchAllowedAt, instanceMap[i].ref)
    /\ offers' = offers - 1
    /\ ops' = ops \cup {[instance |-> i, ref |-> instanceMap[i].ref, phase |-> "matched"]}
    /\ instanceMap' = [instanceMap EXCEPT ![i].cond = "provisioned"]
    /\ offerOperationAcceptTimeout' = [offerOperationAcceptTimeout EXCEPT ![i] = "runs"]
    /\ UNCHANGED <<heard, registeredAsMatcher, recheckBackOff, query, limiter, outside,
                   inbox, events>>

(* MatchOffer with an offer that fits: the instance is marked provisioned  *)
(* before the operation is saved.  Other offers change nothing.            *)
MatchOffer(i) ==
    /\ active
    /\ offers > 0
    /\ isScheduled(instanceMap[i])
    /\ launchAllowed(launchAllowedAt, instanceMap[i].ref)
    /\ offers' = offers - 1
    /\ ops' = ops \cup {[instance |-> i, ref |-> instanceMap[i].ref, phase |-> "matched"]}
    /\ instanceMap' = [instanceMap EXCEPT ![i].cond = "provisioned"]
    /\ offerOperationAcceptTimeout' = [offerOperationAcceptTimeout EXCEPT ![i] = "runs"]
    /\ UNCHANGED heard
    /\ manageOfferMatcherStatus
    /\ UNCHANGED <<recheckBackOff, query, limiter, outside, inbox, events>>

anEvent == events > 0 /\ events' = events - 1
send(m) == mailbox' = mailbox \cup {m}

TaskOpTimeout(i) ==
    /\ offerOperationAcceptTimeout[i] = "runs"
    /\ offerOperationAcceptTimeout' = [offerOperationAcceptTimeout EXCEPT ![i] = "fired"]
    /\ send([kind |-> "RejectedTimeout", instance |-> i])
    /\ UNCHANGED <<instanceMap, heard, recheckBackOff, registeredAsMatcher, query,
                   limiter, instanceChanges, outside, ops, counters>>

-----------------------------------------------------------------------------
(* RateLimiterActor.                                                       *)
inUse ==
    {taskLaunchDelays[r] : r \in Refs} \cup {launchAllowedAt[r] : r \in Refs}
    \cup {delayUpdates[k].delay : k \in DOMAIN delayUpdates}
newDeadlines == {d \in Deadline \ {0} :
                    d \notin inUse /\ \A e \in Deadline \ {0} : e < d => e \in inUse}

delayOf(delays, r) == IF delays[r] = None THEN 0 ELSE delays[r]
update(r, delays, reply) == [ref |-> r, delay |-> delayOf(delays, r), reply |-> reply]

(* Subscribers are told through a stream and LaunchQueueActor.             *)
notify(r) == delayUpdates' = Append(delayUpdates, update(r, taskLaunchDelays', FALSE))

(* A reply is sent to the launcher itself: it may overtake what is on the  *)
(* longer way, but no reply.                                               *)
GetDelay(r) ==
    /\ r \in getDelay
    /\ getDelay' = getDelay \ {r}
    /\ \E k \in 0..Len(delayUpdates) :
          /\ \A j \in DOMAIN delayUpdates : delayUpdates[j].reply => j <= k
          /\ delayUpdates' = SubSeq(delayUpdates, 1, k) \o <<update(r, taskLaunchDelays, TRUE)>>
                                \o SubSeq(delayUpdates, k + 1, Len(delayUpdates))
    /\ UNCHANGED <<taskLaunchDelays, view, outside, inbox, ops, counters>>

(* Defect: the launchers are not told.                                     *)
CleanupSilently(r) ==
    /\ taskLaunchDelays[r] = 0
    /\ taskLaunchDelays' = [taskLaunchDelays EXCEPT ![r] = None]
    /\ UNCHANGED <<delayUpdates, getDelay, view, outside, inbox, ops, counters>>

(* CleanupOverdueDelays: maxLaunchDelay has passed, so the delay has too.  *)
CleanupOverdueDelays(r) ==
    /\ taskLaunchDelays[r] = 0
    /\ taskLaunchDelays' = [taskLaunchDelays EXCEPT ![r] = None]
    /\ notify(r)
    /\ UNCHANGED <<getDelay, view, outside, inbox, ops, counters>>

(* Defect: the launchers are not told.                                     *)
ResetSilently(r) ==
    /\ anEvent
    /\ taskLaunchDelays' = [taskLaunchDelays EXCEPT ![r] = None]
    /\ UNCHANGED <<delayUpdates, getDelay, view, outside, inbox, ops, offers>>

(* ResetDelay: a deployment of this version has started.                   *)
ResetDelay(r) ==
    /\ anEvent
    /\ taskLaunchDelays' = [taskLaunchDelays EXCEPT ![r] = None]
    /\ notify(r)
    /\ UNCHANGED <<getDelay, view, outside, inbox, ops, offers>>

(* A deadline passes.  The timer fires at the first it waits for.          *)
DeadlinePasses(d) ==
    LET past(x) == IF x = d THEN 0 ELSE x
    IN  /\ d \in inUse \cup recheckBackOff
        /\ taskLaunchDelays' = [r \in Refs |-> past(taskLaunchDelays[r])]
        /\ launchAllowedAt' = [r \in Refs |-> past(launchAllowedAt[r])]
        /\ delayUpdates' = [k \in DOMAIN delayUpdates |-> [delayUpdates[k] EXCEPT !.delay = past(@)]]
        /\ \/ /\ d \in recheckBackOff
              /\ recheckBackOff' = {}
              /\ send([kind |-> "RecheckIfBackOffUntilReached"])
           \/ /\ d \notin recheckBackOff
              /\ UNCHANGED <<recheckBackOff, mailbox>>
        /\ UNCHANGED <<instanceMap, unheard, offerOperationAcceptTimeout, registeredAsMatcher, query, getDelay,
                       instanceChanges, outside, ops, counters>>

-----------------------------------------------------------------------------
(* The tracker and its update steps.                                       *)

(* The failure of the query is stashed like any other message.             *)
FailQuery ==
    /\ query.kind = "syncing"
    /\ ~ query.failed
    /\ anEvent
    /\ query' = [query EXCEPT !.failed = TRUE]
    /\ UNCHANGED <<instanceMap, heard, offerOperationAcceptTimeout, recheckBackOff,
                   registeredAsMatcher, limiter, outside, inbox, ops, offers>>

(* The next update of the run spec waits for the steps of the last.        *)
updates(i, value, delay) ==
    /\ change = NoChange
    /\ tracker' = [tracker EXCEPT ![i] = value]
    /\ change' = [instance |-> i, ref |-> IF value = None THEN tracker[i].ref ELSE value.ref,
                  kind |-> IF value = None THEN "InstanceDeleted" ELSE "InstanceUpdated",
                  delay |-> delay, phase |-> IF delay = "none" THEN "queue" ELSE "rate"]

fromOutside ==
    /\ anEvent
    /\ UNCHANGED <<view, limiter, inbox, ops, offers>>

Schedule(i, r) ==
    /\ tracker[i] = None
    /\ updates(i, [cond |-> "scheduled", ref |-> r], "none")
    /\ UNCHANGED running
    /\ fromOutside

(* Statuses of Mesos: the task runs, or it ends while it should run.       *)
TaskRuns(i) ==
    /\ i \in running
    /\ is(tracker[i], "provisioned")
    /\ updates(i, [tracker[i] EXCEPT !.cond = "launched"], "advance")
    /\ UNCHANGED running
    /\ fromOutside

TaskFails(i) ==
    /\ i \in running
    /\ is(tracker[i], "launched") \/ is(tracker[i], "provisioned")
    /\ updates(i, [tracker[i] EXCEPT !.cond = "scheduled"], "add")
    /\ running' = running \ {i}
    /\ fromOutside

(* An instance that was decommissioned has no task any more.               *)
Expunge(i) ==
    /\ isScheduled(tracker[i]) \/ is(tracker[i], "launched")
    /\ updates(i, None, "none")
    /\ running' = running \ {i}
    /\ fromOutside

NotifyRateLimiter ==
    /\ change.phase = "rate"
    /\ \E d \in IF change.delay = "add" \/ taskLaunchDelays[change.ref] /= None
               THEN newDeadlines ELSE {taskLaunchDelays[change.ref]} :
          taskLaunchDelays' = [taskLaunchDelays EXCEPT ![change.ref] = d]
    /\ notify(change.ref)
    /\ change' = [change EXCEPT !.phase = "queue"]
    /\ UNCHANGED <<getDelay, view, tracker, running, inbox, ops, counters>>

(* The launch queue forwards the change and the step waits for the answer. *)
NotifyLaunchQueue ==
    /\ change.phase = "queue"
    /\ change' = [change EXCEPT !.phase = "sent"]
    /\ instanceChanges' = Append(instanceChanges, [kind |-> change.kind, instance |-> change.instance,
                                                   awaited |-> TRUE])
    /\ UNCHANGED <<view, limiter, mailbox, tracker, running, ops, counters>>

StepTimesOut ==
    /\ change.phase = "sent"
    /\ change' = NoChange
    /\ instanceChanges' = [k \in DOMAIN instanceChanges |-> [instanceChanges[k] EXCEPT !.awaited = FALSE]]
    /\ anEvent
    /\ UNCHANGED <<view, limiter, mailbox, tracker, running, ops, offers>>

-----------------------------------------------------------------------------
(* The offer matcher manager and OfferProcessor.  An operation that could  *)
(* not be saved is rejected, reverted, and handed to Mesos all the same.   *)
move(op, phase) == ops' = (ops \ {op}) \cup {[op EXCEPT !.phase = phase]}
reject(op) == send([kind |-> "Rejected", instance |-> op.instance])

RejectOp(op) ==
    /\ op.phase = "matched"
    /\ reject(op)
    /\ ops' = ops \ {op}
    /\ UNCHANGED <<view, limiter, instanceChanges, outside, counters>>

SaveOp(op) ==
    /\ op.phase = "matched"
    /\ isScheduled(tracker[op.instance])
    /\ updates(op.instance, [cond |-> "provisioned", ref |-> op.ref], "none")
    /\ move(op, "saving")
    /\ UNCHANGED <<view, limiter, running, inbox, counters>>

FailSave(op) ==
    /\ op.phase = "matched"
    /\ change = NoChange
    /\ \/ ~ isScheduled(tracker[op.instance]) /\ UNCHANGED events
       \/ anEvent
    /\ reject(op)
    /\ move(op, "failed")
    /\ UNCHANGED <<view, limiter, instanceChanges, outside, offers>>

(* The tracker has answered: the steps of the update are over.             *)
isSaved(op) ==
    /\ op.phase = "saving"
    /\ change /= NoChange => change.instance /= op.instance

RevertOp(op) ==
    /\ op.phase \in {"failed", "unlaunched"}
    /\ updates(op.instance, [cond |-> "scheduled", ref |-> op.ref], "none")
    /\ IF op.phase = "failed" THEN move(op, "saving") ELSE ops' = ops \ {op}
    /\ UNCHANGED <<view, limiter, running, inbox, counters>>

AcceptOp(op) ==
    /\ isSaved(op)
    /\ running' = running \cup {op.instance}
    /\ send([kind |-> "Accepted", instance |-> op.instance])
    /\ ops' = ops \ {op}
    /\ UNCHANGED <<view, limiter, instanceChanges, tracker, change, counters>>

DriverGone(op) ==
    /\ isSaved(op)
    /\ anEvent
    /\ reject(op)
    /\ move(op, "unlaunched")
    /\ UNCHANGED <<view, limiter, instanceChanges, outside, offers>>

-----------------------------------------------------------------------------
Launcher ==
    \/ ReceiveLoadedInstances
    \/ ReceiveSynchronizedInstance
    \/ ReceiveDelayUpdate
    \/ \E k \in DOMAIN instanceChanges :
          ReceiveInstanceUpdated(instanceChanges[k]) \/ ReceiveInstanceDeleted(instanceChanges[k])
    \/ \E m \in mailbox :
          \/ ReceiveRecheck(m)
          \/ ReceiveRejectedTimeout(m)
          \/ ReceiveRejected(m)
          \/ ReceiveAccepted(m)

Services ==
    \/ \E r \in Refs : GetDelay(r)
    \/ NotifyRateLimiter
    \/ NotifyLaunchQueue

Time ==
    \/ \E d \in Deadline \ {0} : DeadlinePasses(d)
    \/ \E r \in Refs : CleanupOverdueDelays(r)
    \/ \E i \in Instances : TaskOpTimeout(i)

OfferProcessor ==
    \E op \in ops : \/ RejectOp(op) \/ SaveOp(op) \/ FailSave(op) \/ RevertOp(op)
                    \/ AcceptOp(op) \/ DriverGone(op)

Environment ==
    \/ \E i \in Instances : MatchOffer(i) \/ TaskRuns(i) \/ TaskFails(i) \/ Expunge(i)
    \/ \E i \in Instances, r \in Refs : Schedule(i, r)
    \/ \E r \in Refs : ResetDelay(r)
    \/ FailQuery
    \/ StepTimesOut

Next == Launcher \/ Services \/ Time \/ OfferProcessor \/ Environment

Spec == Init /\ [][Next]_vars

-----------------------------------------------------------------------------
(* Something will still make the launcher look at an instance.             *)
LooksAgain(i) ==
    \/ query /= NoQuery /\ i \in query.of
    \/ change /= NoChange /\ change.instance = i
    \/ \E k \in DOMAIN instanceChanges : instanceChanges[k].instance = i
    \/ [kind |-> "Rejected", instance |-> i] \in mailbox

(* The launcher's view follows the tracker: once nothing about an instance *)
(* is on its way, it knows the instance as the tracker does, or it has     *)
(* marked it provisioned for an operation that is not finished.            *)
ViewFollowsTracker ==
    \A i \in Instances :
        \/ LooksAgain(i)
        \/ instanceMap[i] = tracker[i]
        \/ is(instanceMap[i], "provisioned") /\ \E op \in ops : op.instance = i

(* All messages are handled, all operations finished, and all timers and   *)
(* delays have run out.                                                    *)
Settled ==
    /\ active
    /\ instanceChanges = <<>> /\ mailbox = {} /\ delayUpdates = <<>> /\ getDelay = {}
    /\ change = NoChange
    /\ ops = {}
    /\ \A i \in Instances : offerOperationAcceptTimeout[i] /= "runs"
    /\ inUse \subseteq {0, None} /\ recheckBackOff = {}
    /\ \A r \in Refs : taskLaunchDelays[r] = None

(* No instance is forgotten: when everything has settled the launcher is   *)
(* registered for offers if and only if an instance waits for its launch,  *)
(* of whichever version and whatever became of the timer of its delay,     *)
(* unless it did not listen when the delay of the version changed.         *)
NoneForgotten ==
    Settled =>
        /\ registeredAsMatcher => \E i \in Instances : isScheduled(tracker[i])
        /\ \A i \in Instances :
              isScheduled(tracker[i]) /\ tracker[i].ref \notin unheard => registeredAsMatcher

(* What the launcher knows of a delay is what the rate limiter says, or an *)
(* update is on its way, however replies and notifications overtake each   *)
(* other; the only updates that are lost are those it did not listen to.   *)
DelayIsHeard ==
    \A r \in Refs :
        \/ launchAllowedAt[r] \in {None, delayOf(taskLaunchDelays, r)}
        \/ \E k \in DOMAIN delayUpdates : delayUpdates[k].ref = r
        \/ r \in unheard

(* An active launcher is registered only while it has an instance that may *)
(* be launched now: no handler forgets to take the registration back.      *)
OffersAreOfUse ==
    active /\ registeredAsMatcher => shouldLaunchInstances(instanceMap, launchAllowedAt)

(* The next two do not hold, no run checks them; README.md tells how they  *)
(* are violated.  The delay of a version is respected, or the launcher is  *)
(* about to hear of it.                                                    *)
DelayIsRespected ==
    active => \A r \in scheduledVersions(instanceMap) :
        launchAllowed(launchAllowedAt, r) =>
            \/ delayOf(taskLaunchDelays, r) = 0
            \/ \E k \in DOMAIN delayUpdates : delayUpdates[k].ref = r

(* No instance is used for two offers at the same time.                    *)
MatchedOnce ==
    \A op1, op2 \in ops : op1.instance = op2.instance => op1 = op2
=============================================================================
