-------------------------- MODULE InstanceLifecycle --------------------------
(***************************************************************************)
(* The life of one instance, from LaunchQueueActor scheduling it to its    *)
(* removal, with everything that works on it: the matching of offers and   *)
(* OfferProcessorImpl, the callers that change its goal or expunge it, and *)
(* Mesos reporting the states of its tasks.                                *)
(*                                                                         *)
(* Every caller reads the instance first, decides on an operation and only *)
(* then has the tracker apply it.  pending holds the operations that have  *)
(* been decided on and not yet applied: when one is applied, the instance  *)
(* may no longer be what the caller saw.  The tracker applies operations   *)
(* one at a time (module InstanceTracker shows when that is so).           *)
(***************************************************************************)
EXTENDS Instances, FiniteSets

CONSTANTS
    Resident,         \* TRUE: the run spec has persistent volumes
    Statuses,         \* the statuses that Mesos reports, without their time
    GoalChanges,      \* goals that scaling, deleting and killing set
    StorageMayFail,   \* TRUE: the repository may refuse a write
    DriverMayBeGone,  \* TRUE: offers may be accepted while there is no driver
    MaxPending        \* bound on concurrent decisions

ASSUME LifecycleAssumption ==
    /\ Resident \in BOOLEAN
    /\ Statuses \subseteq [state : MesosState,
                           reason : {"REASON_TASK_UNKNOWN", "REASON_RECONCILIATION", "REASON_OTHER"},
                           healthy : {"absent", "healthy", "unhealthy"},
                           check : {"absent", "passed", "failed"}]
    /\ GoalChanges \subseteq {"GoalStopped", "GoalDecommissioned"}
    /\ StorageMayFail \in BOOLEAN
    /\ DriverMayBeGone \in BOOLEAN
    /\ MaxPending \in Nat
    /\ 0 \in Times
    /\ NoInstance \notin Instance

VARIABLES
    instance,   \* the instance in the tracker, or NoInstance
    pending,    \* operations decided on and not yet applied
    launch,     \* the offer operation that OfferProcessorImpl works on
    mesos,      \* Mesos' own state of each task, by incarnation and container
    launches,   \* how often each incarnation has been handed to Mesos
    vanished,   \* history: the tasks whose end Mesos has reported without being sure of it
    now         \* the clock

vars == <<instance, pending, launch, mesos, launches, vanished, now>>

Incarnation == 1 .. MaxIncarnation

Schedule == [kind |-> "Schedule"]
RescheduleReserved == [kind |-> "RescheduleReserved"]
Reserve == [kind |-> "Reserve"]
Unreserve == [kind |-> "Unreserve"]
ForceExpunge == [kind |-> "ForceExpunge"]
ReservationTimeout == [kind |-> "ReservationTimeout"]
ChangeGoal(goal) == [kind |-> "ChangeGoal", goal |-> goal]
Provision(incarnation) == [kind |-> "Provision", incarnation |-> incarnation]
Revert(old) == [kind |-> "Revert", instance |-> old]
MesosUpdate(inc, k, status) ==
    [kind |-> "MesosUpdate", incarnation |-> inc, task |-> k, status |-> status, now |-> now]

(* launch.phase: saving the state operation, reverting one that could not  *)
(* be saved, or saved and about to be sent to Mesos.                       *)
NoLaunch == [phase |-> "idle", op |-> ForceExpunge, old |-> NoInstance]

Init ==
    /\ instance = NoInstance
    /\ pending = {Schedule}
    /\ launch = NoLaunch
    /\ mesos = [inc \in Incarnation |-> [k \in TaskIndex |-> NoStatus]]
    /\ launches = [inc \in Incarnation |-> 0]
    /\ vanished = {}
    /\ now = 0

Exists == instance # NoInstance

------------------------------------------------------------------------------
(* Callers decide on an operation                                          *)

Decide(op) ==
    /\ op \notin pending
    /\ Cardinality(pending) < MaxPending
    /\ pending' = pending \cup {op}

(* LaunchQueueActor.processNextAdd: relaunch a stopped resident instance.  *)
DecideReschedule ==
    /\ Exists
    /\ hasReservation(instance) /\ instance.condition \in Terminal /\ instance.goal = "GoalStopped"
    /\ Decide(RescheduleReserved)
    /\ UNCHANGED <<instance, launch, mesos, launches, vanished, now>>

(***************************************************************************)
(* Scaling down and replacing stop an instance with a reservation and      *)
(* decommission one without; deleting, wiping and orphan removal           *)
(* decommission whatever they find.                                        *)
(***************************************************************************)
DecideGoal(goal) ==
    /\ Exists
    /\ goal = "GoalStopped" => instance.goal = "GoalRunning" /\ hasReservation(instance)
    /\ Decide(ChangeGoal(goal))
    /\ UNCHANGED <<instance, launch, mesos, launches, vanished, now>>

(* ExpungeOverdueLostTasksActor.shouldExpunge *)
shouldExpunge(inst) ==
    /\ UnreachableEnabled
    /\ inst.condition = "UnreachableInactive"
    /\ \E k \in DOMAIN inst.tasksMap : isUnreachableExpired(inst.tasksMap[k], now, expungeAfter)

DecideExpunge ==
    /\ Exists /\ shouldExpunge(instance)
    /\ Decide(ForceExpunge)
    /\ UNCHANGED <<instance, launch, mesos, launches, vanished, now>>

(* TaskKiller.kill with wipe: force the removal once the goal is set.      *)
DecideWipe ==
    /\ "GoalDecommissioned" \in GoalChanges
    /\ Exists /\ instance.goal = "GoalDecommissioned"
    /\ Decide(ForceExpunge)
    /\ UNCHANGED <<instance, launch, mesos, launches, vanished, now>>

(* OverdueInstancesActor.overdueReservations; any new reservation may have *)
(* reached its deadline.                                                   *)
DecideReservationTimeout ==
    /\ Exists
    /\ isScheduled(instance) \/ instance.goal = "GoalDecommissioned"
    /\ instance.reservation = "New"
    /\ Decide(ReservationTimeout)
    /\ UNCHANGED <<instance, launch, mesos, launches, vanished, now>>

------------------------------------------------------------------------------
(* Offers                                                                  *)

(* Defect: a relaunch reuses the task id.                                  *)
OfferOpSameTaskId ==
    [phase |-> "saving", old |-> NoInstance,
     op |-> Provision(IF instance.incarnation = 0 THEN 1 ELSE instance.incarnation)]

(***************************************************************************)
(* An offer is matched: InstanceOpFactoryImpl launches a scheduled         *)
(* instance (a resident one only on its reservation, which it reserves     *)
(* first), OfferMatcherReconciler frees the reservation of a terminal      *)
(* decommissioned instance.  launch.old is the state to go back to.        *)
(***************************************************************************)
OfferOp ==
    CASE isScheduled(instance) /\ Resident /\ ~hasReservation(instance) ->
           [phase |-> "saving", op |-> Reserve, old |-> NoInstance]
      [] isScheduled(instance) /\ ~(Resident /\ ~hasReservation(instance)) ->
           [phase |-> "saving", op |-> Provision(instance.incarnation + 1),
            old |-> IF Resident THEN instance ELSE NoInstance]
      [] ~isScheduled(instance) ->
           [phase |-> "saving", op |-> Unreserve, old |-> instance]

terminalResident(inst) ==
    hasReservation(inst) /\ inst.goal = "GoalDecommissioned" /\ inst.condition \in Terminal

MatchOffer ==
    /\ Exists
    /\ launch.phase = "idle"
    /\ \/ isScheduled(instance) /\ instance.incarnation < MaxIncarnation
       \/ terminalResident(instance)
    /\ launch' = OfferOp
    /\ Decide(launch'.op)
    /\ UNCHANGED <<instance, mesos, launches, vanished, now>>

(* Defect: the state to go back to is taken to be there.                   *)
revertOpUnchecked(l) == Revert(l.old)

(* OfferProcessorImpl.revertTaskOps *)
revertOp(l) == IF l.old = NoInstance THEN ForceExpunge ELSE Revert(l.old)

(* TaskLauncherImpl.acceptOffer hands the tasks to Mesos.                  *)
AcceptOffer ==
    /\ launch.phase = "saved"
    /\ launch' = NoLaunch
    /\ IF launch.op.kind = "Provision"
       THEN LET inc == launch.op.incarnation
                staging == [state |-> "TASK_STAGING", reason |-> "REASON_OTHER",
                            healthy |-> "absent", check |-> "absent", since |-> 0]
            IN /\ launches[inc] < 2
               /\ launches' = [launches EXCEPT ![inc] = @ + 1]
               /\ mesos' = IF launches[inc] = 0
                           THEN [mesos EXCEPT ![inc] = [k \in TaskIndex |-> staging]]
                           ELSE mesos
       ELSE UNCHANGED <<mesos, launches>>
    /\ UNCHANGED <<instance, pending, vanished, now>>

(* There is no driver: the offer cannot be accepted, the saved state is    *)
(* taken back.                                                             *)
RejectOffer ==
    /\ DriverMayBeGone
    /\ launch.phase = "saved"
    /\ pending' = pending \cup {revertOp(launch)}
    /\ launch' = NoLaunch
    /\ UNCHANGED <<instance, mesos, launches, vanished, now>>

------------------------------------------------------------------------------
(* Mesos                                                                   *)

(***************************************************************************)
(* Marathon's conditions Gone and Unknown are terminal, but behind a       *)
(* TASK_GONE_BY_OPERATOR and an unknown task "the task might still be      *)
(* running, and might return to the RUNNING state" (TaskCondition.scala).  *)
(***************************************************************************)
mayReturn(s) ==
    \/ s.state \in {"TASK_GONE_BY_OPERATOR", "TASK_UNKNOWN"}
    \/ s.state = "TASK_LOST" /\ s.reason = "REASON_TASK_UNKNOWN"

(* The task runs, as far as anyone can tell.                               *)
isLive(inc, k) ==
    /\ mesos[inc][k] # NoStatus
    /\ TaskCondition(mesos[inc][k]) \notin Terminal \/ mayReturn(mesos[inc][k])

(* The unreachable time is the only time in a status that is ever read.    *)
stamped(s) ==
    [state |-> s.state, reason |-> s.reason, healthy |-> s.healthy, check |-> s.check,
     since |-> IF TaskCondition(s) = "Unreachable" THEN now ELSE 0]

MesosStep(inc, k, s) ==
    /\ isLive(inc, k)
    /\ s.state # mesos[inc][k].state \/ s.healthy # mesos[inc][k].healthy \/ s.check # mesos[inc][k].check
    /\ mesos' = [mesos EXCEPT ![inc][k] = stamped(s)]
    /\ vanished' = IF mayReturn(s) THEN vanished \cup {<<inc, k>>} ELSE vanished
    /\ UNCHANGED <<instance, pending, launch, launches, now>>

(* TaskStatusUpdateProcessorImpl.killWhenUnknown *)
ignoreWhenUnknown == Terminal \cup {"Killing", "Unreachable"}

(***************************************************************************)
(* TaskStatusUpdateProcessorImpl.publish: a status, sent when it changes   *)
(* and again by reconciliation, is applied if the instance has the task;   *)
(* a task that no instance has is killed.                                  *)
(***************************************************************************)
Report(inc, k) ==
    /\ mesos[inc][k] # NoStatus
    /\ IF Exists /\ instance.incarnation = inc
       THEN /\ Decide(MesosUpdate(inc, k, mesos[inc][k]))
            /\ UNCHANGED mesos
       ELSE /\ TaskCondition(mesos[inc][k]) \notin ignoreWhenUnknown
            /\ mesos' = [mesos EXCEPT ![inc][k] = [@ EXCEPT !.state = "TASK_KILLED", !.healthy = "absent"]]
            /\ UNCHANGED pending
    /\ UNCHANGED <<instance, launch, launches, vanished, now>>

Tick ==
    /\ now + 1 \in Times
    /\ now' = now + 1
    /\ UNCHANGED <<instance, pending, launch, mesos, launches, vanished>>

------------------------------------------------------------------------------
(* The tracker applies an operation                                        *)

(***************************************************************************)
(* stored = FALSE: the repository failed.  OfferProcessorImpl.saveTask     *)
(* reverts an operation that could not be saved, and then goes on as if it *)
(* had been saved.                                                         *)
(***************************************************************************)
Apply(op, stored) ==
    LET effect == IF stored THEN resolve(instance, op) ELSE Fail
        isSave == launch.phase = "saving" /\ op = launch.op
        isRevert == launch.phase = "reverting" /\ op = revertOp(launch)
        failedSave == isSave /\ effect.kind = "Failure"
    IN /\ op \in pending
       /\ instance' = IF effect.kind \in {"Update", "Expunge"} THEN effect.instance ELSE instance
       /\ pending' = (pending \ {op}) \cup (IF failedSave THEN {revertOp(launch)} ELSE {})
       /\ launch' = IF failedSave THEN [launch EXCEPT !.phase = "reverting"]
                    ELSE IF isRevert /\ effect.kind = "Failure" THEN NoLaunch
                    ELSE IF isSave \/ isRevert THEN [launch EXCEPT !.phase = "saved"]
                    ELSE launch
       /\ UNCHANGED <<mesos, launches, vanished, now>>

Next ==
    \/ DecideReschedule
    \/ \E goal \in GoalChanges : DecideGoal(goal)
    \/ DecideExpunge
    \/ DecideWipe
    \/ DecideReservationTimeout
    \/ MatchOffer
    \/ AcceptOffer
    \/ RejectOffer
    \/ \E inc \in Incarnation, k \in TaskIndex :
         \/ \E s \in Statuses : MesosStep(inc, k, s)
         \/ Report(inc, k)
    \/ Tick
    \/ \E op \in pending : Apply(op, TRUE)
    \/ \E op \in pending : StorageMayFail /\ Apply(op, FALSE)

Spec == Init /\ [][Next]_vars

(***************************************************************************)
(* Time passes, reconciliation asks Mesos for the state of every task at a *)
(* fixed interval, ExpungeOverdueLostTasksActor has a timer, and the       *)
(* tracker's queue is first in, first out.  Strong fairness, because       *)
(* MaxPending, which the code does not have, may close a decision for a    *)
(* moment.                                                                 *)
(***************************************************************************)
Fairness ==
    /\ WF_vars(Tick)
    /\ \A inc \in Incarnation, k \in TaskIndex : SF_vars(Report(inc, k))
    /\ SF_vars(DecideExpunge)
    /\ WF_vars(Apply(ForceExpunge, TRUE))
    /\ WF_vars(\E op \in pending : Apply(op, TRUE))

FairSpec == Spec /\ Fairness

------------------------------------------------------------------------------
(* Properties                                                              *)

TypeOK ==
    /\ instance \in Instance \cup {NoInstance}
    /\ pending \subseteq Operation
    /\ launch \in [phase : {"idle", "saving", "reverting", "saved"}, op : Operation,
                   old : Instance \cup {NoInstance}]
    /\ mesos \in [Incarnation -> [TaskIndex -> MesosStatus \cup {NoStatus}]]
    /\ launches \in [Incarnation -> 0 .. 2]
    /\ vanished \subseteq Incarnation \X TaskIndex
    /\ now \in Times

(***************************************************************************)
(* The condition that every caller decides by agrees with the tasks it     *)
(* stands for: an instance is either waiting for a launch, or it has the   *)
(* worst condition of its tasks (InstanceState.conditionFromTasks).  A     *)
(* revert, a reschedule or a skipped update may not leave a stale one.     *)
(***************************************************************************)
ConditionAgrees(inst) ==
    LET worst == minByHierarchy({inst.tasksMap[k].condition : k \in DOMAIN inst.tasksMap})
    IN \/ inst.condition = "Scheduled"
       \/ /\ inst.tasksMap # <<>>
          /\ \/ inst.condition = worst
             \/ inst.condition = "UnreachableInactive" /\ worst = "Unreachable"

ConditionFollowsTasks == Exists => ConditionAgrees(instance)

(***************************************************************************)
(* An instance that deployments count as healthy has earned it by its      *)
(* current tasks: all run or have finished, one runs healthily and none    *)
(* unhealthily (Instance.computeHealth).  No order of health and state     *)
(* updates of the containers leaves a stale verdict.                       *)
(***************************************************************************)
HealthyIsEarned ==
    Exists /\ instance.healthy = "healthy" =>
        LET task(k) == instance.tasksMap[k]
        IN /\ \A k \in DOMAIN instance.tasksMap :
                 \/ task(k).condition = "Finished"
                 \/ task(k).condition = "Running" /\ task(k).mesosStatus.healthy # "unhealthy"
           /\ \E k \in DOMAIN instance.tasksMap :
                 task(k).condition = "Running" /\ task(k).mesosStatus.healthy = "healthy"

(***************************************************************************)
(* Marathon never believes that a task is over while Mesos may still run   *)
(* it, however late, repeated or reordered the statuses are applied, unless*)
(* the status by which it is over says itself that it may come back: then  *)
(* Mesos has reported just that of this very task.                         *)
(***************************************************************************)
TerminalOnlyIfDead ==
    Exists => \A k \in DOMAIN instance.tasksMap :
                 /\ instance.tasksMap[k].condition \in Terminal
                 /\ launches[instance.incarnation] > 0
                 => IF mayReturn(instance.tasksMap[k].mesosStatus)
                    THEN <<instance.incarnation, k>> \in vanished
                    ELSE ~isLive(instance.incarnation, k)

(***************************************************************************)
(* An instance that is offered for a launch has no task left in Mesos that *)
(* the launch would double, but for one that Mesos had given up and that   *)
(* has come back or may do so (such a task of an earlier incarnation is    *)
(* killed when it is heard of, in Report).                                 *)
(***************************************************************************)
ScheduledIsNotRunning ==
    Exists /\ isScheduled(instance) =>
        \A inc \in Incarnation, k \in TaskIndex : isLive(inc, k) => <<inc, k>> \in vanished

(***************************************************************************)
(* A task id, which ends in the incarnation, is handed to Mesos only once. *)
(***************************************************************************)
IncarnationLaunchedOnce == \A inc \in Incarnation : launches[inc] <= 1

(***************************************************************************)
(* Goal.Decommissioned is final: "instance with this goal won't transition *)
(* into any other Goal from now on" (Goal.scala:44).  The code does not    *)
(* keep to it: a launch on a reservation that cannot be saved is reverted  *)
(* to the copy that was offered, whose goal may be older.                  *)
(***************************************************************************)
DecommissionedIsFinal ==
    [][Exists /\ instance.goal = "GoalDecommissioned" /\ instance' # NoInstance
         => instance'.goal = "GoalDecommissioned"]_vars

(***************************************************************************)
(* A decommissioned instance whose tasks are all terminal and that holds   *)
(* no reservation "shall be removed because it's no longer needed"         *)
(* (Goal.scala:42).                                                        *)
(***************************************************************************)
DecommissionedIsRemoved == Exists => ~isTerminalDecomissionedAndEphemeral(instance)

(***************************************************************************)
(* As long as the instance is kept, its reservation is given up only when  *)
(* the operator declared the agent gone and no task is left.               *)
(***************************************************************************)
ReservationKept ==
    [][Exists /\ hasReservation(instance) /\ instance' # NoInstance /\ ~hasReservation(instance')
         => /\ allTasksTerminal(instance')
            /\ \E k \in DOMAIN instance'.tasksMap :
                 instance'.tasksMap[k].mesosStatus.state = "TASK_GONE_BY_OPERATOR"]_vars

(***************************************************************************)
(* An instance is not kept for ever once its task has been unreachable for *)
(* expungeAfter and Mesos keeps reporting it so: "a task instance will be  *)
(* expunged if it has been unreachable for more than 120 seconds", with    *)
(* expungeAfterSeconds = 120 (docs/docs/configure-task-handling.md:22).    *)
(* It does not hold, no run checks it; README.md tells how it is violated. *)
(***************************************************************************)
ExpiredIsExpunged ==
    ~<>[](/\ Exists /\ readyToExpungeUnreachable(instance, now)
          /\ mesos[instance.incarnation] = [k \in TaskIndex |-> instance.tasksMap[k].mesosStatus])

==============================================================================
