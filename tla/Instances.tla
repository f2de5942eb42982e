------------------------------ MODULE Instances ------------------------------
(***************************************************************************)
(* Marathon's instance: the unit that the scheduler launches, watches and  *)
(* kills.  This module holds the data model (conditions, goals, tasks,     *)
(* reservations) and the pure functions over it: how a Mesos status        *)
(* changes a task (Task.update), how the tasks determine the instance      *)
(* (InstanceState.transitionTo) and how each InstanceUpdateOperation turns *)
(* an instance into an InstanceUpdateEffect (InstanceUpdateOpResolver,     *)
(* InstanceUpdater).  It has no variables; InstanceLifecycle and           *)
(* InstanceTracker put it to work.                                         *)
(*                                                                         *)
(* Left out: the timestamps since, activeSince and stagedAt, agentInfo,    *)
(* network info, the run spec beyond its unreachable strategy, and the     *)
(* events attached to an effect.  None of them decides which effect an     *)
(* operation has.                                                          *)
(***************************************************************************)
EXTENDS Integers, Sequences

CONSTANTS
    NumTasks,            \* containers of the run spec: 1 for an app, more for a pod
    Times,               \* values of the clock
    UnreachableEnabled,  \* FALSE: the run spec has UnreachableDisabled
    inactiveAfter,       \* unreachable for this long: a replacement is wanted
    expungeAfter,        \* unreachable for this long: the instance is dropped
    MaxIncarnation,      \* bound on how often one instance is launched
    NoInstance           \* Scala's None for an Option[Instance]

ASSUME InstancesAssumption ==
    /\ NumTasks \in Nat \ {0}
    /\ Times \subseteq Nat
    /\ UnreachableEnabled \in BOOLEAN
    /\ inactiveAfter \in Nat
    /\ expungeAfter \in Nat
    /\ inactiveAfter <= expungeAfter    \* UnreachableStrategy's validator
    /\ MaxIncarnation \in Nat \ {0}

------------------------------------------------------------------------------
(* Conditions and goals                                                    *)

Failure == {"Error", "Failed", "Gone", "Dropped", "Unknown"}
Terminal == Failure \cup {"Finished", "Killed"}
Active == {"Provisioned", "Killing", "Running", "Staging", "Starting", "Unreachable"}
Condition == Terminal \cup Active \cup {"Scheduled", "UnreachableInactive"}

Goal == {"GoalRunning", "GoalStopped", "GoalDecommissioned"}

(***************************************************************************)
(* A Mesos task status: its state, the reason (which matters only for the  *)
(* legacy TASK_LOST), the health and the check result it carries, and the  *)
(* time the agent became unreachable.  NoStatus is an absent status.       *)
(***************************************************************************)
MesosState ==
    {"TASK_ERROR", "TASK_FAILED", "TASK_FINISHED", "TASK_KILLED", "TASK_KILLING",
     "TASK_RUNNING", "TASK_STAGING", "TASK_STARTING", "TASK_DROPPED", "TASK_GONE",
     "TASK_GONE_BY_OPERATOR", "TASK_UNKNOWN", "TASK_UNREACHABLE", "TASK_LOST"}

MesosStatus ==
    [state   : MesosState,
     reason  : {"REASON_TASK_UNKNOWN", "REASON_RECONCILIATION", "REASON_OTHER"},
     healthy : {"absent", "healthy", "unhealthy"},
     check   : {"absent", "passed", "failed"},
     since   : Times]

NoStatus ==
    [state |-> "NONE", reason |-> "REASON_OTHER", healthy |-> "absent",
     check |-> "absent", since |-> 0]

(* TASK_LOST is told apart by its reason; every reason that stands neither *)
(* for an unknown nor for an unreachable task counts as gone.              *)
inferStateForLost(reason) ==
    CASE reason = "REASON_TASK_UNKNOWN"   -> "Unknown"
      [] reason = "REASON_RECONCILIATION" -> "Unreachable"
      [] OTHER                            -> "Gone"

TaskCondition(s) ==
    CASE s.state = "TASK_ERROR"       -> "Error"
      [] s.state = "TASK_FAILED"      -> "Failed"
      [] s.state = "TASK_FINISHED"    -> "Finished"
      [] s.state = "TASK_KILLED"      -> "Killed"
      [] s.state = "TASK_KILLING"     -> "Killing"
      [] s.state = "TASK_RUNNING"     -> "Running"
      [] s.state = "TASK_STAGING"     -> "Staging"
      [] s.state = "TASK_STARTING"    -> "Starting"
      [] s.state = "TASK_DROPPED"     -> "Dropped"
      [] s.state \in {"TASK_GONE", "TASK_GONE_BY_OPERATOR"} -> "Gone"
      [] s.state = "TASK_UNKNOWN"     -> "Unknown"
      [] s.state = "TASK_UNREACHABLE" -> "Unreachable"
      [] s.state = "TASK_LOST"        -> inferStateForLost(s.reason)

------------------------------------------------------------------------------
(* Tasks and instances                                                     *)

TaskIndex == 1 .. NumTasks

Task == [condition : Condition, started : BOOLEAN, mesosStatus : MesosStatus \cup {NoStatus}]

(***************************************************************************)
(* An instance.  tasksMap is empty before the first launch and has one     *)
(* task per container after it; all of its tasks have been created         *)
(* together and share the incarnation, which is part of their ids.         *)
(***************************************************************************)
Instance ==
    [condition   : Condition,
     healthy     : {"absent", "healthy", "unhealthy"},
     goal        : Goal,
     incarnation : 0 .. MaxIncarnation,
     tasksMap    : [TaskIndex -> Task] \cup {<<>>},
     reservation : {"none", "New", "Suspended"}]

hasReservation(inst) == inst.reservation # "none"

isScheduled(inst) ==
    /\ inst.goal = "GoalRunning"
    /\ inst.condition \in Terminal \cup {"Scheduled"}

isActive(inst) == inst.condition \in Active

allTasksTerminal(inst) == \A k \in DOMAIN inst.tasksMap : inst.tasksMap[k].condition \in Terminal

(* Instance.scheduled: a new instance waiting for an offer.                *)
scheduled ==
    [condition |-> "Scheduled", healthy |-> "absent", goal |-> "GoalRunning",
     incarnation |-> 0, tasksMap |-> <<>>, reservation |-> "none"]

(* The tasks a launch creates, all provisioned, under the next incarnation.*)
provisionedTasks ==
    [k \in TaskIndex |-> [condition |-> "Provisioned", started |-> FALSE, mesosStatus |-> NoStatus]]

------------------------------------------------------------------------------
(* How one status changes one task: Task.update                            *)

isUnreachableExpired(task, now, timeout) ==
    /\ task.condition \in {"Unreachable", "UnreachableInactive"}
    /\ task.mesosStatus # NoStatus
    /\ now - task.mesosStatus.since >= timeout

updatedHealthOrState(current, update) ==
    \/ current = NoStatus
    \/ update.healthy # "absent" /\ current.healthy # update.healthy
    \/ update.check # "absent" /\ current.check # update.check
    \/ current.state # update.state

(***************************************************************************)
(* A task effect is [update, task]: with update = FALSE the status leaves  *)
(* the task as it is (TaskUpdateEffect.Noop).  A terminal task never       *)
(* changes again.                                                          *)
(***************************************************************************)
taskUpdate(inst, task, newStatus, mesosStatus) ==
    LET noop == [update |-> FALSE, task |-> task]
        changed(t) == [update |-> TRUE, task |-> t]
    IN IF task.condition \in Terminal THEN noop
       ELSE IF newStatus = "Running" /\ ~task.started
         THEN changed([condition |-> "Running", started |-> TRUE, mesosStatus |-> mesosStatus])
       ELSE IF newStatus \in Terminal
         THEN changed([task EXCEPT !.condition = newStatus, !.mesosStatus = mesosStatus])
       ELSE IF task.condition = "Scheduled" /\ hasReservation(inst)
         THEN IF newStatus \in Active
              THEN changed([task EXCEPT !.started = TRUE, !.mesosStatus = mesosStatus])
              ELSE noop
       ELSE IF updatedHealthOrState(task.mesosStatus, mesosStatus)
         THEN changed([task EXCEPT !.condition = newStatus, !.mesosStatus = mesosStatus])
       ELSE noop

------------------------------------------------------------------------------
(* How the tasks determine the instance: InstanceState.transitionTo        *)

(* The condition that comes first here wins if the tasks disagree.         *)
conditionHierarchy ==
    <<"Error", "Failed", "Gone", "Dropped", "Unreachable", "Killing", "Starting",
      "Staging", "Unknown", "Provisioned", "Running", "Finished", "Killed">>

(* Scala's minBy(conditionHierarchy): a condition that is not listed has   *)
(* index -1 and goes before all others.                                    *)
minByHierarchy(conditions) ==
    LET unlisted == {c \in conditions : \A n \in 1 .. 13 : conditionHierarchy[n] # c}
        first == CHOOSE n \in 1 .. 13 :
                    /\ conditionHierarchy[n] \in conditions
                    /\ \A m \in 1 .. n - 1 : conditionHierarchy[m] \notin conditions
    IN IF unlisted # {} THEN CHOOSE c \in unlisted : TRUE ELSE conditionHierarchy[first]

shouldBecomeInactive(tasks, now) ==
    UnreachableEnabled /\ \E k \in DOMAIN tasks : isUnreachableExpired(tasks[k], now, inactiveAfter)

conditionFromTasks(tasks, now) ==
    LET worst == minByHierarchy({tasks[k].condition : k \in DOMAIN tasks})
    IN IF tasks = <<>> THEN "Unknown"
       ELSE IF worst = "Unreachable" /\ shouldBecomeInactive(tasks, now) THEN "UnreachableInactive"
       ELSE worst

(* The first task that is unhealthy or not running decides; if there is    *)
(* none, one healthy task makes the instance healthy.                      *)
computeHealth(tasks) ==
    LET runningWith(k, h) == tasks[k].condition = "Running" /\ tasks[k].mesosStatus.healthy = h
        isPending(k) == tasks[k].condition \notin {"Running", "Finished"}
        deciding == {k \in DOMAIN tasks : runningWith(k, "unhealthy") \/ isPending(k)}
    IN IF \E k \in deciding : runningWith(k, "unhealthy") /\ (\A j \in deciding : k <= j)
         THEN "unhealthy"
       ELSE IF deciding = {} /\ (\E k \in DOMAIN tasks : runningWith(k, "healthy"))
         THEN "healthy"
       ELSE "absent"

------------------------------------------------------------------------------
(* The effect of an operation: InstanceUpdater, InstanceUpdateOpResolver   *)

(***************************************************************************)
(* effect.instance is what the tracker holds after an Update or an Expunge.*)
(***************************************************************************)
Update(inst) == [kind |-> "Update", instance |-> inst]
Expunge == [kind |-> "Expunge", instance |-> NoInstance]
Noop == [kind |-> "Noop", instance |-> NoInstance]
Fail == [kind |-> "Failure", instance |-> NoInstance]

(* Defect: the instance's condition is not computed again.                 *)
applyTaskUpdateOnly(inst, k, task, now) ==
    [inst EXCEPT !.tasksMap[k] = task, !.healthy = computeHealth([inst.tasksMap EXCEPT ![k] = task])]

(* Defect: the health is computed again only when a task runs.             *)
applyTaskUpdateKeepingHealth(inst, k, task, now) ==
    LET tasks == [inst.tasksMap EXCEPT ![k] = task]
    IN [inst EXCEPT
          !.tasksMap = tasks,
          !.condition = conditionFromTasks(tasks, now),
          !.healthy = IF task.condition = "Running" THEN computeHealth(tasks) ELSE @]

applyTaskUpdate(inst, k, task, now) ==
    LET tasks == [inst.tasksMap EXCEPT ![k] = task]
    IN [inst EXCEPT
          !.tasksMap = tasks,
          !.condition = conditionFromTasks(tasks, now),
          !.healthy = computeHealth(tasks),
          !.reservation = IF task.condition \in Terminal /\ hasReservation(inst) THEN "Suspended" ELSE @]

isTerminalDecomissionedAndEphemeral(inst) ==
    allTasksTerminal(inst) /\ inst.goal = "GoalDecommissioned" /\ ~hasReservation(inst)

(* Defect: a reservation is given up whenever all tasks have ended.        *)
shouldAbandonIfTerminal(inst) ==
    hasReservation(inst) /\ inst.tasksMap # <<>> /\ allTasksTerminal(inst)

shouldAbandonReservation(inst) ==
    /\ hasReservation(inst)
    /\ \E k \in DOMAIN inst.tasksMap : inst.tasksMap[k].mesosStatus.state = "TASK_GONE_BY_OPERATOR"
    /\ allTasksTerminal(inst)

readyToExpungeUnreachable(inst, now) ==
    /\ UnreachableEnabled
    /\ \E k \in DOMAIN inst.tasksMap : isUnreachableExpired(inst.tasksMap[k], now, expungeAfter)

instanceUpdateEffectForTask(inst, k, task, now) ==
    LET updated == applyTaskUpdate(inst, k, task, now)
    IN IF /\ updated.condition = inst.condition
          /\ updated.healthy = inst.healthy
          /\ updated.tasksMap = inst.tasksMap
         THEN Noop
       ELSE IF readyToExpungeUnreachable(updated, now) THEN Expunge
       ELSE IF isTerminalDecomissionedAndEphemeral(updated) THEN Expunge
       ELSE IF shouldAbandonReservation(updated)
         THEN Update([updated EXCEPT !.reservation = "none", !.condition = "Scheduled"])
       ELSE Update(updated)

(* Defect: the incarnation of the task id is not compared.                 *)
mesosUpdateAnyIncarnation(inst, op) ==
    IF op.task \notin DOMAIN inst.tasksMap THEN Fail
    ELSE LET taskEffect == taskUpdate(inst, inst.tasksMap[op.task], TaskCondition(op.status), op.status)
         IN IF taskEffect.update
            THEN instanceUpdateEffectForTask(inst, op.task, taskEffect.task, op.now)
            ELSE Noop

(***************************************************************************)
(* A status whose task the instance does not have is a Failure.  A status  *)
(* that changes nothing may still turn an unreachable instance inactive;   *)
(* there the code matches the outcome against Noop and Update only, and an *)
(* Expunge raises a MatchError, which the tracker answers as a Failure.    *)
(***************************************************************************)
mesosUpdate(inst, op) ==
    IF op.incarnation # inst.incarnation \/ op.task \notin DOMAIN inst.tasksMap THEN Fail
    ELSE LET task == inst.tasksMap[op.task]
             newStatus == TaskCondition(op.status)
             taskEffect == taskUpdate(inst, task, newStatus, op.status)
             effect == instanceUpdateEffectForTask(inst, op.task, taskEffect.task, op.now)
         IN IF taskEffect.update THEN effect
            ELSE IF newStatus = "Unreachable" /\ inst.condition # "UnreachableInactive"
              THEN IF effect.kind = "Expunge" THEN Fail ELSE effect
            ELSE Noop

provision(inst, op) ==
    IF isScheduled(inst)
    THEN Update([inst EXCEPT !.condition = "Provisioned", !.healthy = "absent",
                             !.incarnation = op.incarnation, !.tasksMap = provisionedTasks])
    ELSE Fail

rescheduleReserved(inst) ==
    Update([inst EXCEPT !.condition = "Scheduled", !.healthy = "absent", !.goal = "GoalRunning"])

reserve(inst) == Update([inst EXCEPT !.reservation = "New"])

unreserve(inst) ==
    IF inst.condition \in Terminal /\ inst.goal = "GoalDecommissioned" THEN Expunge ELSE Fail

reservationTimeout(inst) == IF hasReservation(inst) THEN Expunge ELSE Fail

(* Defect: an instance that is over already is kept.                       *)
changeGoalOnly(inst, op) == Update([inst EXCEPT !.goal = op.goal])

changeGoal(inst, op) ==
    LET updated == [inst EXCEPT !.goal = op.goal]
    IN IF isTerminalDecomissionedAndEphemeral(updated) THEN Expunge ELSE Update(updated)

(* The operations; the instance they are about is left to the caller.      *)
Operation ==
    [kind : {"Schedule", "RescheduleReserved", "ReservationTimeout", "Reserve",
             "Unreserve", "ForceExpunge"}]
    \cup [kind : {"Provision"}, incarnation : 1 .. MaxIncarnation]
    \cup [kind : {"ChangeGoal"}, goal : Goal]
    \cup [kind : {"MesosUpdate"}, incarnation : 1 .. MaxIncarnation, task : TaskIndex,
          status : MesosStatus, now : Times]
    \cup [kind : {"Revert"}, instance : Instance]

(***************************************************************************)
(* resolve(maybeInstance, op): Schedule needs an instance that does not    *)
(* exist yet, ForceExpunge and Revert do not care, all others need one.    *)
(***************************************************************************)
resolve(maybeInstance, op) ==
    CASE op.kind = "Revert"   -> Update(op.instance)
      [] op.kind = "Schedule" -> IF maybeInstance = NoInstance THEN Update(scheduled) ELSE Fail
      [] op.kind = "ForceExpunge" -> IF maybeInstance = NoInstance THEN Noop ELSE Expunge
      [] OTHER ->
         IF maybeInstance = NoInstance THEN Fail
         ELSE CASE op.kind = "Provision"          -> provision(maybeInstance, op)
                [] op.kind = "RescheduleReserved" -> rescheduleReserved(maybeInstance)
                [] op.kind = "MesosUpdate"        -> mesosUpdate(maybeInstance, op)
                [] op.kind = "ReservationTimeout" -> reservationTimeout(maybeInstance)
                [] op.kind = "ChangeGoal"         -> changeGoal(maybeInstance, op)
                [] op.kind = "Reserve"            -> reserve(maybeInstance)
                [] op.kind = "Unreserve"          -> unreserve(maybeInstance)

==============================================================================
