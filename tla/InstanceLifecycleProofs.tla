----------------------- MODULE InstanceLifecycleProofs -----------------------
(***************************************************************************)
(* Theorems about InstanceLifecycle, for every number of containers, every *)
(* clock, every set of statuses and any number of concurrent decisions.    *)
(***************************************************************************)
EXTENDS InstanceLifecycle, TLAPS, WellFoundedInduction

------------------------------------------------------------------------------
(* What the pure functions of Instances return                             *)

LEMMA StatusConditionType ==
    ASSUME NEW s \in MesosStatus
    PROVE  TaskCondition(s) \in Condition
  <1>1. inferStateForLost(s.reason) \in Condition
    BY DEF inferStateForLost, Condition, Terminal, Failure, Active
  <1>2. s.state \in MesosState
    BY DEF MesosStatus
  <1> QED BY <1>1, <1>2 DEF TaskCondition, MesosState, Condition, Terminal, Failure, Active

LEMMA NoStatusIsNone == NoStatus \notin MesosStatus
  BY DEF NoStatus, MesosStatus, MesosState

LEMMA taskUpdateType ==
    ASSUME NEW inst, NEW task \in Task, NEW newStatus \in Condition, NEW s \in MesosStatus
    PROVE  taskUpdate(inst, task, newStatus, s).task \in Task
  BY DEF taskUpdate, Task, Condition, Active

(* The hierarchy lists conditions only, so the least of a non-empty set is *)
(* one of them.                                                            *)
LEMMA minByHierarchyType ==
    ASSUME NEW S \in SUBSET Condition, S # {}
    PROVE  minByHierarchy(S) \in S
  <1> DEFINE unlisted == {c \in S : \A n \in 1 .. 13 : conditionHierarchy[n] # c}
             T == {n \in 1 .. 13 : conditionHierarchy[n] \in S}
             IsFirst(n) == /\ conditionHierarchy[n] \in S
                           /\ \A i \in 1 .. n - 1 : conditionHierarchy[i] \notin S
  <1>1. CASE unlisted # {}
    BY <1>1 DEF minByHierarchy
  <1>2. CASE unlisted = {}
    <2>1. T # {} /\ T \subseteq Nat
      BY <1>2
    <2>2. PICK n \in T : \A i \in T : ~(<<i, n>> \in OpToRel(<, Nat))
      BY <2>1, NatLessThanWellFounded, WFMin
    <2>3. ASSUME NEW i \in T PROVE n <= i
      <3>1. i < n => <<i, n>> \in OpToRel(<, Nat)
        BY <2>1, Zenon DEF OpToRel
      <3>2. ~(i < n)
        BY <2>2, <3>1, Zenon
      <3> QED BY <2>1, <3>2
    <2>4. n \in 1 .. 13 /\ IsFirst(n)
      BY <2>3
    <2>5. IsFirst(CHOOSE i \in 1 .. 13 : IsFirst(i))
      BY <2>4
    <2> QED BY <1>2, <2>5 DEF minByHierarchy
  <1> QED BY <1>1, <1>2

LEMMA LaunchedTasks ==
    ASSUME NEW inst \in Instance, NEW k \in DOMAIN inst.tasksMap
    PROVE  inst.tasksMap \in [TaskIndex -> Task] /\ k \in TaskIndex
  BY DEF Instance

LEMMA TasksNotEmpty ==
    ASSUME NEW f \in [TaskIndex -> Task]
    PROVE  f # <<>>
  <1>1. 1 \in DOMAIN f
    BY InstancesAssumption DEF TaskIndex
  <1> QED BY <1>1

LEMMA conditionFromTasksType ==
    ASSUME NEW tasks \in [TaskIndex -> Task], NEW t
    PROVE  LET worst == minByHierarchy({tasks[k].condition : k \in DOMAIN tasks})
           IN /\ conditionFromTasks(tasks, t) \in Condition
              /\ \/ conditionFromTasks(tasks, t) = worst
                 \/ conditionFromTasks(tasks, t) = "UnreachableInactive" /\ worst = "Unreachable"
  <1> DEFINE S == {tasks[k].condition : k \in DOMAIN tasks}
  <1>1. S \in SUBSET Condition /\ S # {}
    BY InstancesAssumption DEF Task, TaskIndex
  <1>2. minByHierarchy(S) \in Condition
    BY <1>1, minByHierarchyType
  <1>3. "UnreachableInactive" \in Condition
    BY DEF Condition
  <1> HIDE DEF S
  <1>4. tasks # <<>>
    BY TasksNotEmpty
  <1>5. conditionFromTasks(tasks, t) \in {minByHierarchy(S), "UnreachableInactive"}
    BY <1>4 DEF conditionFromTasks, S
  <1>6. conditionFromTasks(tasks, t) # minByHierarchy(S) => minByHierarchy(S) = "Unreachable"
    BY <1>4 DEF conditionFromTasks, S
  <1> QED BY <1>2, <1>3, <1>5, <1>6 DEF S

(* A task update leaves a well-typed instance whose condition agrees with  *)
(* its tasks, and touches neither the goal nor the incarnation.            *)
LEMMA applyTaskUpdateResult ==
    ASSUME NEW inst \in Instance, NEW k \in DOMAIN inst.tasksMap, NEW task \in Task, NEW t
    PROVE  LET updated == applyTaskUpdate(inst, k, task, t)
           IN /\ updated \in Instance
              /\ ConditionAgrees(updated)
              /\ updated.incarnation = inst.incarnation
              /\ updated.tasksMap = [inst.tasksMap EXCEPT ![k] = task]
  <1> DEFINE tasks == [inst.tasksMap EXCEPT ![k] = task]
             updated == applyTaskUpdate(inst, k, task, t)
  <1>1. tasks \in [TaskIndex -> Task]
    BY LaunchedTasks
  <1>2. computeHealth(tasks) \in {"absent", "healthy", "unhealthy"}
    BY DEF computeHealth
  <1>3. conditionFromTasks(tasks, t) \in Condition
    BY <1>1, conditionFromTasksType
  <1> HIDE DEF tasks
  <1>4. updated = [inst EXCEPT
                     !.tasksMap = tasks,
                     !.condition = conditionFromTasks(tasks, t),
                     !.healthy = computeHealth(tasks),
                     !.reservation = IF task.condition \in Terminal /\ hasReservation(inst)
                                     THEN "Suspended" ELSE inst.reservation]
    BY DEF applyTaskUpdate, tasks, Instance
  <1> HIDE DEF updated
  <1>5. updated \in Instance
    BY <1>1, <1>2, <1>3, <1>4 DEF Instance
  <1>6. updated.incarnation = inst.incarnation /\ updated.tasksMap = tasks
         /\ updated.condition = conditionFromTasks(tasks, t)
    BY <1>4 DEF Instance
  <1>7. ConditionAgrees(updated)
    BY <1>1, <1>6, conditionFromTasksType, TasksNotEmpty DEF ConditionAgrees
  <1> QED BY <1>5, <1>6, <1>7 DEF updated, tasks

------------------------------------------------------------------------------
(* What the operations do                                                  *)

LEMMA taskUpdateTerminal ==
    ASSUME NEW inst, NEW task \in Task, NEW newStatus \in Condition, NEW s \in MesosStatus,
           taskUpdate(inst, task, newStatus, s).task.condition \in Terminal
    PROVE  LET updated == taskUpdate(inst, task, newStatus, s).task
           IN \/ task.condition \in Terminal /\ updated = task
              \/ newStatus \in Terminal /\ updated.mesosStatus = s
  BY DEF taskUpdate, Task, Terminal, Failure

LEMMA OperationFields ==
    ASSUME NEW op \in Operation
    PROVE  /\ op.kind \in {"Schedule", "RescheduleReserved", "ReservationTimeout", "Reserve",
                           "Unreserve", "ForceExpunge", "Provision", "ChangeGoal", "MesosUpdate", "Revert"}
           /\ op.kind = "Provision" => op.incarnation \in Incarnation
           /\ op.kind = "ChangeGoal" => op.goal \in Goal
           /\ op.kind = "Revert" => op.instance \in Instance
           /\ op.kind = "MesosUpdate" =>
                /\ op.incarnation \in Incarnation
                /\ op.task \in TaskIndex
                /\ op.status \in MesosStatus
                /\ op.now \in Times
  BY DEF Operation, Incarnation

(* Neither the data nor the condition changes when the reservation is      *)
(* abandoned.                                                              *)
LEMMA instanceUpdateEffectResult ==
    ASSUME NEW inst \in Instance, NEW k \in DOMAIN inst.tasksMap, NEW task \in Task, NEW t
    PROVE  LET e == instanceUpdateEffectForTask(inst, k, task, t)
           IN /\ e \in {Noop, Expunge} \/ e = Update(e.instance)
              /\ e.kind = "Update" =>
                   /\ e.instance \in Instance
                   /\ ConditionAgrees(e.instance)
                   /\ e.instance.incarnation = inst.incarnation
                   /\ e.instance.tasksMap = [inst.tasksMap EXCEPT ![k] = task]
  <1> DEFINE updated == applyTaskUpdate(inst, k, task, t)
             abandoned == [updated EXCEPT !.reservation = "none", !.condition = "Scheduled"]
             e == instanceUpdateEffectForTask(inst, k, task, t)
  <1>1. /\ updated \in Instance
        /\ ConditionAgrees(updated)
        /\ updated.incarnation = inst.incarnation
        /\ updated.tasksMap = [inst.tasksMap EXCEPT ![k] = task]
    BY applyTaskUpdateResult
  <1> HIDE DEF updated
  <1>2. /\ abandoned \in Instance
        /\ abandoned.condition = "Scheduled"
        /\ abandoned.incarnation = inst.incarnation
        /\ abandoned.tasksMap = [inst.tasksMap EXCEPT ![k] = task]
    BY <1>1 DEF Instance, Condition
  <1>3. ConditionAgrees(abandoned)
    BY <1>2 DEF ConditionAgrees
  <1>4. e \in {Noop, Expunge, Update(abandoned), Update(updated)}
    BY DEF instanceUpdateEffectForTask, updated
  <1> HIDE DEF abandoned, e
  <1>5. CASE e = Update(abandoned)
    BY <1>2, <1>3, <1>5 DEF Update, e
  <1>6. CASE e = Update(updated)
    BY <1>1, <1>6 DEF Update, e
  <1>7. CASE e \in {Noop, Expunge}
    BY <1>7 DEF Noop, Expunge, e
  <1> QED BY <1>4, <1>5, <1>6, <1>7

LEMMA mesosUpdateResult ==
    ASSUME NEW inst \in Instance, NEW op \in Operation, op.kind = "MesosUpdate"
    PROVE  LET e == mesosUpdate(inst, op)
           IN /\ e \in {Noop, Expunge, Fail} \/ e = Update(e.instance)
              /\ e.kind = "Update" =>
                   /\ e.instance \in Instance
                   /\ ConditionAgrees(e.instance)
                   /\ op.incarnation = inst.incarnation
                   /\ e.instance.incarnation = inst.incarnation
                   /\ op.task \in DOMAIN inst.tasksMap
                   /\ DOMAIN e.instance.tasksMap = DOMAIN inst.tasksMap
                   /\ \A k \in DOMAIN inst.tasksMap :
                        e.instance.tasksMap[k].condition \in Terminal =>
                          \/ /\ inst.tasksMap[k].condition \in Terminal
                             /\ e.instance.tasksMap[k] = inst.tasksMap[k]
                          \/ /\ k = op.task /\ TaskCondition(op.status) \in Terminal
                             /\ e.instance.tasksMap[k].mesosStatus = op.status
  <1> DEFINE e == mesosUpdate(inst, op)
  <1>1. CASE op.incarnation # inst.incarnation \/ op.task \notin DOMAIN inst.tasksMap
    BY <1>1 DEF mesosUpdate, Fail
  <1>2. CASE op.incarnation = inst.incarnation /\ op.task \in DOMAIN inst.tasksMap
    <2> DEFINE task == inst.tasksMap[op.task]
               newTask == taskUpdate(inst, task, TaskCondition(op.status), op.status).task
               f == instanceUpdateEffectForTask(inst, op.task, newTask, op.now)
    <2>1. inst.tasksMap \in [TaskIndex -> Task] /\ task \in Task
      BY <1>2, LaunchedTasks
    <2>2. op.status \in MesosStatus /\ TaskCondition(op.status) \in Condition
      BY OperationFields, StatusConditionType
    <2>3. newTask \in Task
      BY <2>1, <2>2, taskUpdateType
    <2>4. newTask.condition \in Terminal =>
             \/ task.condition \in Terminal /\ newTask = task
             \/ TaskCondition(op.status) \in Terminal /\ newTask.mesosStatus = op.status
      BY <2>1, <2>2, taskUpdateTerminal
    <2>5. /\ f \in {Noop, Expunge} \/ f = Update(f.instance)
          /\ f.kind = "Update" =>
               /\ f.instance \in Instance
               /\ ConditionAgrees(f.instance)
               /\ f.instance.incarnation = inst.incarnation
               /\ f.instance.tasksMap = [inst.tasksMap EXCEPT ![op.task] = newTask]
      BY <1>2, <2>3, instanceUpdateEffectResult
    <2>6. e \in {f, Fail, Noop}
      BY <1>2 DEF mesosUpdate
    <2> HIDE DEF f, e
    <2>7. CASE e = f
      <3> HIDE DEF newTask
      <3> QED BY <1>2, <2>1, <2>4, <2>5, <2>7 DEF e
    <2>8. CASE e \in {Fail, Noop}
      BY <2>8 DEF Fail, Noop, e
    <2> QED BY <2>6, <2>7, <2>8
  <1> QED BY <1>1, <1>2

------------------------------------------------------------------------------
(* The inductive invariant                                                 *)

(***************************************************************************)
(* The tasks that have been launched and are over in Mesos, or (third      *)
(* component TRUE) of which Mesos has said that they are over and may yet  *)
(* return.  A task that has been either remains so.                        *)
(***************************************************************************)
DeadTasks ==
    {task \in Incarnation \X TaskIndex \X BOOLEAN :
        /\ launches[task[1]] > 0
        /\ IF task[3] THEN <<task[1], task[2]>> \in vanished ELSE ~isLive(task[1], task[2])}

(***************************************************************************)
(* What must hold of every instance that anyone holds a copy of, because a *)
(* revert may put any such copy back: its condition agrees with its tasks, *)
(* and a task that is over in it has been launched and is over in Mesos,   *)
(* or Mesos has said as much as the status does by which it is over.       *)
(***************************************************************************)
Confirmed(inst, dead) ==
    /\ ConditionAgrees(inst)
    /\ \A k \in DOMAIN inst.tasksMap :
         inst.tasksMap[k].condition \in Terminal =>
            <<inst.incarnation, k, mayReturn(inst.tasksMap[k].mesosStatus)>> \in dead

(* What a decided operation carries.                                       *)
OperationConfirmed(op, dead) ==
    /\ op.kind = "Revert" => Confirmed(op.instance, dead)
    /\ op.kind = "MesosUpdate" /\ TaskCondition(op.status) \in Terminal =>
          <<op.incarnation, op.task, mayReturn(op.status)>> \in dead

InstancesConfirmed ==
    /\ Exists => Confirmed(instance, DeadTasks)
    /\ launch.old # NoInstance => Confirmed(launch.old, DeadTasks)
    /\ \A op \in pending : OperationConfirmed(op, DeadTasks)

UnlaunchedUnknown ==
    \A inc \in Incarnation, k \in TaskIndex : launches[inc] = 0 => mesos[inc][k] = NoStatus

(* A task that may return has been seen to vanish.                         *)
VanishedSeen ==
    \A inc \in Incarnation, k \in TaskIndex : mayReturn(mesos[inc][k]) => <<inc, k>> \in vanished

IInv == TypeOK /\ InstancesConfirmed /\ UnlaunchedUnknown /\ VanishedSeen

LEMMA ConfirmedStays ==
    ASSUME NEW inst, NEW D, NEW E, D \subseteq E, Confirmed(inst, D)
    PROVE  Confirmed(inst, E)
  BY DEF Confirmed

LEMMA OperationConfirmedStays ==
    ASSUME NEW op, NEW D, NEW E, D \subseteq E, OperationConfirmed(op, D)
    PROVE  OperationConfirmed(op, E)
  BY ConfirmedStays DEF OperationConfirmed

(* A launch: all tasks provisioned, and so is the instance.                *)
LEMMA ProvisionedAgrees ==
    ASSUME NEW inst, inst.condition = "Provisioned", inst.tasksMap = provisionedTasks
    PROVE  ConditionAgrees(inst)
  <1> DEFINE S == {inst.tasksMap[k].condition : k \in DOMAIN inst.tasksMap}
  <1>1. provisionedTasks \in [TaskIndex -> Task]
    BY DEF provisionedTasks, Task, Condition, Active
  <1>2. inst.tasksMap # <<>>
    BY <1>1, TasksNotEmpty
  <1>3. S = {"Provisioned"}
    <2>1. /\ DOMAIN inst.tasksMap = TaskIndex
          /\ \A k \in TaskIndex : inst.tasksMap[k].condition = "Provisioned"
      BY DEF provisionedTasks
    <2>2. 1 \in TaskIndex
      BY InstancesAssumption DEF TaskIndex
    <2> QED BY <2>1, <2>2
  <1>4. S \in SUBSET Condition /\ S # {}
    BY <1>3 DEF Condition, Active
  <1> HIDE DEF S
  <1>5. minByHierarchy(S) = "Provisioned"
    BY <1>3, <1>4, minByHierarchyType
  <1> QED BY <1>2, <1>5 DEF ConditionAgrees, S

(***************************************************************************)
(* Every operation keeps the invariant of the instance, whatever instance  *)
(* it meets.                                                               *)
(***************************************************************************)
LEMMA resolveConfirmed ==
    ASSUME NEW inst \in Instance \cup {NoInstance}, NEW op \in Operation, NEW D,
           inst # NoInstance => Confirmed(inst, D),
           OperationConfirmed(op, D)
    PROVE  LET e == resolve(inst, op)
           IN \/ e \in {Noop, Expunge, Fail}
              \/ e = Update(e.instance) /\ e.instance \in Instance /\ Confirmed(e.instance, D)
  <1> DEFINE e == resolve(inst, op)
             Goal1(x) == \/ x \in {Noop, Expunge, Fail}
                         \/ x = Update(x.instance) /\ x.instance \in Instance /\ Confirmed(x.instance, D)
  <1>a. \A i \in Instance : Confirmed(i, D) => Goal1(Update(i))
    BY DEF Update
  <1> HIDE DEF Goal1
  <1>b. Goal1(Noop) /\ Goal1(Expunge) /\ Goal1(Fail)
    BY DEF Goal1
  <1>c. NoInstance \notin Instance
    BY LifecycleAssumption
  <1>1. CASE op.kind = "Revert"
    <2>1. op.instance \in Instance /\ Confirmed(op.instance, D)
      BY <1>1, OperationFields DEF OperationConfirmed
    <2>2. e = Update(op.instance)
      BY <1>1 DEF resolve
    <2> QED BY <2>1, <2>2, <1>a DEF Goal1
  <1>2. CASE op.kind = "Schedule"
    <2>1. scheduled \in Instance
      BY InstancesAssumption DEF scheduled, Instance, Condition, Goal
    <2>2. Confirmed(scheduled, D)
      BY DEF scheduled, Confirmed, ConditionAgrees
    <2>3. e \in {Update(scheduled), Fail}
      BY <1>2 DEF resolve
    <2> QED BY <2>1, <2>2, <2>3, <1>a, <1>b DEF Goal1
  <1>3. CASE op.kind = "ForceExpunge"
    <2>1. e \in {Noop, Expunge}
      BY <1>3 DEF resolve
    <2> QED BY <2>1, <1>b DEF Goal1
  <1>4. CASE op.kind \notin {"Revert", "Schedule", "ForceExpunge"} /\ inst = NoInstance
    <2>1. e = Fail
      BY <1>4 DEF resolve
    <2> QED BY <2>1, <1>b DEF Goal1
  <1>5. CASE op.kind \notin {"Revert", "Schedule", "ForceExpunge"} /\ inst # NoInstance
    <2>0. inst \in Instance /\ Confirmed(inst, D)
      BY <1>5
    <2>1. CASE op.kind = "Provision"
      <3> DEFINE new == [inst EXCEPT !.condition = "Provisioned", !.healthy = "absent",
                                     !.incarnation = op.incarnation, !.tasksMap = provisionedTasks]
      <3>1. provisionedTasks \in [TaskIndex -> Task]
        BY DEF provisionedTasks, Task, Condition, Active
      <3>2. op.incarnation \in 0 .. MaxIncarnation
        BY <2>1, OperationFields, InstancesAssumption DEF Incarnation
      <3>3. new \in Instance /\ new.condition = "Provisioned" /\ new.tasksMap = provisionedTasks
        <4> HIDE DEF provisionedTasks
        <4>1. "Provisioned" \in Condition
          BY DEF Condition, Active
        <4> QED BY <2>0, <3>1, <3>2, <4>1 DEF Instance
      <3>5. e \in {Update(new), Fail}
        BY <2>1, <1>5 DEF resolve, provision
      <3> HIDE DEF new
      <3>4. Confirmed(new, D)
        <4>1. \A k \in DOMAIN new.tasksMap : new.tasksMap[k].condition = "Provisioned"
          BY <3>3 DEF provisionedTasks
        <4>2. "Provisioned" \notin Terminal
          BY DEF Terminal, Failure
        <4> QED BY <3>3, <4>1, <4>2, ProvisionedAgrees DEF Confirmed
      <3> QED BY <3>3, <3>4, <3>5, <1>a, <1>b DEF Goal1
    <2>2. CASE op.kind = "RescheduleReserved"
      <3> DEFINE new == [inst EXCEPT !.condition = "Scheduled", !.healthy = "absent", !.goal = "GoalRunning"]
      <3>1. /\ new \in Instance
            /\ new.condition = "Scheduled"
            /\ new.tasksMap = inst.tasksMap
            /\ new.incarnation = inst.incarnation
        BY <2>0 DEF Instance, Condition, Goal
      <3>2. e = Update(new)
        BY <2>2, <1>5 DEF resolve, rescheduleReserved
      <3> HIDE DEF new
      <3>3. Confirmed(new, D)
        BY <2>0, <3>1 DEF Confirmed, ConditionAgrees
      <3> QED BY <3>1, <3>2, <3>3, <1>a DEF Goal1
    <2>3. CASE op.kind \in {"Reserve", "ChangeGoal"}
      <3> DEFINE reserved == [inst EXCEPT !.reservation = "New"]
                 changed == [inst EXCEPT !.goal = op.goal]
                 Same(new) == /\ new \in Instance
                              /\ new.condition = inst.condition
                              /\ new.tasksMap = inst.tasksMap
                              /\ new.incarnation = inst.incarnation
      <3>1. \A new : Same(new) => Confirmed(new, D)
        BY <2>0 DEF Confirmed, ConditionAgrees
      <3>2. Same(reserved)
        BY <2>0 DEF Instance
      <3>3. op.kind = "ChangeGoal" => Same(changed)
        BY <2>0, OperationFields DEF Instance
      <3>4. \/ e = Update(reserved)
            \/ op.kind = "ChangeGoal" /\ e \in {Update(changed), Expunge}
        BY <2>3, <1>5 DEF resolve, reserve, changeGoal
      <3> HIDE DEF reserved, changed
      <3> QED BY <3>1, <3>2, <3>3, <3>4, <1>a, <1>b DEF Goal1
    <2>4. CASE op.kind \in {"Unreserve", "ReservationTimeout"}
      <3>1. e \in {Expunge, Fail}
        BY <2>4, <1>5 DEF resolve, unreserve, reservationTimeout
      <3> QED BY <3>1, <1>b DEF Goal1
    <2>5. CASE op.kind = "MesosUpdate"
      <3> DEFINE u == mesosUpdate(inst, op)
      <3>1. e = u
        BY <2>5, <1>5 DEF resolve
      <3>2. /\ u \in {Noop, Expunge, Fail} \/ u = Update(u.instance)
            /\ u.kind = "Update" =>
                 /\ u.instance \in Instance
                 /\ ConditionAgrees(u.instance)
                 /\ op.incarnation = inst.incarnation
                 /\ u.instance.incarnation = inst.incarnation
                 /\ op.task \in DOMAIN inst.tasksMap
                 /\ DOMAIN u.instance.tasksMap = DOMAIN inst.tasksMap
                 /\ \A k \in DOMAIN inst.tasksMap :
                      u.instance.tasksMap[k].condition \in Terminal =>
                        \/ /\ inst.tasksMap[k].condition \in Terminal
                           /\ u.instance.tasksMap[k] = inst.tasksMap[k]
                        \/ /\ k = op.task /\ TaskCondition(op.status) \in Terminal
                           /\ u.instance.tasksMap[k].mesosStatus = op.status
        BY <2>0, <2>5, mesosUpdateResult
      <3> HIDE DEF u
      <3>3. CASE u \in {Noop, Expunge, Fail}
        BY <3>1, <3>3, <1>b DEF Goal1
      <3>4. CASE u = Update(u.instance)
        <4>1. u.kind = "Update"
          BY <3>4 DEF Update
        <4>2. Confirmed(u.instance, D)
          BY <2>0, <2>5, <3>2, <4>1 DEF Confirmed, OperationConfirmed
        <4> QED BY <3>1, <3>2, <3>4, <4>1, <4>2, <1>a DEF Goal1
      <3> QED BY <3>2, <3>3, <3>4
    <2> QED BY <1>5, <2>1, <2>2, <2>3, <2>4, <2>5, OperationFields
  <1> QED BY <1>1, <1>2, <1>3, <1>4, <1>5

------------------------------------------------------------------------------
(* Every step keeps the invariant                                          *)

LEMMA InitIInv == Init => IInv
  <1> SUFFICES ASSUME Init PROVE IInv
    OBVIOUS
  <1>1. Schedule \in Operation /\ ForceExpunge \in Operation
    BY DEF Schedule, ForceExpunge, Operation
  <1>2. TypeOK
    BY <1>1, LifecycleAssumption DEF Init, TypeOK, NoLaunch
  <1>3. InstancesConfirmed
    BY DEF Init, InstancesConfirmed, Exists, NoLaunch, OperationConfirmed, Schedule
  <1>4. UnlaunchedUnknown
    BY DEF Init, UnlaunchedUnknown
  <1>5. VanishedSeen
    BY DEF Init, VanishedSeen, mayReturn, NoStatus
  <1> QED BY <1>2, <1>3, <1>4, <1>5 DEF IInv

LEMMA SameMesosSameDead ==
    ASSUME UNCHANGED <<mesos, launches, vanished>>
    PROVE  /\ DeadTasks' = DeadTasks
           /\ UnlaunchedUnknown' = UnlaunchedUnknown
           /\ VanishedSeen' = VanishedSeen
  BY DEF DeadTasks, isLive, UnlaunchedUnknown, VanishedSeen

(* Deciding on a confirmed operation changes nothing else.                 *)
LEMMA DecideKeepsIInv ==
    ASSUME IInv, NEW op \in Operation, OperationConfirmed(op, DeadTasks), Decide(op),
           UNCHANGED <<instance, launch, mesos, launches, vanished, now>>
    PROVE  IInv'
  <1>1. DeadTasks' = DeadTasks /\ UnlaunchedUnknown' = UnlaunchedUnknown /\ VanishedSeen' = VanishedSeen
    BY SameMesosSameDead
  <1>2. TypeOK'
    BY DEF IInv, TypeOK, Decide
  <1>3. InstancesConfirmed'
    BY <1>1 DEF IInv, InstancesConfirmed, Decide, Exists
  <1> QED BY <1>1, <1>2, <1>3 DEF IInv

(* These operations carry neither an instance nor a status.                *)
LEMMA PlainOperations ==
    /\ \A op \in {RescheduleReserved, Reserve, Unreserve, ForceExpunge, ReservationTimeout} :
         op \in Operation /\ \A D : OperationConfirmed(op, D)
    /\ \A goal \in Goal : ChangeGoal(goal) \in Operation /\ \A D : OperationConfirmed(ChangeGoal(goal), D)
    /\ \A inc \in Incarnation : Provision(inc) \in Operation /\ \A D : OperationConfirmed(Provision(inc), D)
  BY DEF Operation, OperationConfirmed, RescheduleReserved, Reserve, Unreserve, ForceExpunge,
         ReservationTimeout, ChangeGoal, Provision, Incarnation

LEMMA revertOpConfirmed ==
    ASSUME NEW l, NEW D, l.old # NoInstance => l.old \in Instance /\ Confirmed(l.old, D)
    PROVE  revertOp(l) \in Operation /\ OperationConfirmed(revertOp(l), D)
  <1>1. CASE l.old = NoInstance
    BY <1>1, PlainOperations DEF revertOp
  <1>2. CASE l.old # NoInstance
    BY <1>2 DEF revertOp, Revert, Operation, OperationConfirmed
  <1> QED BY <1>1, <1>2

LEMMA MatchOfferKeepsIInv == IInv /\ MatchOffer => IInv'
  <1> SUFFICES ASSUME IInv, MatchOffer PROVE IInv'
    OBVIOUS
  <1>1. DeadTasks' = DeadTasks /\ UnlaunchedUnknown' = UnlaunchedUnknown /\ VanishedSeen' = VanishedSeen
    BY SameMesosSameDead DEF MatchOffer
  <1>2. instance \in Instance /\ Confirmed(instance, DeadTasks)
    BY DEF IInv, TypeOK, InstancesConfirmed, MatchOffer, Exists
  <1>3. /\ launch'.phase = "saving"
        /\ launch'.op \in Operation
        /\ OperationConfirmed(launch'.op, DeadTasks)
        /\ launch'.old \in {NoInstance, instance}
        /\ launch' = [phase |-> launch'.phase, op |-> launch'.op, old |-> launch'.old]
    <2>1. CASE isScheduled(instance) /\ Resident /\ ~hasReservation(instance)
      <3>1. launch' = [phase |-> "saving", op |-> Reserve, old |-> NoInstance]
        BY <2>1 DEF MatchOffer, OfferOp
      <3> QED BY <3>1, PlainOperations
    <2>2. CASE isScheduled(instance) /\ ~(Resident /\ ~hasReservation(instance))
      <3>1. launch' = [phase |-> "saving", op |-> Provision(instance.incarnation + 1),
                       old |-> IF Resident THEN instance ELSE NoInstance]
        BY <2>2 DEF MatchOffer, OfferOp
      <3>2. ~terminalResident(instance)
        BY <2>2 DEF terminalResident, isScheduled
      <3>3. instance.incarnation + 1 \in Incarnation
        BY <1>2, <3>2, InstancesAssumption DEF MatchOffer, Incarnation, Instance
      <3> QED BY <3>1, <3>3, PlainOperations
    <2>3. CASE ~isScheduled(instance)
      <3>1. launch' = [phase |-> "saving", op |-> Unreserve, old |-> instance]
        BY <2>3 DEF MatchOffer, OfferOp
      <3> QED BY <3>1, PlainOperations
    <2> QED BY <2>1, <2>2, <2>3
  <1>4. TypeOK'
    BY <1>2, <1>3 DEF IInv, TypeOK, MatchOffer, Decide
  <1>5. InstancesConfirmed'
    BY <1>1, <1>2, <1>3 DEF IInv, InstancesConfirmed, MatchOffer, Decide, Exists
  <1> QED BY <1>1, <1>4, <1>5 DEF IInv

(* Mesos moving on does not disturb what is confirmed, as long as no dead  *)
(* task comes back.                                                        *)
LEMMA DeadStaysDead ==
    ASSUME InstancesConfirmed, DeadTasks \subseteq DeadTasks',
           UNCHANGED <<instance, pending>>, launch'.old \in {launch.old, NoInstance}
    PROVE  InstancesConfirmed'
  BY ConfirmedStays, OperationConfirmedStays DEF InstancesConfirmed, Exists

LEMMA AcceptOfferKeepsIInv == IInv /\ AcceptOffer => IInv'
  <1> SUFFICES ASSUME IInv, AcceptOffer PROVE IInv'
    OBVIOUS
  <1> DEFINE staging == [state |-> "TASK_STAGING", reason |-> "REASON_OTHER",
                         healthy |-> "absent", check |-> "absent", since |-> 0]
  <1>1. staging \in MesosStatus
    BY LifecycleAssumption DEF MesosStatus, MesosState
  <1>2. NoLaunch \in [phase : {"idle", "saving", "reverting", "saved"}, op : Operation,
                      old : Instance \cup {NoInstance}]
    BY PlainOperations DEF NoLaunch
  <1>3. launch' = NoLaunch /\ launch'.old = NoInstance /\ UNCHANGED <<instance, pending, vanished, now>>
    BY DEF AcceptOffer, NoLaunch
  <1>4. CASE launch.op.kind # "Provision"
    <2>1. UNCHANGED <<mesos, launches>>
      BY <1>4 DEF AcceptOffer
    <2>2. DeadTasks' = DeadTasks /\ UnlaunchedUnknown' = UnlaunchedUnknown /\ VanishedSeen' = VanishedSeen
      BY <1>3, <2>1, SameMesosSameDead
    <2>3. TypeOK'
      BY <1>2, <1>3, <2>1 DEF IInv, TypeOK
    <2>4. InstancesConfirmed'
      BY <1>3, <2>2, DeadStaysDead DEF IInv
    <2> QED BY <2>2, <2>3, <2>4 DEF IInv
  <1>5. CASE launch.op.kind = "Provision"
    <2> DEFINE inc == launch.op.incarnation
    <2>1. inc \in Incarnation
      BY <1>5, OperationFields DEF IInv, TypeOK
    <2>2. /\ launches[inc] < 2
          /\ launches' = [launches EXCEPT ![inc] = @ + 1]
          /\ mesos' = IF launches[inc] = 0
                      THEN [mesos EXCEPT ![inc] = [k \in TaskIndex |-> staging]]
                      ELSE mesos
      BY <1>5 DEF AcceptOffer
    <2>0. ~mayReturn(staging)
      BY DEF mayReturn
    <2> HIDE DEF inc, staging
    <2>3. launches' \in [Incarnation -> 0 .. 2]
      BY <2>1, <2>2 DEF IInv, TypeOK
    <2>4. mesos' \in [Incarnation -> [TaskIndex -> MesosStatus \cup {NoStatus}]]
      BY <1>1, <2>1, <2>2 DEF IInv, TypeOK
    <2>5. TypeOK'
      BY <1>2, <1>3, <2>3, <2>4 DEF IInv, TypeOK
    <2>6. DeadTasks \subseteq DeadTasks'
      <3> SUFFICES ASSUME NEW i \in Incarnation, NEW k \in TaskIndex, launches[i] > 0
                   PROVE  launches'[i] > 0 /\ (isLive(i, k)' => isLive(i, k))
        BY <1>3, Zenon DEF DeadTasks
      <3>1. mesos'[i] = mesos[i]
        BY <2>1, <2>2 DEF IInv, TypeOK
      <3>2. launches'[i] > 0
        BY <2>1, <2>2 DEF IInv, TypeOK
      <3> QED BY <3>1, <3>2 DEF isLive
    <2>7. InstancesConfirmed'
      BY <1>3, <2>6, DeadStaysDead DEF IInv
    <2>8. UnlaunchedUnknown'
      <3> SUFFICES ASSUME NEW i \in Incarnation, NEW k \in TaskIndex, launches'[i] = 0
                   PROVE  mesos'[i][k] = NoStatus
        BY DEF UnlaunchedUnknown
      <3>1. i # inc
        BY <2>1, <2>2 DEF IInv, TypeOK
      <3>2. launches[i] = 0 /\ mesos'[i] = mesos[i]
        BY <2>1, <2>2, <3>1 DEF IInv, TypeOK
      <3> QED BY <3>2 DEF IInv, UnlaunchedUnknown
    <2>9. VanishedSeen'
      <3> SUFFICES ASSUME NEW i \in Incarnation, NEW k \in TaskIndex, mayReturn(mesos'[i][k])
                   PROVE  <<i, k>> \in vanished
        BY <1>3 DEF VanishedSeen
      <3>1. mesos'[i][k] = mesos[i][k]
        BY <2>0, <2>1, <2>2 DEF IInv, TypeOK
      <3> QED BY <3>1 DEF IInv, VanishedSeen
    <2> QED BY <2>5, <2>7, <2>8, <2>9 DEF IInv
  <1> QED BY <1>4, <1>5

LEMMA RejectOfferKeepsIInv == IInv /\ RejectOffer => IInv'
  <1> SUFFICES ASSUME IInv, RejectOffer PROVE IInv'
    OBVIOUS
  <1>1. DeadTasks' = DeadTasks /\ UnlaunchedUnknown' = UnlaunchedUnknown /\ VanishedSeen' = VanishedSeen
    BY SameMesosSameDead DEF RejectOffer
  <1>2. revertOp(launch) \in Operation /\ OperationConfirmed(revertOp(launch), DeadTasks)
    BY revertOpConfirmed DEF IInv, TypeOK, InstancesConfirmed
  <1>3. NoLaunch \in [phase : {"idle", "saving", "reverting", "saved"}, op : Operation,
                      old : Instance \cup {NoInstance}] /\ NoLaunch.old = NoInstance
    BY PlainOperations DEF NoLaunch
  <1>4. TypeOK'
    BY <1>2, <1>3 DEF IInv, TypeOK, RejectOffer
  <1>5. InstancesConfirmed'
    BY <1>1, <1>2, <1>3 DEF IInv, InstancesConfirmed, RejectOffer, Exists
  <1> QED BY <1>1, <1>4, <1>5 DEF IInv

(* A live task of Mesos changes its status: dead ones are as they were.    *)
LEMMA LiveTaskMovesKeepsIInv ==
    ASSUME IInv, NEW inc \in Incarnation, NEW k \in TaskIndex, NEW s \in MesosStatus,
           isLive(inc, k), mesos' = [mesos EXCEPT ![inc][k] = s],
           vanished' = IF mayReturn(s) THEN vanished \cup {<<inc, k>>} ELSE vanished,
           UNCHANGED <<instance, pending, launch, launches, now>>
    PROVE  IInv'
  <1>0. mesos \in [Incarnation -> [TaskIndex -> MesosStatus \cup {NoStatus}]]
    BY DEF IInv, TypeOK
  <1>1. TypeOK'
    BY <1>0 DEF IInv, TypeOK
  <1>2. \A i \in Incarnation, j \in TaskIndex : <<i, j>> # <<inc, k>> => mesos'[i][j] = mesos[i][j]
    BY <1>0
  <1>3. DeadTasks \subseteq DeadTasks'
    <2>0. vanished \subseteq vanished'
      OBVIOUS
    <2> SUFFICES ASSUME NEW i \in Incarnation, NEW j \in TaskIndex,
                        launches[i] > 0, ~isLive(i, j)
                 PROVE  launches'[i] > 0 /\ ~isLive(i, j)'
      BY <2>0, Zenon DEF DeadTasks
    <2>1. <<i, j>> # <<inc, k>>
      OBVIOUS
    <2> QED BY <1>2, <2>1 DEF isLive
  <1>4. InstancesConfirmed'
    BY <1>3, DeadStaysDead DEF IInv
  <1>5. UnlaunchedUnknown'
    <2>1. launches[inc] # 0
      BY DEF IInv, UnlaunchedUnknown, isLive
    <2> QED BY <1>2, <2>1 DEF IInv, UnlaunchedUnknown
  <1>6. VanishedSeen'
    <2>1. mesos'[inc][k] = s
      BY <1>0
    <2> QED BY <1>2, <2>1 DEF IInv, VanishedSeen
  <1> QED BY <1>1, <1>4, <1>5, <1>6 DEF IInv

LEMMA MesosStepKeepsIInv ==
    ASSUME IInv, NEW inc \in Incarnation, NEW k \in TaskIndex, NEW s \in Statuses, MesosStep(inc, k, s)
    PROVE  IInv'
  <1>1. stamped(s) \in MesosStatus
    BY LifecycleAssumption DEF stamped, MesosStatus, IInv, TypeOK
  <1>2. mayReturn(stamped(s)) = mayReturn(s)
    BY DEF stamped, mayReturn
  <1>3. vanished' = IF mayReturn(stamped(s)) THEN vanished \cup {<<inc, k>>} ELSE vanished
    BY <1>2 DEF MesosStep
  <1> QED BY <1>1, <1>3, LiveTaskMovesKeepsIInv DEF MesosStep

LEMMA ReportKeepsIInv ==
    ASSUME IInv, NEW inc \in Incarnation, NEW k \in TaskIndex, Report(inc, k)
    PROVE  IInv'
  <1>1. mesos[inc][k] \in MesosStatus /\ now \in Times
    BY DEF Report, IInv, TypeOK
  <1>2. CASE Exists /\ instance.incarnation = inc
    <2> DEFINE op == MesosUpdate(inc, k, mesos[inc][k])
    <2>1. Decide(op) /\ UNCHANGED <<instance, launch, mesos, launches, vanished, now>>
      BY <1>2 DEF Report
    <2>2. op \in Operation
      BY <1>1 DEF MesosUpdate, Operation, Incarnation
    <2>3. launches[inc] > 0
      BY DEF Report, IInv, UnlaunchedUnknown, TypeOK
    <2>4. TaskCondition(mesos[inc][k]) \in Terminal => <<inc, k, mayReturn(mesos[inc][k])>> \in DeadTasks
      <3>1. mayReturn(mesos[inc][k]) \in BOOLEAN
        BY DEF mayReturn
      <3>2. mayReturn(mesos[inc][k]) => <<inc, k>> \in vanished
        BY DEF IInv, VanishedSeen
      <3> QED BY <2>3, <3>1, <3>2 DEF DeadTasks, isLive
    <2>5. OperationConfirmed(op, DeadTasks)
      BY <2>4 DEF OperationConfirmed, MesosUpdate
    <2> HIDE DEF op
    <2> QED BY <2>1, <2>2, <2>5, DecideKeepsIInv
  <1>3. CASE ~(Exists /\ instance.incarnation = inc)
    <2> DEFINE s == [mesos[inc][k] EXCEPT !.state = "TASK_KILLED", !.healthy = "absent"]
    <2>1. s \in MesosStatus
      BY <1>1 DEF MesosStatus, MesosState
    <2>2. isLive(inc, k)
      BY <1>3 DEF Report, isLive, ignoreWhenUnknown
    <2>3. mesos' = [mesos EXCEPT ![inc][k] = s]
      BY <1>3 DEF Report, IInv, TypeOK
    <2>4. UNCHANGED <<instance, pending, launch, launches, now>> /\ vanished' = vanished
      BY <1>3 DEF Report
    <2>5. ~mayReturn(s)
      BY <1>1 DEF mayReturn, MesosStatus
    <2> HIDE DEF s
    <2> QED BY <2>1, <2>2, <2>3, <2>4, <2>5, LiveTaskMovesKeepsIInv
  <1> QED BY <1>2, <1>3

LEMMA ApplyKeepsIInv ==
    ASSUME IInv, NEW op \in pending, NEW stored \in BOOLEAN, Apply(op, stored)
    PROVE  IInv'
  <1> DEFINE effect == IF stored THEN resolve(instance, op) ELSE Fail
             failedSave == launch.phase = "saving" /\ op = launch.op /\ effect.kind = "Failure"
  <1>1. DeadTasks' = DeadTasks /\ UnlaunchedUnknown' = UnlaunchedUnknown /\ VanishedSeen' = VanishedSeen
    BY SameMesosSameDead DEF Apply
  <1>2. op \in Operation /\ OperationConfirmed(op, DeadTasks)
    BY DEF IInv, TypeOK, InstancesConfirmed
  <1>3. \/ effect \in {Noop, Expunge, Fail}
        \/ /\ effect = Update(effect.instance)
           /\ effect.instance \in Instance
           /\ Confirmed(effect.instance, DeadTasks)
    BY <1>2, resolveConfirmed DEF IInv, TypeOK, InstancesConfirmed, Exists
  <1>4. /\ instance' = IF effect.kind \in {"Update", "Expunge"} THEN effect.instance ELSE instance
        /\ pending' = (pending \ {op}) \cup (IF failedSave THEN {revertOp(launch)} ELSE {})
        /\ UNCHANGED <<vanished, now>>
    BY DEF Apply
  <1>5. launch' \in {launch, NoLaunch, [launch EXCEPT !.phase = "reverting"], [launch EXCEPT !.phase = "saved"]}
    BY DEF Apply
  <1> HIDE DEF effect, failedSave
  <1>6. instance' \in Instance \cup {NoInstance} /\ (instance' # NoInstance => Confirmed(instance', DeadTasks))
    <2>1. CASE effect \in {Noop, Fail}
      <3>1. instance' = instance
        BY <1>4, <2>1 DEF Noop, Fail
      <3> QED BY <3>1 DEF IInv, TypeOK, InstancesConfirmed, Exists
    <2>2. CASE effect = Expunge
      BY <1>4, <2>2 DEF Expunge
    <2>3. CASE /\ effect = Update(effect.instance)
               /\ effect.instance \in Instance
               /\ Confirmed(effect.instance, DeadTasks)
      <3>1. effect.kind = "Update"
        BY <2>3 DEF Update
      <3> QED BY <1>4, <2>3, <3>1
    <2> QED BY <1>3, <2>1, <2>2, <2>3
  <1>7. revertOp(launch) \in Operation /\ OperationConfirmed(revertOp(launch), DeadTasks)
    BY revertOpConfirmed DEF IInv, TypeOK, InstancesConfirmed
  <1>8. pending' \subseteq Operation /\ \A o \in pending' : OperationConfirmed(o, DeadTasks)
    BY <1>4, <1>7 DEF IInv, TypeOK, InstancesConfirmed
  <1>9. /\ launch' \in [phase : {"idle", "saving", "reverting", "saved"}, op : Operation,
                        old : Instance \cup {NoInstance}]
        /\ launch'.old \in {launch.old, NoInstance}
    BY <1>5, PlainOperations DEF IInv, TypeOK, NoLaunch
  <1>10. TypeOK'
    BY <1>4, <1>6, <1>8, <1>9 DEF IInv, TypeOK, Apply
  <1>11. InstancesConfirmed'
    BY <1>1, <1>6, <1>8, <1>9 DEF IInv, InstancesConfirmed, Exists
  <1> QED BY <1>1, <1>10, <1>11 DEF IInv

LEMMA NextKeepsIInv == IInv /\ [Next]_vars => IInv'
  <1> SUFFICES ASSUME IInv, [Next]_vars PROVE IInv'
    OBVIOUS
  <1>1. CASE DecideReschedule
    BY <1>1, DecideKeepsIInv, PlainOperations DEF DecideReschedule
  <1>2. ASSUME NEW goal \in GoalChanges, DecideGoal(goal) PROVE IInv'
    <2>1. goal \in Goal
      BY LifecycleAssumption DEF Goal
    <2> QED BY <1>2, <2>1, DecideKeepsIInv, PlainOperations DEF DecideGoal
  <1>3. CASE DecideExpunge
    BY <1>3, DecideKeepsIInv, PlainOperations DEF DecideExpunge
  <1>4. CASE DecideWipe
    BY <1>4, DecideKeepsIInv, PlainOperations DEF DecideWipe
  <1>5. CASE DecideReservationTimeout
    BY <1>5, DecideKeepsIInv, PlainOperations DEF DecideReservationTimeout
  <1>6. CASE MatchOffer
    BY <1>6, MatchOfferKeepsIInv
  <1>7. CASE AcceptOffer
    BY <1>7, AcceptOfferKeepsIInv
  <1>8. CASE RejectOffer
    BY <1>8, RejectOfferKeepsIInv
  <1>9. ASSUME NEW inc \in Incarnation, NEW k \in TaskIndex, NEW s \in Statuses, MesosStep(inc, k, s)
        PROVE  IInv'
    BY <1>9, MesosStepKeepsIInv
  <1>10. ASSUME NEW inc \in Incarnation, NEW k \in TaskIndex, Report(inc, k) PROVE IInv'
    BY <1>10, ReportKeepsIInv
  <1>11. CASE Tick
    <2>1. DeadTasks' = DeadTasks /\ UnlaunchedUnknown' = UnlaunchedUnknown /\ VanishedSeen' = VanishedSeen
      BY <1>11, SameMesosSameDead DEF Tick
    <2> QED BY <1>11, <2>1 DEF Tick, IInv, TypeOK, InstancesConfirmed, Exists
  <1>12. ASSUME NEW op \in pending, NEW stored \in BOOLEAN, Apply(op, stored) PROVE IInv'
    BY <1>12, ApplyKeepsIInv
  <1>13. CASE UNCHANGED vars
    <2>1. DeadTasks' = DeadTasks /\ UnlaunchedUnknown' = UnlaunchedUnknown /\ VanishedSeen' = VanishedSeen
      BY <1>13, SameMesosSameDead DEF vars
    <2> QED BY <1>13, <2>1 DEF vars, IInv, TypeOK, InstancesConfirmed, Exists
  <1> QED BY <1>1, <1>2, <1>3, <1>4, <1>5, <1>6, <1>7, <1>8, <1>9, <1>10, <1>11, <1>12, <1>13 DEF Next

------------------------------------------------------------------------------
(* Theorems                                                                *)

LEMMA IInvHolds == Spec => []IInv
  BY InitIInv, NextKeepsIInv, PTL DEF Spec

(***************************************************************************)
(* All state stays in its type, whatever callers, storage and Mesos do;    *)
(* in particular a revert always carries a complete instance.              *)
(***************************************************************************)
THEOREM TypeCorrect == Spec => []TypeOK
  <1>1. IInv => TypeOK
    BY DEF IInv
  <1> QED BY <1>1, IInvHolds, PTL

(***************************************************************************)
(* The condition that every caller decides by (Instance.state.condition)   *)
(* is never stale: it is Scheduled or follows from the instance's tasks,   *)
(* also after a revert to an older copy of the instance.                   *)
(***************************************************************************)
THEOREM ConditionCorrect == Spec => []ConditionFollowsTasks
  <1>1. IInv => ConditionFollowsTasks
    BY DEF IInv, InstancesConfirmed, Confirmed, ConditionFollowsTasks
  <1> QED BY <1>1, IInvHolds, PTL

(***************************************************************************)
(* Marathon never takes a task for terminal that Mesos still runs, however *)
(* late, repeated or reordered the status updates of its incarnations are  *)
(* applied (InstanceUpdater.mesosUpdate, Task.update).  Where the status   *)
(* that ended the task says that the task may return, Mesos has reported   *)
(* just that of this task, in this incarnation.                            *)
(***************************************************************************)
THEOREM TerminalCorrect == Spec => []TerminalOnlyIfDead
  <1>1. IInv => TerminalOnlyIfDead
    <2> SUFFICES ASSUME IInv, Exists, NEW k \in DOMAIN instance.tasksMap,
                        instance.tasksMap[k].condition \in Terminal
                 PROVE  IF mayReturn(instance.tasksMap[k].mesosStatus)
                        THEN <<instance.incarnation, k>> \in vanished
                        ELSE ~isLive(instance.incarnation, k)
      BY DEF TerminalOnlyIfDead
    <2>1. <<instance.incarnation, k, mayReturn(instance.tasksMap[k].mesosStatus)>> \in DeadTasks
      BY DEF IInv, InstancesConfirmed, Confirmed
    <2> QED BY <2>1 DEF DeadTasks
  <1> QED BY <1>1, IInvHolds, PTL

------------------------------------------------------------------------------
(* What the operations do to health, goal and reservation                  *)

(* Health that the instance has earned by its tasks.                       *)
HealthEarned(inst) ==
    inst.healthy = "healthy" =>
        LET task(k) == inst.tasksMap[k]
        IN /\ \A k \in DOMAIN inst.tasksMap :
                 \/ task(k).condition = "Finished"
                 \/ task(k).condition = "Running" /\ task(k).mesosStatus.healthy # "unhealthy"
           /\ \E k \in DOMAIN inst.tasksMap :
                 task(k).condition = "Running" /\ task(k).mesosStatus.healthy = "healthy"

(* The operator declared the agent gone and no task is left.               *)
GivenUp(inst) ==
    /\ allTasksTerminal(inst)
    /\ \E k \in DOMAIN inst.tasksMap : inst.tasksMap[k].mesosStatus.state = "TASK_GONE_BY_OPERATOR"

(* The tasks of an instance are launched, never scheduled themselves.      *)
TasksLaunched(inst) == \A k \in DOMAIN inst.tasksMap : inst.tasksMap[k].condition # "Scheduled"

LEMMA computeHealthEarned ==
    ASSUME NEW inst, inst.healthy = computeHealth(inst.tasksMap)
    PROVE  HealthEarned(inst)
  BY DEF HealthEarned, computeHealth

LEMMA applyTaskUpdateFields ==
    ASSUME NEW inst \in Instance, NEW k \in DOMAIN inst.tasksMap, NEW task \in Task, NEW t
    PROVE  LET updated == applyTaskUpdate(inst, k, task, t)
           IN /\ updated.goal = inst.goal
              /\ HealthEarned(updated)
              /\ updated.condition = conditionFromTasks(updated.tasksMap, t)
              /\ hasReservation(updated) <=> hasReservation(inst)
  <1> DEFINE tasks == [inst.tasksMap EXCEPT ![k] = task]
             health == computeHealth(tasks)
             condition == conditionFromTasks(tasks, t)
             updated == applyTaskUpdate(inst, k, task, t)
  <1>1. updated = [inst EXCEPT
                     !.tasksMap = tasks,
                     !.condition = condition,
                     !.healthy = health,
                     !.reservation = IF task.condition \in Terminal /\ hasReservation(inst)
                                     THEN "Suspended" ELSE inst.reservation]
    BY DEF applyTaskUpdate, Instance
  <1> HIDE DEF tasks, health, condition, updated
  <1>2. /\ updated.goal = inst.goal /\ updated.tasksMap = tasks
        /\ updated.condition = condition /\ updated.healthy = health
        /\ updated.reservation = IF task.condition \in Terminal /\ hasReservation(inst)
                                 THEN "Suspended" ELSE inst.reservation
    BY <1>1 DEF Instance
  <1>3. HealthEarned(updated)
    BY <1>2, computeHealthEarned DEF health
  <1>4. hasReservation(updated) <=> hasReservation(inst)
    BY <1>2 DEF hasReservation
  <1> QED BY <1>2, <1>3, <1>4 DEF updated, condition

(* What the update of an instance by a task says.                          *)
Follows(new, inst, t) ==
    /\ HealthEarned(new)
    /\ new.goal = inst.goal
    /\ hasReservation(inst) /\ ~hasReservation(new) => GivenUp(new)
    /\ ~hasReservation(inst) =>
         /\ ~hasReservation(new)
         /\ ~isTerminalDecomissionedAndEphemeral(new)
         /\ new.condition = conditionFromTasks(new.tasksMap, t)

LEMMA instanceUpdateEffectFollows ==
    ASSUME NEW inst \in Instance, NEW k \in DOMAIN inst.tasksMap, NEW task \in Task, NEW t
    PROVE  LET e == instanceUpdateEffectForTask(inst, k, task, t)
           IN e.kind = "Update" => Follows(e.instance, inst, t)
  <1> DEFINE updated == applyTaskUpdate(inst, k, task, t)
             abandoned == [updated EXCEPT !.reservation = "none", !.condition = "Scheduled"]
             e == instanceUpdateEffectForTask(inst, k, task, t)
  <1>0. updated \in Instance
    BY applyTaskUpdateResult
  <1>1. /\ updated.goal = inst.goal
        /\ HealthEarned(updated)
        /\ updated.condition = conditionFromTasks(updated.tasksMap, t)
        /\ hasReservation(updated) <=> hasReservation(inst)
    BY applyTaskUpdateFields
  <1>2. \/ e \in {Noop, Expunge}
        \/ e = Update(abandoned) /\ shouldAbandonReservation(updated)
        \/ /\ e = Update(updated)
           /\ ~isTerminalDecomissionedAndEphemeral(updated)
    BY DEF instanceUpdateEffectForTask
  <1> HIDE DEF updated, e
  <1>3. CASE e \in {Noop, Expunge}
    BY <1>3 DEF Noop, Expunge, e
  <1>4. CASE e = Update(abandoned) /\ shouldAbandonReservation(updated)
    <2>1. /\ abandoned.goal = updated.goal /\ abandoned.healthy = updated.healthy
          /\ abandoned.tasksMap = updated.tasksMap
      BY <1>0 DEF Instance
    <2>2. hasReservation(inst) /\ GivenUp(abandoned)
      BY <1>1, <1>4, <2>1 DEF shouldAbandonReservation, GivenUp, allTasksTerminal
    <2>3. HealthEarned(abandoned)
      BY <1>1, <2>1 DEF HealthEarned
    <2>4. e.instance = abandoned
      BY <1>4 DEF Update
    <2> HIDE DEF abandoned
    <2> QED BY <1>1, <2>1, <2>2, <2>3, <2>4 DEF Follows, e
  <1>5. CASE e = Update(updated) /\ ~isTerminalDecomissionedAndEphemeral(updated)
    <2>1. e.instance = updated
      BY <1>5 DEF Update
    <2> QED BY <1>1, <1>5, <2>1 DEF Follows, e
  <1> QED BY <1>2, <1>3, <1>4, <1>5

LEMMA taskUpdateLaunched ==
    ASSUME NEW inst, NEW task \in Task, NEW s \in MesosStatus, task.condition # "Scheduled"
    PROVE  taskUpdate(inst, task, TaskCondition(s), s).task.condition # "Scheduled"
  <1>1. TaskCondition(s) # "Scheduled"
    <2>1. s.state \in MesosState
      BY DEF MesosStatus
    <2> QED BY <2>1 DEF TaskCondition, MesosState, inferStateForLost
  <1> QED BY <1>1 DEF taskUpdate, Task

LEMMA mesosUpdateFollows ==
    ASSUME NEW inst \in Instance, NEW op \in Operation, op.kind = "MesosUpdate"
    PROVE  LET e == mesosUpdate(inst, op)
           IN e.kind = "Update" =>
                /\ Follows(e.instance, inst, op.now)
                /\ TasksLaunched(inst) => TasksLaunched(e.instance)
  <1> DEFINE e == mesosUpdate(inst, op)
  <1>1. CASE op.incarnation # inst.incarnation \/ op.task \notin DOMAIN inst.tasksMap
    BY <1>1 DEF mesosUpdate, Fail
  <1>2. CASE op.incarnation = inst.incarnation /\ op.task \in DOMAIN inst.tasksMap
    <2> DEFINE task == inst.tasksMap[op.task]
               newTask == taskUpdate(inst, task, TaskCondition(op.status), op.status).task
               f == instanceUpdateEffectForTask(inst, op.task, newTask, op.now)
    <2>1. inst.tasksMap \in [TaskIndex -> Task] /\ task \in Task
      BY <1>2, LaunchedTasks
    <2>2. op.status \in MesosStatus /\ TaskCondition(op.status) \in Condition
      BY OperationFields, StatusConditionType
    <2>3. newTask \in Task
      BY <2>1, <2>2, taskUpdateType
    <2>4. task.condition # "Scheduled" => newTask.condition # "Scheduled"
      BY <2>1, <2>2, taskUpdateLaunched
    <2>5. f.kind = "Update" =>
             /\ Follows(f.instance, inst, op.now)
             /\ f.instance.tasksMap = [inst.tasksMap EXCEPT ![op.task] = newTask]
      BY <1>2, <2>3, instanceUpdateEffectFollows, instanceUpdateEffectResult
    <2>6. e \in {f, Fail, Noop}
      BY <1>2 DEF mesosUpdate
    <2> HIDE DEF f, e
    <2>7. CASE e = f
      <3> HIDE DEF newTask
      <3> QED BY <1>2, <2>1, <2>4, <2>5, <2>7 DEF e, TasksLaunched
    <2>8. CASE e \in {Fail, Noop}
      BY <2>8 DEF Fail, Noop, e
    <2> QED BY <2>6, <2>7, <2>8
  <1> QED BY <1>1, <1>2

(* An operation writes an instance, removes it or leaves it as it is.      *)
LEMMA resolveEffects ==
    ASSUME NEW inst \in Instance \cup {NoInstance}, NEW op \in Operation
    PROVE  resolve(inst, op) \in {Noop, Expunge, Fail} \/ resolve(inst, op).kind = "Update"
  <1>1. CASE op.kind = "MesosUpdate" /\ inst # NoInstance
    <2>1. resolve(inst, op) = mesosUpdate(inst, op)
      BY <1>1 DEF resolve
    <2> DEFINE e == mesosUpdate(inst, op)
    <2>2. e \in {Noop, Expunge, Fail} \/ e = Update(e.instance)
      BY <1>1, mesosUpdateResult
    <2> HIDE DEF e
    <2>3. e \in {Noop, Expunge, Fail} \/ e.kind = "Update"
      BY <2>2 DEF Update
    <2> QED BY <2>1, <2>3 DEF e
  <1>2. CASE op.kind # "MesosUpdate" \/ inst = NoInstance
    BY <1>2, OperationFields DEF resolve, provision, rescheduleReserved, reservationTimeout,
       changeGoal, reserve, unreserve, Update
  <1> QED BY <1>1, <1>2

(* What the operations of callers and offers do to an instance.            *)
LEMMA resolveOfCallers ==
    ASSUME NEW inst \in Instance, NEW op \in Operation,
           op.kind \notin {"Revert", "Schedule", "MesosUpdate"},
           resolve(inst, op).kind = "Update"
    PROVE  LET new == resolve(inst, op).instance
           IN \/ /\ op.kind = "Provision" /\ isScheduled(inst)
                 /\ new.condition = "Provisioned" /\ new.healthy = "absent"
                 /\ new.incarnation = op.incarnation /\ new.tasksMap = provisionedTasks
                 /\ new.goal = inst.goal /\ new.reservation = inst.reservation
              \/ /\ op.kind = "RescheduleReserved"
                 /\ new.condition = "Scheduled" /\ new.healthy = "absent" /\ new.goal = "GoalRunning"
                 /\ new.incarnation = inst.incarnation /\ new.tasksMap = inst.tasksMap
                 /\ new.reservation = inst.reservation
              \/ /\ op.kind = "Reserve" /\ new.reservation = "New"
                 /\ new.condition = inst.condition /\ new.healthy = inst.healthy
                 /\ new.incarnation = inst.incarnation /\ new.tasksMap = inst.tasksMap
                 /\ new.goal = inst.goal
              \/ /\ op.kind = "ChangeGoal" /\ new.goal = op.goal
                 /\ ~isTerminalDecomissionedAndEphemeral(new)
                 /\ new.condition = inst.condition /\ new.healthy = inst.healthy
                 /\ new.incarnation = inst.incarnation /\ new.tasksMap = inst.tasksMap
                 /\ new.reservation = inst.reservation
  <1> DEFINE e == resolve(inst, op)
             provisioned == [inst EXCEPT !.condition = "Provisioned", !.healthy = "absent",
                                         !.incarnation = op.incarnation, !.tasksMap = provisionedTasks]
             rescheduled == [inst EXCEPT !.condition = "Scheduled", !.healthy = "absent", !.goal = "GoalRunning"]
             reserved == [inst EXCEPT !.reservation = "New"]
             changed == [inst EXCEPT !.goal = op.goal]
  <1>0. inst # NoInstance
    BY LifecycleAssumption
  <1>1. /\ provisioned.condition = "Provisioned" /\ provisioned.healthy = "absent"
        /\ provisioned.incarnation = op.incarnation /\ provisioned.tasksMap = provisionedTasks
        /\ provisioned.goal = inst.goal /\ provisioned.reservation = inst.reservation
    <2> HIDE DEF provisionedTasks
    <2> QED BY DEF Instance
  <1>2. /\ rescheduled.condition = "Scheduled" /\ rescheduled.healthy = "absent"
        /\ rescheduled.goal = "GoalRunning"
        /\ rescheduled.incarnation = inst.incarnation /\ rescheduled.tasksMap = inst.tasksMap
        /\ rescheduled.reservation = inst.reservation
    BY DEF Instance
  <1>3. /\ reserved.reservation = "New"
        /\ reserved.condition = inst.condition /\ reserved.healthy = inst.healthy
        /\ reserved.incarnation = inst.incarnation /\ reserved.tasksMap = inst.tasksMap
        /\ reserved.goal = inst.goal
    BY DEF Instance
  <1>4. /\ changed.goal = op.goal
        /\ changed.condition = inst.condition /\ changed.healthy = inst.healthy
        /\ changed.incarnation = inst.incarnation /\ changed.tasksMap = inst.tasksMap
        /\ changed.reservation = inst.reservation
    BY DEF Instance
  <1>5. \/ e.kind # "Update"
        \/ op.kind = "Provision" /\ isScheduled(inst) /\ e = Update(provisioned)
        \/ op.kind = "RescheduleReserved" /\ e = Update(rescheduled)
        \/ op.kind = "Reserve" /\ e = Update(reserved)
        \/ op.kind = "ChangeGoal" /\ ~isTerminalDecomissionedAndEphemeral(changed) /\ e = Update(changed)
    <2>1. CASE op.kind = "Provision"
      BY <1>0, <2>1 DEF resolve, provision, Fail
    <2>2. CASE op.kind = "RescheduleReserved"
      BY <1>0, <2>2 DEF resolve, rescheduleReserved
    <2>3. CASE op.kind = "Reserve"
      BY <1>0, <2>3 DEF resolve, reserve
    <2>4. CASE op.kind = "ChangeGoal"
      BY <1>0, <2>4 DEF resolve, changeGoal, Expunge
    <2>5. CASE op.kind \in {"ForceExpunge", "Unreserve", "ReservationTimeout"}
      BY <1>0, <2>5 DEF resolve, unreserve, reservationTimeout, Expunge, Fail
    <2> QED BY <2>1, <2>2, <2>3, <2>4, <2>5, OperationFields
  <1> HIDE DEF provisioned, rescheduled, reserved, changed, e
  <1>6. \A i : Update(i).instance = i
    BY DEF Update
  <1>7. e.kind = "Update"
    BY DEF e
  <1>8. \/ op.kind = "Provision" /\ isScheduled(inst) /\ e.instance = provisioned
        \/ op.kind = "RescheduleReserved" /\ e.instance = rescheduled
        \/ op.kind = "Reserve" /\ e.instance = reserved
        \/ op.kind = "ChangeGoal" /\ ~isTerminalDecomissionedAndEphemeral(changed) /\ e.instance = changed
    BY <1>5, <1>6, <1>7
  <1> QED BY <1>1, <1>2, <1>3, <1>4, <1>8 DEF e

(* No operation makes an instance healthy that has not earned it.          *)
LEMMA resolveHealth ==
    ASSUME NEW inst \in Instance \cup {NoInstance}, NEW op \in Operation,
           inst # NoInstance => HealthEarned(inst),
           op.kind = "Revert" => HealthEarned(op.instance),
           resolve(inst, op).kind = "Update"
    PROVE  HealthEarned(resolve(inst, op).instance)
  <1>1. CASE op.kind = "Revert"
    BY <1>1 DEF resolve, Update
  <1>2. CASE op.kind = "Schedule"
    BY <1>2 DEF resolve, Update, Fail, scheduled, HealthEarned
  <1>3. CASE op.kind \notin {"Revert", "Schedule"} /\ inst = NoInstance
    BY <1>3 DEF resolve, Noop, Fail
  <1>4. CASE op.kind = "MesosUpdate" /\ inst # NoInstance
    <2>1. resolve(inst, op) = mesosUpdate(inst, op)
      BY <1>4 DEF resolve
    <2> QED BY <1>4, <2>1, mesosUpdateFollows DEF Follows
  <1>5. CASE op.kind \notin {"Revert", "Schedule", "MesosUpdate"} /\ inst # NoInstance
    <2> DEFINE new == resolve(inst, op).instance
    <2>1. new.healthy = "absent" \/ (new.healthy = inst.healthy /\ new.tasksMap = inst.tasksMap)
      BY <1>5, resolveOfCallers
    <2> HIDE DEF new
    <2>2. HealthEarned(new)
      BY <1>5, <2>1 DEF HealthEarned
    <2> QED BY <2>2 DEF new
  <1> QED BY <1>1, <1>2, <1>3, <1>4, <1>5

(* An instance that stays loses its reservation only when it is given up.  *)
LEMMA resolveReservation ==
    ASSUME NEW inst \in Instance, NEW op \in Operation, hasReservation(inst),
           op.kind = "Revert" => hasReservation(op.instance),
           resolve(inst, op).kind = "Update",
           ~hasReservation(resolve(inst, op).instance)
    PROVE  GivenUp(resolve(inst, op).instance)
  <1>0. inst # NoInstance
    BY LifecycleAssumption
  <1>1. CASE op.kind = "Revert"
    BY <1>1 DEF resolve, Update
  <1>2. CASE op.kind = "Schedule"
    BY <1>0, <1>2 DEF resolve, Fail
  <1>3. CASE op.kind = "MesosUpdate"
    <2>1. resolve(inst, op) = mesosUpdate(inst, op)
      BY <1>0, <1>3 DEF resolve
    <2> QED BY <1>3, <2>1, mesosUpdateFollows DEF Follows
  <1>4. CASE op.kind \notin {"Revert", "Schedule", "MesosUpdate"}
    <2>1. resolve(inst, op).instance.reservation \in {"New", inst.reservation}
      BY <1>4, resolveOfCallers
    <2> QED BY <2>1 DEF hasReservation
  <1> QED BY <1>1, <1>2, <1>3, <1>4

------------------------------------------------------------------------------
(* Health and reservations, whatever the run spec                          *)

(***************************************************************************)
(* Every copy that an instance may be reverted to has earned its health,   *)
(* and it has a reservation: a revert does not lose one.                   *)
(***************************************************************************)
CopiesOK ==
    /\ Exists => HealthEarned(instance)
    /\ launch.old # NoInstance => HealthEarned(launch.old) /\ hasReservation(launch.old)
    /\ \A op \in pending : op.kind = "Revert" => HealthEarned(op.instance) /\ hasReservation(op.instance)

LEMMA InitCopiesOK == Init => CopiesOK
  BY DEF Init, CopiesOK, Exists, NoLaunch, Schedule

LEMMA DecideKeepsCopiesOK ==
    ASSUME CopiesOK, NEW op, Decide(op), op.kind # "Revert",
           UNCHANGED <<instance, launch>>
    PROVE  CopiesOK'
  BY DEF CopiesOK, Decide, Exists

LEMMA ApplyKeepsCopiesOK ==
    ASSUME TypeOK, CopiesOK, NEW op \in pending, NEW stored \in BOOLEAN, Apply(op, stored)
    PROVE  /\ CopiesOK'
           /\ Exists /\ hasReservation(instance) /\ instance' # NoInstance /\ ~hasReservation(instance')
                => GivenUp(instance')
  <1> DEFINE effect == IF stored THEN resolve(instance, op) ELSE Fail
             failedSave == launch.phase = "saving" /\ op = launch.op /\ effect.kind = "Failure"
  <1>1. op \in Operation /\ instance \in Instance \cup {NoInstance}
    BY DEF TypeOK
  <1>2. /\ instance' = IF effect.kind \in {"Update", "Expunge"} THEN effect.instance ELSE instance
        /\ pending' = (pending \ {op}) \cup (IF failedSave THEN {revertOp(launch)} ELSE {})
    BY DEF Apply
  <1>3. launch' \in {launch, NoLaunch, [launch EXCEPT !.phase = "reverting"], [launch EXCEPT !.phase = "saved"]}
    BY DEF Apply
  <1>4. effect.kind = "Expunge" => effect.instance = NoInstance
    <2>1. CASE effect = Fail
      BY <2>1 DEF Fail
    <2>2. CASE effect = resolve(instance, op)
      <3> DEFINE e == resolve(instance, op)
      <3>1. e \in {Noop, Expunge, Fail} \/ e.kind = "Update"
        BY <1>1, resolveEffects
      <3> HIDE DEF e
      <3> QED BY <2>2, <3>1 DEF Noop, Expunge, Fail, e
    <2> QED BY <2>1, <2>2
  <1>5. effect.kind = "Update" =>
          /\ HealthEarned(effect.instance)
          /\ Exists /\ hasReservation(instance) /\ ~hasReservation(effect.instance) => GivenUp(effect.instance)
    <2> SUFFICES ASSUME effect.kind = "Update"
                 PROVE  /\ HealthEarned(effect.instance)
                        /\ Exists /\ hasReservation(instance) /\ ~hasReservation(effect.instance)
                             => GivenUp(effect.instance)
      OBVIOUS
    <2>1. effect = resolve(instance, op)
      BY DEF Fail
    <2>2. HealthEarned(resolve(instance, op).instance)
      BY <1>1, <2>1, resolveHealth DEF CopiesOK, Exists
    <2>3. Exists /\ hasReservation(instance) /\ ~hasReservation(resolve(instance, op).instance)
            => GivenUp(resolve(instance, op).instance)
      BY <1>1, <2>1, resolveReservation DEF CopiesOK, Exists
    <2> QED BY <2>1, <2>2, <2>3
  <1> HIDE DEF effect, failedSave
  <1>6. instance' # NoInstance => HealthEarned(instance')
    BY <1>2, <1>4, <1>5 DEF CopiesOK, Exists
  <1>7. Exists /\ hasReservation(instance) /\ instance' # NoInstance /\ ~hasReservation(instance')
          => GivenUp(instance')
    BY <1>2, <1>4, <1>5
  <1>8. launch'.old \in {launch.old, NoInstance}
    BY <1>3 DEF TypeOK, NoLaunch
  <1>9. revertOp(launch).kind = "Revert" =>
           /\ HealthEarned(revertOp(launch).instance)
           /\ hasReservation(revertOp(launch).instance)
    BY DEF revertOp, Revert, ForceExpunge, CopiesOK
  <1>10. CopiesOK'
    BY <1>2, <1>6, <1>8, <1>9 DEF CopiesOK, Exists
  <1> QED BY <1>7, <1>10

LEMMA MatchOfferKeepsCopiesOK == TypeOK /\ CopiesOK /\ MatchOffer => CopiesOK'
  <1> SUFFICES ASSUME TypeOK, CopiesOK, MatchOffer PROVE CopiesOK'
    OBVIOUS
  <1>1. Exists /\ HealthEarned(instance)
    BY DEF MatchOffer, CopiesOK
  <1>2. \/ launch'.old = NoInstance
        \/ launch'.old = instance /\ hasReservation(instance)
    BY DEF MatchOffer, OfferOp, terminalResident
  <1>3. launch'.op.kind # "Revert"
    BY DEF MatchOffer, OfferOp, Reserve, Provision, Unreserve
  <1>4. Decide(launch'.op) /\ instance' = instance
    BY DEF MatchOffer
  <1> QED BY <1>1, <1>2, <1>3, <1>4 DEF CopiesOK, Decide, Exists

LEMMA NextKeepsCopiesOK ==
    ASSUME TypeOK, CopiesOK, [Next]_vars
    PROVE  /\ CopiesOK'
           /\ \/ instance' = instance
              \/ Exists /\ hasReservation(instance) /\ instance' # NoInstance /\ ~hasReservation(instance')
                   => GivenUp(instance')
  <1> DEFINE Goal1 == CopiesOK' /\ instance' = instance
  <1>1. CASE DecideReschedule \/ DecideExpunge \/ DecideWipe \/ DecideReservationTimeout
    BY <1>1, DecideKeepsCopiesOK DEF DecideReschedule, DecideExpunge, DecideWipe, DecideReservationTimeout,
       RescheduleReserved, ForceExpunge, ReservationTimeout
  <1>2. ASSUME NEW goal \in GoalChanges, DecideGoal(goal) PROVE Goal1
    BY <1>2, DecideKeepsCopiesOK DEF DecideGoal, ChangeGoal
  <1>3. CASE MatchOffer
    BY <1>3, MatchOfferKeepsCopiesOK DEF MatchOffer
  <1>4. CASE AcceptOffer
    BY <1>4 DEF AcceptOffer, CopiesOK, Exists, NoLaunch
  <1>5. CASE RejectOffer
    BY <1>5 DEF RejectOffer, revertOp, Revert, ForceExpunge, CopiesOK, Exists, NoLaunch
  <1>6. ASSUME NEW inc \in Incarnation, NEW k \in TaskIndex, NEW s \in Statuses, MesosStep(inc, k, s)
        PROVE  Goal1
    BY <1>6 DEF MesosStep, CopiesOK, Exists
  <1>7. ASSUME NEW inc \in Incarnation, NEW k \in TaskIndex, Report(inc, k) PROVE Goal1
    <2>1. \/ UNCHANGED pending
          \/ Decide(MesosUpdate(inc, k, mesos[inc][k]))
      BY <1>7 DEF Report
    <2>2. UNCHANGED <<instance, launch>>
      BY <1>7 DEF Report
    <2> QED BY <2>1, <2>2 DEF Decide, MesosUpdate, CopiesOK, Exists
  <1>8. CASE Tick \/ UNCHANGED vars
    BY <1>8 DEF Tick, vars, CopiesOK, Exists
  <1>9. ASSUME NEW op \in pending, NEW stored \in BOOLEAN, Apply(op, stored)
        PROVE  /\ CopiesOK'
               /\ Exists /\ hasReservation(instance) /\ instance' # NoInstance /\ ~hasReservation(instance')
                    => GivenUp(instance')
    BY <1>9, ApplyKeepsCopiesOK
  <1> QED BY <1>1, <1>2, <1>3, <1>4, <1>5, <1>6, <1>7, <1>8, <1>9 DEF Next

(***************************************************************************)
(* What deployments and health checks wait for is never stale: an instance *)
(* is healthy only as long as its tasks make it so (Instance.computeHealth *)
(* over the tasks of the last update, a revert included).                  *)
(***************************************************************************)
THEOREM HealthCorrect == Spec => []HealthyIsEarned
  <1>1. CopiesOK => HealthyIsEarned
    BY DEF CopiesOK, HealthEarned, HealthyIsEarned
  <1>2. CopiesOK /\ TypeOK /\ [Next]_vars => CopiesOK'
    BY NextKeepsCopiesOK
  <1> QED BY <1>1, <1>2, InitCopiesOK, TypeCorrect, PTL DEF Spec

(***************************************************************************)
(* A reservation, and with it the persistent volume, is never lost while   *)
(* the instance stays, other than by the operator's word that the agent is *)
(* gone (InstanceUpdater.shouldAbandonReservation): neither a relaunch nor *)
(* the revert of an operation that could not be saved or offered drops it. *)
(***************************************************************************)
THEOREM ReservationCorrect == Spec => ReservationKept
  <1> DEFINE Kept == Exists /\ hasReservation(instance) /\ instance' # NoInstance /\ ~hasReservation(instance')
                       => /\ allTasksTerminal(instance')
                          /\ \E k \in DOMAIN instance'.tasksMap :
                               instance'.tasksMap[k].mesosStatus.state = "TASK_GONE_BY_OPERATOR"
  <1>1. CopiesOK /\ TypeOK /\ [Next]_vars => CopiesOK' /\ [Kept]_vars
    <2> SUFFICES ASSUME CopiesOK, TypeOK, [Next]_vars PROVE CopiesOK' /\ Kept
      OBVIOUS
    <2>1. CASE instance' = instance
      BY <2>1, NextKeepsCopiesOK DEF hasReservation
    <2>2. CASE instance' # instance
      BY <2>2, NextKeepsCopiesOK DEF GivenUp
    <2> QED BY <2>1, <2>2
  <1>2. Spec => [][Kept]_vars
    <2> HIDE DEF Kept
    <2> QED BY <1>1, InitCopiesOK, TypeCorrect, PTL DEF Spec
  <1> QED BY <1>2 DEF ReservationKept

------------------------------------------------------------------------------
(* Instances without a reservation                                         *)

(* The operations that are decided on when the run spec has no volumes.    *)
EphemeralOp(op) ==
    \/ op.kind \in {"Schedule", "ForceExpunge", "Provision", "MesosUpdate"}
    \/ op.kind = "ChangeGoal" /\ op.goal = "GoalDecommissioned"

EphemeralOK ==
    /\ Exists => ~hasReservation(instance)
    /\ \A op \in pending : EphemeralOp(op)
    /\ launch.old = NoInstance
    /\ launch.phase # "idle" => launch.op.kind = "Provision"

UnlaunchedFrom(inc) == \A i \in Incarnation : i >= inc => launches[i] = 0

(***************************************************************************)
(* At most one launch is under way, of the incarnation that follows the    *)
(* instance's until it is saved; nothing has been launched ahead of it.    *)
(***************************************************************************)
LaunchOK ==
    /\ \A op \in pending : op.kind = "Provision" => launch.phase = "saving" /\ op = launch.op
    /\ Schedule \in pending => ~Exists /\ launch.phase = "idle" /\ UnlaunchedFrom(1)
    /\ launch.phase # "idle" => UnlaunchedFrom(launch.op.incarnation)
    /\ Exists => UnlaunchedFrom(instance.incarnation + 1)
    /\ Exists /\ launch.phase \in {"saving", "reverting"} => launch.op.incarnation = instance.incarnation + 1
    /\ Exists /\ launch.phase = "saved" => launch.op.incarnation = instance.incarnation

EphemeralInv ==
    /\ EphemeralOK
    /\ LaunchOK
    /\ IncarnationLaunchedOnce
    /\ DecommissionedIsRemoved

LEMMA OnlyOneSchedule ==
    ASSUME NEW op \in Operation, op.kind = "Schedule"
    PROVE  op = Schedule
  BY DEF Operation, Schedule

LEMMA resolveEphemeral ==
    ASSUME NEW inst \in Instance \cup {NoInstance}, NEW op \in Operation, EphemeralOp(op),
           inst # NoInstance => ~hasReservation(inst)
    PROVE  LET e == resolve(inst, op)
               new == e.instance
           IN /\ e.kind = "Update" =>
                   /\ ~hasReservation(new)
                   /\ ~isTerminalDecomissionedAndEphemeral(new)
                   /\ inst # NoInstance /\ inst.goal = "GoalDecommissioned" => new.goal = "GoalDecommissioned"
                   /\ \/ op.kind = "Schedule" /\ inst = NoInstance /\ new = scheduled
                      \/ /\ op.kind = "Provision" /\ inst # NoInstance /\ isScheduled(inst)
                         /\ new.incarnation = op.incarnation /\ new.tasksMap = provisionedTasks
                         /\ new.condition = "Provisioned"
                      \/ /\ op.kind \in {"MesosUpdate", "ChangeGoal"} /\ inst # NoInstance
                         /\ new.incarnation = inst.incarnation
              /\ op.kind = "Provision" => e.kind = "Update" \/ e = Fail
              /\ op.kind = "ForceExpunge" => e = Expunge \/ (e = Noop /\ inst = NoInstance)
  <1> DEFINE e == resolve(inst, op)
             new == e.instance
  <1>1. op.kind = "Provision" => e.kind = "Update" \/ e = Fail
    BY DEF resolve, provision, Update
  <1>2. op.kind = "ForceExpunge" => e = Expunge \/ (e = Noop /\ inst = NoInstance)
    BY DEF resolve
  <1>3. CASE op.kind = "Schedule"
    <2>1. e = Fail \/ (e = Update(scheduled) /\ inst = NoInstance)
      BY <1>3 DEF resolve
    <2>2. ~hasReservation(scheduled) /\ ~isTerminalDecomissionedAndEphemeral(scheduled)
      BY DEF scheduled, hasReservation, isTerminalDecomissionedAndEphemeral
    <2> HIDE DEF e
    <2>3. e.kind = "Update" => new = scheduled /\ inst = NoInstance
      BY <2>1 DEF Update, Fail
    <2> HIDE DEF new
    <2> QED BY <1>3, <2>2, <2>3, <1>1, <1>2 DEF e, new
  <1>4. CASE op.kind = "ForceExpunge"
    <2>1. e.kind # "Update"
      BY <1>2, <1>4 DEF Expunge, Noop
    <2> QED BY <1>1, <1>2, <1>4, <2>1
  <1>5. CASE op.kind \notin {"Schedule", "ForceExpunge"} /\ inst = NoInstance
    <2>1. e = Fail
      BY <1>5 DEF resolve, EphemeralOp
    <2>2. e.kind # "Update"
      BY <2>1 DEF Fail
    <2> QED BY <1>1, <1>2, <2>2
  <1>6. CASE op.kind = "MesosUpdate" /\ inst # NoInstance
    <2>1. e = mesosUpdate(inst, op)
      BY <1>6 DEF resolve
    <2>2. e.kind = "Update" => Follows(new, inst, op.now) /\ new.incarnation = inst.incarnation
      BY <1>6, <2>1, mesosUpdateFollows, mesosUpdateResult
    <2> HIDE DEF e, new
    <2>3. e.kind = "Update" =>
             /\ ~hasReservation(new)
             /\ ~isTerminalDecomissionedAndEphemeral(new)
             /\ new.goal = inst.goal
             /\ new.incarnation = inst.incarnation
      BY <1>6, <2>2 DEF Follows
    <2> QED BY <1>6, <2>3 DEF e, new
  <1>7. CASE op.kind \in {"Provision", "ChangeGoal"} /\ inst # NoInstance
    <2> SUFFICES ASSUME e.kind = "Update"
                 PROVE  /\ ~hasReservation(new)
                        /\ ~isTerminalDecomissionedAndEphemeral(new)
                        /\ inst # NoInstance /\ inst.goal = "GoalDecommissioned"
                             => new.goal = "GoalDecommissioned"
                        /\ \/ /\ op.kind = "Provision" /\ inst # NoInstance /\ isScheduled(inst)
                              /\ new.incarnation = op.incarnation /\ new.tasksMap = provisionedTasks
                              /\ new.condition = "Provisioned"
                           \/ /\ op.kind \in {"MesosUpdate", "ChangeGoal"} /\ inst # NoInstance
                              /\ new.incarnation = inst.incarnation
      BY <1>1, <1>2, <1>7
    <2>1. \/ /\ op.kind = "Provision" /\ isScheduled(inst)
             /\ new.condition = "Provisioned"
             /\ new.incarnation = op.incarnation /\ new.tasksMap = provisionedTasks
             /\ new.goal = inst.goal /\ new.reservation = inst.reservation
          \/ /\ op.kind = "ChangeGoal" /\ new.goal = op.goal
             /\ ~isTerminalDecomissionedAndEphemeral(new)
             /\ new.incarnation = inst.incarnation
             /\ new.reservation = inst.reservation
      BY <1>7, resolveOfCallers
    <2> HIDE DEF e, new
    <2>2. ~hasReservation(new)
      BY <1>7, <2>1 DEF hasReservation
    <2>3. ~isTerminalDecomissionedAndEphemeral(new)
      BY <2>1 DEF isScheduled, isTerminalDecomissionedAndEphemeral
    <2>4. inst.goal = "GoalDecommissioned" => new.goal = "GoalDecommissioned"
      BY <1>7, <2>1 DEF EphemeralOp
    <2> QED BY <1>7, <2>1, <2>2, <2>3, <2>4
  <1> QED BY <1>3, <1>4, <1>5, <1>6, <1>7 DEF EphemeralOp

LEMMA InitEphemeralInv == Init => EphemeralInv
  BY DEF Init, EphemeralInv, EphemeralOK, EphemeralOp, LaunchOK, UnlaunchedFrom, IncarnationLaunchedOnce,
         DecommissionedIsRemoved, Exists, NoLaunch, Schedule

(* Deciding on anything but a launch disturbs nothing.                     *)
LEMMA DecideKeepsEphemeralInv ==
    ASSUME EphemeralInv, NEW op, EphemeralOp(op), op.kind \notin {"Schedule", "Provision"},
           pending' \subseteq pending \cup {op}, UNCHANGED <<instance, launch, launches>>
    PROVE  EphemeralInv'
  <1>1. Schedule \in pending' => Schedule \in pending
    BY DEF Schedule
  <1>2. EphemeralOK'
    BY DEF EphemeralInv, EphemeralOK, Exists
  <1>3. LaunchOK'
    BY <1>1 DEF EphemeralInv, LaunchOK, UnlaunchedFrom, Exists
  <1>4. IncarnationLaunchedOnce' /\ DecommissionedIsRemoved'
    BY DEF EphemeralInv, IncarnationLaunchedOnce, DecommissionedIsRemoved, Exists
  <1> QED BY <1>2, <1>3, <1>4 DEF EphemeralInv

LEMMA MatchOfferKeepsEphemeralInv ==
    ASSUME Resident = FALSE, TypeOK, EphemeralInv, MatchOffer
    PROVE  EphemeralInv'
  <1>1. Exists /\ ~hasReservation(instance) /\ launch.phase = "idle"
    BY DEF MatchOffer, EphemeralInv, EphemeralOK
  <1>2. isScheduled(instance) /\ UNCHANGED <<instance, launches>>
    BY <1>1 DEF MatchOffer, terminalResident
  <1>3. launch' = [phase |-> "saving", op |-> Provision(instance.incarnation + 1), old |-> NoInstance]
    BY <1>2 DEF MatchOffer, OfferOp
  <1>4. pending' = pending \cup {Provision(instance.incarnation + 1)}
    BY <1>3 DEF MatchOffer, Decide
  <1>5. EphemeralOK'
    BY <1>1, <1>2, <1>3, <1>4 DEF EphemeralInv, EphemeralOK, EphemeralOp, Provision, Exists
  <1>6. LaunchOK'
    <2>1. Schedule \notin pending'
      BY <1>1, <1>4 DEF EphemeralInv, LaunchOK, Schedule, Provision
    <2>2. \A op \in pending : op.kind # "Provision"
      BY <1>1 DEF EphemeralInv, LaunchOK
    <2>3. UnlaunchedFrom(instance.incarnation + 1)
      BY <1>1 DEF EphemeralInv, LaunchOK
    <2>4. UnlaunchedFrom(instance.incarnation + 1)'
      BY <2>3, <1>2 DEF UnlaunchedFrom
    <2> QED BY <1>2, <1>3, <1>4, <2>1, <2>2, <2>4 DEF LaunchOK, Provision, Exists
  <1>7. IncarnationLaunchedOnce' /\ DecommissionedIsRemoved'
    BY <1>2 DEF EphemeralInv, IncarnationLaunchedOnce, DecommissionedIsRemoved, Exists
  <1> QED BY <1>5, <1>6, <1>7 DEF EphemeralInv

LEMMA AcceptOfferKeepsEphemeralInv ==
    ASSUME TypeOK, EphemeralInv, AcceptOffer
    PROVE  EphemeralInv'
  <1> DEFINE inc == launch.op.incarnation
  <1>1. /\ launch.phase = "saved" /\ launch.op.kind = "Provision"
        /\ UNCHANGED <<instance, pending>> /\ launch' = NoLaunch
    BY DEF AcceptOffer, EphemeralInv, EphemeralOK
  <1>2. inc \in Incarnation /\ UnlaunchedFrom(inc)
    BY <1>1, OperationFields DEF TypeOK, EphemeralInv, LaunchOK
  <1>3. launches' = [launches EXCEPT ![inc] = @ + 1] /\ launches[inc] = 0
    BY <1>1, <1>2 DEF AcceptOffer, UnlaunchedFrom, Incarnation
  <1> HIDE DEF inc
  <1>4. launches \in [Incarnation -> 0 .. 2]
    BY DEF TypeOK
  <1>5. EphemeralOK'
    BY <1>1 DEF EphemeralInv, EphemeralOK, NoLaunch, Exists
  <1>6. LaunchOK'
    <2>1. Schedule \notin pending /\ \A op \in pending : op.kind # "Provision"
      BY <1>1 DEF EphemeralInv, LaunchOK
    <2>2. Exists => instance.incarnation = inc
      BY <1>1 DEF EphemeralInv, LaunchOK, inc
    <2>3. \A i \in Incarnation : i >= inc + 1 => launches'[i] = 0
      BY <1>2, <1>3, <1>4 DEF UnlaunchedFrom, Incarnation
    <2>4. launch'.phase = "idle"
      BY <1>1 DEF NoLaunch
    <2> QED BY <1>1, <2>1, <2>2, <2>3, <2>4 DEF LaunchOK, UnlaunchedFrom, Exists
  <1>7. IncarnationLaunchedOnce'
    BY <1>2, <1>3, <1>4 DEF EphemeralInv, IncarnationLaunchedOnce
  <1>8. DecommissionedIsRemoved'
    BY <1>1 DEF EphemeralInv, DecommissionedIsRemoved, Exists
  <1> QED BY <1>5, <1>6, <1>7, <1>8 DEF EphemeralInv

LEMMA RejectOfferKeepsEphemeralInv ==
    ASSUME EphemeralInv, RejectOffer
    PROVE  EphemeralInv'
  <1>1. /\ launch.phase = "saved" /\ launch' = NoLaunch /\ UNCHANGED <<instance, launches>>
        /\ pending' = pending \cup {ForceExpunge}
    BY DEF RejectOffer, revertOp, EphemeralInv, EphemeralOK
  <1>2. Schedule \notin pending' /\ \A op \in pending' : op.kind # "Provision"
    BY <1>1 DEF EphemeralInv, LaunchOK, ForceExpunge, Schedule
  <1>3. EphemeralOK'
    BY <1>1 DEF EphemeralInv, EphemeralOK, EphemeralOp, ForceExpunge, NoLaunch, Exists
  <1>4. LaunchOK'
    BY <1>1, <1>2 DEF EphemeralInv, LaunchOK, UnlaunchedFrom, NoLaunch, Exists
  <1>5. IncarnationLaunchedOnce' /\ DecommissionedIsRemoved'
    BY <1>1 DEF EphemeralInv, IncarnationLaunchedOnce, DecommissionedIsRemoved, Exists
  <1> QED BY <1>3, <1>4, <1>5 DEF EphemeralInv

(***************************************************************************)
(* What applying an operation does to the instance, to the launch and to   *)
(* what is pending: it is no part of a launch; or it saves one, fails to   *)
(* save it, takes it back or fails to take it back.                        *)
(***************************************************************************)
Applied(op) ==
    \/ /\ launch' = launch /\ pending' = pending \ {op} /\ op.kind # "Provision"
       /\ \/ instance' \in {NoInstance, instance}
          \/ ~Exists /\ op.kind = "Schedule" /\ instance' = scheduled
          \/ Exists /\ instance'.incarnation = instance.incarnation
    \/ /\ launch.phase = "saving" /\ op = launch.op
       /\ launch' = [launch EXCEPT !.phase = "saved"] /\ pending' = pending \ {op}
       /\ Exists /\ isScheduled(instance) /\ instance'.incarnation = op.incarnation
    \/ /\ launch.phase = "saving" /\ op = launch.op
       /\ launch' = [launch EXCEPT !.phase = "reverting"]
       /\ pending' = (pending \ {op}) \cup {ForceExpunge} /\ instance' = instance
    \/ /\ launch.phase = "reverting" /\ op = ForceExpunge
       /\ launch' = [launch EXCEPT !.phase = "saved"] /\ pending' = pending \ {op}
       /\ instance' = NoInstance
    \/ /\ launch.phase = "reverting" /\ op = ForceExpunge
       /\ launch' = NoLaunch /\ pending' = pending \ {op} /\ instance' = instance

(* The instance that an applied operation leaves.                          *)
Left ==
    instance' # instance /\ instance' # NoInstance =>
        /\ ~hasReservation(instance')
        /\ ~isTerminalDecomissionedAndEphemeral(instance')
        /\ Exists /\ instance.goal = "GoalDecommissioned" => instance'.goal = "GoalDecommissioned"

LEMMA ApplyResult ==
    ASSUME TypeOK, EphemeralInv, NEW op \in pending, NEW stored \in BOOLEAN, Apply(op, stored)
    PROVE  Applied(op) /\ Left
  <1> DEFINE effect == IF stored THEN resolve(instance, op) ELSE Fail
             isSave == launch.phase = "saving" /\ op = launch.op
             isRevert == launch.phase = "reverting" /\ op = ForceExpunge
             failedSave == isSave /\ effect.kind = "Failure"
             new == effect.instance
  <1>1. op \in Operation /\ instance \in Instance \cup {NoInstance} /\ EphemeralOp(op)
    BY DEF TypeOK, EphemeralInv, EphemeralOK
  <1>2. revertOp(launch) = ForceExpunge
    BY DEF revertOp, EphemeralInv, EphemeralOK
  <1>3. /\ instance' = IF effect.kind \in {"Update", "Expunge"} THEN effect.instance ELSE instance
        /\ pending' = (pending \ {op}) \cup (IF failedSave THEN {ForceExpunge} ELSE {})
        /\ launch' = IF failedSave THEN [launch EXCEPT !.phase = "reverting"]
                     ELSE IF isRevert /\ effect.kind = "Failure" THEN NoLaunch
                     ELSE IF isSave \/ isRevert THEN [launch EXCEPT !.phase = "saved"]
                     ELSE launch
    BY <1>2 DEF Apply
  <1>4. effect \in {Noop, Expunge, Fail} \/ effect.kind = "Update"
    BY <1>1, resolveEffects
  <1>5. CASE effect = Fail
    <2>1. effect.kind = "Failure"
      BY <1>5 DEF Fail
    <2> HIDE DEF effect
    <2>2. instance' = instance
      BY <1>3, <2>1
    <2>3. CASE isSave
      BY <1>3, <2>1, <2>2, <2>3 DEF Applied, Left
    <2>4. CASE isRevert
      BY <1>3, <2>1, <2>2, <2>4 DEF Applied, Left
    <2>5. CASE ~isSave /\ ~isRevert
      <3>1. op.kind # "Provision"
        BY <2>5 DEF EphemeralInv, LaunchOK
      <3> QED BY <1>3, <2>1, <2>2, <2>5, <3>1 DEF Applied, Left
    <2> QED BY <2>3, <2>4, <2>5
  <1>6. CASE effect # Fail
    <2>0. effect = resolve(instance, op)
      BY <1>6
    <2>1. /\ effect.kind = "Update" =>
               /\ ~hasReservation(new)
               /\ ~isTerminalDecomissionedAndEphemeral(new)
               /\ Exists /\ instance.goal = "GoalDecommissioned" => new.goal = "GoalDecommissioned"
               /\ \/ op.kind = "Schedule" /\ ~Exists /\ new = scheduled
                  \/ /\ op.kind = "Provision" /\ Exists /\ isScheduled(instance)
                     /\ new.incarnation = op.incarnation
                  \/ /\ op.kind \in {"MesosUpdate", "ChangeGoal"} /\ Exists
                     /\ new.incarnation = instance.incarnation
          /\ op.kind = "Provision" => effect.kind = "Update" \/ effect = Fail
          /\ op.kind = "ForceExpunge" => effect = Expunge \/ (effect = Noop /\ ~Exists)
      <3>1. instance # NoInstance => ~hasReservation(instance)
        BY DEF EphemeralInv, EphemeralOK, Exists
      <3> QED BY <1>1, <2>0, <3>1, resolveEphemeral DEF Exists
    <2> HIDE DEF effect
    <2>2. effect.kind # "Failure"
      BY <1>4, <1>6 DEF Noop, Expunge
    <2>3. /\ pending' = pending \ {op}
          /\ launch' = IF isSave \/ isRevert THEN [launch EXCEPT !.phase = "saved"] ELSE launch
      BY <1>3, <2>2
    <2>4. isSave <=> op.kind = "Provision"
      BY DEF EphemeralInv, EphemeralOK, LaunchOK
    <2>5. Left
      <3>1. instance' \in {instance, NoInstance} \/ (effect.kind = "Update" /\ instance' = new)
        BY <1>3, <1>4, <1>6 DEF Noop, Expunge
      <3> HIDE DEF new
      <3> QED BY <2>1, <3>1 DEF Left
    <2>6. CASE isSave
      <3>1. effect.kind = "Update" /\ op.kind = "Provision"
        BY <1>6, <2>1, <2>4, <2>6
      <3>2. instance' = new
        BY <1>3, <3>1
      <3> HIDE DEF new
      <3>3. Exists /\ isScheduled(instance) /\ instance'.incarnation = op.incarnation
        BY <2>1, <3>1, <3>2
      <3> QED BY <2>3, <2>5, <2>6, <3>3 DEF Applied
    <2>7. CASE isRevert
      <3>1. effect = Expunge \/ (effect = Noop /\ ~Exists)
        BY <2>1, <2>7 DEF ForceExpunge
      <3>2. instance' = NoInstance
        BY <1>3, <3>1 DEF Expunge, Noop, Exists
      <3> QED BY <2>3, <2>5, <2>7, <3>2 DEF Applied
    <2>8. CASE ~isSave /\ ~isRevert
      <3>1. op.kind # "Provision" /\ launch' = launch
        BY <2>3, <2>4, <2>8
      <3>2. CASE effect \in {Noop, Expunge}
        <4>1. instance' \in {NoInstance, instance}
          BY <1>3, <3>2 DEF Noop, Expunge
        <4> QED BY <2>3, <2>5, <3>1, <4>1 DEF Applied
      <3>3. CASE effect.kind = "Update"
        <4>1. instance' = new
          BY <1>3, <3>3
        <4> HIDE DEF new
        <4> QED BY <2>1, <2>3, <2>5, <3>1, <3>3, <4>1 DEF Applied
      <3> QED BY <1>4, <1>6, <3>2, <3>3
    <2> QED BY <2>6, <2>7, <2>8
  <1> QED BY <1>5, <1>6

LEMMA ApplyKeepsEphemeralInv ==
    ASSUME TypeOK, EphemeralInv, NEW op \in pending, NEW stored \in BOOLEAN, Apply(op, stored)
    PROVE  EphemeralInv'
  <1>1. Applied(op) /\ Left
    BY ApplyResult
  <1>2. UNCHANGED launches
    BY DEF Apply
  <1>3. op \in Operation /\ launch \in [phase : {"idle", "saving", "reverting", "saved"}, op : Operation,
                                        old : Instance \cup {NoInstance}]
    BY DEF TypeOK
  <1>4. EphemeralOK'
    <2>1. launch'.old = NoInstance
      BY <1>1, <1>3 DEF Applied, EphemeralInv, EphemeralOK, NoLaunch
    <2>2. launch'.phase # "idle" => launch'.op.kind = "Provision"
      BY <1>1, <1>3 DEF Applied, EphemeralInv, EphemeralOK, NoLaunch
    <2>3. \A o \in pending' : EphemeralOp(o)
      BY <1>1 DEF Applied, EphemeralInv, EphemeralOK, EphemeralOp, ForceExpunge
    <2>4. Exists' => ~hasReservation(instance')
      BY <1>1 DEF Left, EphemeralInv, EphemeralOK, Exists
    <2> QED BY <2>1, <2>2, <2>3, <2>4 DEF EphemeralOK, hasReservation, Exists
  <1>5. DecommissionedIsRemoved'
    BY <1>1 DEF Left, EphemeralInv, DecommissionedIsRemoved, Exists
  <1>6. IncarnationLaunchedOnce'
    BY <1>2 DEF EphemeralInv, IncarnationLaunchedOnce
  <1>7. \A n : UnlaunchedFrom(n)' <=> UnlaunchedFrom(n)
    BY <1>2 DEF UnlaunchedFrom
  <1>8. LaunchOK'
    <2>1. CASE /\ launch' = launch /\ pending' = pending \ {op} /\ op.kind # "Provision"
               /\ \/ instance' \in {NoInstance, instance}
                  \/ ~Exists /\ op.kind = "Schedule" /\ instance' = scheduled
                  \/ Exists /\ instance'.incarnation = instance.incarnation
      <3>1. CASE instance' = NoInstance
        BY <1>2, <2>1, <3>1 DEF EphemeralInv, LaunchOK, UnlaunchedFrom, Exists
      <3>2. CASE instance' = instance
        BY <1>2, <2>1, <3>2 DEF EphemeralInv, LaunchOK, UnlaunchedFrom, Exists
      <3>3. CASE ~Exists /\ op.kind = "Schedule" /\ instance' = scheduled
        <4>1. op = Schedule /\ Schedule \notin pending'
          BY <1>3, <2>1, <3>3, OnlyOneSchedule
        <4>2. launch.phase = "idle" /\ UnlaunchedFrom(1)
          BY <4>1 DEF EphemeralInv, LaunchOK
        <4>3. instance'.incarnation + 1 = 1
          BY <3>3 DEF scheduled
        <4> QED BY <1>2, <2>1, <4>1, <4>2, <4>3 DEF EphemeralInv, LaunchOK, UnlaunchedFrom
      <3>4. CASE Exists /\ instance'.incarnation = instance.incarnation
        <4>1. Schedule \notin pending'
          BY <2>1, <3>4 DEF EphemeralInv, LaunchOK
        <4> QED BY <1>2, <2>1, <3>4, <4>1 DEF EphemeralInv, LaunchOK, UnlaunchedFrom
      <3> QED BY <2>1, <3>1, <3>2, <3>3, <3>4
    <2>2. CASE /\ launch.phase = "saving" /\ op = launch.op
               /\ launch' = [launch EXCEPT !.phase = "saved"] /\ pending' = pending \ {op}
               /\ Exists /\ isScheduled(instance) /\ instance'.incarnation = op.incarnation
      <3>1. Schedule \notin pending' /\ \A o \in pending' : o.kind # "Provision"
        BY <2>2 DEF EphemeralInv, LaunchOK
      <3>2. op.incarnation \in Incarnation /\ UnlaunchedFrom(op.incarnation)
        BY <1>3, <2>2, OperationFields DEF EphemeralInv, EphemeralOK, LaunchOK
      <3>3. UnlaunchedFrom(op.incarnation + 1)
        BY <3>2 DEF UnlaunchedFrom, Incarnation
      <3>4. launch'.phase = "saved" /\ launch'.op = op
        BY <1>3, <2>2
      <3> QED BY <1>2, <2>2, <3>1, <3>2, <3>3, <3>4 DEF LaunchOK, UnlaunchedFrom
    <2>3. CASE /\ launch.phase = "saving" /\ op = launch.op
               /\ launch' = [launch EXCEPT !.phase = "reverting"]
               /\ pending' = (pending \ {op}) \cup {ForceExpunge} /\ instance' = instance
      <3>1. Schedule \notin pending' /\ \A o \in pending' : o.kind # "Provision"
        BY <2>3 DEF EphemeralInv, LaunchOK, ForceExpunge, Schedule
      <3>2. launch'.phase = "reverting" /\ launch'.op = launch.op
        BY <1>3, <2>3
      <3> QED BY <1>2, <2>3, <3>1, <3>2 DEF EphemeralInv, LaunchOK, UnlaunchedFrom, Exists
    <2>4. CASE /\ launch.phase = "reverting" /\ op = ForceExpunge
               /\ launch' = [launch EXCEPT !.phase = "saved"] /\ pending' = pending \ {op}
               /\ instance' = NoInstance
      <3>1. Schedule \notin pending' /\ \A o \in pending' : o.kind # "Provision"
        BY <2>4 DEF EphemeralInv, LaunchOK
      <3>2. launch'.phase = "saved" /\ launch'.op = launch.op
        BY <1>3, <2>4
      <3> QED BY <1>2, <2>4, <3>1, <3>2 DEF EphemeralInv, LaunchOK, UnlaunchedFrom, Exists
    <2>5. CASE /\ launch.phase = "reverting" /\ op = ForceExpunge
               /\ launch' = NoLaunch /\ pending' = pending \ {op} /\ instance' = instance
      <3>1. Schedule \notin pending' /\ \A o \in pending' : o.kind # "Provision"
        BY <2>5 DEF EphemeralInv, LaunchOK
      <3>2. launch'.phase = "idle"
        BY <2>5 DEF NoLaunch
      <3> QED BY <1>2, <2>5, <3>1, <3>2 DEF EphemeralInv, LaunchOK, UnlaunchedFrom, Exists
    <2> QED BY <1>1, <2>1, <2>2, <2>3, <2>4, <2>5 DEF Applied
  <1> QED BY <1>4, <1>5, <1>6, <1>8 DEF EphemeralInv

LEMMA NextKeepsEphemeralInv ==
    ASSUME Resident = FALSE, TypeOK, EphemeralInv, [Next]_vars
    PROVE  EphemeralInv'
  <1>0. Exists => ~hasReservation(instance)
    BY DEF EphemeralInv, EphemeralOK
  <1>1. CASE DecideReschedule \/ DecideReservationTimeout
    BY <1>0, <1>1 DEF DecideReschedule, DecideReservationTimeout, hasReservation
  <1>2. ASSUME NEW goal \in GoalChanges, DecideGoal(goal) PROVE EphemeralInv'
    <2>1. goal = "GoalDecommissioned"
      BY <1>0, <1>2, LifecycleAssumption DEF DecideGoal
    <2> QED BY <1>2, <2>1, DecideKeepsEphemeralInv DEF DecideGoal, Decide, ChangeGoal, EphemeralOp
  <1>3. CASE DecideExpunge \/ DecideWipe
    BY <1>3, DecideKeepsEphemeralInv DEF DecideExpunge, DecideWipe, Decide, ForceExpunge, EphemeralOp
  <1>4. CASE MatchOffer
    BY <1>4, MatchOfferKeepsEphemeralInv
  <1>5. CASE AcceptOffer
    BY <1>5, AcceptOfferKeepsEphemeralInv
  <1>6. CASE RejectOffer
    BY <1>6, RejectOfferKeepsEphemeralInv
  <1>7. ASSUME UNCHANGED <<instance, pending, launch, launches>> PROVE EphemeralInv'
    <2>1. ForceExpunge.kind \notin {"Schedule", "Provision"} /\ EphemeralOp(ForceExpunge)
      BY DEF ForceExpunge, EphemeralOp
    <2> QED BY <1>7, <2>1, DecideKeepsEphemeralInv
  <1>8. CASE Tick \/ UNCHANGED vars
    BY <1>7, <1>8 DEF Tick, vars
  <1>9. ASSUME NEW inc \in Incarnation, NEW k \in TaskIndex, NEW s \in Statuses, MesosStep(inc, k, s)
        PROVE  EphemeralInv'
    BY <1>7, <1>9 DEF MesosStep
  <1>10. ASSUME NEW inc \in Incarnation, NEW k \in TaskIndex, Report(inc, k) PROVE EphemeralInv'
    <2> DEFINE op == MesosUpdate(inc, k, mesos[inc][k])
    <2>1. op.kind = "MesosUpdate"
      BY DEF MesosUpdate
    <2>2. pending' \subseteq pending \cup {op} /\ UNCHANGED <<instance, launch, launches>>
      BY <1>10 DEF Report, Decide
    <2> HIDE DEF op
    <2> QED BY <2>1, <2>2, DecideKeepsEphemeralInv DEF EphemeralOp
  <1>11. ASSUME NEW op \in pending, NEW stored \in BOOLEAN, Apply(op, stored) PROVE EphemeralInv'
    BY <1>11, ApplyKeepsEphemeralInv
  <1> QED BY <1>1, <1>2, <1>3, <1>4, <1>5, <1>6, <1>8, <1>9, <1>10, <1>11 DEF Next

LEMMA EphemeralInvHolds ==
    ASSUME Resident = FALSE
    PROVE  Spec => [](TypeOK /\ EphemeralInv)
  <1>1. TypeOK /\ EphemeralInv /\ [Next]_vars => EphemeralInv'
    BY NextKeepsEphemeralInv
  <1> QED BY <1>1, InitEphemeralInv, TypeCorrect, PTL DEF Spec

(***************************************************************************)
(* Without persistent volumes no task id is handed to Mesos twice, though  *)
(* a launch that could not be saved goes on as if it had been, and the     *)
(* expunge that takes it back may fail as well                             *)
(* (OfferProcessorImpl.saveTasks, revertTaskOps).                          *)
(***************************************************************************)
THEOREM LaunchedOnceCorrect ==
    ASSUME Resident = FALSE
    PROVE  Spec => []IncarnationLaunchedOnce
  <1>1. EphemeralInv => IncarnationLaunchedOnce
    BY DEF EphemeralInv
  <1> QED BY <1>1, EphemeralInvHolds, PTL

(***************************************************************************)
(* An ephemeral instance that is no longer wanted and has no task left is  *)
(* not kept: whichever comes last, the change of the goal or the end of a  *)
(* task, removes it (Goal.scala:42).                                       *)
(***************************************************************************)
THEOREM RemovedCorrect ==
    ASSUME Resident = FALSE
    PROVE  Spec => []DecommissionedIsRemoved
  <1>1. EphemeralInv => DecommissionedIsRemoved
    BY DEF EphemeralInv
  <1> QED BY <1>1, EphemeralInvHolds, PTL

------------------------------------------------------------------------------
(* An ephemeral instance of an app: one task                               *)

(* An instance that waits for its first launch has no task, any other has. *)
WaitingOK(inst) ==
    /\ TasksLaunched(inst)
    /\ inst.condition = "Scheduled" => inst.tasksMap = <<>>
    /\ inst.tasksMap = <<>> => inst.incarnation = 0

(* A task runs that Mesos has not given up in the meantime.                *)
Lives(inc, k) == isLive(inc, k) /\ <<inc, k>> \notin vanished

(***************************************************************************)
(* Only tasks of the instance's incarnation live: it is launched again     *)
(* only when the one before is over, and once it is gone it does not come  *)
(* back.                                                                   *)
(***************************************************************************)
AloneInv ==
    Exists =>
      /\ WaitingOK(instance)
      /\ \A inc \in Incarnation, k \in TaskIndex : Lives(inc, k) => inc = instance.incarnation

LEMMA resolveWaiting ==
    ASSUME NEW inst \in Instance \cup {NoInstance}, NEW op \in Operation, EphemeralOp(op),
           inst # NoInstance => ~hasReservation(inst) /\ WaitingOK(inst),
           resolve(inst, op).kind = "Update"
    PROVE  WaitingOK(resolve(inst, op).instance)
  <1>1. CASE op.kind = "Schedule"
    BY <1>1 DEF resolve, Update, Fail, scheduled, WaitingOK, TasksLaunched
  <1>2. CASE op.kind # "Schedule" /\ inst = NoInstance
    BY <1>2 DEF resolve, Noop, Fail, EphemeralOp
  <1>3. CASE op.kind = "MesosUpdate" /\ inst # NoInstance
    <2> DEFINE new == mesosUpdate(inst, op).instance
               S == {new.tasksMap[k].condition : k \in DOMAIN new.tasksMap}
    <2>1. resolve(inst, op) = mesosUpdate(inst, op)
      BY <1>3 DEF resolve
    <2>2. /\ Follows(new, inst, op.now)
          /\ TasksLaunched(inst) => TasksLaunched(new)
      BY <1>3, <2>1, mesosUpdateFollows
    <2>3. /\ new \in Instance
          /\ op.task \in DOMAIN inst.tasksMap
          /\ DOMAIN new.tasksMap = DOMAIN inst.tasksMap
      BY <1>3, <2>1, mesosUpdateResult
    <2> HIDE DEF new
    <2>4. new.tasksMap \in [TaskIndex -> Task] /\ new.tasksMap # <<>>
      BY <2>3, LaunchedTasks, TasksNotEmpty
    <2>5. TasksLaunched(new) /\ new.condition = conditionFromTasks(new.tasksMap, op.now)
      BY <1>3, <2>2 DEF Follows, WaitingOK
    <2>6. new.condition \in {minByHierarchy(S), "UnreachableInactive"}
      BY <2>4, <2>5, conditionFromTasksType
    <2>7. S \in SUBSET Condition /\ S # {} /\ "Scheduled" \notin S
      BY <2>3, <2>4, <2>5 DEF TasksLaunched, Task
    <2> HIDE DEF S
    <2>8. minByHierarchy(S) \in S
      BY <2>7, minByHierarchyType
    <2>9. new.condition # "Scheduled"
      BY <2>6, <2>7, <2>8
    <2>10. WaitingOK(new)
      BY <2>4, <2>5, <2>9 DEF WaitingOK
    <2> QED BY <2>1, <2>10 DEF new
  <1>4. CASE op.kind \in {"ForceExpunge", "Provision", "ChangeGoal"} /\ inst # NoInstance
    <2> DEFINE new == resolve(inst, op).instance
    <2>1. \/ new.condition = "Provisioned" /\ new.tasksMap = provisionedTasks
          \/ /\ new.condition = inst.condition
             /\ new.incarnation = inst.incarnation /\ new.tasksMap = inst.tasksMap
      BY <1>4, resolveOfCallers
    <2>2. provisionedTasks \in [TaskIndex -> Task]
      BY DEF provisionedTasks, Task, Condition, Active
    <2>3. provisionedTasks # <<>>
      BY <2>2, TasksNotEmpty
    <2>4. \A k \in DOMAIN provisionedTasks : provisionedTasks[k].condition # "Scheduled"
      BY DEF provisionedTasks
    <2> HIDE DEF new
    <2>5. WaitingOK(new)
      BY <1>4, <2>1, <2>3, <2>4 DEF WaitingOK, TasksLaunched
    <2> QED BY <2>5 DEF new
  <1> QED BY <1>1, <1>2, <1>3, <1>4 DEF EphemeralOp

LEMMA ScheduledIsAlone ==
    ASSUME NumTasks = 1, IInv, EphemeralInv, AloneInv
    PROVE  ScheduledIsNotRunning
  <1> SUFFICES ASSUME Exists, isScheduled(instance),
                      NEW inc \in Incarnation, NEW k \in TaskIndex, Lives(inc, k)
               PROVE  FALSE
    BY DEF ScheduledIsNotRunning, Lives
  <1>1. inc = instance.incarnation /\ WaitingOK(instance)
    BY DEF AloneInv
  <1>2. k = 1 /\ DOMAIN instance.tasksMap \subseteq {1}
    BY DEF TaskIndex, IInv, TypeOK, Instance, Exists
  <1>3. CASE instance.tasksMap = <<>>
    <2>1. inc = 0
      BY <1>1, <1>3 DEF WaitingOK
    <2> QED BY <2>1 DEF Incarnation
  <1>4. CASE instance.tasksMap # <<>>
    <2>1. instance.condition \in Terminal /\ instance.condition # "UnreachableInactive"
      BY <1>1, <1>4 DEF WaitingOK, isScheduled, Terminal, Failure
    <2> DEFINE S == {instance.tasksMap[j].condition : j \in DOMAIN instance.tasksMap}
    <2>2. instance.tasksMap \in [TaskIndex -> Task]
      BY <1>4 DEF IInv, TypeOK, Instance, Exists
    <2>3. S = {instance.tasksMap[1].condition} /\ S \in SUBSET Condition
      BY <2>2 DEF TaskIndex, Task
    <2>4. instance.condition = "Scheduled" \/ instance.condition = minByHierarchy(S)
      BY <2>1 DEF IInv, InstancesConfirmed, Confirmed, ConditionAgrees
    <2> HIDE DEF S
    <2>5. minByHierarchy(S) = instance.tasksMap[1].condition
      BY <2>3, minByHierarchyType
    <2>6. instance.tasksMap[1].condition \in Terminal
      BY <2>1, <2>4, <2>5 DEF Terminal, Failure
    <2>7. 1 \in DOMAIN instance.tasksMap
      BY <2>2 DEF TaskIndex
    <2> DEFINE b == mayReturn(instance.tasksMap[1].mesosStatus)
    <2>8. b \in BOOLEAN
      BY DEF mayReturn
    <2>9. <<inc, k, b>> \in DeadTasks
      BY <1>1, <1>2, <2>6, <2>7 DEF IInv, InstancesConfirmed, Confirmed
    <2> HIDE DEF b
    <2> QED BY <2>8, <2>9 DEF DeadTasks, Lives
  <1> QED BY <1>3, <1>4

LEMMA ApplyKeepsAloneInv ==
    ASSUME NumTasks = 1, IInv, EphemeralInv, AloneInv,
           NEW op \in pending, NEW stored \in BOOLEAN, Apply(op, stored)
    PROVE  AloneInv'
  <1> SUFFICES ASSUME instance' # NoInstance
               PROVE  /\ WaitingOK(instance')
                      /\ \A inc \in Incarnation, k \in TaskIndex : Lives(inc, k) => inc = instance'.incarnation
    BY DEF AloneInv, Exists, Apply, Lives, isLive, WaitingOK, TasksLaunched
  <1>1. TypeOK /\ op \in Operation /\ EphemeralOp(op) /\ instance \in Instance \cup {NoInstance}
    BY DEF IInv, TypeOK, EphemeralInv, EphemeralOK
  <1>2. Applied(op)
    BY <1>1, ApplyResult
  <1>3. WaitingOK(instance')
    <2> DEFINE effect == IF stored THEN resolve(instance, op) ELSE Fail
               e == resolve(instance, op)
    <2>1. instance' = IF effect.kind \in {"Update", "Expunge"} THEN effect.instance ELSE instance
      BY DEF Apply
    <2>2. e \in {Noop, Expunge, Fail} \/ e.kind = "Update"
      BY <1>1, resolveEffects
    <2>3. e.kind = "Update" => WaitingOK(e.instance)
      BY <1>1, resolveWaiting DEF AloneInv, EphemeralInv, EphemeralOK, Exists
    <2>4. instance # NoInstance => WaitingOK(instance)
      BY DEF AloneInv, Exists
    <2>5. effect = Fail \/ effect = e
      OBVIOUS
    <2> HIDE DEF effect, e
    <2> QED BY <2>1, <2>2, <2>3, <2>4, <2>5 DEF Noop, Expunge, Fail
  <1>4. ASSUME NEW inc \in Incarnation, NEW k \in TaskIndex, Lives(inc, k)
        PROVE  inc = instance'.incarnation
    <2>1. Exists => inc = instance.incarnation
      BY <1>4 DEF AloneInv
    <2>2. Exists => ~isScheduled(instance)
      BY <1>4, ScheduledIsAlone DEF ScheduledIsNotRunning, Lives
    <2>3. ~(Schedule \in pending)
      BY <1>4 DEF EphemeralInv, LaunchOK, UnlaunchedFrom, IInv, UnlaunchedUnknown, Lives, isLive, Incarnation
    <2>4. op.kind # "Schedule"
      BY <1>1, <2>3, OnlyOneSchedule
    <2>5. \/ instance' = instance
          \/ Exists /\ instance'.incarnation = instance.incarnation
          \/ Exists /\ isScheduled(instance)
      BY <1>2, <2>4 DEF Applied
    <2> QED BY <2>1, <2>2, <2>5 DEF Exists
  <1> QED BY <1>3, <1>4

(* No task of Mesos comes back to life.                                    *)
LEMMA NoneRevivedKeepsAloneInv ==
    ASSUME AloneInv, UNCHANGED instance,
           \A inc \in Incarnation, k \in TaskIndex : Lives(inc, k)' => Lives(inc, k)
    PROVE  AloneInv'
  BY DEF AloneInv, Exists, WaitingOK, TasksLaunched

LEMMA NextKeepsAloneInv ==
    ASSUME NumTasks = 1, Resident = FALSE, IInv, EphemeralInv, AloneInv, [Next]_vars
    PROVE  AloneInv'
  <1>1. ASSUME UNCHANGED <<instance, mesos, vanished>> PROVE AloneInv'
    BY <1>1, NoneRevivedKeepsAloneInv DEF Lives, isLive
  <1>2. CASE DecideReschedule \/ DecideExpunge \/ DecideWipe \/ DecideReservationTimeout
              \/ MatchOffer \/ RejectOffer \/ Tick \/ UNCHANGED vars
    BY <1>1, <1>2 DEF DecideReschedule, DecideExpunge, DecideWipe, DecideReservationTimeout,
       MatchOffer, RejectOffer, Tick, vars
  <1>3. ASSUME NEW goal \in GoalChanges, DecideGoal(goal) PROVE AloneInv'
    BY <1>1, <1>3 DEF DecideGoal
  <1>4. CASE AcceptOffer
    <2> DEFINE n == launch.op.incarnation
    <2>1. launch.phase = "saved" /\ launch.op.kind = "Provision"
      BY <1>4 DEF AcceptOffer, EphemeralInv, EphemeralOK
    <2>2. n \in Incarnation /\ mesos \in [Incarnation -> [TaskIndex -> MesosStatus \cup {NoStatus}]]
      BY <2>1, OperationFields DEF IInv, TypeOK
    <2>3. UNCHANGED <<instance, vanished>> /\ \A i \in Incarnation : i # n => mesos'[i] = mesos[i]
      BY <1>4, <2>1, <2>2 DEF AcceptOffer
    <2>4. Exists => instance.incarnation = n
      BY <2>1 DEF EphemeralInv, LaunchOK
    <2> HIDE DEF n
    <2>5. \A i \in Incarnation, k \in TaskIndex : i # n => (Lives(i, k)' <=> Lives(i, k))
      BY <2>3 DEF Lives, isLive
    <2>6. Exists' => \A i \in Incarnation, k \in TaskIndex : Lives(i, k)' => i = instance'.incarnation
      BY <2>3, <2>4, <2>5 DEF AloneInv, Exists
    <2>7. Exists' => WaitingOK(instance)'
      BY <2>3 DEF AloneInv, Exists, WaitingOK, TasksLaunched
    <2> QED BY <2>6, <2>7 DEF AloneInv
  <1>5. ASSUME NEW inc \in Incarnation, NEW k \in TaskIndex, NEW s,
               isLive(inc, k), mesos' = [mesos EXCEPT ![inc][k] = s],
               vanished \subseteq vanished', UNCHANGED instance
        PROVE  AloneInv'
    <2>1. mesos \in [Incarnation -> [TaskIndex -> MesosStatus \cup {NoStatus}]]
      BY DEF IInv, TypeOK
    <2>2. \A i \in Incarnation, j \in TaskIndex : <<i, j>> # <<inc, k>> => mesos'[i][j] = mesos[i][j]
      BY <1>5, <2>1
    <2>3. \A i \in Incarnation, j \in TaskIndex : Lives(i, j)' => Lives(i, j)
      <3> SUFFICES ASSUME NEW i \in Incarnation, NEW j \in TaskIndex, Lives(i, j)'
                   PROVE  Lives(i, j)
        OBVIOUS
      <3>1. CASE <<i, j>> = <<inc, k>>
        BY <1>5, <3>1 DEF Lives
      <3>2. CASE <<i, j>> # <<inc, k>>
        BY <1>5, <2>2, <3>2 DEF Lives, isLive
      <3> QED BY <3>1, <3>2
    <2> QED BY <1>5, <2>3, NoneRevivedKeepsAloneInv
  <1>6. ASSUME NEW inc \in Incarnation, NEW k \in TaskIndex, NEW s \in Statuses, MesosStep(inc, k, s)
        PROVE  AloneInv'
    BY <1>5, <1>6 DEF MesosStep
  <1>7. ASSUME NEW inc \in Incarnation, NEW k \in TaskIndex, Report(inc, k) PROVE AloneInv'
    <2>1. CASE UNCHANGED mesos
      BY <1>1, <1>7, <2>1 DEF Report
    <2>2. CASE ~ UNCHANGED mesos
      <3>1. isLive(inc, k) /\ UNCHANGED <<instance, vanished>>
        BY <1>7, <2>2 DEF Report, isLive, ignoreWhenUnknown
      <3>2. \E s : mesos' = [mesos EXCEPT ![inc][k] = s]
        BY <1>7, <2>2 DEF Report, IInv, TypeOK
      <3> QED BY <1>5, <3>1, <3>2
    <2> QED BY <2>1, <2>2
  <1>8. ASSUME NEW op \in pending, NEW stored \in BOOLEAN, Apply(op, stored) PROVE AloneInv'
    BY <1>8, ApplyKeepsAloneInv
  <1> QED BY <1>2, <1>3, <1>4, <1>6, <1>7, <1>8 DEF Next

(***************************************************************************)
(* An app's instance is never launched while a task of it still lives in   *)
(* Mesos, from this incarnation or an earlier one, whatever is delivered   *)
(* late or could not be saved (Instance.isScheduled decides which          *)
(* instances InstanceOpFactoryImpl launches), but for a task that Mesos    *)
(* had reported as gone or unknown before.  For a pod it would not hold:   *)
(* one failed container makes it count as scheduled while another runs.    *)
(***************************************************************************)
THEOREM ScheduledCorrect ==
    ASSUME Resident = FALSE, NumTasks = 1
    PROVE  Spec => []ScheduledIsNotRunning
  <1>1. Init => AloneInv
    BY DEF Init, AloneInv, Exists
  <1>2. IInv /\ (TypeOK /\ EphemeralInv) /\ AloneInv /\ [Next]_vars => AloneInv'
    BY NextKeepsAloneInv
  <1>3. IInv /\ (TypeOK /\ EphemeralInv) /\ AloneInv => ScheduledIsNotRunning
    BY ScheduledIsAlone
  <1> QED BY <1>1, <1>2, <1>3, IInvHolds, EphemeralInvHolds, PTL DEF Spec
=============================================================================
