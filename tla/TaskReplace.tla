---------------------------- MODULE TaskReplace ----------------------------
(* TaskReplaceActor with ReadinessBehavior: replaces the instances of a    *)
(* run spec by instances of a new version, within the limits of its        *)
(* upgrade strategy.  The actor counts what it hears of: events about the  *)
(* instances, which the tracker publishes in order.  Around it are the     *)
(* tracker, the launch queue and its launchers, the kill service and       *)
(* Mesos, and what goes wrong with them.                                   *)
(*                                                                         *)
(* Instances are numbered, the ones of an older version first.  A task is  *)
(* "dead" in any condition that is considered terminal.  A terminal goal   *)
(* is "Ended", which is Stopped for a resident run spec.                   *)
EXTENDS Integers, Sequences, FiniteSets, SequencesExt

CONSTANTS
    Upgrades,           \* run specs, with the instances there are, and how much goes wrong
    MaxInstances,
    None

ASSUME TaskReplaceAssumption ==
    /\ MaxInstances \in Nat
    /\ Upgrades \subseteq
          [instances : Nat \ {0}, minimumHealthCapacity : 0..10, maximumOverCapacity : 0..10,   \* in tenths
           isResident : BOOLEAN, hasHealthChecks : BOOLEAN, hasReadinessChecks : BOOLEAN,
           existing : 0..MaxInstances, waiting : 0..MaxInstances,   \* of the existing ones, to be launched
           faults : Nat]

VARIABLES
    conf,
    tracker,
    created,                \* how many instances there have ever been
    phase,                  \* of the actor
    maxCapacity, oldActiveInstanceIds, toKill, instancesStarted,
    healthy, ready,
    subscriptions,          \* the instances whose readiness checks run
    mailbox,
    goals,                  \* setGoal calls in progress
    adds,                   \* LaunchQueue.add calls in progress, with the setGoal calls before each
    faults,                 \* how much may still go wrong
    history                 \* what has gone wrong

state == <<maxCapacity, oldActiveInstanceIds, toKill, instancesStarted, healthy, ready, subscriptions>>
trouble == <<faults, history>>
vars == <<conf, tracker, created, phase, state, mailbox, goals, adds, trouble>>

Ids == 1..MaxInstances
Instance == [old : BOOLEAN, cond : {"scheduled", "running", "dead"}, goal : {"Running", "Ended"},
             healthy : BOOLEAN]
ASSUME NoneAssumption == None \notin Instance

Message ==
    [type : {"InstanceChanged"}, id : Ids, old : BOOLEAN, cond : {"scheduled", "running", "dead"},
     goal : {"Running", "Ended"}]
    \cup [type : {"InstanceHealthy", "ReadinessCheckResult"}, id : Ids]
    \cup [type : {"CheckFinished", "Failure"}]

TypeOK ==
    /\ conf \in Upgrades
    /\ tracker \in [Ids -> Instance \cup {None}]
    /\ created \in 0..MaxInstances
    /\ phase \in {"initializing", "launching", "initialized", "stopped", "finished"}
    /\ maxCapacity \in Nat
    /\ oldActiveInstanceIds \subseteq Ids
    /\ toKill \in Seq(Ids)
    /\ instancesStarted \in Int
    /\ healthy \subseteq Ids /\ ready \subseteq Ids /\ subscriptions \subseteq Ids
    /\ mailbox \in Seq(Message)
    /\ goals \subseteq [id : Ids, awaited : BOOLEAN]
    /\ adds \in Seq([count : Nat, reply : {"Done", "CheckFinished", "none"}, after : SUBSET Ids])
    /\ faults \in Nat
    /\ history \subseteq {"task", "health", "leader", "add", "timeout", "goal", "others"}

exists(i) == tracker[i] /= None
isOld(i) == exists(i) /\ tracker[i].old
isNew(i) == exists(i) /\ ~ tracker[i].old
wanted(i) == exists(i) /\ tracker[i].goal = "Running"
isRunning(i) == exists(i) /\ tracker[i].cond = "running"
Count(P(_)) == Cardinality({i \in Ids : P(i)})

Init ==
    /\ conf \in Upgrades
    /\ tracker = [i \in Ids |-> IF i <= conf.existing
                                THEN [old |-> TRUE, goal |-> "Running",
                                      cond |-> IF i <= conf.waiting THEN "scheduled" ELSE "running",
                                      healthy |-> conf.hasHealthChecks /\ i > conf.waiting]
                                ELSE None]
    /\ created = conf.existing
    /\ phase = "initializing"
    /\ maxCapacity = 0 /\ oldActiveInstanceIds = {} /\ toKill = <<>> /\ instancesStarted = 0
    /\ healthy = {} /\ ready = {} /\ subscriptions = {}
    /\ mailbox = <<>>
    /\ goals = {}
    /\ adds = <<>>
    /\ faults = conf.faults
    /\ history = {}

max(a, b) == IF a > b THEN a ELSE b
min(a, b) == IF a < b THEN a ELSE b

(***************************************************************************)
(* The upgrade strategy.                                                   *)
(***************************************************************************)
minHealthy == (conf.instances * conf.minimumHealthCapacity + 9) \div 10
mostInstances == (conf.instances * (10 + conf.maximumOverCapacity)) \div 10

hasConfiguredHealthChecks == conf.hasHealthChecks \/ conf.hasReadinessChecks
consideredHealthy(i) == exists(i) /\ (~ hasConfiguredHealthChecks \/ tracker[i].healthy)
consideredHealthyInstancesCount == Count(LAMBDA i : wanted(i) /\ consideredHealthy(i))

(* Neither more nor less: one instance has to give way, or to be added.    *)
noRoom == minHealthy = mostInstances /\ mostInstances <= consideredHealthyInstancesCount

nrToKillImmediately ==
    LET surplus == consideredHealthyInstancesCount - minHealthy
        killed == IF noRoom /\ conf.isResident THEN surplus + 1 ELSE max(0, surplus)
        extra == Count(exists) - conf.instances
    IN  max(extra, killed)

startingCapacity == IF noRoom /\ ~ conf.isResident THEN mostInstances + 1 ELSE mostInstances

(* Unhealthy instances are killed first.                                   *)
toKillOrdered(S) ==
    {q \in [1..Cardinality(S) -> S] :
        /\ ToSet(q) = S
        /\ \A j, k \in DOMAIN q : j < k /\ consideredHealthy(q[j]) => consideredHealthy(q[k])}

-----------------------------------------------------------------------------
(***************************************************************************)
(* TaskReplaceActor.                                                       *)
(***************************************************************************)
(* Defect: what is left of the capacity may be negative.                   *)
instancesToStartUnclamped(started, old, capacity) ==
    min(max(0, conf.instances - started), capacity - Cardinality(old) - started)

(* Defect: the old instances that still run do not count.                  *)
instancesToStartOver(started, old, capacity) ==
    min(max(0, conf.instances - started), max(0, capacity - started))

instancesToStartNow(started, old, capacity) ==
    min(max(0, conf.instances - started), max(0, capacity - Cardinality(old) - started))

targetCountReached ==
    Cardinality(healthy') = conf.instances /\ Cardinality(ready') = conf.instances

(* Defect: the new instances are enough.                                   *)
isFinishedWithOld == targetCountReached

isFinished == targetCountReached /\ oldActiveInstanceIds' = {}

kill(ids) == {[id |-> i, awaited |-> FALSE] : i \in ids}
awaitedGoals == {g.id : g \in {h \in goals : h.awaited}}
add(n, reply) == IF n = 0 THEN <<>> ELSE <<[count |-> n, reply |-> reply, after |-> awaitedGoals]>>

(* The instances are loaded, what has been started before is reconciled,   *)
(* and the first instances are killed and started.  Events are stashed     *)
(* until the launch queue has answered.                                    *)
Initialize ==
    LET old == {i \in Ids : isOld(i) /\ wanted(i)}
        started == {i \in Ids : isNew(i)}
        now == instancesToStartNow(Cardinality(started), old, startingCapacity)
    IN  /\ phase = "initializing"
        /\ maxCapacity' = startingCapacity
        /\ oldActiveInstanceIds' = old
        /\ instancesStarted' = Cardinality(started) + now
        /\ healthy' = {i \in started : conf.hasHealthChecks => tracker[i].healthy}
        /\ ready' = IF conf.hasReadinessChecks THEN {} ELSE started
        /\ subscriptions' = IF conf.hasReadinessChecks THEN {i \in started : isRunning(i)} ELSE {}
        /\ \E q \in toKillOrdered(old) :
              LET n == min(nrToKillImmediately, Len(q))
              IN  /\ toKill' = SubSeq(q, n + 1, Len(q))
                  /\ goals' = goals \cup kill(ToSet(SubSeq(q, 1, n)))
        /\ adds' = adds \o add(now, "Done")
        /\ phase' = IF isFinished THEN "finished" ELSE IF now > 0 THEN "launching" ELSE "initialized"
        /\ mailbox' = IF isFinished THEN <<>> ELSE mailbox
        /\ UNCHANGED <<conf, tracker, created, trouble>>

(* The actor ends, or goes on with the rest of its messages.               *)
checkFinished ==
    IF isFinished THEN phase' = "finished" /\ mailbox' = <<>>
                  ELSE phase' = phase /\ mailbox' = Tail(mailbox)
goesOn == phase' = phase /\ mailbox' = Tail(mailbox)

killNextOldInstance ==
    /\ toKill' = IF toKill = <<>> THEN toKill ELSE Tail(toKill)
    /\ goals' = IF toKill = <<>> THEN goals ELSE goals \cup kill({Head(toKill)})

instanceConditionChanged(i) ==
    /\ IF i \in healthy' \cap ready' THEN killNextOldInstance ELSE UNCHANGED <<toKill, goals>>
    /\ checkFinished

(* Defect: an instance that runs counts as healthy.                        *)
InstanceRunsAndIsUp(m) ==
    /\ m.type = "InstanceChanged" /\ ~ m.old /\ m.cond = "running"
    /\ healthy' = healthy \cup {m.id}
    /\ ready' = ready \cup {m.id}
    /\ UNCHANGED <<oldActiveInstanceIds, instancesStarted, adds, subscriptions>>
    /\ instanceConditionChanged(m.id)

(* An event about a running instance of the new version.                   *)
InstanceRuns(m) ==
    /\ m.type = "InstanceChanged" /\ ~ m.old /\ m.cond = "running"
    /\ UNCHANGED <<oldActiveInstanceIds, instancesStarted, adds>>
    /\ healthy' = IF conf.hasHealthChecks THEN healthy ELSE healthy \cup {m.id}
    /\ \/ /\ conf.hasReadinessChecks
          /\ subscriptions' = subscriptions \cup {m.id}
          /\ UNCHANGED <<ready, toKill, goals>>
          /\ goesOn
       \/ /\ ~ conf.hasReadinessChecks /\ ~ conf.hasHealthChecks
          /\ ready' = ready \cup {m.id}
          /\ UNCHANGED subscriptions
          /\ instanceConditionChanged(m.id)
       \/ /\ ~ conf.hasReadinessChecks /\ conf.hasHealthChecks
          /\ UNCHANGED <<ready, subscriptions, toKill, goals>>
          /\ goesOn

InstanceHealthy(m) ==
    /\ m.type = "InstanceHealthy"
    /\ m.id \notin healthy
    /\ healthy' = healthy \cup {m.id}
    /\ ready' = IF conf.hasReadinessChecks THEN ready ELSE ready \cup {m.id}
    /\ UNCHANGED <<oldActiveInstanceIds, instancesStarted, subscriptions, adds>>
    /\ instanceConditionChanged(m.id)

InstanceStillHealthy(m) ==
    /\ m.type = "InstanceHealthy"
    /\ m.id \in healthy
    /\ goesOn
    /\ UNCHANGED <<oldActiveInstanceIds, toKill, instancesStarted, healthy, ready, subscriptions,
                   goals, adds>>

ReadinessCheckResult(m) ==
    /\ m.type = "ReadinessCheckResult"
    /\ ready' = ready \cup {m.id}
    /\ subscriptions' = subscriptions \ {m.id}
    /\ UNCHANGED <<oldActiveInstanceIds, instancesStarted, healthy, adds>>
    /\ instanceConditionChanged(m.id)

instanceTerminated(i) == healthy' = healthy \ {i} /\ ready' = ready \ {i}

(* A new instance has failed: the same instance will be launched again.    *)
(* If its goal is not to run, somebody interferes.                         *)
NewTerminated(m) ==
    /\ m.type = "InstanceChanged" /\ ~ m.old /\ m.cond = "dead"
    /\ \/ /\ m.goal = "Running"
          /\ instanceTerminated(m.id)
          /\ UNCHANGED instancesStarted
       \/ /\ m.goal = "Ended"
          /\ instancesStarted' = instancesStarted - 1
          /\ UNCHANGED <<healthy, ready>>
    /\ goesOn
    /\ UNCHANGED <<oldActiveInstanceIds, toKill, subscriptions, goals, adds>>

(* An old instance has ended by itself.  The answer of setGoal is awaited. *)
OldTerminated(m) ==
    /\ m.type = "InstanceChanged" /\ m.old /\ m.cond = "dead" /\ m.goal = "Running"
    /\ oldActiveInstanceIds' = oldActiveInstanceIds \ {m.id}
    /\ instanceTerminated(m.id)
    /\ goals' = goals \cup {[id |-> m.id, awaited |-> TRUE]}
    /\ goesOn
    /\ UNCHANGED <<toKill, instancesStarted, subscriptions, adds>>

(* Defect: nothing takes the place of the instance.                        *)
OldEndedOnly(m) ==
    /\ m.type = "InstanceChanged" /\ m.old /\ m.cond \in {"dead", "scheduled"} /\ m.goal = "Ended"
    /\ oldActiveInstanceIds' = oldActiveInstanceIds \ {m.id}
    /\ instanceTerminated(m.id)
    /\ phase' = phase
    /\ mailbox' = Append(Tail(mailbox), [type |-> "CheckFinished"])
    /\ UNCHANGED <<toKill, instancesStarted, subscriptions, goals, adds>>

(* An old instance has been killed, or it was never launched.              *)
OldEnded(m) ==
    LET old == oldActiveInstanceIds \ {m.id}
        now == instancesToStartNow(instancesStarted, old, maxCapacity)
    IN  /\ m.type = "InstanceChanged" /\ m.old /\ m.cond \in {"dead", "scheduled"} /\ m.goal = "Ended"
        /\ oldActiveInstanceIds' = old
        /\ instanceTerminated(m.id)
        /\ instancesStarted' = instancesStarted + now
        /\ adds' = adds \o add(now, "CheckFinished")
        /\ phase' = phase
        /\ mailbox' = Tail(mailbox) \o (IF now = 0 THEN <<[type |-> "CheckFinished"]>> ELSE <<>>)
        /\ UNCHANGED <<toKill, subscriptions, goals>>

CheckFinished(m) ==
    /\ m.type = "CheckFinished"
    /\ UNCHANGED <<oldActiveInstanceIds, toKill, instancesStarted, healthy, ready, subscriptions,
                   goals, adds>>
    /\ checkFinished

(* Nobody hears the answers of calls that were made by an actor that has   *)
(* failed.                                                                 *)
fail ==
    /\ phase' = "stopped"
    /\ mailbox' = <<>>
    /\ goals' = {[g EXCEPT !.awaited = FALSE] : g \in goals}
    /\ adds' = [k \in DOMAIN adds |-> [adds[k] EXCEPT !.reply = "none"]]

Failed(m) ==
    /\ m.type = "Failure"
    /\ fail
    /\ UNCHANGED <<oldActiveInstanceIds, toKill, instancesStarted, healthy, ready, subscriptions>>

Handle(m) ==
    \/ InstanceRuns(m) \/ InstanceHealthy(m) \/ InstanceStillHealthy(m) \/ ReadinessCheckResult(m)
    \/ NewTerminated(m) \/ OldTerminated(m) \/ OldEnded(m)
    \/ CheckFinished(m) \/ Failed(m)

Receive ==
    /\ phase = "initialized"
    /\ mailbox /= <<>>
    /\ Handle(Head(mailbox))
    /\ UNCHANGED <<conf, tracker, created, maxCapacity, trouble>>

(* The supervisor starts the actor again after a while.  It subscribes to  *)
(* the events before it asks for the instances.                            *)
Restart ==
    /\ phase = "stopped"
    /\ phase' = "initializing"
    /\ UNCHANGED <<conf, tracker, created, state, mailbox, goals, adds, trouble>>

-----------------------------------------------------------------------------
(***************************************************************************)
(* The tracker.                                                            *)
(***************************************************************************)
subscribed == phase \in {"initializing", "launching", "initialized"}
publish(ms) == mailbox' = IF subscribed THEN mailbox \o ms ELSE mailbox

(* The actor does nothing with an event about an old instance that runs,   *)
(* or a new one that does not run yet.                                     *)
InstanceChanged(i, x) ==
    IF x.cond = (IF x.old THEN "running" ELSE "scheduled") THEN <<>>
    ELSE <<[type |-> "InstanceChanged", id |-> i, old |-> x.old, cond |-> x.cond, goal |-> x.goal]>>

(* An instance without a reservation is expunged when it has ended.        *)
update(i, x) ==
    /\ tracker' = [tracker EXCEPT
                      ![i] = IF x.goal = "Ended" /\ x.cond /= "running" /\ ~ conf.isResident
                             THEN None ELSE x]
    /\ publish(InstanceChanged(i, x))

fault(kind) ==
    /\ faults > 0
    /\ faults' = faults - 1
    /\ history' = history \cup {kind}

answer(awaited) == mailbox' = IF awaited THEN Append(mailbox, [type |-> "Failure"]) ELSE mailbox

SetGoal(g) ==
    /\ goals' = goals \ {g}
    /\ \/ wanted(g.id) /\ update(g.id, [tracker[g.id] EXCEPT !.goal = "Ended"])
       \/ exists(g.id) /\ ~ wanted(g.id) /\ UNCHANGED <<tracker, mailbox>>
       \/ /\ ~ exists(g.id)
          /\ answer(g.awaited)
          /\ UNCHANGED tracker
    /\ UNCHANGED <<conf, created, phase, state, adds, trouble>>

SetGoalFails(g) ==
    /\ fault("goal")
    /\ goals' = goals \ {g}
    /\ answer(g.awaited)
    /\ UNCHANGED <<conf, tracker, created, phase, state, adds>>

(* Launchers launch what is scheduled, or has ended and should run.        *)
TaskRuns(i) ==
    /\ wanted(i) /\ ~ isRunning(i)
    /\ update(i, [tracker[i] EXCEPT !.cond = "running"])
    /\ UNCHANGED <<conf, created, phase, state, goals, adds, trouble>>

TaskKilled(i) ==
    /\ isRunning(i) /\ ~ wanted(i)
    /\ update(i, [tracker[i] EXCEPT !.cond = "dead", !.healthy = FALSE])
    /\ UNCHANGED <<conf, created, phase, state, goals, adds, trouble>>

TaskFails(i) ==
    /\ fault("task")
    /\ isRunning(i) /\ wanted(i)
    /\ update(i, [tracker[i] EXCEPT !.cond = "dead", !.healthy = FALSE])
    /\ UNCHANGED <<conf, created, phase, state, goals, adds>>

BecomesHealthy(i) ==
    /\ conf.hasHealthChecks
    /\ isRunning(i) /\ ~ tracker[i].healthy
    /\ tracker' = [tracker EXCEPT ![i].healthy = TRUE]
    /\ publish(IF tracker[i].old THEN <<>> ELSE <<[type |-> "InstanceHealthy", id |-> i]>>)
    /\ UNCHANGED <<conf, created, phase, state, goals, adds, trouble>>

BecomesUnhealthy(i) ==
    /\ fault("health")
    /\ isRunning(i) /\ tracker[i].healthy
    /\ tracker' = [tracker EXCEPT ![i].healthy = FALSE]
    /\ UNCHANGED <<conf, created, phase, state, mailbox, goals, adds>>

BecomesReady(i) ==
    /\ phase \in {"launching", "initialized"}
    /\ i \in subscriptions
    /\ isRunning(i)
    /\ \A k \in DOMAIN mailbox : mailbox[k] /= [type |-> "ReadinessCheckResult", id |-> i]
    /\ mailbox' = Append(mailbox, [type |-> "ReadinessCheckResult", id |-> i])
    /\ UNCHANGED <<conf, tracker, created, phase, state, goals, adds, trouble>>

(* Somebody else ends a new instance.                                      *)
Interfere(i) ==
    /\ fault("others")
    /\ isNew(i) /\ wanted(i)
    /\ update(i, [tracker[i] EXCEPT !.goal = "Ended"])
    /\ UNCHANGED <<conf, created, phase, state, goals, adds>>

-----------------------------------------------------------------------------
(***************************************************************************)
(* The launch queue works on one call at a time.  Stopped instances of a   *)
(* resident run spec are used again.                                       *)
(***************************************************************************)
reusable == {i \in Ids : exists(i) /\ conf.isResident /\ tracker[i].cond = "dead" /\ ~ wanted(i)}
Added == [old |-> FALSE, cond |-> "scheduled", goal |-> "Running", healthy |-> FALSE]

addInstances(n) ==
    LET r == min(n, Cardinality(reusable))
        fresh == (created + 1)..(created + n - r)
    IN  /\ created + n - r <= MaxInstances
        /\ created' = created + n - r
        /\ \E S \in SUBSET reusable :
              /\ Cardinality(S) = r
              /\ tracker' = [i \in Ids |-> IF i \in S \cup fresh THEN Added ELSE tracker[i]]

(* Updates that were sent before it are done before it: the stopped        *)
(* instances that an add takes are those the updates have made.  In the    *)
(* code its calls of the tracker are several, and the query of the first   *)
(* reads the memory without waiting for the queue, so a reservation        *)
(* stopped just before may be missed and a fresh instance be added.        *)
isNext(a) == a.count > 0 /\ a.after \cap awaitedGoals = {}

AddDone ==
    /\ adds /= <<>>
    /\ isNext(Head(adds))
    /\ addInstances(Head(adds).count)
    /\ adds' = Tail(adds)
    /\ phase' = IF Head(adds).reply = "Done" THEN "initialized" ELSE phase
    /\ mailbox' = IF Head(adds).reply = "CheckFinished"
                  THEN Append(mailbox, [type |-> "CheckFinished"]) ELSE mailbox
    /\ UNCHANGED <<conf, state, goals, trouble>>

(* Some of the instances have been added when an update fails.  The launch *)
(* queue starts again without its calls: they will never be answered.      *)
AddFails ==
    /\ fault("add")
    /\ adds /= <<>>
    /\ isNext(Head(adds))
    /\ \E n \in 0..(Head(adds).count - 1) : addInstances(n)
    /\ adds' = [k \in DOMAIN adds |-> [adds[k] EXCEPT !.count = 0]]
    /\ UNCHANGED <<conf, phase, state, mailbox, goals>>

(* The actor hears of it, and fails at once if it waits for this answer.   *)
givesUp(k) ==
    /\ phase' = IF adds[k].reply = "Done" THEN "stopped" ELSE phase
    /\ mailbox' = CASE adds[k].reply = "Done" -> <<>>
                    [] adds[k].reply = "CheckFinished" -> Append(mailbox, [type |-> "Failure"])
                    [] OTHER -> mailbox
    /\ UNCHANGED <<conf, tracker, created, state, goals>>

LostAddTimesOut(k) ==
    /\ adds[k].count = 0
    /\ givesUp(k)
    /\ adds' = RemoveAt(adds, k)
    /\ UNCHANGED trouble

(* The caller gives up, the launch queue does not.                         *)
AddTimesOut(k) ==
    /\ fault("timeout")
    /\ adds[k].count > 0 /\ adds[k].reply /= "none"
    /\ givesUp(k)
    /\ adds' = [adds EXCEPT ![k].reply = "none"]

(* A new leader recovers the deployment.  Calls that are queued are lost.  *)
Failover ==
    /\ fault("leader")
    /\ phase /= "finished"
    /\ phase' = "stopped"
    /\ mailbox' = <<>>
    /\ goals' = {}
    /\ adds' = <<>>
    /\ UNCHANGED <<conf, tracker, created, state>>

Actor == Initialize \/ Receive \/ Restart

Next ==
    \/ Actor
    \/ \E g \in goals : SetGoal(g) \/ SetGoalFails(g)
    \/ \E i \in Ids : TaskRuns(i) \/ TaskKilled(i) \/ TaskFails(i) \/ BecomesHealthy(i)
                      \/ BecomesUnhealthy(i) \/ BecomesReady(i) \/ Interfere(i)
    \/ AddDone
    \/ AddFails
    \/ \E k \in DOMAIN adds : LostAddTimesOut(k) \/ AddTimesOut(k)
    \/ Failover

Spec == Init /\ [][Next]_vars

(* Messages are handled, calls come to an end, launched tasks run and      *)
(* become healthy and ready, and kills succeed.                            *)
FairSpec ==
    /\ Spec
    /\ WF_vars(Actor)
    /\ WF_vars(AddDone)
    /\ WF_vars(\E k \in DOMAIN adds : LostAddTimesOut(k))
    /\ WF_vars(\E g \in goals : SetGoal(g))
    /\ \A i \in Ids : /\ WF_vars(TaskRuns(i)) /\ WF_vars(TaskKilled(i))
                      /\ WF_vars(BecomesHealthy(i)) /\ WF_vars(BecomesReady(i))

-----------------------------------------------------------------------------
up(i) == isRunning(i) /\ wanted(i) /\ (conf.hasHealthChecks => tracker[i].healthy)

(* As long as nothing goes wrong, at any time as many instances are up and *)
(* meant to stay as minimumHealthCapacity asks for, or as there were, if   *)
(* there were fewer; a resident run spec without room for another instance *)
(* gives up one of them.                                                   *)
HealthyKept ==
    history = {} /\ conf.waiting = 0 =>
        Count(up) >= min(minHealthy, conf.existing)
                        - (IF conf.isResident /\ minHealthy = mostInstances THEN 1 ELSE 0)

(* As long as nothing goes wrong, there are never more tasks, or instances *)
(* about to be launched, than maximumOverCapacity allows.                  *)
CapacityKept ==
    history = {} /\ phase /= "initializing" =>
        Count(LAMBDA i : wanted(i) \/ isRunning(i)) <= max(maxCapacity, conf.existing)

(* When the deployment step is over no old instance is meant to run, but   *)
(* for one that has failed and is just being ended; and none runs, unless  *)
(* one was relaunched after a failure or the actor was started again and   *)
(* has not counted the ones that were being killed.                        *)
FinishedIsReplaced ==
    phase = "finished" =>
        \A i \in Ids : isOld(i) =>
            /\ wanted(i) => [id |-> i, awaited |-> TRUE] \in goals \/ {"task", "goal"} \subseteq history
            /\ isRunning(i) => history \cap {"task", "leader", "add", "timeout"} /= {}

(* A call of the launch queue goes on after its caller has given up.       *)
outlived == \E k \in DOMAIN adds : adds[k].reply = "none" /\ adds[k].count > 0

(* The replacement comes to an end, through failovers, failed tasks and    *)
(* failed calls of the launch queue.  It need not when a kill is lost, a   *)
(* new instance is ended by others or added by a call that its caller had  *)
(* given up, a reserved instance fails, or an instance is not healthy and  *)
(* there is no capacity over.                                              *)
Finishes ==
    <>(\/ phase = "finished"
       \/ outlived
       \/ history \cap {"goal", "others"} /= {}
       \/ conf.isResident /\ "task" \in history
       \/ /\ conf.hasHealthChecks /\ mostInstances = conf.instances
          /\ history \cap {"task", "health"} /= {})

(* Only others end a new instance (a goal that is not Running is logged as *)
(* interference).                                                          *)
SoleOrchestrator ==
    "others" \notin history => \A i \in Ids : isNew(i) => wanted(i)
=============================================================================
