----------------------------- MODULE KillService -----------------------------
(* KillServiceActor: kills instances in chunks, retries kills that are not *)
(* confirmed, and kills every instance whose goal has become terminal.     *)
(*                                                                         *)
(* Around it: the tracker, whose instances change and are announced on the *)
(* event stream; callers that ask for kills with a copy of the instance    *)
(* they have read earlier; Mesos, which may lose a kill; and the end of    *)
(* leadership, after which a new actor asks the tracker for the instances  *)
(* to kill and subscribes to the events, while everything goes on.         *)
(* Messages reach the actor in the order they were sent, at any time.      *)
EXTENDS Integers, Sequences, FiniteSets, Functions

CONSTANTS
    Instances,
    Reserved,           \* the instances with a reservation
    Strays,             \* instances with a running task Marathon does not know
    killChunkSize,
    MayBeUnreachable,   \* whether agents may be partitioned away
    MayEnd,             \* whether tasks may end that nobody has killed
    MaxTask,            \* the largest task number, 0 if nothing is relaunched
    MaxRequests,        \* calls of killInstancesAndForget
    MaxMailbox,         \* messages on their way to the actor when one more may be sent
    MaxRestarts,
    None

ASSUME KillAssumption ==
    /\ IsFiniteSet(Instances)
    /\ Reserved \subseteq Instances
    /\ Strays \subseteq Instances
    /\ killChunkSize \in Nat \ {0}
    /\ MayBeUnreachable \in BOOLEAN /\ MayEnd \in BOOLEAN
    /\ MaxTask \in Nat /\ MaxRequests \in Nat /\ MaxMailbox \in Nat /\ MaxRestarts \in Nat
    /\ Strays /= {} => MaxTask > 0

VARIABLES
    instancesToKill,    \* queued kills by instance
    inFlight,           \* issued kills by instance
    retryTimer,         \* whether the timer is set up
    mailbox,
    instances,          \* what the tracker knows
    mesos,              \* the tasks
    kills,              \* kill calls Mesos has not handled yet
    driver,             \* whether there is a driver
    decommissioning,    \* setGoal calls on their way to the tracker
    read,               \* instances a caller has read and will ask to kill
    requests, restarts, \* counters
    subscribed,         \* whether the actor has subscribed to the events
    query,              \* of preStart, for the instances to kill
    found,              \* its answer, on the way to the actor
    givenUp,            \* kills of the last chunk that were not issued
    unheard             \* instances whose state this actor has not been told

service == <<instancesToKill, inFlight, retryTimer, givenUp>>
vars == <<instancesToKill, inFlight, retryTimer, givenUp, mailbox, instances, mesos, kills, driver,
          decommissioning, read, requests, restarts, subscribed, query, found, unheard>>

callers == <<read, requests, restarts>>
asking == <<subscribed, query, found>>
start == <<asking, unheard>>

Tasks == Instances \X (0..MaxTask)
Conditions == {"Running", "Unreachable", "Killed", "Expunged"}
Goals == {"Running", "Stopped", "Decommissioned"}
Instance == [condition : Conditions, goal : Goals, task : 0..MaxTask]
ToKill == [tasks : SUBSET Tasks, known : Instance \cup {None}]
(* The functions from some of the instances to T, and the empty one.       *)
PartialFunction(T) == UNION {[S -> T] : S \in SUBSET Instances}
Nothing == [i \in {} |-> None]

Messages ==
    [type : {"KillInstances"}, instances : PartialFunction(Instance)]
    \cup [type : {"KillUnknownTaskById"}, task : Tasks]
    \cup [type : {"InstanceChanged"}, id : Instances, instance : Instance]
    \cup [type : {"UnknownInstanceTerminated"}, id : Instances]

IsKills(f) == DOMAIN f \subseteq Instances /\ f \in [DOMAIN f -> ToKill]

TypeOK ==
    /\ IsKills(instancesToKill)
    /\ IsKills(inFlight)
    /\ retryTimer \in BOOLEAN
    /\ mailbox \in Seq(Messages)
    /\ read \in PartialFunction(Instance)
    /\ instances \in [Instances -> Instance]
    /\ mesos \in [Tasks -> {"none", "running", "unreachable", "dead"}]
    /\ kills \subseteq Tasks
    /\ driver \in BOOLEAN
    /\ decommissioning \subseteq Instances
    /\ requests \in 0..MaxRequests
    /\ restarts \in 0..MaxRestarts
    /\ subscribed \in BOOLEAN
    /\ query \in {"none", "asked", "answered"}
    /\ found \in PartialFunction(Instance)
    /\ unheard \subseteq Instances
    /\ givenUp \in Nat

firstTask(i) == IF i \in Strays THEN 1 ELSE 0

Init ==
    /\ instancesToKill = Nothing
    /\ inFlight = Nothing
    /\ retryTimer = FALSE
    /\ mailbox = <<>>
    /\ instances = [i \in Instances |-> [condition |-> "Running", goal |-> "Running",
                                         task |-> firstTask(i)]]
    /\ mesos = [t \in Tasks |-> IF t[2] <= firstTask(t[1]) THEN "running" ELSE "none"]
    /\ kills = {}
    /\ driver = TRUE
    /\ decommissioning = {}
    /\ read = Nothing
    /\ requests = 0
    /\ restarts = 0
    /\ subscribed = TRUE
    /\ query = "none"
    /\ found = Nothing
    /\ unheard = {}
    /\ givenUp = 0

considerTerminal(condition) == condition \in {"Unreachable", "Killed", "Expunged"}
goalIsTerminal(instance) == instance.goal \in {"Stopped", "Decommissioned"}
isTerminalTask(instance) == instance.condition \in {"Killed", "Expunged"}

(***************************************************************************)
(* The actor.                                                              *)
(***************************************************************************)
KillAction(i, toKill) ==
    IF /\ toKill.known /= None
       /\ toKill.known.condition = "Unreachable"
       /\ toKill.known.goal = "Running"
    THEN IF i \in Reserved THEN "Noop" ELSE "Decommission"
    ELSE "IssueKillRequest"

Without(f, S) == [i \in DOMAIN f \ S |-> f[i]]
With(f, g) == [i \in DOMAIN f \cup DOMAIN g |-> IF i \in DOMAIN g THEN g[i] ELSE f[i]]

(* driver.killTask for the tasks of these kills, if there is a driver.     *)
killTasks(toKill) ==
    IF driver THEN kills \cup UNION {toKill[i].tasks : i \in DOMAIN toKill} ELSE kills

acting(toKillNow, action) == {i \in DOMAIN toKillNow : KillAction(i, toKillNow[i]) = action}

(* processKill, for every kill of toKillNow.                               *)
processKill(toKillNow, flying) ==
    LET issued == Restrict(toKillNow, acting(toKillNow, "IssueKillRequest"))
    IN  /\ kills' = killTasks(issued)
        /\ inFlight' = With(flying, issued)
        /\ decommissioning' = decommissioning \cup acting(toKillNow, "Decommission")

(* The kills to process now: as many as fit, in the order of a hash map.   *)
(* Defect: the kills in flight are not counted.                            *)
killCountOfChunk(flying) == killChunkSize

killCount(flying) == killChunkSize - Cardinality(DOMAIN flying)

take(queued, flying) ==
    {S \in SUBSET DOMAIN queued :
        \/ S = {} /\ killCount(flying) <= 0
        \/ Cardinality(S) = killCount(flying)
        \/ S = DOMAIN queued /\ Cardinality(S) < killCount(flying)}

processKills(queued, flying) ==
    \E S \in take(queued, flying) :
        /\ processKill(Restrict(queued, S), flying)
        /\ givenUp' = Cardinality(S \ acting(queued, "IssueKillRequest"))
        /\ instancesToKill' = Without(queued, S)
        /\ retryTimer' = (DOMAIN inFlight' /= {})

(* Defect: what is in flight is queued again.                              *)
killInstancesAgain(asked) ==
    LET fresh == {i \in DOMAIN asked : ~isTerminalTask(asked[i])}
    IN  processKills(With(instancesToKill,
                          [i \in fresh |-> [tasks |-> {<<i, asked[i].task>>}, known |-> asked[i]]]),
                     inFlight)

(* killInstances: what is in flight already, or has no task to kill, is    *)
(* skipped.                                                                *)
killInstances(asked) ==
    LET fresh == {i \in DOMAIN asked : i \notin DOMAIN inFlight /\ ~isTerminalTask(asked[i])}
    IN  processKills(With(instancesToKill,
                          [i \in fresh |-> [tasks |-> {<<i, asked[i].task>>}, known |-> asked[i]]]),
                     inFlight)

killUnknownTaskById(t) ==
    IF t[1] \in DOMAIN inFlight THEN UNCHANGED <<service, kills, decommissioning>>
    ELSE processKills(With(instancesToKill, [i \in {t[1]} |-> [tasks |-> {t}, known |-> None]]),
                      inFlight)

(* Defect: the next kills are not processed.                               *)
handleTerminalOnly(i) ==
    /\ instancesToKill' = Without(instancesToKill, {i})
    /\ inFlight' = Without(inFlight, {i})
    /\ UNCHANGED <<retryTimer, givenUp, kills, decommissioning>>

handleTerminal(i) == processKills(Without(instancesToKill, {i}), Without(inFlight, {i}))

doomed(i) == i \in DOMAIN inFlight \/ i \in DOMAIN instancesToKill

(* The first case of receive whose guard holds.                            *)
instanceChanged(i, instance) ==
    IF considerTerminal(instance.condition) /\ doomed(i) THEN handleTerminal(i)
    ELSE IF /\ goalIsTerminal(instance)
            /\ ~considerTerminal(instance.condition)
            /\ i \notin DOMAIN instancesToKill
         THEN killInstances([j \in {i} |-> instance])
         ELSE UNCHANGED <<service, kills, decommissioning>>

receive(m) ==
    CASE m.type = "KillInstances" -> killInstances(m.instances)
      [] m.type = "KillUnknownTaskById" -> killUnknownTaskById(m.task)
      [] m.type = "InstanceChanged" -> instanceChanged(m.id, m.instance)
      [] m.type = "UnknownInstanceTerminated" ->
            IF doomed(m.id) THEN handleTerminal(m.id)
            ELSE UNCHANGED <<service, kills, decommissioning>>

(* Messages wait for the end of preStart.                                  *)
Receive ==
    /\ subscribed
    /\ mailbox /= <<>>
    /\ receive(Head(mailbox))
    /\ mailbox' = Tail(mailbox)
    /\ UNCHANGED <<instances, mesos, driver, callers, start>>

(* The timer fires: the kills that have waited for killRetryTimeout are    *)
(* issued again.  The timer goes on.                                       *)
Retry(overdue) ==
    /\ retryTimer
    /\ overdue \subseteq DOMAIN inFlight
    /\ processKill(Restrict(inFlight, overdue), inFlight)
    /\ instancesToKill' = Without(instancesToKill, overdue)
    /\ UNCHANGED <<retryTimer, givenUp, mailbox, instances, mesos, driver, callers, start>>

(***************************************************************************)
(* Its callers and the tracker.                                            *)
(***************************************************************************)
room == Len(mailbox) < MaxMailbox
send(m) == mailbox' = Append(mailbox, m)

(* The event stream reaches its subscribers only.                          *)
announce(m) == mailbox' = IF subscribed THEN Append(mailbox, m) ELSE mailbox
told(i) == unheard' = IF subscribed THEN unheard \ {i} ELSE unheard \cup {i}

(* An ephemeral instance that is over and decommissioned is expunged; the  *)
(* event tells its last state.                                             *)
kept(i, instance) ==
    IF instance.condition = "Killed" /\ instance.goal = "Decommissioned" /\ i \notin Reserved
    THEN [instance EXCEPT !.condition = "Expunged"]
    ELSE instance

changed(i, instance) ==
    /\ instances' = [instances EXCEPT ![i] = kept(i, instance)]
    /\ announce([type |-> "InstanceChanged", id |-> i, instance |-> instance])
    /\ told(i)

(* The API, the overdue job or a failed health check reads active          *)
(* instances and, later, asks for their end.                               *)
ReadInstances(S) ==
    /\ S /= {} /\ read = Nothing
    /\ requests < MaxRequests
    /\ requests' = requests + 1
    /\ \A i \in S : instances[i].condition \in {"Running", "Unreachable"}
    /\ read' = Restrict(instances, S)
    /\ UNCHANGED <<service, mailbox, instances, mesos, kills, driver, decommissioning, restarts,
                   start>>

KillInstancesAndForget ==
    /\ room
    /\ read /= Nothing
    /\ send([type |-> "KillInstances", instances |-> read])
    /\ read' = Nothing
    /\ UNCHANGED <<service, instances, mesos, kills, driver, decommissioning, requests, restarts,
                   start>>

(* A deployment or a scale decides that the instance has to stop.          *)
SetGoal(i, goal) ==
    /\ room
    /\ goal = "Stopped" => i \in Reserved
    /\ instances[i].goal \notin {goal, "Decommissioned"}
    /\ instances[i].condition /= "Expunged"
    /\ changed(i, [instances[i] EXCEPT !.goal = goal])
    /\ UNCHANGED <<service, mesos, kills, driver, decommissioning, callers, asking>>

(* The setGoal of KillAction.Decommission arrives.                         *)
Decommission(i) ==
    /\ i \in decommissioning
    /\ decommissioning' = decommissioning \ {i}
    /\ IF instances[i].condition /= "Expunged" /\ instances[i].goal /= "Decommissioned"
       THEN changed(i, [instances[i] EXCEPT !.goal = "Decommissioned"])
       ELSE UNCHANGED <<instances, mailbox, unheard>>
    /\ UNCHANGED <<service, mesos, kills, driver, callers, asking>>

(* An ended task of an instance that should run is launched again.         *)
Relaunch(i) ==
    /\ room
    /\ instances[i].condition = "Killed"
    /\ instances[i].goal = "Running"
    /\ instances[i].task < MaxTask
    /\ mesos' = [mesos EXCEPT ![<<i, instances[i].task + 1>>] = "running"]
    /\ changed(i, [instances[i] EXCEPT !.condition = "Running", !.task = @ + 1])
    /\ UNCHANGED <<service, kills, driver, decommissioning, callers, asking>>

(* An instance that has been unreachable for long enough is expunged.      *)
ExpungeUnreachable(i) ==
    /\ instances[i].condition = "Unreachable"
    /\ instances' = [instances EXCEPT ![i].condition = "Expunged"]
    /\ announce([type |-> "InstanceChanged", id |-> i, instance |-> instances[i]])
    /\ told(i)
    /\ UNCHANGED <<service, mesos, kills, driver, decommissioning, callers, asking>>

(***************************************************************************)
(* Mesos, and TaskStatusUpdateProcessorImpl.publish for its statuses.      *)
(***************************************************************************)
conditionOf(status) ==
    CASE status = "running" -> "Running"
      [] status = "unreachable" -> "Unreachable"
      [] status = "dead" -> "Killed"

publish(t, status) ==
    LET instance == instances[t[1]]
    IN  IF instance.condition = "Expunged"
        THEN /\ IF status = "running" THEN send([type |-> "KillUnknownTaskById", task |-> t])
                ELSE announce([type |-> "UnknownInstanceTerminated", id |-> t[1]])
             /\ UNCHANGED <<instances, unheard>>
        ELSE IF t[2] /= instance.task
        THEN /\ IF status = "running" THEN send([type |-> "KillUnknownTaskById", task |-> t])
                                     ELSE UNCHANGED mailbox
             /\ UNCHANGED <<instances, unheard>>
        ELSE IF instance.condition = conditionOf(status)
        THEN UNCHANGED <<mailbox, instances, unheard>>
        ELSE changed(t[1], [instance EXCEPT !.condition = conditionOf(status)])

TaskStatus(t, status) ==
    /\ mesos' = [mesos EXCEPT ![t] = status]
    /\ publish(t, status)
    /\ UNCHANGED <<service, driver, decommissioning, callers, asking>>

(* A kill reaches a task, or one that is over already, of which Mesos then *)
(* reports a terminal status; a kill gets lost.                            *)
TaskKilled(t) ==
    /\ t \in kills
    /\ mesos[t] = "running" \/ (mesos[t] = "dead" /\ Len(mailbox) <= MaxMailbox)
    /\ TaskStatus(t, "dead")
    /\ kills' = kills \ {t}

KillLost(t) ==
    /\ t \in kills
    /\ kills' = kills \ {t}
    /\ UNCHANGED <<service, mailbox, instances, mesos, driver, decommissioning, callers, start>>

(* A task ends by itself, is cut off, returns, is reported again.          *)
TaskEnds(t) == MayEnd /\ room /\ mesos[t] = "running" /\ TaskStatus(t, "dead") /\ UNCHANGED kills

TaskUnreachable(t) ==
    /\ MayBeUnreachable /\ room
    /\ mesos[t] = "running"
    /\ TaskStatus(t, "unreachable")
    /\ UNCHANGED kills

TaskReachable(t) == room /\ mesos[t] = "unreachable" /\ TaskStatus(t, "running") /\ UNCHANGED kills

StrayReported(t) ==
    /\ room
    /\ instances[t[1]].task /= t[2] \/ instances[t[1]].condition = "Expunged"
    /\ mesos[t] = "running"
    /\ TaskStatus(t, "running")
    /\ UNCHANGED kills

(***************************************************************************)
(* Connection and leadership.                                              *)
(***************************************************************************)
DriverChanges(present) ==
    /\ driver /= present
    /\ driver' = present
    /\ UNCHANGED <<service, mailbox, instances, mesos, kills, decommissioning, callers, start>>

(* Defect: the next leader starts without the instances to kill.           *)
initializeWithNothing == {}

(* The active instances with a terminal goal.                              *)
initializeWithDecommissionedInstances ==
    {i \in Instances : goalIsTerminal(instances[i])
                       /\ instances[i].condition \in {"Running", "Unreachable"}}

(* preStart of the next leader's actor: it asks the tracker ...            *)
Restart ==
    /\ restarts < MaxRestarts
    /\ restarts' = restarts + 1
    /\ instancesToKill' = Nothing
    /\ inFlight' = Nothing
    /\ retryTimer' = FALSE
    /\ mailbox' = <<>>
    /\ decommissioning' = {}
    /\ read' = Nothing
    /\ subscribed' = FALSE
    /\ query' = "asked"
    /\ found' = Nothing
    /\ unheard' = Instances
    /\ givenUp' = 0
    /\ UNCHANGED <<instances, mesos, kills, driver, requests>>

(* ... and subscribes to the events.                                       *)
Subscribe ==
    /\ ~subscribed
    /\ subscribed' = TRUE
    /\ UNCHANGED <<service, mailbox, instances, mesos, kills, driver, decommissioning, callers,
                   query, found, unheard>>

(* The tracker answers with what it knows now.                             *)
QueryAnswered ==
    /\ query = "asked"
    /\ query' = "answered"
    /\ found' = Restrict(instances, initializeWithDecommissionedInstances)
    /\ unheard' = {}
    /\ UNCHANGED <<service, mailbox, instances, mesos, kills, driver, decommissioning, callers,
                   subscribed>>

(* The ask fails or times out: the failure that is piped to the actor is   *)
(* no message it handles.                                                  *)
QueryFails ==
    /\ query = "asked"
    /\ query' = "none"
    /\ UNCHANGED <<service, mailbox, instances, mesos, kills, driver, decommissioning, callers,
                   subscribed, found, unheard>>

(* The answer is piped to the actor, behind the events of the meantime.    *)
QueryPiped ==
    /\ query = "answered"
    /\ query' = "none"
    /\ send([type |-> "KillInstances", instances |-> found])
    /\ found' = Nothing
    /\ UNCHANGED <<service, instances, mesos, kills, driver, decommissioning, callers,
                   subscribed, unheard>>

PreStart == Subscribe \/ QueryAnswered \/ QueryFails \/ QueryPiped

Next ==
    \/ Receive
    \/ \E S \in SUBSET Instances : Retry(S) \/ ReadInstances(S)
    \/ KillInstancesAndForget
    \/ \E i \in Instances : SetGoal(i, "Stopped") \/ SetGoal(i, "Decommissioned")
                            \/ Decommission(i) \/ Relaunch(i) \/ ExpungeUnreachable(i)
    \/ \E t \in Tasks : \/ TaskKilled(t) \/ KillLost(t) \/ TaskEnds(t)
                        \/ TaskUnreachable(t) \/ TaskReachable(t) \/ StrayReported(t)
    \/ \E present \in BOOLEAN : DriverChanges(present)
    \/ Restart \/ PreStart

Spec == Init /\ [][Next]_vars

(* The actor handles its messages, its timer fires, its query ends, the    *)
(* tracker applies what it is asked, a driver is there again and again for *)
(* long enough to issue a kill, Mesos does not lose every one of them, and *)
(* an instance without a reservation that stays unreachable is expunged.   *)
Fairness ==
    /\ WF_vars(Receive)
    /\ WF_vars(PreStart)
    /\ \A i \in Instances : SF_vars(\E S \in SUBSET Instances : driver /\ i \in S /\ Retry(S))
    /\ WF_vars(\E i \in Instances : Decommission(i))
    /\ \A i \in Instances : SF_vars(\E k \in 0..MaxTask : TaskKilled(<<i, k>>))
    /\ WF_vars(DriverChanges(TRUE))
    /\ WF_vars(\E i \in Instances \ Reserved : ExpungeUnreachable(i))

FairSpec == Spec /\ Fairness

(***************************************************************************)
(* Properties.                                                             *)
(***************************************************************************)

(* "The maximum number of concurrently processed kills" is never exceeded, *)
(* whatever mixture of kills, retries and terminations arrives.            *)
InFlightBounded == Cardinality(DOMAIN inFlight) <= killChunkSize

(* A queued kill waits for room: "the service will only issue more kills   *)
(* when instances are reported terminal", so in every order of requests,   *)
(* terminations, retries and restarts a place that is free while kills are *)
(* queued is one that the last chunk has spent on an unreachable instance, *)
(* by giving up instead of killing.  For such a place the code does not    *)
(* take the next kill out of the queue.                                    *)
WaitsForRoomOnly ==
    DOMAIN instancesToKill /= {} => Cardinality(DOMAIN inFlight) + givenUp >= killChunkSize

(* A kill in flight is watched: the timer that will retry it is running,   *)
(* and no second kill of the instance is queued next to it.                *)
InFlightWatched ==
    DOMAIN inFlight /= {} => retryTimer /\ DOMAIN inFlight \cap DOMAIN instancesToKill = {}

(* The actor has not been told, and will not be: an event came before it   *)
(* had subscribed, or its query has failed.                                *)
overlooked(i) == i \in unheard /\ query = "none"

(* What is to be killed of the instance is another task than its present   *)
(* one, which is then skipped.                                             *)
mistaken(i) ==
    \E f \in {instancesToKill, inFlight} :
        i \in DOMAIN f /\ <<i, instances[i].task>> \notin f[i].tasks

(* The actor will hear of the end of the kill in flight: its task is the   *)
(* present one and not over, or the end is under way, or any status of a   *)
(* forgotten instance will tell.                                           *)
awaited(i) ==
    \/ instances[i].condition \in {"Running", "Unreachable"} /\ ~mistaken(i)
    \/ instances[i].condition = "Expunged"
    \/ \E k \in DOMAIN mailbox :
          mailbox[k].type = "InstanceChanged" /\ mailbox[k].id = i
          /\ considerTerminal(mailbox[k].instance.condition)

(* Every place in the chunk is taken by a kill that nobody will answer.    *)
clogged == Cardinality({i \in DOMAIN inFlight : ~awaited(i)}) >= killChunkSize

(* "A doomed instance's task will be killed (eventually)": with a terminal *)
(* goal, no running task stays, even if kills are lost, the driver is gone *)
(* for a while, callers ask for kills with old copies, or the leader       *)
(* changes and the answer to its query and the events reach the new actor  *)
(* in any order.  The code does not keep the promise for an instance that  *)
(* the new leader's actor has overlooked or of which another task is being *)
(* killed, and when unanswered kills have clogged the chunk.               *)
DoomedIsKilled ==
    \A i \in Instances :
        (goalIsTerminal(instances[i]) /\ instances[i].condition = "Running")
        ~> \/ instances[i].condition /= "Running"
           \/ overlooked(i) \/ mistaken(i) \/ clogged
==============================================================================
