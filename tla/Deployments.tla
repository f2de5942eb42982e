---------------------------- MODULE Deployments ----------------------------
(* Deployments and locks: MarathonSchedulerActor, which locks run specs    *)
(* for deployments and for scaling, DeploymentManagerActor, which keeps    *)
(* the running deployments and resolves conflicts between them, the        *)
(* deployment actors it spawns, and the repository of plans.               *)
(*                                                                         *)
(* The manager handles its messages in order.  What it starts ends at any  *)
(* time: operations of the repository, which may fail, and the actors.     *)
(* What the conflict resolution carries along is the DeploymentInfo as it  *)
(* was when the plan arrived (seen), not what has become of it.            *)
EXTENDS Integers, Sequences, FiniteSets

CONSTANTS
    RunSpecs,
    Plans,
    affectedRunSpecIds,     \* the run specs of a plan
    MaxEvents               \* scale operations, cancellations, restarts, failures, timeouts

ASSUME DeploymentsAssumption ==
    /\ IsFiniteSet(Plans)
    /\ affectedRunSpecIds \in [Plans -> SUBSET RunSpecs]
    /\ MaxEvents \in Nat

VARIABLES
    lockedRunSpecs,         \* the version of the lock, 0 if there is none
    currentLockVersion,
    latest,                 \* history: the version of the last lock of a run spec
    scaling,                \* scale operations that have not completed
    releases,               \* RemoveLocks messages on their way
    awaited,                \* the lock version of a plan whose result is awaited, else 0
    runningDeployments,     \* the status of a plan, "None" if it is not in the map
    actor,                  \* the DeploymentActor of a plan
    mailbox,                \* messages to the manager
    operations,             \* operations of the repository in progress
    waiting,                \* waitForCanceledConflicts that have not completed
    repository,             \* the stored plans
    submitted,              \* the plans the API has asked for
    events,
    died                    \* history: the plans whose DeploymentActor an exception has stopped

locks == <<lockedRunSpecs, currentLockVersion, latest>>
manager == <<runningDeployments, actor, operations, waiting>>
bounds == <<submitted, events, died>>
vars == <<lockedRunSpecs, currentLockVersion, latest, scaling, releases, awaited, runningDeployments,
          actor, mailbox, operations, waiting, repository, submitted, events, died>>

Status == {"None", "Scheduled", "Deploying", "Canceling"}
Infos == [Plans -> Status]
NoInfos == [p \in Plans |-> "None"]

MessageTypes == {"StartDeployment", "CancelDeployment", "LaunchDeployment", "DeploymentFinished",
                 "CancelDeletedConflicts", "WaitForCanceledConflicts", "FailedRepositoryOperation"}
Message == [type : MessageTypes, plan : Plans, force : BOOLEAN, seen : Infos]
(* for: the plan that goes on when the operation ends; what is stored or   *)
(* deleted is in plans.  A "forget" is a delete that nobody waits for.     *)
Operation == [type : {"store", "delete", "forget"}, for : Plans, plans : SUBSET Plans, seen : Infos]

TypeOK ==
    /\ lockedRunSpecs \in [RunSpecs -> Nat]
    /\ currentLockVersion \in Nat
    /\ latest \in [RunSpecs -> Nat]
    /\ scaling \subseteq [spec : RunSpecs, version : Nat]
    /\ releases \subseteq [specs : SUBSET RunSpecs, version : Nat]
    /\ awaited \in [Plans -> Nat]
    /\ runningDeployments \in Infos
    /\ actor \in [Plans -> {"none", "deploying", "canceled"}]
    /\ mailbox \in Seq(Message)
    /\ operations \subseteq Operation
    /\ waiting \subseteq [plan : Plans, on : SUBSET Plans]
    /\ repository \subseteq Plans
    /\ submitted \subseteq Plans
    /\ events \in 0..MaxEvents
    /\ died \subseteq Plans

Init ==
    /\ lockedRunSpecs = [r \in RunSpecs |-> 0]
    /\ currentLockVersion = 0
    /\ latest = [r \in RunSpecs |-> 0]
    /\ scaling = {}
    /\ releases = {}
    /\ awaited = [p \in Plans |-> 0]
    /\ runningDeployments = NoInfos
    /\ actor = [p \in Plans |-> "none"]
    /\ mailbox = <<>>
    /\ operations = {}
    /\ waiting = {}
    /\ repository = {}
    /\ submitted = {}
    /\ events = 0
    /\ died = {}

intersects(p, q) == affectedRunSpecIds[p] \cap affectedRunSpecIds[q] /= {}

(***************************************************************************)
(* MarathonSchedulerActor.                                                 *)
(***************************************************************************)
addLocks(specs) ==
    LET version == currentLockVersion + 1
        raised(f) == [r \in RunSpecs |-> IF r \in specs THEN version ELSE f[r]]
    IN  /\ currentLockVersion' = version
        /\ lockedRunSpecs' = raised(lockedRunSpecs)
        /\ latest' = raised(latest)

(* Defect: a lock is removed whatever its version.                         *)
removeAnyLocks(specs, version) ==
    [r \in RunSpecs |-> IF r \in specs THEN 0 ELSE lockedRunSpecs[r]]

removeLocks(specs, version) ==
    [r \in RunSpecs |-> IF r \in specs /\ lockedRunSpecs[r] = version THEN 0 ELSE lockedRunSpecs[r]]

message(type, p) == [type |-> type, plan |-> p, force |-> FALSE, seen |-> NoInfos]

(* deploy: the lock is raised in any case, the manager decides.            *)
Deploy(p, force) ==
    /\ p \notin submitted
    /\ submitted' = submitted \cup {p}
    /\ addLocks(affectedRunSpecIds[p])
    /\ awaited' = [awaited EXCEPT ![p] = currentLockVersion']
    /\ mailbox' = Append(mailbox, [message("StartDeployment", p) EXCEPT !.force = force])
    /\ UNCHANGED <<scaling, releases, manager, repository, events, died>>

noConflictsWith(r) == lockedRunSpecs[r] = 0

(* ScaleRunSpec of a run spec that is not locked; otherwise it is dropped. *)
ScaleRunSpec(r) ==
    /\ events < MaxEvents
    /\ noConflictsWith(r)
    /\ events' = events + 1
    /\ addLocks({r})
    /\ scaling' = scaling \cup {[spec |-> r, version |-> currentLockVersion']}
    /\ UNCHANGED <<releases, awaited, manager, mailbox, repository, submitted, died>>

(* A scale operation succeeds or fails.                                    *)
ScaleCompleted(s) ==
    /\ scaling' = scaling \ {s}
    /\ releases' = releases \cup {[specs |-> {s.spec}, version |-> s.version]}
    /\ UNCHANGED <<locks, awaited, manager, mailbox, repository, bounds>>

RemoveLocks(m) ==
    /\ releases' = releases \ {m}
    /\ lockedRunSpecs' = removeLocks(m.specs, m.version)
    /\ UNCHANGED <<currentLockVersion, latest, scaling, awaited, manager, mailbox, repository, bounds>>

starting(p) == \E i \in DOMAIN mailbox : mailbox[i].type = "StartDeployment" /\ mailbox[i].plan = p

(* The ask of the manager gives up before it has seen the message.         *)
AskTimeout(p) ==
    /\ events < MaxEvents
    /\ awaited[p] /= 0
    /\ starting(p)
    /\ events' = events + 1
    /\ awaited' = [awaited EXCEPT ![p] = 0]
    /\ releases' = releases \cup {[specs |-> affectedRunSpecIds[p], version |-> awaited[p]]}
    /\ UNCHANGED <<locks, scaling, manager, mailbox, repository, submitted, died>>

(* A deployment that is listed is cancelled by force.  The list has no     *)
(* scheduled ones, so they are not cancelled this way.                     *)
CancelDeployment(p) ==
    /\ events < MaxEvents
    /\ runningDeployments[p] \in {"Deploying", "Canceling"}
    /\ events' = events + 1
    /\ mailbox' = Append(mailbox, message("CancelDeployment", p))
    /\ UNCHANGED <<locks, scaling, releases, awaited, manager, repository, submitted, died>>

(***************************************************************************)
(* DeploymentManagerActor.                                                 *)
(***************************************************************************)
(* Defect: the locks of a failed deployment are not released.              *)
completeOnly(plans) ==
    /\ awaited' = [p \in Plans |-> IF p \in plans THEN 0 ELSE awaited[p]]
    /\ UNCHANGED releases

(* The promises of these plans are completed: DeploymentFinished or        *)
(* DeploymentFailed, which only publish events, and RemoveLocks.           *)
complete(plans) ==
    /\ awaited' = [p \in Plans |-> IF p \in plans THEN 0 ELSE awaited[p]]
    /\ releases' = releases \cup {[specs |-> affectedRunSpecIds[p], version |-> awaited[p]] :
                                  p \in {q \in plans : awaited[q] /= 0}}

removed(plans) == [p \in Plans |-> IF p \in plans THEN "None" ELSE runningDeployments[p]]

conflictingDeployments(p) ==
    [q \in Plans |-> IF intersects(p, q) THEN runningDeployments[q] ELSE "None"]
conflicts(seen) == {q \in Plans : seen[q] /= "None"}

operation(type, p, plans, seen) == [type |-> type, for |-> p, plans |-> plans, seen |-> seen]

markScheduled(p) == runningDeployments' = [runningDeployments EXCEPT ![p] = "Scheduled"]

startNonConflictingDeployment(m) ==
    /\ conflictingDeployments(m.plan) = NoInfos
    /\ markScheduled(m.plan)
    /\ operations' = operations \cup {operation("store", m.plan, {m.plan}, NoInfos)}
    /\ UNCHANGED <<awaited, releases, actor, waiting>>

giveUpConflictingDeployment(m) ==
    /\ conflictingDeployments(m.plan) /= NoInfos
    /\ ~ m.force
    /\ complete({m.plan})
    /\ UNCHANGED manager

startConflictingDeployment(m) ==
    LET seen == conflictingDeployments(m.plan)
    IN  /\ seen /= NoInfos
        /\ m.force
        /\ markScheduled(m.plan)
        /\ operations' = operations \cup {operation("delete", m.plan, conflicts(seen), seen)}
        /\ UNCHANGED <<awaited, releases, actor, waiting>>

StartDeployment(m) ==
    /\ m.type = "StartDeployment"
    /\ \/ startNonConflictingDeployment(m)
       \/ giveUpConflictingDeployment(m)
       \/ startConflictingDeployment(m)

isScheduledDeployment(p) == runningDeployments[p] = "Scheduled"

(* stopDeployment: a StopActor sends Cancel to the actors of these plans.  *)
stopActor(plans) ==
    [p \in Plans |-> IF p \in plans /\ actor[p] /= "none" THEN "canceled" ELSE actor[p]]

(* What a conflict was when the plan arrived decides what is done with it, *)
(* if it is still there.                                                   *)
cancelDeletedConflicts(m) ==
    LET present == {q \in conflicts(m.seen) : runningDeployments[q] /= "None"}
        scheduled == {q \in present : m.seen[q] = "Scheduled"}
        deploying == {q \in present : m.seen[q] = "Deploying"}
    IN  /\ complete(scheduled)
        /\ runningDeployments' = [q \in Plans |-> IF q \in deploying THEN "Canceling"
                                                  ELSE removed(scheduled)[q]]
        /\ actor' = stopActor(deploying)
        /\ operations' = operations \cup {operation("store", m.plan, {m.plan}, m.seen)}
        /\ UNCHANGED waiting

CancelDeletedConflicts(m) ==
    /\ m.type = "CancelDeletedConflicts"
    /\ isScheduledDeployment(m.plan)
    /\ cancelDeletedConflicts(m)

WaitForCanceledConflicts(m) ==
    /\ m.type = "WaitForCanceledConflicts"
    /\ isScheduledDeployment(m.plan)
    /\ waiting' = waiting \cup {[plan |-> m.plan, on |-> {q \in Plans : m.seen[q] = "Canceling"}]}
    /\ UNCHANGED <<awaited, releases, runningDeployments, actor, operations>>

(* Defect: a deployment is launched although it has been overridden.       *)
LaunchOverridden(m) ==
    /\ m.type = "LaunchDeployment"
    /\ runningDeployments' = [runningDeployments EXCEPT ![m.plan] = "Deploying"]
    /\ actor' = [actor EXCEPT ![m.plan] = "deploying"]
    /\ UNCHANGED <<awaited, releases, operations, waiting>>

LaunchDeployment(m) ==
    /\ m.type = "LaunchDeployment"
    /\ isScheduledDeployment(m.plan)
    /\ runningDeployments' = [runningDeployments EXCEPT ![m.plan] = "Deploying"]
    /\ actor' = [actor EXCEPT ![m.plan] = "deploying"]
    /\ UNCHANGED <<awaited, releases, operations, waiting>>

FailedRepositoryOperation(m) ==
    /\ m.type = "FailedRepositoryOperation"
    /\ isScheduledDeployment(m.plan)
    /\ complete({m.plan})
    /\ runningDeployments' = removed({m.plan})
    /\ UNCHANGED <<actor, operations, waiting>>

(* The actor of a deployment has reported its end.                         *)
DeploymentFinished(m) ==
    /\ m.type = "DeploymentFinished"
    /\ runningDeployments[m.plan] /= "None"
    /\ complete({m.plan})
    /\ runningDeployments' = removed({m.plan})
    /\ operations' = operations \cup {operation("forget", m.plan, {m.plan}, NoInfos)}
    /\ UNCHANGED <<actor, waiting>>

(* Defect: the deployment is marked as [Canceled], as the comment says.    *)
cancelDeploymentAtOnce(m) ==
    /\ m.type = "CancelDeployment"
    /\ runningDeployments[m.plan] = "Deploying"
    /\ runningDeployments' = [runningDeployments EXCEPT ![m.plan] = "Canceled"]
    /\ actor' = stopActor({m.plan})
    /\ UNCHANGED <<awaited, releases, operations, waiting>>

cancelDeployment(m) ==
    /\ m.type = "CancelDeployment"
    /\ runningDeployments[m.plan] = "Deploying"
    /\ runningDeployments' = [runningDeployments EXCEPT ![m.plan] = "Canceling"]
    /\ actor' = stopActor({m.plan})
    /\ UNCHANGED <<awaited, releases, operations, waiting>>

(* Messages that come too late for their plan.                             *)
Ignored(m) ==
    /\ \/ /\ m.type \in {"CancelDeletedConflicts", "WaitForCanceledConflicts", "LaunchDeployment",
                         "FailedRepositoryOperation"}
          /\ ~ isScheduledDeployment(m.plan)
       \/ m.type = "DeploymentFinished" /\ runningDeployments[m.plan] = "None"
       \/ m.type = "CancelDeployment" /\ runningDeployments[m.plan] \in {"Canceling", "None"}
    /\ UNCHANGED <<awaited, releases, manager>>

Handle(m) ==
    \/ StartDeployment(m)
    \/ CancelDeletedConflicts(m)
    \/ WaitForCanceledConflicts(m)
    \/ LaunchDeployment(m)
    \/ FailedRepositoryOperation(m)
    \/ DeploymentFinished(m)
    \/ cancelDeployment(m)
    \/ Ignored(m)

Receive ==
    /\ mailbox /= <<>>
    /\ mailbox' = Tail(mailbox)
    /\ Handle(Head(mailbox))
    /\ UNCHANGED <<locks, scaling, repository, bounds>>

tell(type, o) == mailbox' = Append(mailbox, [message(type, o.for) EXCEPT !.seen = o.seen])

(***************************************************************************)
(* The repository.  The order of operations in progress is open: a store   *)
(* waits for the garbage collector, a delete reads the plan first.         *)
(***************************************************************************)
Stored(o) ==
    /\ o.type = "store"
    /\ repository' = repository \cup o.plans
    /\ operations' = operations \ {o}
    /\ tell(IF o.seen = NoInfos THEN "LaunchDeployment" ELSE "WaitForCanceledConflicts", o)
    /\ UNCHANGED events

Deleted(o) ==
    /\ o.type = "delete" /\ o.plans = {}
    /\ operations' = operations \ {o}
    /\ tell("CancelDeletedConflicts", o)
    /\ UNCHANGED <<repository, events>>

DeletedOne(o, p) ==
    /\ o.type = "delete"
    /\ repository' = repository \ {p}
    /\ operations' = (operations \ {o}) \cup {[o EXCEPT !.plans = @ \ {p}]}
    /\ UNCHANGED <<mailbox, events>>

(* Defect: nothing recovers from the failure.                              *)
FailedSilently(o) ==
    /\ events < MaxEvents
    /\ events' = events + 1
    /\ o.type \in {"store", "delete"} /\ o.plans /= {}
    /\ operations' = operations \ {o}
    /\ UNCHANGED <<mailbox, repository>>

(* A store fails, or one of the deletes: the others go on.                 *)
Failed(o) ==
    /\ events < MaxEvents
    /\ events' = events + 1
    /\ o.type \in {"store", "delete"} /\ o.plans /= {}
    /\ \E rest \in SUBSET o.plans :
          /\ rest /= o.plans
          /\ operations' = (operations \ {o})
                \cup {operation("forget", o.for, {q}, NoInfos) : q \in IF o.type = "delete" THEN rest ELSE {}}
    /\ tell("FailedRepositoryOperation", o)
    /\ UNCHANGED repository

Forgotten(o) ==
    /\ o.type = "forget"
    /\ operations' = operations \ {o}
    /\ repository' = repository \ o.plans
    /\ UNCHANGED <<mailbox, events>>

RepositoryStep ==
    /\ \E o \in operations :
          \/ Stored(o)
          \/ Deleted(o)
          \/ \E p \in o.plans : DeletedOne(o, p)
          \/ Failed(o)
          \/ Forgotten(o)
    /\ UNCHANGED <<locks, scaling, releases, awaited, runningDeployments, actor, waiting, submitted, died>>

(* All cancellation futures have completed.                                *)
Canceled(w) ==
    /\ \A q \in w.on : actor[q] = "none"
    /\ waiting' = waiting \ {w}
    /\ mailbox' = Append(mailbox, message("LaunchDeployment", w.plan))
    /\ UNCHANGED <<locks, scaling, releases, awaited, runningDeployments, actor, operations,
                   repository, bounds>>

(***************************************************************************)
(* DeploymentActor: it has performed its steps, one has failed, or it has  *)
(* been told to stop.                                                      *)
(***************************************************************************)
Ends(p) ==
    /\ actor[p] /= "none"
    /\ actor' = [actor EXCEPT ![p] = "none"]
    /\ mailbox' = Append(mailbox, message("DeploymentFinished", p))
    /\ UNCHANGED <<locks, scaling, releases, awaited, runningDeployments, operations, waiting,
                   repository, bounds>>

(* It throws an exception: supervisorStrategy stops it, nobody is told.    *)
Throws(p) ==
    /\ events < MaxEvents
    /\ actor[p] /= "none"
    /\ events' = events + 1
    /\ actor' = [actor EXCEPT ![p] = "none"]
    /\ died' = died \cup {p}
    /\ UNCHANGED <<locks, scaling, releases, awaited, runningDeployments, mailbox, operations, waiting,
                   repository, submitted>>

(***************************************************************************)
(* A new process.  Any number of the operations in progress have been      *)
(* made.  The stored plans are recovered, in any order, unless they cannot *)
(* be loaded.                                                              *)
(***************************************************************************)
inProgress(types, p) == \E o \in operations : o.type \in types /\ p \in o.plans

LoadedDeployments(order) ==
    /\ currentLockVersion' = Len(order)
    /\ mailbox' = [i \in DOMAIN order |-> message("StartDeployment", order[i])]
    /\ awaited' = [p \in Plans |-> IF \E i \in DOMAIN order : order[i] = p
                                   THEN CHOOSE i \in DOMAIN order : order[i] = p ELSE 0]
    /\ lockedRunSpecs' = [r \in RunSpecs |->
          IF \E i \in DOMAIN order : r \in affectedRunSpecIds[order[i]]
          THEN CHOOSE i \in DOMAIN order :
                 /\ r \in affectedRunSpecIds[order[i]]
                 /\ \A j \in DOMAIN order : r \in affectedRunSpecIds[order[j]] => j <= i
          ELSE 0]
    /\ latest' = lockedRunSpecs'

Restart ==
    /\ events < MaxEvents
    /\ events' = events + 1
    /\ repository' \in SUBSET Plans
    /\ \A p \in repository' \ repository : inProgress({"store"}, p)
    /\ \A p \in repository \ repository' : inProgress({"delete", "forget"}, p)
    /\ \E recovered \in {repository', {}} :
          \E order \in [1..Cardinality(recovered) -> recovered] :
             /\ {order[i] : i \in DOMAIN order} = recovered
             /\ LoadedDeployments(order)
    /\ scaling' = {} /\ releases' = {} /\ operations' = {} /\ waiting' = {}
    /\ runningDeployments' = NoInfos
    /\ actor' = [p \in Plans |-> "none"]
    /\ died' = {}
    /\ UNCHANGED submitted

Next ==
    \/ \E p \in Plans, force \in BOOLEAN : Deploy(p, force)
    \/ \E r \in RunSpecs : ScaleRunSpec(r)
    \/ \E s \in scaling : ScaleCompleted(s)
    \/ \E m \in releases : RemoveLocks(m)
    \/ \E p \in Plans : AskTimeout(p) \/ CancelDeployment(p) \/ Ends(p) \/ Throws(p)
    \/ Receive
    \/ RepositoryStep
    \/ \E w \in waiting : Canceled(w)
    \/ Restart

Spec == Init /\ [][Next]_vars

-----------------------------------------------------------------------------
(* No lock is left behind: every lock has a scale operation, a release on  *)
(* its way or a deployment that will release just this version, whichever  *)
(* way it ends (the onComplete of deploy and of ScaleRunSpec).  One whose   *)
(* actor has died does not end, see RunningGoesOn.                         *)
LocksAreOwned ==
    \A r \in RunSpecs : lockedRunSpecs[r] /= 0 =>
        \/ [spec |-> r, version |-> lockedRunSpecs[r]] \in scaling
        \/ \E m \in releases : r \in m.specs /\ m.version = lockedRunSpecs[r]
        \/ \E p \in Plans : /\ awaited[p] = lockedRunSpecs[r] /\ r \in affectedRunSpecIds[p]
                            /\ starting(p) \/ runningDeployments[p] /= "None"

(* Who was the last to lock a run spec keeps the lock until the result is  *)
(* known: delayed releases of older versions do not take it away           *)
(* (removeLock: "prevent that a delayed duplicated lock release for v1     *)
(* will release v2").                                                      *)
LastLockHolds ==
    \A r \in RunSpecs :
        /\ [spec |-> r, version |-> latest[r]] \in scaling => lockedRunSpecs[r] = latest[r]
        /\ \A p \in Plans : /\ r \in affectedRunSpecIds[p]
                            /\ awaited[p] = latest[r] /\ awaited[p] /= 0
                            => lockedRunSpecs[r] = latest[r]

(* Of two plans that affect the same run spec the manager never regards    *)
(* both as [Deploying], in whatever order forced plans, cancellations and  *)
(* failures of the repository come.                                        *)
DeployingConflictFree ==
    \A p, q \in Plans : p /= q /\ intersects(p, q) =>
        ~ (runningDeployments[p] = "Deploying" /\ runningDeployments[q] = "Deploying")

told(p, types) == \E i \in DOMAIN mailbox : mailbox[i].plan = p /\ mailbox[i].type \in types

(* No running deployment is forgotten, whichever of its steps fails: a     *)
(* scheduled one has an operation in progress, a message that leads on or  *)
(* to its failure, or a wait; one that is deploying or canceling has an    *)
(* actor that will report its end, after it has been told to stop in the   *)
(* second case, or the report is on its way.  The one exception is an actor *)
(* that an exception has stopped: supervisorStrategy tells nobody, and the *)
(* code keeps the plan, and mostly its lock, until the next leader.        *)
RunningGoesOn ==
    \A p \in Plans :
        /\ runningDeployments[p] = "Scheduled" =>
              \/ \E o \in operations : o.type /= "forget" /\ o.for = p
              \/ told(p, {"CancelDeletedConflicts", "WaitForCanceledConflicts", "LaunchDeployment",
                          "FailedRepositoryOperation"})
              \/ \E w \in waiting : w.plan = p
        /\ runningDeployments[p] = "Deploying" =>
              actor[p] = "deploying" \/ told(p, {"DeploymentFinished"}) \/ p \in died
        /\ runningDeployments[p] = "Canceling" =>
              actor[p] = "canceled" \/ told(p, {"DeploymentFinished"}) \/ p \in died

(* Every deployment actor belongs to a running deployment: a plan is       *)
(* removed without being stopped only before it has been started.  It does *)
(* not hold, no run checks it; README.md tells how it is violated.         *)
ActorsAreRunning ==
    \A p \in Plans : actor[p] /= "none" => runningDeployments[p] \in {"Deploying", "Canceling"}
=============================================================================
