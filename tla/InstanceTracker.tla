--------------------------- MODULE InstanceTracker ---------------------------
(* The instance tracker: InstanceTrackerDelegate, which queues updates and *)
(* dispatches them one at a time per app, InstanceTrackerActor, which      *)
(* resolves an update against the instances in memory, has the result      *)
(* written to the repository, and only then changes its memory, tells its  *)
(* subscribers, runs the update steps and answers.                         *)
(*                                                                         *)
(* The repository completes writes in any order and may fail.  The process *)
(* may end at any point; its successor loads what the repository holds.    *)
(* What an update makes of an instance is the business of Instances.tla;   *)
(* here an instance is the set of the updates that made it.                *)
EXTENDS Integers, Sequences, FiniteSets, SequencesExt

CONSTANTS
    Instances,
    Updates,            \* the calls that are made
    KindOf,             \* "Schedule", "Change", "Expunge" or "Query", of each call
    InstanceOf,         \* the instance of each call
    AppOf,              \* the app of each instance
    QueueSize,          \* internalInstanceTrackerUpdateQueueSize
    DeadlinesPass,      \* whether internalTaskTrackerRequestTimeout may pass
    AskMayTimeOut,      \* whether the tracker may need longer than that to answer
    FailuresAmbiguous,  \* whether a write that fails may have been made
    MaxCrashes,
    None, NoResult

ASSUME TrackerAssumption ==
    /\ KindOf \in [Updates -> {"Schedule", "Change", "Expunge", "Query"}]
    /\ InstanceOf \in [Updates -> Instances]
    /\ DOMAIN AppOf = Instances
    /\ QueueSize \in Nat /\ MaxCrashes \in Nat
    /\ {DeadlinesPass, AskMayTimeOut, FailuresAmbiguous} \subseteq BOOLEAN
    /\ None \notin Updates

VARIABLES
    reply,      \* the promise of each call
    result,     \* what each query has been answered
    ahead,      \* history: the updates of its app queued before each query
    queue,      \* the SourceQueue of the delegate
    asked,      \* the call each app's substream waits for
    expired,    \* the calls whose deadline has passed
    phase,      \* "initializing" or "initialized"
    mailbox,    \* of the actor
    memory,     \* instancesBySpec
    repo,       \* the instance repository
    writes,     \* calls of store and delete in progress
    stepping,   \* effects whose update steps are running
    channel,    \* messages on their way to the subscriber, None if there is none
    view,       \* what the subscriber knows, None before the first snapshot
    crashes

delegate == <<reply, result, ahead, queue, asked, expired>>
subscriber == <<channel, view>>
vars == <<reply, result, ahead, queue, asked, expired, phase, mailbox, memory, repo, writes,
          stepping, channel, view, crashes>>

Apps == {AppOf[i] : i \in Instances}
Absent == {}
appOf(u) == AppOf[InstanceOf[u]]
specInstances(app) == [i \in {j \in Instances : AppOf[j] = app} |-> memory[i]]

(***************************************************************************)
(* The effects of an update.  Only Update and Expunge reach the repository.*)
(***************************************************************************)
Update(u, instance) == [update |-> u, effect |-> "Update", instance |-> instance]
Expunge(u) == [update |-> u, effect |-> "Expunge", instance |-> Absent]
Noop(u) == [update |-> u, effect |-> "Noop", instance |-> Absent]
Failure(u) == [update |-> u, effect |-> "Failure", instance |-> Absent]

Effects == [update : Updates, effect : {"Update", "Expunge", "Noop"}, instance : SUBSET Updates]
Changes == [instance : Instances, now : SUBSET Updates]
Snapshots == [Instances -> SUBSET Updates]
Messages == [type : {"UpdateContext", "ListBySpec"}, update : Updates]
            \cup [type : {"RepositoryStateUpdated"}, effect : Effects]

TypeOK ==
    /\ reply \in [Updates -> {"none", "pending", "ok", "failed", "lost"}]
    /\ DOMAIN result = Updates
    /\ ahead \in [Updates -> SUBSET Updates]
    /\ queue \in Seq(Updates) /\ Len(queue) <= QueueSize
    /\ asked \in [Apps -> Updates \cup {None}]
    /\ expired \subseteq Updates
    /\ phase \in {"initializing", "initialized"}
    /\ mailbox \in Seq(Messages)
    /\ memory \in Snapshots
    /\ repo \in Snapshots
    /\ writes \subseteq Effects
    /\ stepping \subseteq Effects
    /\ channel = None \/ channel \in Seq([snapshot : Snapshots] \cup [change : Changes])
    /\ view = None \/ view \in Snapshots
    /\ crashes \in 0..MaxCrashes

Init ==
    /\ reply = [u \in Updates |-> "none"]
    /\ result = [u \in Updates |-> NoResult]
    /\ ahead = [u \in Updates |-> {}]
    /\ queue = <<>>
    /\ asked = [a \in Apps |-> None]
    /\ expired = {}
    /\ phase = "initializing"
    /\ mailbox = <<>>
    /\ memory = [i \in Instances |-> Absent]
    /\ repo = [i \in Instances |-> Absent]
    /\ writes = {}
    /\ stepping = {}
    /\ channel = None
    /\ view = None
    /\ crashes = 0

(***************************************************************************)
(* The delegate.                                                           *)
(***************************************************************************)

(* Defect: one call more than the buffer has room for.                     *)
queueAcceptsOneMore == Len(queue) <= QueueSize

queueAccepts == Len(queue) < QueueSize

(* A call joins the queue, or fails at once if the queue is full.          *)
Process(u) ==
    /\ reply[u] = "none"
    /\ IF queueAccepts
       THEN /\ queue' = Append(queue, u)
            /\ reply' = [reply EXCEPT ![u] = "pending"]
            /\ ahead' = [ahead EXCEPT ![u] =
                            {v \in Updates : reply[v] = "pending" /\ appOf(v) = appOf(u)}]
       ELSE /\ reply' = [reply EXCEPT ![u] = "failed"]
            /\ UNCHANGED <<queue, ahead>>
    /\ UNCHANGED <<result, asked, expired, phase, mailbox, memory, repo, writes, stepping,
                   subscriber, crashes>>

(* mapAsync(1): the next call is sent when its app's substream is idle; a  *)
(* busy one holds up the calls behind it.                                  *)
(* Defect: mapAsync with a higher parallelism.                             *)
substreamParallel(u) == TRUE

(* Defect: queries are not held back.                                      *)
substreamIdleForUpdates(u) == KindOf[u] = "Query" \/ asked[appOf(u)] = None

substreamIdle(u) == asked[appOf(u)] = None

Dispatch ==
    /\ queue /= <<>>
    /\ LET u == Head(queue)
       IN  /\ substreamIdle(u)
           /\ asked' = [asked EXCEPT ![appOf(u)] = u]
           /\ mailbox' = Append(mailbox, [type |-> IF KindOf[u] = "Query" THEN "ListBySpec"
                                                                        ELSE "UpdateContext",
                                          update |-> u])
    /\ queue' = Tail(queue)
    /\ UNCHANGED <<reply, result, ahead, expired, phase, memory, repo, writes, stepping,
                   subscriber, crashes>>

(* The tracker's answer; it is dropped if the ask has timed out.           *)
Answer(u, r) ==
    IF asked[appOf(u)] = u
    THEN /\ asked' = [asked EXCEPT ![appOf(u)] = None]
         /\ reply' = [reply EXCEPT ![u] = r]
    ELSE UNCHANGED <<asked, reply>>

(* The deadline of a call is set before it is queued, ...                  *)
Expire(u) ==
    /\ DeadlinesPass
    /\ reply[u] = "pending"
    /\ u \notin expired
    /\ expired' = expired \cup {u}
    /\ UNCHANGED <<reply, result, ahead, queue, asked, phase, mailbox, memory, repo, writes,
                   stepping, subscriber, crashes>>

(* Defect: the failed ask is not mapped to Success(Done); the substream    *)
(* never takes another call.                                               *)
AskTimeoutEndsSubstream(u) ==
    /\ AskMayTimeOut
    /\ u \in expired
    /\ asked[appOf(u)] = u
    /\ reply[u] = "pending"
    /\ reply' = [reply EXCEPT ![u] = "failed"]
    /\ UNCHANGED <<result, ahead, queue, asked, expired, phase, mailbox, memory, repo, writes,
                   stepping, subscriber, crashes>>

(* ... so that it has passed when the ask, sent later, times out.          *)
AskTimeout(u) ==
    /\ AskMayTimeOut
    /\ u \in expired
    /\ asked[appOf(u)] = u
    /\ Answer(u, "failed")
    /\ UNCHANGED <<result, ahead, queue, expired, phase, mailbox, memory, repo, writes, stepping,
                   subscriber, crashes>>

(***************************************************************************)
(* The actor.                                                              *)
(***************************************************************************)

(* Messages that arrive before the instances are loaded are stashed.       *)
Load ==
    /\ phase = "initializing"
    /\ memory' = repo
    /\ phase' = "initialized"
    /\ UNCHANGED <<delegate, mailbox, repo, writes, stepping, subscriber, crashes>>

(* Defect: createInstance and updateExistingInstance do not check whether  *)
(* the instance exists.                                                    *)
resolveScheduleAlways(u) ==
    IF u \in expired THEN {Failure(u)}
    ELSE CASE KindOf[u] = "Schedule" -> {Update(u, {u})}
           [] KindOf[u] = "Change" -> {Update(u, memory[InstanceOf[u]] \cup {u})}
           [] KindOf[u] = "Expunge" -> {Expunge(u)}

(* InstanceUpdateOpResolver.resolve, the deadline being checked first.     *)
resolveUpdateEffect(u) ==
    LET instance == memory[InstanceOf[u]]
    IN  IF u \in expired THEN {Failure(u)}
        ELSE CASE KindOf[u] = "Schedule" ->
                    {IF instance = Absent THEN Update(u, {u}) ELSE Failure(u)}
               [] KindOf[u] = "Change" ->
                    IF instance = Absent THEN {Failure(u)}
                    ELSE {Update(u, instance \cup {u}), Noop(u)}
               [] KindOf[u] = "Expunge" ->
                    {IF instance = Absent THEN Noop(u) ELSE Expunge(u)}

(* case update: UpdateContext                                              *)
HandleUpdate ==
    /\ phase = "initialized"
    /\ mailbox /= <<>>
    /\ Head(mailbox).type = "UpdateContext"
    /\ \E e \in resolveUpdateEffect(Head(mailbox).update) :
          \/ /\ e.effect \in {"Update", "Expunge"}
             /\ writes' = writes \cup {e}
             /\ mailbox' = Tail(mailbox)
             /\ UNCHANGED <<asked, reply>>
          \/ /\ e.effect = "Noop"
             /\ mailbox' = Append(Tail(mailbox), [type |-> "RepositoryStateUpdated", effect |-> e])
             /\ UNCHANGED <<writes, asked, reply>>
          \/ /\ e.effect = "Failure"
             /\ mailbox' = Tail(mailbox)
             /\ Answer(e.update, "failed")
             /\ UNCHANGED writes
    /\ UNCHANGED <<result, ahead, queue, expired, phase, memory, repo, stepping, subscriber, crashes>>

(* case ListBySpec                                                         *)
HandleQuery ==
    /\ phase = "initialized"
    /\ mailbox /= <<>>
    /\ Head(mailbox).type = "ListBySpec"
    /\ LET u == Head(mailbox).update
       IN  /\ Answer(u, "ok")
           /\ result' = IF asked[appOf(u)] = u
                        THEN [result EXCEPT ![u] = specInstances(appOf(u))]
                        ELSE result
    /\ mailbox' = Tail(mailbox)
    /\ UNCHANGED <<ahead, queue, expired, phase, memory, repo, writes, stepping, subscriber, crashes>>

(* A write succeeds, which the actor tells itself, or fails, which it      *)
(* tells the caller.                                                       *)
persisted(e) == [repo EXCEPT ![InstanceOf[e.update]] = e.instance]

WriteSucceeds(e) ==
    /\ writes' = writes \ {e}
    /\ repo' = persisted(e)
    /\ mailbox' = Append(mailbox, [type |-> "RepositoryStateUpdated", effect |-> e])
    /\ UNCHANGED <<delegate, phase, memory, stepping, subscriber, crashes>>

(* Defect: onComplete does not tell a failure from a success.              *)
WriteFailsUnnoticed(e) ==
    /\ writes' = writes \ {e}
    /\ mailbox' = Append(mailbox, [type |-> "RepositoryStateUpdated", effect |-> e])
    /\ UNCHANGED <<delegate, phase, memory, repo, stepping, subscriber, crashes>>

WriteFails(e) ==
    /\ writes' = writes \ {e}
    /\ \/ UNCHANGED repo
       \/ FailuresAmbiguous /\ repo' = persisted(e)
    /\ Answer(e.update, "failed")
    /\ UNCHANGED <<result, ahead, queue, expired, phase, mailbox, memory, stepping, subscriber, crashes>>

(* updateApp, then notifySubscribers                                       *)
updateApp(e) == [memory EXCEPT ![InstanceOf[e.update]] = e.instance]

(* Defect: subscribers are told of new instances only.                     *)
notifyOfFirstUpdate(e) ==
    IF channel = None \/ memory[InstanceOf[e.update]] /= Absent THEN channel
    ELSE Append(channel, [change |-> [instance |-> InstanceOf[e.update], now |-> e.instance]])

notifySubscribers(e) ==
    IF channel = None THEN None
    ELSE Append(channel, [change |-> [instance |-> InstanceOf[e.update], now |-> e.instance]])

(* case RepositoryStateUpdated: the update steps start after the memory    *)
(* has changed.                                                            *)
HandleRepositoryStateUpdated ==
    /\ phase = "initialized"
    /\ mailbox /= <<>>
    /\ Head(mailbox).type = "RepositoryStateUpdated"
    /\ LET e == Head(mailbox).effect
       IN  IF e.effect = "Noop"
           THEN Answer(e.update, "ok") /\ UNCHANGED <<memory, stepping, channel>>
           ELSE /\ memory' = updateApp(e)
                /\ channel' = notifySubscribers(e)
                /\ stepping' = stepping \cup {e}
                /\ UNCHANGED <<asked, reply>>
    /\ mailbox' = Tail(mailbox)
    /\ UNCHANGED <<result, ahead, queue, expired, phase, repo, writes, view, crashes>>

(* The steps are over, failed or not, and the caller is answered.          *)
StepsDone(e) ==
    /\ stepping' = stepping \ {e}
    /\ Answer(e.update, "ok")
    /\ UNCHANGED <<result, ahead, queue, expired, phase, mailbox, memory, repo, writes,
                   subscriber, crashes>>

(***************************************************************************)
(* A subscriber.                                                           *)
(***************************************************************************)
Subscribe ==
    /\ phase = "initialized"
    /\ channel = None
    /\ channel' = <<[snapshot |-> memory]>>
    /\ view' = None
    /\ UNCHANGED <<delegate, phase, mailbox, memory, repo, writes, stepping, crashes>>

Unsubscribe ==
    /\ phase = "initialized"
    /\ channel /= None
    /\ channel' = None
    /\ view' = None
    /\ UNCHANGED <<delegate, phase, mailbox, memory, repo, writes, stepping, crashes>>

Receive ==
    /\ channel \notin {None, <<>>}
    /\ LET m == Head(channel)
       IN  view' = IF "snapshot" \in DOMAIN m THEN m.snapshot
                   ELSE [view EXCEPT ![m.change.instance] = m.change.now]
    /\ channel' = Tail(channel)
    /\ UNCHANGED <<delegate, phase, mailbox, memory, repo, writes, stepping, crashes>>

(***************************************************************************)
(* The process ends: the crash strategy, the loss of leadership, a failed  *)
(* load.  Writes in progress are made or not.                              *)
(***************************************************************************)
Crash ==
    /\ crashes < MaxCrashes
    /\ \E landed \in SUBSET writes :
          /\ \A d, e \in landed : InstanceOf[d.update] = InstanceOf[e.update] => d = e
          /\ repo' = [i \in Instances |->
                        IF \E e \in landed : InstanceOf[e.update] = i
                        THEN (CHOOSE e \in landed : InstanceOf[e.update] = i).instance
                        ELSE repo[i]]
    /\ reply' = [u \in Updates |-> IF reply[u] = "pending" THEN "lost" ELSE reply[u]]
    /\ queue' = <<>>
    /\ asked' = [a \in Apps |-> None]
    /\ expired' = {}
    /\ phase' = "initializing"
    /\ mailbox' = <<>>
    /\ memory' = [i \in Instances |-> Absent]
    /\ writes' = {}
    /\ stepping' = {}
    /\ channel' = None
    /\ view' = None
    /\ crashes' = crashes + 1
    /\ UNCHANGED <<result, ahead>>

Actor == Load \/ HandleUpdate \/ HandleQuery \/ HandleRepositoryStateUpdated

Next ==
    \/ \E u \in Updates : Process(u) \/ Expire(u) \/ AskTimeout(u)
    \/ Dispatch
    \/ Actor
    \/ \E e \in writes : WriteSucceeds(e) \/ WriteFails(e)
    \/ \E e \in stepping : StepsDone(e)
    \/ Subscribe \/ Unsubscribe \/ Receive
    \/ Crash

Spec == Init /\ [][Next]_vars

(***************************************************************************)
(* Properties.                                                             *)
(***************************************************************************)
OnItsWay(i) ==
    {e \in writes : InstanceOf[e.update] = i}
    \cup {m.effect : m \in {n \in Range(mailbox) : /\ n.type = "RepositoryStateUpdated"
                                                 /\ InstanceOf[n.effect.update] = i}}

(* At most one change of an instance that its substream still waits for is *)
(* between its resolution and the memory: the actor resolves an update     *)
(* against what it remembers, so a second one would be computed from a     *)
(* state that is out of date.  A change whose ask has timed out, and whose *)
(* call has failed, is still on its way and is not waited for:             *)
(* InstanceTrackerDelegate lets the next one be resolved beside it.        *)
OneChangeAtATime ==
    \A i \in Instances : \A d, e \in OnItsWay(i) :
        d = e \/ "failed" \in {reply[d.update], reply[e.update]}

(* The memory is "informed of task state changes after they have been      *)
(* persisted": an instance no change is on its way for is in the           *)
(* repository as it is in memory.                                          *)
MemoryIsPersisted ==
    phase = "initialized" =>
        \A i \in Instances : OnItsWay(i) = {} => memory[i] = repo[i]

(* An update in the repository that has been answered as successful stays  *)
(* there as long as the instance does: no write that started earlier, no   *)
(* failure and no restart takes it back.  It does not hold once an ask of  *)
(* the delegate times out, no run checks it; README.md tells how.          *)
AcknowledgedIsKept ==
    [][\A u \in Updates :
          reply[u] = "ok" /\ u \in repo[InstanceOf[u]]
          => u \in repo'[InstanceOf[u]] \/ repo'[InstanceOf[u]] = Absent]_vars

(* A subscriber that has received what is on its way to it knows the       *)
(* instances as the tracker does: the snapshot and the changes after it    *)
(* neither miss nor repeat nor reorder anything.                           *)
about(m, i) == "snapshot" \in DOMAIN m \/ m.change.instance = i
lastKnown(i) ==
    LET ms == {n \in 1..Len(channel) : about(channel[n], i)}
        m == channel[Max(ms)]
    IN  IF ms = {} THEN view[i] ELSE IF "snapshot" \in DOMAIN m THEN m.snapshot[i] ELSE m.change.now

SubscriberFollows == channel /= None => \A i \in Instances : lastKnown(i) = memory[i]

(* specInstances with readAfterWrite is answered after every update of the *)
(* app that was queued before it, with what the repository then holds.     *)
ReadsSeeWrites ==
    [][\A u \in Updates :
          result'[u] /= result[u]
          => /\ \A v \in ahead[u] : reply[v] /= "pending"
             /\ \A i \in DOMAIN result'[u] : result'[u][i] = repo[i]]_vars

(* Every call is answered, even if the repository or an update step never  *)
(* comes back: its deadline passes, the ask times out, and the substream   *)
(* goes on with the next call.  Assumes that time passes and that timers   *)
(* and the stream run.                                                     *)
EveryCallAnswered == \A u \in Updates : reply[u] = "pending" ~> reply[u] /= "pending"

Fairness ==
    /\ WF_vars(Dispatch)
    /\ \A u \in Updates : WF_vars(Expire(u)) /\ WF_vars(AskTimeout(u))

FairSpec == Spec /\ Fairness

(* Calls take effect one at a time and at most once, as AtomicUpdates      *)
(* states: an update when it has been written to the repository, a query   *)
(* when the actor answers it.                                              *)
written(u) ==
    \/ \E e \in stepping : e.update = u
    \/ \E m \in Range(mailbox) : /\ m.type = "RepositoryStateUpdated"
                                 /\ m.effect.update = u
                                 /\ m.effect.effect /= "Noop"

Promise == INSTANCE AtomicUpdates WITH
    state <- repo,
    outcome <- [u \in Updates |-> IF reply[u] /= "pending" THEN reply[u]
                                 ELSE IF written(u) THEN "applied" ELSE "open"],
    result <- result

AtomicCalls == Promise!Spec
==============================================================================
