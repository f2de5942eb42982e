------------------------- MODULE TaskReplaceProofs -------------------------
(* Theorems about TaskReplace, for any run specs and upgrade strategies,   *)
(* any number of instances and anything that goes wrong.                   *)
EXTENDS TaskReplace, TLAPS, FiniteSetTheorems

-----------------------------------------------------------------------------
(* Sequences and numbers                                                   *)

LEMMA ElementsOfTail ==
    ASSUME NEW S, NEW s \in Seq(S), s # <<>>
    PROVE  /\ Head(s) \in S /\ Tail(s) \in Seq(S) /\ 1 \in DOMAIN s /\ Head(s) = s[1]
           /\ \A k \in DOMAIN Tail(s) : k + 1 \in DOMAIN s /\ Tail(s)[k] = s[k + 1]
  OBVIOUS

LEMMA ElementsOfConcat ==
    ASSUME NEW S, NEW s \in Seq(S), NEW t \in Seq(S)
    PROVE  /\ s \o t \in Seq(S)
           /\ \A k \in DOMAIN (s \o t) :
                \/ k \in DOMAIN s /\ (s \o t)[k] = s[k]
                \/ k - Len(s) \in DOMAIN t /\ (s \o t)[k] = t[k - Len(s)]
  OBVIOUS

LEMMA ElementsOfAppend ==
    ASSUME NEW S, NEW s \in Seq(S), NEW x \in S
    PROVE  /\ Append(s, x) \in Seq(S)
           /\ \A k \in DOMAIN Append(s, x) :
                \/ k \in DOMAIN s /\ Append(s, x)[k] = s[k]
                \/ k = Len(s) + 1 /\ Append(s, x)[k] = x
  OBVIOUS

LEMMA CountsAreNat ==
    ASSUME NEW S \in SUBSET Ids
    PROVE  Cardinality(S) \in Nat /\ IsFiniteSet(S)
  <1>1. IsFiniteSet(Ids)
    BY TaskReplaceAssumption, FS_Interval DEF Ids
  <1> QED BY <1>1, FS_Subset, FS_CardinalityType

LEMMA Products == \A a, b \in Nat : a * b \in Nat
  OBVIOUS

LEMMA CapacitiesAreNat ==
    ASSUME conf \in Upgrades
    PROVE  /\ conf.instances \in Nat
           /\ minHealthy \in Nat /\ mostInstances \in Nat /\ startingCapacity \in Nat
  <1>1. /\ conf.instances \in Nat /\ conf.minimumHealthCapacity \in Nat
        /\ conf.maximumOverCapacity \in Nat
    BY TaskReplaceAssumption
  <1>2. conf.instances * conf.minimumHealthCapacity \in Nat
    BY <1>1, Products
  <1>3. conf.instances * (10 + conf.maximumOverCapacity) \in Nat
    BY <1>1, Products
  <1>4. minHealthy \in Nat /\ mostInstances \in Nat
    BY <1>2, <1>3 DEF minHealthy, mostInstances
  <1> QED BY <1>1, <1>4 DEF startingCapacity

LEMMA KillCountIsNat ==
    ASSUME conf \in Upgrades
    PROVE  nrToKillImmediately \in Nat
  <1>1. consideredHealthyInstancesCount \in Nat
    BY CountsAreNat DEF consideredHealthyInstancesCount, Count
  <1>2. Count(exists) \in Nat
    BY CountsAreNat DEF Count
  <1>3. noRoom => minHealthy <= consideredHealthyInstancesCount
    BY DEF noRoom
  <1> QED BY <1>1, <1>2, <1>3, CapacitiesAreNat DEF nrToKillImmediately, max

LEMMA StartCountIsNat ==
    ASSUME conf \in Upgrades, NEW started \in Int, NEW old \in SUBSET Ids, NEW capacity \in Nat
    PROVE  instancesToStartNow(started, old, capacity) \in Nat
  BY CapacitiesAreNat, CountsAreNat DEF instancesToStartNow, min, max

-----------------------------------------------------------------------------
(* Types                                                                   *)

Goals == [id : Ids, awaited : BOOLEAN]
Adds == [count : Nat, reply : {"Done", "CheckFinished", "none"}, after : SUBSET Ids]

LEMMA KillOrderIsSeq ==
    ASSUME NEW S \in SUBSET Ids, NEW q \in toKillOrdered(S), NEW n \in Nat, n <= Len(q)
    PROVE  /\ q \in Seq(Ids)
           /\ SubSeq(q, n + 1, Len(q)) \in Seq(Ids)
           /\ ToSet(SubSeq(q, 1, n)) \subseteq S
  <1> DEFINE c == Cardinality(S)
  <1>1. c \in Nat
    BY CountsAreNat
  <1>2. q \in [1 .. c -> S]
    BY DEF toKillOrdered
  <1> HIDE DEF c
  <1>3. q \in Seq(S) /\ Len(q) = c
    BY <1>1, <1>2
  <1>4. SubSeq(q, n + 1, Len(q)) \in Seq(S) /\ SubSeq(q, 1, n) \in Seq(S)
    BY <1>1, <1>3
  <1>5. \A s \in Seq(S) : s \in Seq(Ids) /\ ToSet(s) \subseteq S
    BY DEF ToSet
  <1> QED BY <1>3, <1>4, <1>5

LEMMA addType ==
    ASSUME TypeOK, NEW n \in Nat, NEW reply \in {"Done", "CheckFinished", "none"}
    PROVE  add(n, reply) \in Seq(Adds)
  <1>1. awaitedGoals \in SUBSET Ids
    BY DEF awaitedGoals, TypeOK
  <1>2. [count |-> n, reply |-> reply, after |-> awaitedGoals] \in Adds
    BY <1>1 DEF Adds
  <1>3. \A a \in Adds : <<a>> \in Seq(Adds)
    OBVIOUS
  <1>4. <<>> \in Seq(Adds)
    OBVIOUS
  <1> QED BY <1>2, <1>3, <1>4 DEF add

LEMMA CallsType ==
    ASSUME NEW s \in Seq(Adds)
    PROVE  /\ [k \in DOMAIN s |-> [s[k] EXCEPT !.reply = "none"]] \in Seq(Adds)
           /\ [k \in DOMAIN s |-> [s[k] EXCEPT !.count = 0]] \in Seq(Adds)
  <1>1. Len(s) \in Nat /\ DOMAIN s = 1 .. Len(s) /\ \A k \in 1 .. Len(s) : s[k] \in Adds
    OBVIOUS
  <1>2. \A a \in Adds : [a EXCEPT !.reply = "none"] \in Adds /\ [a EXCEPT !.count = 0] \in Adds
    BY DEF Adds
  <1>3. \A f \in [1 .. Len(s) -> Adds] : f \in Seq(Adds)
    BY <1>1
  <1> QED BY <1>1, <1>2, <1>3

LEMMA killType ==
    ASSUME NEW S \in SUBSET Ids
    PROVE  kill(S) \subseteq Goals
  <1>1. \A i \in Ids : [id |-> i, awaited |-> FALSE] \in Goals
    BY DEF Goals
  <1> QED BY <1>1 DEF kill

LEMMA InitializeType == TypeOK /\ Initialize => TypeOK'
  <1> SUFFICES ASSUME TypeOK, Initialize PROVE TypeOK'
    OBVIOUS
  <1> DEFINE old == {i \in Ids : isOld(i) /\ wanted(i)}
             started == {i \in Ids : isNew(i)}
             now == instancesToStartNow(Cardinality(started), old, startingCapacity)
  <1>1. conf \in Upgrades /\ old \in SUBSET Ids /\ started \in SUBSET Ids
    BY DEF TypeOK
  <1>2. Cardinality(started) \in Nat /\ now \in Nat /\ startingCapacity \in Nat
    BY <1>1, CountsAreNat, CapacitiesAreNat, StartCountIsNat
  <1>3. /\ maxCapacity' = startingCapacity
        /\ oldActiveInstanceIds' = old
        /\ instancesStarted' = Cardinality(started) + now
        /\ healthy' \subseteq started
        /\ ready' \subseteq started
        /\ subscriptions' \subseteq started
        /\ adds' = adds \o add(now, "Done")
        /\ phase' \in {"finished", "launching", "initialized"}
        /\ mailbox' \in {<<>>, mailbox}
        /\ UNCHANGED <<conf, tracker, created, trouble>>
    BY DEF Initialize
  <1>4. PICK q \in toKillOrdered(old) :
          LET n == min(nrToKillImmediately, Len(q))
          IN  /\ toKill' = SubSeq(q, n + 1, Len(q))
              /\ goals' = goals \cup kill(ToSet(SubSeq(q, 1, n)))
    BY DEF Initialize
  <1>5. Len(q) \in Nat
    <2>1. 0 <= Cardinality(old) /\ Cardinality(old) \in Nat
      BY <1>1, CountsAreNat
    <2>2. q \in [1 .. Cardinality(old) -> old]
      BY <1>4 DEF toKillOrdered
    <2> QED BY <2>1, <2>2
  <1> DEFINE n == min(nrToKillImmediately, Len(q))
  <1>6. n \in Nat /\ n <= Len(q)
    BY <1>1, <1>5, KillCountIsNat DEF min
  <1> HIDE DEF old, started, now, n
  <1>7. toKill' \in Seq(Ids) /\ kill(ToSet(SubSeq(q, 1, n))) \subseteq Goals
    BY <1>1, <1>4, <1>6, KillOrderIsSeq, killType DEF n
  <1>8. adds' \in Seq(Adds)
    BY <1>2, <1>3, addType, ElementsOfConcat DEF TypeOK, Adds
  <1>9. goals' \subseteq Goals
    BY <1>4, <1>7 DEF TypeOK, Goals, n
  <1>10. mailbox' \in Seq(Message)
    <2>1. <<>> \in Seq(Message) /\ mailbox \in Seq(Message)
      BY DEF TypeOK
    <2> QED BY <1>3, <2>1
  <1>11. UNCHANGED <<conf, tracker, created, faults, history>>
    BY <1>3 DEF trouble
  <1> QED BY <1>1, <1>2, <1>3, <1>7, <1>8, <1>9, <1>10, <1>11 DEF TypeOK, Goals, Adds

(***************************************************************************)
(* What every handler does to the actor's state: it knows the instance of  *)
(* the message, and handles or drops its message.                          *)
(***************************************************************************)
LEMMA HandleType ==
    ASSUME TypeOK, mailbox # <<>>, NEW m, m = Head(mailbox), Handle(m)
    PROVE  /\ oldActiveInstanceIds' \subseteq Ids
           /\ toKill' \in Seq(Ids)
           /\ instancesStarted' \in Int
           /\ healthy' \subseteq Ids /\ ready' \subseteq Ids /\ subscriptions' \subseteq Ids
           /\ goals' \subseteq Goals
           /\ adds' \in Seq(Adds)
           /\ phase' \in {phase, "stopped", "finished"}
           /\ mailbox' \in Seq(Message)
  <1> DEFINE Typed ==
           /\ oldActiveInstanceIds' \subseteq Ids
           /\ toKill' \in Seq(Ids)
           /\ instancesStarted' \in Int
           /\ healthy' \subseteq Ids /\ ready' \subseteq Ids /\ subscriptions' \subseteq Ids
           /\ goals' \subseteq Goals
           /\ adds' \in Seq(Adds)
           /\ phase' \in {phase, "stopped", "finished"}
           /\ mailbox' \in Seq(Message)
  <1>0. /\ oldActiveInstanceIds \subseteq Ids
        /\ toKill \in Seq(Ids)
        /\ instancesStarted \in Int
        /\ healthy \subseteq Ids /\ ready \subseteq Ids /\ subscriptions \subseteq Ids
        /\ goals \subseteq Goals
        /\ adds \in Seq(Adds)
        /\ mailbox \in Seq(Message)
    BY DEF TypeOK, Goals, Adds
  <1>1. m \in Message /\ Tail(mailbox) \in Seq(Message) /\ <<>> \in Seq(Message)
    BY <1>0, ElementsOfTail
  <1>2. m.type \in {"InstanceChanged", "InstanceHealthy", "ReadinessCheckResult"} => m.id \in Ids
    BY <1>1 DEF Message
  <1>3. checkFinished => phase' \in {phase, "finished"} /\ mailbox' \in Seq(Message)
    BY <1>1 DEF checkFinished
  <1>4. goesOn => phase' = phase /\ mailbox' \in Seq(Message)
    BY <1>1 DEF goesOn
  <1>5. killNextOldInstance => toKill' \in Seq(Ids) /\ goals' \subseteq Goals
    <2> SUFFICES ASSUME killNextOldInstance PROVE toKill' \in Seq(Ids) /\ goals' \subseteq Goals
      OBVIOUS
    <2>1. CASE toKill = <<>>
      BY <1>0, <2>1 DEF killNextOldInstance
    <2>2. CASE toKill # <<>>
      <3>1. Head(toKill) \in Ids /\ Tail(toKill) \in Seq(Ids)
        BY <1>0, <2>2
      <3>2. kill({Head(toKill)}) \subseteq Goals
        BY <3>1, killType
      <3> QED BY <1>0, <2>2, <3>1, <3>2 DEF killNextOldInstance
    <2> QED BY <2>1, <2>2
  <1>6. \A i : instanceConditionChanged(i) =>
                 /\ phase' \in {phase, "finished"} /\ mailbox' \in Seq(Message)
                 /\ toKill' \in Seq(Ids) /\ goals' \subseteq Goals
    BY <1>0, <1>3, <1>5 DEF instanceConditionChanged
  <1>7. CASE InstanceRuns(m) \/ InstanceHealthy(m) \/ ReadinessCheckResult(m)
    BY <1>0, <1>2, <1>4, <1>6, <1>7 DEF InstanceRuns, InstanceHealthy, ReadinessCheckResult
  <1>8. CASE InstanceStillHealthy(m)
    BY <1>0, <1>4, <1>8 DEF InstanceStillHealthy
  <1>9. CASE NewTerminated(m)
    BY <1>0, <1>4, <1>9 DEF NewTerminated, instanceTerminated
  <1>10. CASE OldTerminated(m)
    <2>1. m.id \in Ids /\ goals' = goals \cup {[id |-> m.id, awaited |-> TRUE]}
      BY <1>2, <1>10 DEF OldTerminated
    <2>2. \A i \in Ids : [id |-> i, awaited |-> TRUE] \in Goals
      BY DEF Goals
    <2>3. goals' \subseteq Goals
      BY <1>0, <2>1, <2>2
    <2> QED BY <1>0, <1>4, <1>10, <2>3 DEF OldTerminated, instanceTerminated
  <1>11. CASE OldEnded(m)
    <2> DEFINE old == oldActiveInstanceIds \ {m.id}
               now == instancesToStartNow(instancesStarted, old, maxCapacity)
    <2>1. now \in Nat
      BY <1>0, StartCountIsNat DEF TypeOK
    <2>2. add(now, "CheckFinished") \in Seq(Adds)
      BY <2>1, addType
    <2>3. adds' = adds \o add(now, "CheckFinished") /\ instancesStarted' = instancesStarted + now
      BY <1>11 DEF OldEnded
    <2>4. mailbox' = Tail(mailbox) \o (IF now = 0 THEN <<[type |-> "CheckFinished"]>> ELSE <<>>)
      BY <1>11 DEF OldEnded
    <2>5. /\ oldActiveInstanceIds' \subseteq oldActiveInstanceIds /\ UNCHANGED <<toKill, subscriptions, goals>>
          /\ phase' = phase
          /\ healthy' \subseteq healthy /\ ready' \subseteq ready
      BY <1>11 DEF OldEnded, instanceTerminated
    <2>6. <<[type |-> "CheckFinished"]>> \in Seq(Message)
      BY DEF Message
    <2>7. mailbox' \in Seq(Message)
      <3> DEFINE t == IF now = 0 THEN <<[type |-> "CheckFinished"]>> ELSE <<>>
      <3>1. t \in Seq(Message)
        BY <1>1, <2>6
      <3> HIDE DEF t
      <3> QED BY <1>1, <2>4, <3>1, ElementsOfConcat DEF t
    <2>8. adds' \in Seq(Adds)
      BY <1>0, <2>2, <2>3, ElementsOfConcat
    <2> HIDE DEF now
    <2>9. instancesStarted' \in Int
      BY <1>0, <2>1, <2>3
    <2> QED BY <1>0, <2>5, <2>7, <2>8, <2>9
  <1>12. CASE CheckFinished(m)
    BY <1>0, <1>3, <1>12 DEF CheckFinished
  <1>13. CASE Failed(m)
    <2>1. adds' = [k \in DOMAIN adds |-> [adds[k] EXCEPT !.reply = "none"]]
      BY <1>13 DEF Failed, fail
    <2>2. adds' \in Seq(Adds)
      BY <1>0, <2>1, CallsType
    <2>3. goals' \subseteq Goals
      BY <1>0, <1>13 DEF Failed, fail, Goals
    <2>4. /\ phase' = "stopped" /\ mailbox' = <<>>
          /\ UNCHANGED <<oldActiveInstanceIds, toKill, instancesStarted, healthy, ready, subscriptions>>
      BY <1>13 DEF Failed, fail
    <2> QED BY <1>0, <1>1, <2>2, <2>3, <2>4
  <1> HIDE DEF Typed
  <1> QED BY <1>7, <1>8, <1>9, <1>10, <1>11, <1>12, <1>13 DEF Handle, Typed

LEMMA ReceiveType == TypeOK /\ Receive => TypeOK'
  <1> SUFFICES ASSUME TypeOK, Receive PROVE TypeOK'
    OBVIOUS
  <1>1. mailbox # <<>> /\ Handle(Head(mailbox)) /\ phase = "initialized"
        /\ UNCHANGED <<conf, tracker, created, maxCapacity, faults, history>>
    BY DEF Receive, trouble
  <1>2. \A m : m = Head(mailbox) /\ Handle(m) =>
           /\ oldActiveInstanceIds' \subseteq Ids
           /\ toKill' \in Seq(Ids)
           /\ instancesStarted' \in Int
           /\ healthy' \subseteq Ids /\ ready' \subseteq Ids /\ subscriptions' \subseteq Ids
           /\ goals' \subseteq Goals
           /\ adds' \in Seq(Adds)
           /\ phase' \in {phase, "stopped", "finished"}
           /\ mailbox' \in Seq(Message)
    BY <1>1, HandleType
  <1>3. /\ oldActiveInstanceIds' \subseteq Ids
        /\ toKill' \in Seq(Ids)
        /\ instancesStarted' \in Int
        /\ healthy' \subseteq Ids /\ ready' \subseteq Ids /\ subscriptions' \subseteq Ids
        /\ goals' \subseteq Goals
        /\ adds' \in Seq(Adds)
        /\ phase' \in {phase, "stopped", "finished"}
        /\ mailbox' \in Seq(Message)
    BY <1>1, <1>2
  <1> QED BY <1>1, <1>3 DEF TypeOK, Goals, Adds

LEMMA updateType ==
    ASSUME TypeOK, NEW i \in Ids, NEW x \in Instance, update(i, x)
    PROVE  /\ tracker' \in [Ids -> Instance \cup {None}]
           /\ mailbox' \in Seq(Message)
  <1>1. tracker' \in [Ids -> Instance \cup {None}]
    BY DEF TypeOK, update
  <1>2. InstanceChanged(i, x) \in Seq(Message)
    <2>1. [type |-> "InstanceChanged", id |-> i, old |-> x.old, cond |-> x.cond, goal |-> x.goal] \in Message
      BY DEF Message, Instance
    <2>2. \A m \in Message : <<m>> \in Seq(Message)
      OBVIOUS
    <2>3. <<>> \in Seq(Message)
      OBVIOUS
    <2> QED BY <2>1, <2>2, <2>3 DEF InstanceChanged
  <1>3. mailbox \in Seq(Message)
    BY DEF TypeOK
  <1>4. mailbox' \in {mailbox, mailbox \o InstanceChanged(i, x)}
    BY DEF update, publish
  <1> QED BY <1>1, <1>2, <1>3, <1>4, ElementsOfConcat

LEMMA existsType ==
    ASSUME TypeOK, NEW i \in Ids, exists(i)
    PROVE  /\ tracker[i] \in Instance
           /\ \A c \in {"scheduled", "running", "dead"} : [tracker[i] EXCEPT !.cond = c] \in Instance
           /\ [tracker[i] EXCEPT !.goal = "Ended"] \in Instance
           /\ [tracker[i] EXCEPT !.cond = "dead", !.healthy = FALSE] \in Instance
           /\ [tracker[i] EXCEPT !.healthy = TRUE] \in Instance
           /\ [tracker[i] EXCEPT !.healthy = FALSE] \in Instance
  <1>1. tracker[i] \in Instance
    BY DEF TypeOK, exists
  <1> QED BY <1>1 DEF Instance

LEMMA answerType ==
    ASSUME TypeOK, NEW awaited, answer(awaited)
    PROVE  mailbox' \in Seq(Message)
  <1>1. mailbox \in Seq(Message) /\ [type |-> "Failure"] \in Message
    BY DEF TypeOK, Message
  <1>2. mailbox' \in {mailbox, Append(mailbox, [type |-> "Failure"])}
    BY DEF answer
  <1> QED BY <1>1, <1>2, ElementsOfAppend

LEMMA faultType ==
    ASSUME TypeOK, NEW kind \in {"task", "health", "leader", "add", "timeout", "goal", "others"}, fault(kind)
    PROVE  /\ faults' \in Nat
           /\ history' \subseteq {"task", "health", "leader", "add", "timeout", "goal", "others"}
  BY DEF TypeOK, fault

LEMMA WorldType ==
    ASSUME TypeOK,
           \/ \E g \in goals : SetGoal(g) \/ SetGoalFails(g)
           \/ \E i \in Ids : TaskRuns(i) \/ TaskKilled(i) \/ TaskFails(i) \/ BecomesHealthy(i)
                             \/ BecomesUnhealthy(i) \/ BecomesReady(i) \/ Interfere(i)
    PROVE  TypeOK'
  <1> DEFINE Kinds == {"task", "health", "leader", "add", "timeout", "goal", "others"}
  <1>1. ASSUME UNCHANGED <<conf, created, phase, state, adds>>,
               goals' \subseteq goals,
               tracker' \in [Ids -> Instance \cup {None}],
               mailbox' \in Seq(Message),
               faults' \in Nat /\ history' \subseteq Kinds
        PROVE  TypeOK'
    BY <1>1 DEF TypeOK, state
  <1>2. /\ tracker \in [Ids -> Instance \cup {None}] /\ mailbox \in Seq(Message)
        /\ faults \in Nat /\ history \subseteq Kinds
        /\ \A g \in goals : g.id \in Ids
    BY DEF TypeOK
  <1>3. ASSUME NEW g \in goals, SetGoal(g) PROVE TypeOK'
    <2>1. \/ wanted(g.id) /\ update(g.id, [tracker[g.id] EXCEPT !.goal = "Ended"])
          \/ UNCHANGED <<tracker, mailbox>>
          \/ answer(g.awaited) /\ UNCHANGED tracker
      BY <1>3 DEF SetGoal
    <2>2. tracker' \in [Ids -> Instance \cup {None}] /\ mailbox' \in Seq(Message)
      BY <1>2, <2>1, updateType, existsType, answerType DEF wanted
    <2> QED BY <1>1, <1>2, <1>3, <2>2 DEF SetGoal, trouble
  <1>4. ASSUME NEW g \in goals, SetGoalFails(g) PROVE TypeOK'
    BY <1>1, <1>2, <1>4, answerType, faultType DEF SetGoalFails
  <1>5. ASSUME NEW i \in Ids, TaskRuns(i) \/ TaskKilled(i) PROVE TypeOK'
    <2>1. tracker' \in [Ids -> Instance \cup {None}] /\ mailbox' \in Seq(Message)
      BY <1>5, updateType, existsType DEF TaskRuns, TaskKilled, wanted, isRunning
    <2> QED BY <1>1, <1>2, <1>5, <2>1 DEF TaskRuns, TaskKilled, trouble
  <1>6. ASSUME NEW i \in Ids, TaskFails(i) \/ Interfere(i) PROVE TypeOK'
    <2>1. tracker' \in [Ids -> Instance \cup {None}] /\ mailbox' \in Seq(Message)
      BY <1>6, updateType, existsType DEF TaskFails, Interfere, wanted
    <2> QED BY <1>1, <1>2, <1>6, <2>1, faultType DEF TaskFails, Interfere
  <1>7. ASSUME NEW i \in Ids, BecomesHealthy(i) PROVE TypeOK'
    <2>1. tracker' \in [Ids -> Instance \cup {None}]
      BY <1>2, <1>7, existsType DEF BecomesHealthy, isRunning
    <2>2. [type |-> "InstanceHealthy", id |-> i] \in Message
      BY DEF Message
    <2>3. <<>> \in Seq(Message) /\ <<[type |-> "InstanceHealthy", id |-> i]>> \in Seq(Message)
      BY <2>2
    <2>4. \/ mailbox' = mailbox
          \/ mailbox' = mailbox \o <<>>
          \/ mailbox' = mailbox \o <<[type |-> "InstanceHealthy", id |-> i]>>
      BY <1>7 DEF BecomesHealthy, publish
    <2>5. mailbox' \in Seq(Message)
      BY <1>2, <2>3, <2>4, ElementsOfConcat
    <2> QED BY <1>1, <1>2, <1>7, <2>1, <2>5 DEF BecomesHealthy, trouble
  <1>8. ASSUME NEW i \in Ids, BecomesUnhealthy(i) PROVE TypeOK'
    <2>1. tracker' \in [Ids -> Instance \cup {None}]
      BY <1>2, <1>8, existsType DEF BecomesUnhealthy, isRunning
    <2> QED BY <1>1, <1>2, <1>8, <2>1, faultType DEF BecomesUnhealthy
  <1>9. ASSUME NEW i \in Ids, BecomesReady(i) PROVE TypeOK'
    <2>1. [type |-> "ReadinessCheckResult", id |-> i] \in Message
      BY DEF Message
    <2>2. mailbox' \in Seq(Message)
      BY <1>2, <1>9, <2>1, ElementsOfAppend DEF BecomesReady
    <2> QED BY <1>1, <1>2, <1>9, <2>2 DEF BecomesReady, trouble
  <1> QED BY <1>3, <1>4, <1>5, <1>6, <1>7, <1>8, <1>9

-----------------------------------------------------------------------------
(* The launch queue                                                        *)

LEMMA addInstancesType ==
    ASSUME TypeOK, NEW n \in Nat, addInstances(n)
    PROVE  /\ created' \in 0..MaxInstances
           /\ tracker' \in [Ids -> Instance \cup {None}]
           /\ \A i \in Ids : tracker'[i] \in {tracker[i], Added}
  <1> DEFINE c == Cardinality(reusable)
             r == min(n, c)
             fresh == (created + 1)..(created + n - r)
  <1>1. c \in Nat
    BY CountsAreNat DEF reusable
  <1> HIDE DEF c
  <1>2. r \in Nat /\ r <= n
    BY <1>1 DEF min
  <1>3. created + n - r <= MaxInstances /\ created' = created + n - r
    BY DEF addInstances, c
  <1>4. PICK S \in SUBSET reusable : tracker' = [i \in Ids |-> IF i \in S \cup fresh THEN Added ELSE tracker[i]]
    BY DEF addInstances, c
  <1> HIDE DEF r, fresh
  <1>5. created' \in 0..MaxInstances
    BY <1>2, <1>3, TaskReplaceAssumption DEF TypeOK
  <1>6. Added \in Instance
    BY DEF Added, Instance
  <1> QED BY <1>4, <1>5, <1>6 DEF TypeOK

LEMMA RemoveAtType ==
    ASSUME NEW S, NEW s \in Seq(S), NEW k \in DOMAIN s
    PROVE  /\ RemoveAt(s, k) \in Seq(S)
           /\ \A j \in DOMAIN RemoveAt(s, k) :
                \/ j < k /\ j \in DOMAIN s /\ RemoveAt(s, k)[j] = s[j]
                \/ j >= k /\ j + 1 \in DOMAIN s /\ RemoveAt(s, k)[j] = s[j + 1]
  <1>1. k \in 1 .. Len(s) /\ Len(s) \in Nat
    OBVIOUS
  <1>2. SubSeq(s, 1, k - 1) \in Seq(S) /\ SubSeq(s, k + 1, Len(s)) \in Seq(S)
    BY <1>1
  <1>3. /\ RemoveAt(s, k) = SubSeq(s, 1, k - 1) \o SubSeq(s, k + 1, Len(s))
        /\ RemoveAt(s, k) \in Seq(S)
    BY <1>2 DEF RemoveAt
  <1>4. ASSUME NEW j \in DOMAIN RemoveAt(s, k)
        PROVE  \/ j < k /\ j \in DOMAIN s /\ RemoveAt(s, k)[j] = s[j]
               \/ j >= k /\ j + 1 \in DOMAIN s /\ RemoveAt(s, k)[j] = s[j + 1]
    <2> DEFINE a == SubSeq(s, 1, k - 1)
               b == SubSeq(s, k + 1, Len(s))
    <2>1. /\ Len(a) = k - 1 /\ Len(b) = Len(s) - k
          /\ \A l \in 1 .. k - 1 : a[l] = s[l]
          /\ \A l \in 1 .. Len(s) - k : b[l] = s[l + k]
      BY <1>1
    <2>2. a \in Seq(S) /\ b \in Seq(S) /\ RemoveAt(s, k) = a \o b
      BY <1>2, <1>3
    <2>3. /\ DOMAIN a = 1 .. k - 1 /\ DOMAIN b = 1 .. Len(s) - k
      BY <1>1
    <2> HIDE DEF a, b
    <2>4. \/ j \in DOMAIN a /\ RemoveAt(s, k)[j] = a[j]
          \/ j - Len(a) \in DOMAIN b /\ RemoveAt(s, k)[j] = b[j - Len(a)]
      BY <2>2, ElementsOfConcat
    <2>5. CASE j \in DOMAIN a /\ RemoveAt(s, k)[j] = a[j]
      BY <1>1, <2>1, <2>3, <2>5
    <2>6. CASE j - Len(a) \in DOMAIN b /\ RemoveAt(s, k)[j] = b[j - Len(a)]
      <3> DEFINE l == j - Len(a)
      <3>1. l \in 1 .. Len(s) - k /\ RemoveAt(s, k)[j] = b[l] /\ j \in Int
        BY <1>3, <2>3, <2>6
      <3> HIDE DEF l
      <3>2. l + k \in 1 .. Len(s) /\ l + k = j + 1 /\ j >= k
        <4>1. l = j - (k - 1)
          BY <1>1, <2>1 DEF l
        <4>2. k \in 1 .. Len(s) /\ Len(s) \in Nat /\ j \in Int
          BY <1>1, <3>1
        <4>3. j - (k - 1) \in 1 .. Len(s) - k
          BY <3>1, <4>1
        <4>4. j >= k /\ j + 1 \in 1 .. Len(s) /\ j - (k - 1) + k = j + 1
          BY <4>2, <4>3
        <4> QED BY <4>1, <4>4
      <3>3. b[l] = s[l + k]
        BY <2>1, <3>1
      <3>4. DOMAIN s = 1 .. Len(s)
        OBVIOUS
      <3> QED BY <3>1, <3>2, <3>3, <3>4
    <2> QED BY <2>4, <2>5, <2>6
  <1> QED BY <1>3, <1>4

LEMMA givesUpType ==
    ASSUME TypeOK, NEW k \in DOMAIN adds, givesUp(k)
    PROVE  /\ phase' \in {phase, "stopped"}
           /\ mailbox' \in Seq(Message)
           /\ UNCHANGED <<conf, tracker, created, state, goals>>
  <1>1. mailbox \in Seq(Message) /\ <<>> \in Seq(Message) /\ [type |-> "Failure"] \in Message
    BY DEF TypeOK, Message
  <1>2. \/ mailbox' = <<>> \/ mailbox' = mailbox
        \/ mailbox' = Append(mailbox, [type |-> "Failure"])
    BY DEF givesUp
  <1>3. Append(mailbox, [type |-> "Failure"]) \in Seq(Message)
    BY <1>1, ElementsOfAppend
  <1> QED BY <1>1, <1>2, <1>3 DEF givesUp

LEMMA QueueType ==
    ASSUME TypeOK,
           \/ AddDone \/ AddFails \/ Failover
           \/ \E k \in DOMAIN adds : LostAddTimesOut(k) \/ AddTimesOut(k)
    PROVE  TypeOK'
  <1>0. /\ adds \in Seq(Adds) /\ mailbox \in Seq(Message)
        /\ [type |-> "CheckFinished"] \in Message /\ <<>> \in Seq(Message) /\ <<>> \in Seq(Adds)
    BY DEF TypeOK, Adds, Message
  <1>1. ASSUME UNCHANGED <<conf, state>>,
               created' \in 0..MaxInstances, tracker' \in [Ids -> Instance \cup {None}],
               phase' \in {phase, "initialized", "stopped"},
               mailbox' \in Seq(Message), goals' \subseteq goals, adds' \in Seq(Adds),
               faults' \in Nat, history' \subseteq {"task", "health", "leader", "add", "timeout", "goal", "others"}
        PROVE  TypeOK'
    BY <1>1 DEF TypeOK, state, Adds
  <1>2. CASE AddDone
    <2>1. adds # <<>> /\ addInstances(Head(adds).count) /\ adds' = Tail(adds)
      BY <1>2 DEF AddDone
    <2>2. Head(adds) \in Adds /\ Tail(adds) \in Seq(Adds)
      BY <1>0, <2>1, ElementsOfTail
    <2>3. Head(adds).count \in Nat
      BY <2>2 DEF Adds
    <2>4. mailbox' \in {mailbox, Append(mailbox, [type |-> "CheckFinished"])}
      BY <1>2 DEF AddDone
    <2>5. mailbox' \in Seq(Message)
      BY <1>0, <2>4, ElementsOfAppend
    <2>6. /\ phase' \in {phase, "initialized"}
          /\ UNCHANGED <<conf, state, goals, faults, history>>
      BY <1>2 DEF AddDone, trouble
    <2>7. faults' \in Nat /\ history' \subseteq {"task", "health", "leader", "add", "timeout", "goal", "others"}
      BY <2>6 DEF TypeOK
    <2>8. created' \in 0..MaxInstances /\ tracker' \in [Ids -> Instance \cup {None}]
      BY <2>1, <2>3, addInstancesType
    <2> QED BY <1>1, <2>1, <2>2, <2>5, <2>6, <2>7, <2>8
  <1>3. CASE AddFails
    <2>1. PICK n \in 0..(Head(adds).count - 1) : addInstances(n)
      BY <1>3 DEF AddFails
    <2>2. Head(adds) \in Adds
      BY <1>0, <1>3, ElementsOfTail DEF AddFails
    <2>3. n \in Nat
      BY <2>2 DEF Adds
    <2>4. adds' \in Seq(Adds)
      BY <1>0, <1>3, CallsType DEF AddFails
    <2>5. fault("add") /\ UNCHANGED <<conf, phase, state, mailbox, goals>>
      BY <1>3 DEF AddFails
    <2> QED BY <1>0, <1>1, <2>1, <2>3, <2>4, <2>5, addInstancesType, faultType
  <1>4. ASSUME NEW k \in DOMAIN adds, LostAddTimesOut(k) PROVE TypeOK'
    <2>1. adds' \in Seq(Adds)
      BY <1>0, <1>4, RemoveAtType DEF LostAddTimesOut
    <2>2. UNCHANGED <<faults, history>> /\ givesUp(k)
      BY <1>4 DEF LostAddTimesOut, trouble
    <2> QED BY <1>1, <2>1, <2>2, givesUpType DEF TypeOK
  <1>5. ASSUME NEW k \in DOMAIN adds, AddTimesOut(k) PROVE TypeOK'
    <2>1. adds' = [adds EXCEPT ![k] = [adds[k] EXCEPT !.reply = "none"]] /\ adds[k] \in Adds
      BY <1>0, <1>5 DEF AddTimesOut
    <2>2. [adds[k] EXCEPT !.reply = "none"] \in Adds
      BY <2>1 DEF Adds
    <2>3. adds' \in Seq(Adds)
      <3> DEFINE a == [adds[k] EXCEPT !.reply = "none"]
      <3> HIDE DEF a
      <3>1. \A b \in Adds : [adds EXCEPT ![k] = b] \in Seq(Adds)
        BY <1>0
      <3> QED BY <2>1, <2>2, <3>1 DEF a
    <2>4. fault("timeout") /\ givesUp(k)
      BY <1>5 DEF AddTimesOut
    <2> QED BY <1>1, <2>3, <2>4, givesUpType, faultType DEF TypeOK
  <1>6. CASE Failover
    <2>1. fault("leader") /\ phase' = "stopped" /\ mailbox' = <<>> /\ goals' = {} /\ adds' = <<>>
          /\ UNCHANGED <<conf, tracker, created, state>>
      BY <1>6 DEF Failover
    <2>2. created' \in 0..MaxInstances /\ tracker' \in [Ids -> Instance \cup {None}]
      BY <2>1 DEF TypeOK
    <2> QED BY <1>0, <1>1, <2>1, <2>2, faultType
  <1> QED BY <1>2, <1>3, <1>4, <1>5, <1>6

LEMMA NextType == TypeOK /\ [Next]_vars => TypeOK'
  <1> SUFFICES ASSUME TypeOK, [Next]_vars PROVE TypeOK'
    OBVIOUS
  <1>1. CASE Restart \/ UNCHANGED vars
    BY <1>1 DEF Restart, vars, TypeOK, state, trouble
  <1> QED BY <1>1, InitializeType, ReceiveType, WorldType, QueueType DEF Next, Actor

LEMMA InitType == Init => TypeOK
  <1> SUFFICES ASSUME Init PROVE TypeOK
    OBVIOUS
  <1>1. /\ conf.existing \in 0..MaxInstances /\ conf.faults \in Nat /\ conf.hasHealthChecks \in BOOLEAN
    BY TaskReplaceAssumption DEF Init
  <1>2. tracker \in [Ids -> Instance \cup {None}]
    <2>1. \A h \in BOOLEAN, c \in {"scheduled", "running"} :
             [old |-> TRUE, goal |-> "Running", cond |-> c, healthy |-> h] \in Instance
      BY DEF Instance
    <2> QED BY <2>1 DEF Init
  <1> QED BY <1>1, <1>2 DEF Init, TypeOK

(***************************************************************************)
(* All state stays in its type, whatever is late, lost or tried again.     *)
(* The count of started instances is an integer only: what others end      *)
(* while the actor is away may be subtracted twice.                        *)
(***************************************************************************)
THEOREM TypeCorrect == Spec => []TypeOK
  BY InitType, NextType, PTL DEF Spec

-----------------------------------------------------------------------------
(***************************************************************************)
(* What the actor knows of the old instances.                              *)
(***************************************************************************)
Started == phase \in {"launching", "initialized", "finished"}
Calm == history \cap {"task", "leader", "add", "timeout"} = {}

(* Of an ended old instance the actor hears when it neither runs nor is to *)
(* run; only a failed task is dead when it should run.                     *)
MessageOK(m) ==
    /\ m.type = "InstanceChanged" /\ m.old /\ m.goal = "Ended" /\ m.cond /= "running" =>
          ~ (isOld(m.id) /\ (wanted(m.id) \/ isRunning(m.id)))
    /\ m.type = "InstanceChanged" /\ m.cond = "dead" /\ m.goal = "Running" => "task" \in history
    /\ m.type = "Failure" => ~ Calm

MessagesOK == \A k \in DOMAIN mailbox : MessageOK(mailbox[k])

(* One call at most is waited for by an actor that starts, and only while  *)
(* it has not given up.                                                    *)
CallsOK ==
    /\ \A k \in DOMAIN adds : /\ adds[k].count = 0 => "add" \in history
                              /\ adds[k].reply = "Done" => Started
    /\ \A k, l \in DOMAIN adds : adds[k].reply = "Done" /\ adds[l].reply = "Done" => k = l
    /\ \A g \in goals : g.awaited => "task" \in history

(* An old instance that is to run, or that runs, is an active one to the   *)
(* actor, but for one that failed or was not counted after a restart.      *)
KnownOK ==
    Started =>
        \A i \in Ids : isOld(i) =>
            /\ wanted(i) => \/ i \in oldActiveInstanceIds
                            \/ [id |-> i, awaited |-> TRUE] \in goals
                            \/ {"task", "goal"} \subseteq history
            /\ isRunning(i) => i \in oldActiveInstanceIds \/ ~ Calm

(* Nothing has been killed when the actor starts for the first time.       *)
FirstOK ==
    Calm => /\ phase /= "stopped"
            /\ phase = "initializing" => goals = {} /\ \A i \in Ids : isOld(i) => wanted(i)

FinishedOK == phase = "finished" => oldActiveInstanceIds = {}

Known == MessagesOK /\ CallsOK /\ KnownOK /\ FirstOK /\ FinishedOK

(* An old instance stays one, and never runs or is to run again once it    *)
(* has ended.                                                              *)
OldKept ==
    \A i \in Ids : isOld(i)' => /\ isOld(i)
                                /\ wanted(i)' => wanted(i)
                                /\ isRunning(i)' => isRunning(i) \/ wanted(i)

LEMMA SameKept == tracker' = tracker => OldKept
  BY DEF OldKept, isOld, wanted, isRunning, exists

LEMMA PlainMessageOK ==
    ASSUME NEW m, m.type # "InstanceChanged", m.type # "Failure"
    PROVE  MessageOK(m) /\ MessageOK(m)'
  BY DEF MessageOK

LEMMA MessageKept ==
    ASSUME NEW m \in Message, MessageOK(m), OldKept, history \subseteq history'
    PROVE  MessageOK(m)'
  <1>1. ASSUME m.type = "InstanceChanged", m.old, m.goal = "Ended", m.cond # "running",
               isOld(m.id)', wanted(m.id)' \/ isRunning(m.id)'
        PROVE  FALSE
    <2>1. m.id \in Ids
      BY <1>1 DEF Message
    <2> QED BY <1>1, <2>1 DEF MessageOK, OldKept
  <1>2. m.type = "InstanceChanged" /\ m.cond = "dead" /\ m.goal = "Running" => "task" \in history'
    BY DEF MessageOK
  <1>3. m.type = "Failure" => ~ Calm'
    BY DEF MessageOK, Calm
  <1> QED BY <1>1, <1>2, <1>3 DEF MessageOK

LEMMA MessagesKept ==
    ASSUME TypeOK, MessagesOK, OldKept, history \subseteq history',
           \A k \in DOMAIN mailbox' :
              \/ \E l \in DOMAIN mailbox : mailbox'[k] = mailbox[l]
              \/ MessageOK(mailbox[k])'
    PROVE  MessagesOK'
  <1>1. ASSUME NEW k \in DOMAIN mailbox', NEW l \in DOMAIN mailbox, mailbox'[k] = mailbox[l]
        PROVE  MessageOK(mailbox[k])'
    <2>1. mailbox[l] \in Message /\ MessageOK(mailbox[l])
      BY DEF TypeOK, MessagesOK
    <2>2. \A m \in Message : MessageOK(m) => MessageOK(m)'
      BY MessageKept
    <2>3. \A m : m = mailbox[l] => MessageOK(m)'
      BY <2>1, <2>2
    <2> QED BY <1>1, <2>3 DEF MessageOK
  <1> QED BY <1>1 DEF MessagesOK

LEMMA AppendKept ==
    ASSUME TypeOK, MessagesOK, OldKept, history \subseteq history',
           NEW m \in Message, MessageOK(m)', mailbox' = Append(mailbox, m)
    PROVE  MessagesOK'
  <1>1. mailbox \in Seq(Message)
    BY DEF TypeOK
  <1>2. \A k \in DOMAIN Append(mailbox, m) :
           \/ k \in DOMAIN mailbox /\ Append(mailbox, m)[k] = mailbox[k]
           \/ Append(mailbox, m)[k] = m
    BY <1>1, ElementsOfAppend
  <1>3. \A k \in DOMAIN mailbox' : mailbox'[k] = m => MessageOK(mailbox[k])'
    BY DEF MessageOK
  <1> QED BY <1>2, <1>3, MessagesKept

(* The messages stay correct when an instance is updated, and so does what *)
(* is said of old instances.                                               *)
LEMMA updateKept ==
    ASSUME TypeOK, MessagesOK, history \subseteq history',
           NEW i \in Ids, NEW x \in Instance, exists(i), update(i, x),
           x.old = tracker[i].old,
           x.goal = "Running" => wanted(i),
           x.cond = "running" => isRunning(i) \/ wanted(i),
           x.cond = "dead" /\ x.goal = "Running" => "task" \in history'
    PROVE  OldKept /\ MessagesOK'
  <1>1. tracker \in [Ids -> Instance \cup {None}] /\ mailbox \in Seq(Message) /\ tracker[i] # None
    BY DEF TypeOK, exists
  <1>2. /\ \A j \in Ids : j # i => tracker'[j] = tracker[j]
        /\ tracker'[i] = x \/ tracker'[i] = None
    BY <1>1 DEF update
  <1>3. OldKept
    <2> SUFFICES ASSUME NEW j \in Ids, isOld(j)'
                 PROVE  /\ isOld(j)
                        /\ wanted(j)' => wanted(j)
                        /\ isRunning(j)' => isRunning(j) \/ wanted(j)
      BY DEF OldKept
    <2>1. CASE j # i
      BY <1>2, <2>1 DEF isOld, wanted, isRunning, exists
    <2>2. CASE j = i
      <3>1. tracker'[i] = x /\ x.old
        BY <1>2, <2>2 DEF isOld, exists
      <3>2. isOld(i)
        BY <1>1, <3>1 DEF isOld, exists
      <3> QED BY <2>2, <3>1, <3>2 DEF wanted, isRunning, exists
    <2> QED BY <2>1, <2>2
  <1> DEFINE m == [type |-> "InstanceChanged", id |-> i, old |-> x.old, cond |-> x.cond, goal |-> x.goal]
  <1>4. m \in Message
    BY DEF Message, Instance
  <1>5. MessageOK(m)'
    <2>1. m.type = "InstanceChanged" /\ m.id = i /\ m.old = x.old /\ m.cond = x.cond /\ m.goal = x.goal
      OBVIOUS
    <2> HIDE DEF m
    <2>2. ASSUME m.goal = "Ended", m.cond # "running", isOld(i)' PROVE ~ wanted(i)' /\ ~ isRunning(i)'
      <3>1. tracker'[i] = x
        BY <1>2, <2>2 DEF isOld, exists
      <3> QED BY <2>1, <2>2, <3>1 DEF wanted, isRunning
    <2> QED BY <2>1, <2>2 DEF MessageOK
  <1>6. \/ mailbox' = mailbox
        \/ mailbox' = mailbox \o <<>>
        \/ mailbox' = mailbox \o <<m>>
    BY DEF update, publish, InstanceChanged
  <1> HIDE DEF m
  <1>7. mailbox \o <<>> = mailbox /\ mailbox \o <<m>> = Append(mailbox, m)
    BY <1>1, <1>4
  <1>8. ASSUME mailbox' = mailbox PROVE MessagesOK'
    BY <1>3, <1>8, MessagesKept
  <1>9. ASSUME mailbox' = Append(mailbox, m) PROVE MessagesOK'
    BY <1>3, <1>4, <1>5, <1>9, AppendKept
  <1> QED BY <1>3, <1>6, <1>7, <1>8, <1>9

(* What is known stays so in a step that is not the actor's.               *)
LEMMA WorldKept ==
    ASSUME TypeOK, Known, OldKept, history \subseteq history', MessagesOK', CallsOK',
           oldActiveInstanceIds' = oldActiveInstanceIds,
           \/ phase' = phase
           \/ phase' = "stopped" /\ ~ Calm'
           \/ Started /\ phase' = "initialized",
           goals' \subseteq goals,
           \A i \in Ids : [id |-> i, awaited |-> TRUE] \in goals \ goals' =>
              ~ (isOld(i)' /\ wanted(i)') \/ "goal" \in history' \/ phase' = "stopped",
           goals = {} => \A i \in Ids : isOld(i)' /\ wanted(i) => wanted(i)'
    PROVE  Known'
  <1>1. Calm' => Calm
    BY DEF Calm
  <1>2. KnownOK'
    <2> SUFFICES ASSUME Started', NEW i \in Ids, isOld(i)'
                 PROVE  /\ wanted(i)' => \/ i \in oldActiveInstanceIds
                                         \/ [id |-> i, awaited |-> TRUE] \in goals'
                                         \/ {"task", "goal"} \subseteq history'
                        /\ isRunning(i)' => i \in oldActiveInstanceIds \/ ~ Calm'
      BY DEF KnownOK
    <2>1. Started /\ phase' # "stopped"
      BY DEF Started
    <2>2. isOld(i) /\ (wanted(i)' => wanted(i)) /\ (isRunning(i)' => isRunning(i) \/ wanted(i))
      BY DEF OldKept
    <2> DEFINE g == [id |-> i, awaited |-> TRUE]
    <2>3. g.awaited
      OBVIOUS
    <2> HIDE DEF g
    <2>4. g \in goals => "task" \in history
      BY <2>3 DEF Known, CallsOK
    <2>5. /\ wanted(i) => \/ i \in oldActiveInstanceIds
                          \/ g \in goals
                          \/ {"task", "goal"} \subseteq history
          /\ isRunning(i) => i \in oldActiveInstanceIds \/ ~ Calm
      BY <2>1, <2>2 DEF Known, KnownOK, g
    <2>6. wanted(i)' => i \in oldActiveInstanceIds \/ g \in goals' \/ {"task", "goal"} \subseteq history'
      <3>1. g \in goals /\ g \notin goals' => ~ wanted(i)' \/ "goal" \in history'
        BY <2>1 DEF g
      <3> QED BY <2>2, <2>4, <2>5, <3>1
    <2>7. "task" \in history => ~ Calm'
      BY DEF Calm
    <2>8. isRunning(i)' => i \in oldActiveInstanceIds \/ ~ Calm'
      BY <1>1, <2>2, <2>4, <2>5, <2>7
    <2> QED BY <2>6, <2>8 DEF g
  <1>3. FirstOK'
    <2> SUFFICES ASSUME Calm'
                 PROVE  /\ phase' # "stopped"
                        /\ phase' = "initializing" => goals' = {} /\ \A i \in Ids : isOld(i)' => wanted(i)'
      BY DEF FirstOK
    <2>1. /\ phase # "stopped"
          /\ phase = "initializing" => goals = {} /\ \A i \in Ids : isOld(i) => wanted(i)
      BY <1>1 DEF Known, FirstOK
    <2>2. \A i \in Ids : isOld(i)' => isOld(i)
      BY DEF OldKept
    <2> QED BY <2>1, <2>2
  <1>4. FinishedOK'
    BY DEF Known, FinishedOK
  <1> QED BY <1>2, <1>3, <1>4 DEF Known

LEMMA CallsKept ==
    ASSUME CallsOK, UNCHANGED <<adds, phase>>, goals' \subseteq goals, history \subseteq history'
    PROVE  CallsOK'
  BY DEF CallsOK, Started

LEMMA HistoryGrows ==
    ASSUME NEW kind, fault(kind)
    PROVE  history \subseteq history' /\ kind \in history'
  BY DEF fault

(* The answer that a setGoal call has failed.                              *)
LEMMA answerKept ==
    ASSUME TypeOK, MessagesOK, tracker' = tracker, history \subseteq history',
           NEW awaited, awaited => "task" \in history, answer(awaited)
    PROVE  MessagesOK'
  <1>1. OldKept
    BY SameKept
  <1>2. CASE awaited
    <2> DEFINE m == [type |-> "Failure"]
    <2>1. m \in Message /\ m.type = "Failure" /\ mailbox' = Append(mailbox, m)
      BY <1>2 DEF Message, answer
    <2> HIDE DEF m
    <2>2. MessageOK(m)'
      BY <1>2, <2>1 DEF MessageOK, Calm
    <2> QED BY <1>1, <2>1, <2>2, AppendKept
  <1>3. CASE ~ awaited
    <2>1. mailbox' = mailbox
      BY <1>3 DEF answer
    <2> QED BY <1>1, <2>1, MessagesKept
  <1> QED BY <1>2, <1>3

LEMMA SetGoalKept ==
    ASSUME TypeOK, Known, NEW g \in goals, SetGoal(g) \/ SetGoalFails(g)
    PROVE  Known'
  <1>1. /\ g.id \in Ids /\ (g.awaited => "task" \in history) /\ MessagesOK /\ CallsOK
        /\ g = [id |-> g.id, awaited |-> g.awaited]
    BY DEF TypeOK, Known, CallsOK
  <1>2. /\ goals' = goals \ {g} /\ UNCHANGED <<adds, phase, oldActiveInstanceIds>>
        /\ history \subseteq history'
    BY HistoryGrows DEF SetGoal, SetGoalFails, trouble, state
  <1>3. CallsOK'
    BY <1>1, <1>2, CallsKept
  <1>4. \A i \in Ids : [id |-> i, awaited |-> TRUE] \in goals \ goals' => i = g.id
    BY <1>2
  <1>5. CASE SetGoal(g) /\ wanted(g.id) /\ update(g.id, [tracker[g.id] EXCEPT !.goal = "Ended"])
    <2> DEFINE x == [tracker[g.id] EXCEPT !.goal = "Ended"]
    <2>1. exists(g.id)
      BY <1>5 DEF wanted
    <2>2. x \in Instance /\ tracker[g.id] \in Instance
      BY <1>1, <2>1, existsType
    <2>3. x.old = tracker[g.id].old /\ x.goal = "Ended" /\ x.cond = tracker[g.id].cond
      BY <2>2 DEF Instance
    <2>4. update(g.id, x)
      BY <1>5
    <2> HIDE DEF x
    <2>5. x.cond = "running" => isRunning(g.id)
      BY <2>1, <2>3 DEF isRunning
    <2>6. OldKept /\ MessagesOK'
      BY <1>1, <1>2, <2>1, <2>2, <2>3, <2>4, <2>5, updateKept
    <2>7. tracker'[g.id] \in {x, None}
      BY <1>1, <2>4 DEF update, TypeOK
    <2>8. ~ wanted(g.id)'
      BY <2>3, <2>7 DEF wanted, exists
    <2>9. \A i \in Ids : [id |-> i, awaited |-> TRUE] \in goals \ goals' => ~ wanted(i)'
      BY <1>4, <2>8
    <2> QED BY <1>2, <1>3, <2>6, <2>9, WorldKept
  <1>6. CASE SetGoal(g) /\ exists(g.id) /\ ~ wanted(g.id) /\ UNCHANGED <<tracker, mailbox>>
    <2>1. OldKept
      BY <1>6, SameKept
    <2>2. MessagesOK'
      BY <1>1, <1>2, <1>6, <2>1, MessagesKept
    <2>3. \A i \in Ids : [id |-> i, awaited |-> TRUE] \in goals \ goals' => ~ wanted(i)'
      BY <1>4, <1>6 DEF wanted, exists
    <2> QED BY <1>2, <1>3, <2>1, <2>2, <2>3, WorldKept
  <1>7. CASE SetGoal(g) /\ ~ exists(g.id) /\ answer(g.awaited) /\ UNCHANGED tracker
    <2>1. OldKept
      BY <1>7, SameKept
    <2>2. MessagesOK'
      BY <1>1, <1>2, <1>7, answerKept
    <2>3. \A i \in Ids : [id |-> i, awaited |-> TRUE] \in goals \ goals' => ~ isOld(i)'
      BY <1>4, <1>7 DEF isOld, exists
    <2> QED BY <1>2, <1>3, <2>1, <2>2, <2>3, WorldKept
  <1>8. CASE SetGoalFails(g)
    <2>1. tracker' = tracker /\ answer(g.awaited) /\ "goal" \in history'
      BY <1>8, HistoryGrows DEF SetGoalFails
    <2>2. OldKept
      BY <2>1, SameKept
    <2>3. MessagesOK'
      BY <1>1, <1>2, <2>1, answerKept
    <2> QED BY <1>2, <1>3, <2>1, <2>2, <2>3, WorldKept
  <1> QED BY <1>5, <1>6, <1>7, <1>8 DEF SetGoal

LEMMA InstanceKept ==
    ASSUME TypeOK, Known, NEW i \in Ids,
           \/ TaskRuns(i) \/ TaskKilled(i) \/ TaskFails(i) \/ BecomesHealthy(i)
           \/ BecomesUnhealthy(i) \/ BecomesReady(i) \/ Interfere(i)
    PROVE  Known'
  <1>1. /\ UNCHANGED <<goals, adds, phase, oldActiveInstanceIds>> /\ history \subseteq history'
        /\ MessagesOK /\ CallsOK /\ tracker \in [Ids -> Instance \cup {None}]
        /\ mailbox \in Seq(Message)
    BY HistoryGrows DEF TaskRuns, TaskKilled, TaskFails, BecomesHealthy, BecomesUnhealthy, BecomesReady,
                        Interfere, trouble, state, Known, TypeOK
  <1>2. CallsOK'
    BY <1>1, CallsKept
  <1>3. ASSUME OldKept, MessagesOK', \A j \in Ids : isOld(j)' /\ wanted(j) => wanted(j)'
        PROVE  Known'
    BY <1>1, <1>2, <1>3, WorldKept
  <1>4. ASSUME NEW x \in Instance, exists(i), update(i, x), x.old = tracker[i].old,
               x.goal = tracker[i].goal \/ ~ x.old,
               x.goal = "Running" => wanted(i),
               x.cond = "running" => isRunning(i) \/ wanted(i),
               x.cond = "dead" /\ x.goal = "Running" => "task" \in history'
        PROVE  Known'
    <2>1. OldKept /\ MessagesOK'
      BY <1>1, <1>4, updateKept
    <2>2. /\ \A j \in Ids : j # i => tracker'[j] = tracker[j]
          /\ tracker'[i] = x \/ tracker'[i] = None
      BY <1>1, <1>4 DEF update
    <2>3. \A j \in Ids : isOld(j)' /\ wanted(j) => wanted(j)'
      BY <1>4, <2>2 DEF isOld, wanted, exists
    <2> QED BY <1>3, <2>1, <2>3
  <1>5. CASE TaskRuns(i)
    <2> DEFINE x == [tracker[i] EXCEPT !.cond = "running"]
    <2>1. exists(i) /\ wanted(i) /\ update(i, x)
      BY <1>5 DEF TaskRuns, wanted
    <2>2. x \in Instance /\ tracker[i] \in Instance
      BY <2>1, existsType
    <2>3. x.old = tracker[i].old /\ x.goal = tracker[i].goal /\ x.cond = "running"
      BY <2>2 DEF Instance
    <2> HIDE DEF x
    <2> QED BY <1>4, <2>1, <2>2, <2>3 DEF wanted
  <1>6. CASE TaskKilled(i) \/ TaskFails(i)
    <2> DEFINE x == [tracker[i] EXCEPT !.cond = "dead", !.healthy = FALSE]
    <2>1. exists(i) /\ update(i, x) /\ (wanted(i) => "task" \in history')
      BY <1>6, HistoryGrows DEF TaskKilled, TaskFails, wanted, isRunning
    <2>2. x \in Instance /\ tracker[i] \in Instance
      BY <2>1, existsType
    <2>3. x.old = tracker[i].old /\ x.goal = tracker[i].goal /\ x.cond = "dead"
      BY <2>2 DEF Instance
    <2> HIDE DEF x
    <2> QED BY <1>4, <2>1, <2>2, <2>3 DEF wanted
  <1>7. CASE Interfere(i)
    <2> DEFINE x == [tracker[i] EXCEPT !.goal = "Ended"]
    <2>1. exists(i) /\ update(i, x) /\ ~ tracker[i].old
      BY <1>7 DEF Interfere, wanted, isNew
    <2>2. x \in Instance /\ tracker[i] \in Instance
      BY <2>1, existsType
    <2>3. x.old = tracker[i].old /\ x.goal = "Ended" /\ x.cond = tracker[i].cond
      BY <2>2 DEF Instance
    <2> HIDE DEF x
    <2> QED BY <1>4, <2>1, <2>2, <2>3 DEF isRunning
  <1>8. ASSUME NEW h \in BOOLEAN, exists(i), tracker' = [tracker EXCEPT ![i].healthy = h]
        PROVE  OldKept /\ \A j \in Ids : isOld(j)' /\ wanted(j) => wanted(j)'
    <2>1. tracker[i] \in Instance
      BY <1>8, existsType
    <2>2. /\ \A j \in Ids : j # i => tracker'[j] = tracker[j]
          /\ tracker'[i] = [tracker[i] EXCEPT !.healthy = h]
      BY <1>1, <1>8
    <2> DEFINE x == [tracker[i] EXCEPT !.healthy = h]
    <2>3. x.old = tracker[i].old /\ x.goal = tracker[i].goal /\ x.cond = tracker[i].cond
      BY <2>1 DEF Instance
    <2>4. tracker'[i] = x
      BY <2>2
    <2> HIDE DEF x
    <2>5. ASSUME NEW j \in Ids
          PROVE  /\ isOld(j)' => isOld(j)
                 /\ exists(j)' /\ exists(j) => (wanted(j)' <=> wanted(j)) /\ (isRunning(j)' <=> isRunning(j))
      <3>1. CASE j = i
        BY <1>8, <2>3, <2>4, <3>1 DEF isOld, wanted, isRunning, exists
      <3>2. CASE j # i
        BY <2>2, <3>2 DEF isOld, wanted, isRunning, exists
      <3> QED BY <3>1, <3>2
    <2> QED BY <2>5 DEF OldKept, isOld, wanted, isRunning
  <1>9. CASE BecomesHealthy(i)
    <2>1. OldKept /\ \A j \in Ids : isOld(j)' /\ wanted(j) => wanted(j)'
      BY <1>8, <1>9 DEF BecomesHealthy, isRunning
    <2> DEFINE m == [type |-> "InstanceHealthy", id |-> i]
    <2>2. m \in Message /\ m.type = "InstanceHealthy"
      BY DEF Message
    <2>3. \/ mailbox' = mailbox
          \/ mailbox' = mailbox \o <<>>
          \/ mailbox' = mailbox \o <<m>>
      BY <1>9 DEF BecomesHealthy, publish
    <2> HIDE DEF m
    <2>4. mailbox \o <<>> = mailbox /\ mailbox \o <<m>> = Append(mailbox, m)
      BY <1>1, <2>2
    <2>5. MessageOK(m)'
      BY <2>2 DEF MessageOK
    <2>6. ASSUME mailbox' = mailbox PROVE MessagesOK'
      BY <1>1, <2>1, <2>6, MessagesKept
    <2>7. ASSUME mailbox' = Append(mailbox, m) PROVE MessagesOK'
      BY <1>1, <2>1, <2>2, <2>5, <2>7, AppendKept
    <2> QED BY <1>3, <2>1, <2>3, <2>4, <2>6, <2>7
  <1>10. CASE BecomesUnhealthy(i)
    <2>1. OldKept /\ (\A j \in Ids : isOld(j)' /\ wanted(j) => wanted(j)') /\ mailbox' = mailbox
      BY <1>8, <1>10 DEF BecomesUnhealthy, isRunning
    <2>2. MessagesOK'
      BY <1>1, <2>1, MessagesKept
    <2> QED BY <1>3, <2>1, <2>2
  <1>11. CASE BecomesReady(i)
    <2> DEFINE m == [type |-> "ReadinessCheckResult", id |-> i]
    <2>1. m \in Message /\ m.type = "ReadinessCheckResult"
      BY DEF Message
    <2>2. tracker' = tracker /\ mailbox' = Append(mailbox, m)
      BY <1>11 DEF BecomesReady
    <2> HIDE DEF m
    <2>3. MessageOK(m)'
      BY <2>1 DEF MessageOK
    <2>4. OldKept
      BY <2>2, SameKept
    <2>5. MessagesOK'
      BY <1>1, <2>1, <2>2, <2>3, <2>4, AppendKept
    <2>6. \A j \in Ids : isOld(j)' /\ wanted(j) => wanted(j)'
      BY <2>2 DEF wanted, exists
    <2> QED BY <1>3, <2>4, <2>5, <2>6
  <1> QED BY <1>5, <1>6, <1>7, <1>9, <1>10, <1>11

LEMMA RemovedCalls ==
    ASSUME NEW s \in Seq(Adds), NEW k \in DOMAIN s,
           \A j, l \in DOMAIN s : s[j].reply = "Done" /\ s[l].reply = "Done" => j = l
    PROVE  /\ \A j \in DOMAIN RemoveAt(s, k) : \E l \in DOMAIN s : RemoveAt(s, k)[j] = s[l]
           /\ \A j, l \in DOMAIN RemoveAt(s, k) :
                RemoveAt(s, k)[j].reply = "Done" /\ RemoveAt(s, k)[l].reply = "Done" => j = l
           /\ s[k].reply = "Done" => \A j \in DOMAIN RemoveAt(s, k) : RemoveAt(s, k)[j].reply # "Done"
  <1> DEFINE r == RemoveAt(s, k)
             at(j) == IF j < k THEN j ELSE j + 1
  <1>1. k \in Int /\ r \in Seq(Adds)
    BY RemoveAtType
  <1>2. ASSUME NEW j \in DOMAIN r
        PROVE  j \in Int /\ at(j) \in DOMAIN s /\ r[j] = s[at(j)] /\ at(j) # k
    <2>1. j \in Int
      BY <1>1
    <2> QED BY <1>1, <2>1, RemoveAtType
  <1>3. \A j, l \in Int : at(j) = at(l) => j = l
    BY <1>1
  <1> HIDE DEF r, at
  <1>4. \A j, l \in DOMAIN r : r[j].reply = "Done" /\ r[l].reply = "Done" => j = l
    BY <1>2, <1>3
  <1>5. s[k].reply = "Done" => \A j \in DOMAIN r : r[j].reply # "Done"
    BY <1>2
  <1> QED BY <1>2, <1>4, <1>5 DEF r

LEMMA AddedKept ==
    ASSUME TypeOK, NEW n \in Nat, addInstances(n)
    PROVE  OldKept /\ \A i \in Ids : isOld(i)' /\ wanted(i) => wanted(i)'
  <1>1. \A i \in Ids : tracker'[i] \in {tracker[i], Added}
    BY addInstancesType
  <1>2. ~ Added.old
    BY DEF Added
  <1>3. ASSUME NEW i \in Ids, isOld(i)' PROVE tracker'[i] = tracker[i]
    BY <1>1, <1>2, <1>3 DEF isOld
  <1> QED BY <1>3 DEF OldKept, isOld, wanted, isRunning, exists

LEMMA AddKept ==
    ASSUME TypeOK, Known, AddDone \/ AddFails
    PROVE  Known'
  <1>1. /\ UNCHANGED <<goals, oldActiveInstanceIds>> /\ history \subseteq history'
        /\ MessagesOK /\ CallsOK /\ adds \in Seq(Adds) /\ mailbox \in Seq(Message) /\ adds # <<>>
    BY HistoryGrows DEF AddDone, AddFails, trouble, state, Known, TypeOK, Adds
  <1>2. /\ Head(adds) \in Adds /\ 1 \in DOMAIN adds /\ Head(adds) = adds[1]
        /\ \A k \in DOMAIN Tail(adds) : k \in Int /\ k + 1 \in DOMAIN adds /\ Tail(adds)[k] = adds[k + 1]
    <2>1. \A k \in DOMAIN Tail(adds) : k \in Int
      BY <1>1
    <2> QED BY <1>1, <2>1, ElementsOfTail
  <1>3. CASE AddDone
    <2>1. /\ addInstances(Head(adds).count) /\ adds' = Tail(adds) /\ history' = history
          /\ phase' = IF Head(adds).reply = "Done" THEN "initialized" ELSE phase
          /\ mailbox' \in {mailbox, Append(mailbox, [type |-> "CheckFinished"])}
      BY <1>3 DEF AddDone, trouble
    <2>2. Head(adds).count \in Nat
      BY <1>2 DEF Adds
    <2>3. OldKept /\ \A i \in Ids : isOld(i)' /\ wanted(i) => wanted(i)'
      BY <2>1, <2>2, AddedKept
    <2>4. \/ phase' = phase
          \/ Started /\ phase' = "initialized"
      BY <1>1, <1>2, <2>1 DEF CallsOK
    <2> DEFINE m == [type |-> "CheckFinished"]
    <2>5. m \in Message /\ m.type = "CheckFinished"
      BY DEF Message
    <2>6. mailbox' = mailbox \/ mailbox' = Append(mailbox, m)
      BY <2>1
    <2> HIDE DEF m
    <2>7. MessageOK(m)'
      BY <2>5 DEF MessageOK
    <2>8. ASSUME mailbox' = mailbox PROVE MessagesOK'
      BY <1>1, <2>3, <2>8, MessagesKept
    <2>9. ASSUME mailbox' = Append(mailbox, m) PROVE MessagesOK'
      BY <1>1, <2>3, <2>5, <2>7, <2>9, AppendKept
    <2>10. CallsOK'
      <3>1. Started => Started'
        BY <2>4 DEF Started
      <3>2. \A k \in DOMAIN adds' : /\ adds'[k].count = 0 => "add" \in history'
                                    /\ adds'[k].reply = "Done" => Started'
        BY <1>1, <1>2, <2>1, <3>1 DEF CallsOK
      <3>3. \A k, l \in DOMAIN adds' : adds'[k].reply = "Done" /\ adds'[l].reply = "Done" => k = l
        <4> SUFFICES ASSUME NEW k \in DOMAIN adds', NEW l \in DOMAIN adds',
                            adds'[k].reply = "Done", adds'[l].reply = "Done"
                     PROVE  k = l
          OBVIOUS
        <4>1. k \in Int /\ l \in Int /\ k + 1 = l + 1
          BY <1>1, <1>2, <2>1 DEF CallsOK
        <4> QED BY <4>1
      <3> QED BY <1>1, <2>1, <3>2, <3>3 DEF CallsOK
    <2> QED BY <1>1, <2>3, <2>4, <2>6, <2>8, <2>9, <2>10, WorldKept
  <1>4. CASE AddFails
    <2>1. PICK n \in 0..(Head(adds).count - 1) : addInstances(n)
      BY <1>4 DEF AddFails
    <2>2. n \in Nat
      BY <1>2 DEF Adds
    <2>3. OldKept /\ \A i \in Ids : isOld(i)' /\ wanted(i) => wanted(i)'
      BY <2>1, <2>2, AddedKept
    <2>4. /\ adds' = [k \in DOMAIN adds |-> [adds[k] EXCEPT !.count = 0]]
          /\ phase' = phase /\ mailbox' = mailbox /\ "add" \in history'
      BY <1>4, HistoryGrows DEF AddFails
    <2>5. MessagesOK'
      BY <1>1, <2>3, <2>4, MessagesKept
    <2>6. \A k \in DOMAIN adds : adds[k] \in Adds
      BY <1>1
    <2>7. \A a \in Adds : [a EXCEPT !.count = 0].reply = a.reply
      BY DEF Adds
    <2>8. DOMAIN adds' = DOMAIN adds /\ \A k \in DOMAIN adds : adds'[k].reply = adds[k].reply
      BY <2>4, <2>6, <2>7
    <2>9. CallsOK'
      BY <1>1, <2>4, <2>8 DEF CallsOK, Started
    <2> QED BY <1>1, <2>3, <2>4, <2>5, <2>9, WorldKept
  <1> QED BY <1>3, <1>4

(* The actor hears that a call has failed.                                 *)
LEMMA givesUpKept ==
    ASSUME TypeOK, MessagesOK, history \subseteq history', ~ Calm', NEW k \in DOMAIN adds, givesUp(k)
    PROVE  MessagesOK'
  <1>1. OldKept
    BY SameKept DEF givesUp
  <1> DEFINE m == [type |-> "Failure"]
  <1>2. m \in Message /\ m.type = "Failure"
    BY DEF Message
  <1>3. mailbox' = <<>> \/ mailbox' = mailbox \/ mailbox' = Append(mailbox, m)
    BY DEF givesUp
  <1> HIDE DEF m
  <1>4. MessageOK(m)'
    BY <1>2 DEF MessageOK
  <1>5. ASSUME mailbox' = <<>> PROVE MessagesOK'
    BY <1>5 DEF MessagesOK
  <1>6. ASSUME mailbox' = mailbox PROVE MessagesOK'
    BY <1>1, <1>6, MessagesKept
  <1>7. ASSUME mailbox' = Append(mailbox, m) PROVE MessagesOK'
    BY <1>1, <1>2, <1>4, <1>7, AppendKept
  <1> QED BY <1>3, <1>5, <1>6, <1>7

LEMMA TimeoutKept ==
    ASSUME TypeOK, Known, NEW k \in DOMAIN adds, LostAddTimesOut(k) \/ AddTimesOut(k)
    PROVE  Known'
  <1>1. /\ UNCHANGED <<tracker, goals, oldActiveInstanceIds>>
        /\ MessagesOK /\ CallsOK /\ adds \in Seq(Adds) /\ givesUp(k)
        /\ phase' = IF adds[k].reply = "Done" THEN "stopped" ELSE phase
    BY DEF LostAddTimesOut, AddTimesOut, givesUp, state, Known, TypeOK, Adds
  <1>2. history \subseteq history' /\ ~ Calm'
    <2>1. CASE LostAddTimesOut(k)
      BY <1>1, <2>1 DEF LostAddTimesOut, trouble, CallsOK, Calm
    <2>2. CASE AddTimesOut(k)
      BY <2>2, HistoryGrows DEF AddTimesOut, Calm
    <2> QED BY <2>1, <2>2
  <1>3. MessagesOK'
    BY <1>1, <1>2, givesUpKept
  <1>4. OldKept /\ \A i \in Ids : isOld(i)' /\ wanted(i) => wanted(i)'
    BY <1>1, SameKept DEF wanted, exists
  <1>5. CallsOK'
    <2>1. /\ \A j \in DOMAIN adds' : /\ adds'[j].count = 0 => "add" \in history'
                                     /\ adds'[j].reply = "Done" => Started /\ adds[k].reply # "Done"
          /\ \A j, l \in DOMAIN adds' : adds'[j].reply = "Done" /\ adds'[l].reply = "Done" => j = l
      <3>1. CASE LostAddTimesOut(k)
        <4>1. adds' = RemoveAt(adds, k)
          BY <3>1 DEF LostAddTimesOut
        <4>2. \A j, l \in DOMAIN adds : adds[j].reply = "Done" /\ adds[l].reply = "Done" => j = l
          BY <1>1 DEF CallsOK
        <4>3. /\ \A j \in DOMAIN adds' : \E l \in DOMAIN adds : adds'[j] = adds[l]
              /\ \A j, l \in DOMAIN adds' : adds'[j].reply = "Done" /\ adds'[l].reply = "Done" => j = l
              /\ adds[k].reply = "Done" => \A j \in DOMAIN adds' : adds'[j].reply # "Done"
          BY <1>1, <4>1, <4>2, RemovedCalls
        <4> QED BY <1>1, <1>2, <4>3 DEF CallsOK
      <3>2. CASE AddTimesOut(k)
        <4> DEFINE a == [adds[k] EXCEPT !.reply = "none"]
        <4>1. adds[k] \in Adds /\ adds[k].count > 0
          BY <1>1, <3>2 DEF AddTimesOut
        <4>2. a.count # 0 /\ a.reply = "none"
          BY <4>1 DEF Adds
        <4>3. adds' = [adds EXCEPT ![k] = a]
          BY <3>2 DEF AddTimesOut
        <4> HIDE DEF a
        <4>4. /\ DOMAIN adds' = DOMAIN adds /\ adds'[k] = a
              /\ \A j \in DOMAIN adds : j # k => adds'[j] = adds[j]
          BY <1>1, <4>3
        <4> QED BY <1>1, <1>2, <4>2, <4>4 DEF CallsOK
      <3> QED BY <3>1, <3>2
    <2>2. \A j \in DOMAIN adds' : adds'[j].reply = "Done" => Started'
      BY <1>1, <2>1 DEF Started
    <2> QED BY <1>1, <1>2, <2>1, <2>2 DEF CallsOK
  <1> QED BY <1>1, <1>2, <1>3, <1>4, <1>5, WorldKept

LEMMA FailoverKept ==
    ASSUME TypeOK, Known, Failover
    PROVE  Known'
  <1>1. /\ phase' = "stopped" /\ mailbox' = <<>> /\ goals' = {} /\ adds' = <<>>
        /\ UNCHANGED <<tracker, oldActiveInstanceIds>>
        /\ history \subseteq history' /\ "leader" \in history'
    BY HistoryGrows DEF Failover, state
  <1>2. OldKept /\ \A i \in Ids : isOld(i)' /\ wanted(i) => wanted(i)'
    BY <1>1, SameKept DEF wanted, exists
  <1>3. ~ Calm' /\ MessagesOK' /\ CallsOK'
    BY <1>1 DEF Calm, MessagesOK, CallsOK
  <1> QED BY <1>1, <1>2, <1>3, WorldKept

LEMMA RestartKept ==
    ASSUME TypeOK, Known, Restart
    PROVE  Known'
  <1>1. /\ phase = "stopped" /\ phase' = "initializing"
        /\ UNCHANGED <<tracker, oldActiveInstanceIds, mailbox, goals, adds, history>>
    BY DEF Restart, state, trouble
  <1>2. ~ Calm'
    BY <1>1 DEF Known, FirstOK, Calm
  <1>3. OldKept
    BY <1>1, SameKept
  <1>4. MessagesOK'
    BY <1>1, <1>3, MessagesKept DEF Known
  <1>5. CallsOK'
    BY <1>1 DEF Known, CallsOK, Started
  <1> QED BY <1>1, <1>2, <1>4, <1>5 DEF Known, KnownOK, Started, FirstOK, FinishedOK

LEMMA AddedCalls ==
    ASSUME TypeOK, CallsOK, NEW n \in Nat, NEW reply \in {"Done", "CheckFinished"},
           reply = "Done" => ~ Started, adds' = adds \o add(n, reply), Started', history' = history,
           \A g \in goals' : g.awaited => g \in goals
    PROVE  CallsOK'
  <1> DEFINE a == [count |-> n, reply |-> reply, after |-> awaitedGoals]
  <1>1. adds \in Seq(Adds)
    BY DEF TypeOK, Adds
  <1>2. a \in Adds
    BY DEF Adds, awaitedGoals, TypeOK
  <1>3. a.count = n /\ a.reply = reply
    OBVIOUS
  <1>4. \/ adds' = adds \o <<>>
        \/ n # 0 /\ adds' = adds \o <<a>>
    BY DEF add
  <1> HIDE DEF a
  <1>5. adds \o <<>> = adds /\ adds \o <<a>> = Append(adds, a)
    BY <1>1, <1>2
  <1>6. \A k \in DOMAIN adds' :
           \/ k \in DOMAIN adds /\ adds'[k] = adds[k]
           \/ k = Len(adds) + 1 /\ adds'[k] = a /\ n # 0
    BY <1>1, <1>2, <1>4, <1>5, ElementsOfAppend
  <1>7. \A k \in DOMAIN adds : adds[k].reply = "Done" => reply # "Done"
    BY DEF CallsOK
  <1>8. \A k \in DOMAIN adds' : /\ adds'[k].count = 0 => "add" \in history'
                                /\ adds'[k].reply = "Done" => Started'
    BY <1>3, <1>6 DEF CallsOK
  <1>9. \A k, l \in DOMAIN adds' : adds'[k].reply = "Done" /\ adds'[l].reply = "Done" => k = l
    BY <1>3, <1>6, <1>7 DEF CallsOK
  <1>10. \A g \in goals' : g.awaited => "task" \in history'
    BY DEF CallsOK
  <1> QED BY <1>8, <1>9, <1>10 DEF CallsOK

LEMMA KillsOnly ==
    ASSUME NEW S
    PROVE  \A g \in kill(S) : ~ g.awaited
  BY DEF kill

LEMMA InitializeKept == TypeOK /\ Known /\ Initialize => Known'
  <1> SUFFICES ASSUME TypeOK, Known, Initialize PROVE Known'
    OBVIOUS
  <1> DEFINE old == {i \in Ids : isOld(i) /\ wanted(i)}
             started == {i \in Ids : isNew(i)}
             now == instancesToStartNow(Cardinality(started), old, startingCapacity)
  <1>1. now \in Nat
    <2>1. conf \in Upgrades /\ old \in SUBSET Ids /\ started \in SUBSET Ids
      BY DEF TypeOK
    <2>2. Cardinality(started) \in Nat /\ startingCapacity \in Nat
      BY <2>1, CountsAreNat, CapacitiesAreNat
    <2> QED BY <2>1, <2>2, StartCountIsNat
  <1>2. /\ phase = "initializing" /\ oldActiveInstanceIds' = old
        /\ adds' = adds \o add(now, "Done")
        /\ phase' = IF isFinished THEN "finished" ELSE IF now > 0 THEN "launching" ELSE "initialized"
        /\ mailbox' = IF isFinished THEN <<>> ELSE mailbox
        /\ UNCHANGED <<tracker, history>>
    BY DEF Initialize, trouble
  <1>3. PICK S : goals' = goals \cup kill(S)
    BY DEF Initialize
  <1> HIDE DEF now
  <1>4. Started' /\ ~ Started /\ phase' # "stopped" /\ phase' # "initializing"
    BY <1>2 DEF Started
  <1>5. MessagesOK'
    <2>1. CASE isFinished
      BY <1>2, <2>1 DEF MessagesOK
    <2>2. CASE ~ isFinished
      BY <1>2, <2>2, SameKept, MessagesKept DEF Known
    <2> QED BY <2>1, <2>2
  <1>6. CallsOK'
    <2>1. \A g \in goals' : g.awaited => g \in goals
      BY <1>3, KillsOnly
    <2> QED BY <1>1, <1>2, <1>4, <2>1, AddedCalls DEF Known
  <1>7. KnownOK'
    <2>1. Calm' <=> Calm
      BY <1>2 DEF Calm
    <2>2. ASSUME NEW i \in Ids, isOld(i)'
          PROVE  /\ wanted(i)' => i \in oldActiveInstanceIds'
                 /\ isRunning(i)' => i \in oldActiveInstanceIds' \/ ~ Calm'
      <3>1. isOld(i) /\ (wanted(i)' <=> wanted(i))
        BY <1>2, <2>2 DEF isOld, wanted, exists
      <3>2. Calm => wanted(i)
        BY <1>2, <3>1 DEF Known, FirstOK
      <3> QED BY <1>2, <2>1, <3>1, <3>2
    <2> QED BY <2>2 DEF KnownOK
  <1>8. FirstOK'
    BY <1>4 DEF FirstOK
  <1>9. FinishedOK'
    BY <1>2 DEF FinishedOK, isFinished
  <1> QED BY <1>5, <1>6, <1>7, <1>8, <1>9 DEF Known

(* The actor takes a message out of its mailbox.                           *)
LEMMA TailKept ==
    ASSUME TypeOK, MessagesOK, mailbox # <<>>, UNCHANGED <<tracker, history>>,
           mailbox' \in {<<>>, Tail(mailbox), Append(Tail(mailbox), [type |-> "CheckFinished"])}
    PROVE  MessagesOK'
  <1> DEFINE c == [type |-> "CheckFinished"]
  <1>1. mailbox \in Seq(Message) /\ OldKept
    BY SameKept DEF TypeOK
  <1>2. c \in Message /\ c.type = "CheckFinished"
    BY DEF Message
  <1>3. mailbox' \in {<<>>, Tail(mailbox), Append(Tail(mailbox), c)}
    OBVIOUS
  <1> HIDE DEF c
  <1>4. /\ Tail(mailbox) \in Seq(Message)
        /\ \A k \in DOMAIN Tail(mailbox) : k + 1 \in DOMAIN mailbox /\ Tail(mailbox)[k] = mailbox[k + 1]
    BY <1>1, ElementsOfTail
  <1>5. \A k \in DOMAIN Append(Tail(mailbox), c) :
           \/ k \in DOMAIN Tail(mailbox) /\ Append(Tail(mailbox), c)[k] = Tail(mailbox)[k]
           \/ Append(Tail(mailbox), c)[k] = c
    BY <1>2, <1>4, ElementsOfAppend
  <1>6. \A k \in DOMAIN mailbox' :
           \/ \E l \in DOMAIN mailbox : mailbox'[k] = mailbox[l]
           \/ mailbox'[k] = c
    <2>1. CASE mailbox' = <<>>
      BY <2>1
    <2>2. CASE mailbox' = Tail(mailbox)
      BY <1>4, <2>2
    <2>3. CASE mailbox' = Append(Tail(mailbox), c)
      BY <1>4, <1>5, <2>3
    <2> QED BY <1>3, <2>1, <2>2, <2>3
  <1>7. ASSUME NEW k \in DOMAIN mailbox', mailbox'[k] = c PROVE MessageOK(mailbox[k])'
    BY <1>2, <1>7 DEF MessageOK
  <1> QED BY <1>1, <1>6, <1>7, MessagesKept

(* Nothing is known anew, but that it is over.                             *)
LEMMA PlainKept ==
    ASSUME TypeOK, Known, phase = "initialized", mailbox # <<>>,
           UNCHANGED <<tracker, history, adds, oldActiveInstanceIds>>,
           goals \subseteq goals', \A g \in goals' : g.awaited => g \in goals,
           goesOn \/ checkFinished
    PROVE  Known'
  <1>1. \/ phase' = "initialized" /\ mailbox' = Tail(mailbox)
        \/ phase' = "finished" /\ oldActiveInstanceIds = {} /\ mailbox' = <<>>
    BY DEF goesOn, checkFinished, isFinished
  <1>2. MessagesOK'
    BY <1>1, TailKept DEF Known
  <1>3. Started /\ Started'
    BY <1>1 DEF Started
  <1>4. CallsOK'
    BY <1>3 DEF Known, CallsOK
  <1>5. KnownOK'
    BY <1>3 DEF Known, KnownOK, isOld, wanted, isRunning, exists, Calm
  <1>6. FirstOK' /\ FinishedOK'
    BY <1>1 DEF FirstOK, FinishedOK
  <1> QED BY <1>2, <1>4, <1>5, <1>6 DEF Known

LEMMA OldTerminatedKept ==
    ASSUME TypeOK, Known, phase = "initialized", mailbox # <<>>, UNCHANGED <<tracker, history>>,
           NEW m \in Message, MessageOK(m), OldTerminated(m)
    PROVE  Known'
  <1> DEFINE g == [id |-> m.id, awaited |-> TRUE]
  <1>1. /\ m.type = "InstanceChanged" /\ m.cond = "dead" /\ m.goal = "Running"
        /\ oldActiveInstanceIds' = oldActiveInstanceIds \ {m.id}
        /\ goals' = goals \cup {g} /\ adds' = adds
        /\ phase' = "initialized" /\ mailbox' = Tail(mailbox)
    BY DEF OldTerminated, goesOn
  <1>2. g.awaited
    OBVIOUS
  <1>3. "task" \in history /\ ~ Calm'
    BY <1>1 DEF MessageOK, Calm
  <1>4. MessagesOK'
    BY <1>1, TailKept DEF Known
  <1>5. Started /\ Started'
    BY <1>1 DEF Started
  <1>6. CallsOK'
    <2> HIDE DEF g
    <2> QED BY <1>1, <1>3, <1>5 DEF Known, CallsOK
  <1>7. KnownOK'
    <2>1. ASSUME NEW i \in Ids, isOld(i)'
          PROVE  wanted(i)' => \/ i \in oldActiveInstanceIds'
                               \/ [id |-> i, awaited |-> TRUE] \in goals'
                               \/ {"task", "goal"} \subseteq history'
      <3>1. isOld(i) /\ (wanted(i)' <=> wanted(i))
        BY <2>1 DEF isOld, wanted, exists
      <3>2. wanted(i) => \/ i \in oldActiveInstanceIds
                         \/ [id |-> i, awaited |-> TRUE] \in goals
                         \/ {"task", "goal"} \subseteq history
        BY <1>5, <3>1 DEF Known, KnownOK
      <3>3. i = m.id => [id |-> i, awaited |-> TRUE] \in goals'
        BY <1>1
      <3> QED BY <1>1, <3>1, <3>2, <3>3
    <2> QED BY <1>3, <2>1 DEF KnownOK
  <1>8. FirstOK' /\ FinishedOK'
    BY <1>1 DEF FirstOK, FinishedOK
  <1> QED BY <1>4, <1>6, <1>7, <1>8 DEF Known

LEMMA OldEndedKept ==
    ASSUME TypeOK, Known, phase = "initialized", mailbox # <<>>, UNCHANGED <<tracker, history>>,
           NEW m \in Message, MessageOK(m), OldEnded(m)
    PROVE  Known'
  <1> DEFINE old == oldActiveInstanceIds \ {m.id}
             now == instancesToStartNow(instancesStarted, old, maxCapacity)
  <1>1. now \in Nat
    BY StartCountIsNat DEF TypeOK
  <1>2. /\ m.type = "InstanceChanged" /\ m.old /\ m.cond # "running" /\ m.goal = "Ended"
        /\ oldActiveInstanceIds' = old /\ goals' = goals
        /\ adds' = adds \o add(now, "CheckFinished") /\ phase' = "initialized"
        /\ mailbox' = Tail(mailbox) \o (IF now = 0 THEN <<[type |-> "CheckFinished"]>> ELSE <<>>)
    BY DEF OldEnded
  <1> HIDE DEF now
  <1>3. m.id \in Ids /\ ~ (isOld(m.id) /\ (wanted(m.id) \/ isRunning(m.id)))
    BY <1>2 DEF MessageOK, Message
  <1>4. MessagesOK'
    <2>1. Tail(mailbox) \in Seq(Message)
      BY ElementsOfTail DEF TypeOK
    <2> DEFINE c == [type |-> "CheckFinished"]
    <2>2. c \in Message
      BY DEF Message
    <2>3. mailbox' = Tail(mailbox) \o <<c>> \/ mailbox' = Tail(mailbox) \o <<>>
      BY <1>2
    <2> HIDE DEF c
    <2>4. Tail(mailbox) \o <<c>> = Append(Tail(mailbox), c) /\ Tail(mailbox) \o <<>> = Tail(mailbox)
      BY <2>1, <2>2
    <2> QED BY <2>3, <2>4, TailKept DEF Known, c
  <1>5. Started /\ Started'
    BY <1>2 DEF Started
  <1>6. CallsOK'
    BY <1>1, <1>2, <1>5, AddedCalls DEF Known
  <1>7. KnownOK'
    <2>1. ASSUME NEW i \in Ids, isOld(i)'
          PROVE  /\ wanted(i)' => \/ i \in oldActiveInstanceIds'
                                  \/ [id |-> i, awaited |-> TRUE] \in goals'
                                  \/ {"task", "goal"} \subseteq history'
                 /\ isRunning(i)' => i \in oldActiveInstanceIds' \/ ~ Calm'
      <3>1. /\ isOld(i) /\ (wanted(i)' <=> wanted(i)) /\ (isRunning(i)' <=> isRunning(i))
            /\ Calm' <=> Calm
        BY <2>1 DEF isOld, wanted, isRunning, exists, Calm
      <3>2. /\ wanted(i) => \/ i \in oldActiveInstanceIds
                            \/ [id |-> i, awaited |-> TRUE] \in goals
                            \/ {"task", "goal"} \subseteq history
            /\ isRunning(i) => i \in oldActiveInstanceIds \/ ~ Calm
        BY <1>5, <3>1 DEF Known, KnownOK
      <3>3. i = m.id => ~ wanted(i) /\ ~ isRunning(i)
        BY <1>3, <3>1
      <3> QED BY <1>2, <3>1, <3>2, <3>3
    <2> QED BY <2>1 DEF KnownOK
  <1>8. FirstOK' /\ FinishedOK'
    BY <1>2 DEF FirstOK, FinishedOK
  <1> QED BY <1>4, <1>6, <1>7, <1>8 DEF Known

LEMMA FailedKept ==
    ASSUME TypeOK, Known, UNCHANGED <<tracker, history>>,
           NEW m \in Message, MessageOK(m), Failed(m)
    PROVE  Known'
  <1>1. /\ m.type = "Failure" /\ phase' = "stopped" /\ mailbox' = <<>>
        /\ goals' = {[g EXCEPT !.awaited = FALSE] : g \in goals}
        /\ adds' = [k \in DOMAIN adds |-> [adds[k] EXCEPT !.reply = "none"]]
    BY DEF Failed, fail
  <1>2. ~ Calm'
    BY <1>1 DEF MessageOK, Calm
  <1>3. \A g \in goals' : ~ g.awaited
    <2>1. \A g \in Goals : ~ [g EXCEPT !.awaited = FALSE].awaited
      BY DEF Goals
    <2> QED BY <1>1, <2>1 DEF TypeOK, Goals
  <1>4. DOMAIN adds' = DOMAIN adds /\ \A k \in DOMAIN adds : adds'[k].count = adds[k].count /\ adds'[k].reply = "none"
    <2>1. \A a \in Adds : [a EXCEPT !.reply = "none"].count = a.count /\ [a EXCEPT !.reply = "none"].reply = "none"
      BY DEF Adds
    <2>2. adds \in Seq(Adds)
      BY DEF TypeOK, Adds
    <2>3. \A k \in DOMAIN adds : adds[k] \in Adds
      BY <2>2
    <2> QED BY <1>1, <2>1, <2>3
  <1>5. CallsOK'
    BY <1>3, <1>4 DEF Known, CallsOK
  <1>6. MessagesOK' /\ KnownOK' /\ FirstOK' /\ FinishedOK'
    BY <1>1, <1>2 DEF MessagesOK, KnownOK, Started, FirstOK, FinishedOK
  <1> QED BY <1>5, <1>6 DEF Known

LEMMA ReceiveKept == TypeOK /\ Known /\ Receive => Known'
  <1> SUFFICES ASSUME TypeOK, Known, Receive PROVE Known'
    OBVIOUS
  <1>1. mailbox # <<>> /\ phase = "initialized" /\ UNCHANGED <<tracker, history>>
    BY DEF Receive, trouble
  <1>2. PICK m \in Message : m = Head(mailbox) /\ MessageOK(m) /\ Handle(m)
    <2>1. mailbox \in Seq(Message) /\ \A k \in DOMAIN mailbox : MessageOK(mailbox[k])
      BY DEF TypeOK, Known, MessagesOK
    <2>2. Head(mailbox) \in Message /\ 1 \in DOMAIN mailbox /\ Head(mailbox) = mailbox[1]
      BY <1>1, <2>1, ElementsOfTail
    <2>3. \A x \in Message : x = mailbox[1] => MessageOK(x)
      BY <2>1, <2>2 DEF MessageOK
    <2>4. Handle(Head(mailbox))
      BY DEF Receive
    <2> QED BY <2>2, <2>3, <2>4
  <1>3. ASSUME UNCHANGED <<adds, oldActiveInstanceIds>>,
               goals' = goals \/ (\E S : goals' = goals \cup kill(S)),
               goesOn \/ checkFinished
        PROVE  Known'
    <2>1. goals \subseteq goals' /\ \A g \in goals' : g.awaited => g \in goals
      BY <1>3, KillsOnly
    <2> QED BY <1>1, <1>3, <2>1, PlainKept
  <1>4. ASSUME NEW i, instanceConditionChanged(i)
        PROVE  /\ goals' = goals \/ (\E S : goals' = goals \cup kill(S))
               /\ checkFinished
    BY <1>4 DEF instanceConditionChanged, killNextOldInstance
  <1>5. CASE InstanceRuns(m)
    BY <1>3, <1>4, <1>5 DEF InstanceRuns
  <1>6. CASE InstanceHealthy(m)
    BY <1>3, <1>4, <1>6 DEF InstanceHealthy
  <1>7. CASE InstanceStillHealthy(m)
    BY <1>3, <1>7 DEF InstanceStillHealthy
  <1>8. CASE ReadinessCheckResult(m)
    BY <1>3, <1>4, <1>8 DEF ReadinessCheckResult
  <1>9. CASE NewTerminated(m)
    BY <1>3, <1>9 DEF NewTerminated
  <1>10. CASE CheckFinished(m)
    BY <1>3, <1>10 DEF CheckFinished
  <1>11. CASE OldTerminated(m)
    BY <1>1, <1>2, <1>11, OldTerminatedKept
  <1>12. CASE OldEnded(m)
    BY <1>1, <1>2, <1>12, OldEndedKept
  <1>13. CASE Failed(m)
    BY <1>1, <1>2, <1>13, FailedKept
  <1> QED BY <1>2, <1>5, <1>6, <1>7, <1>8, <1>9, <1>10, <1>11, <1>12, <1>13 DEF Handle

LEMMA KnownInit == Init => Known
  <1> SUFFICES ASSUME Init PROVE Known
    OBVIOUS
  <1>1. \A i \in Ids : isOld(i) => wanted(i)
    BY DEF Init, isOld, wanted, exists
  <1> QED BY <1>1 DEF Init, Known, MessagesOK, CallsOK, KnownOK, Started, FirstOK, FinishedOK

LEMMA KnownNext == TypeOK /\ Known /\ [Next]_vars => Known'
  <1> SUFFICES ASSUME TypeOK, Known, [Next]_vars PROVE Known'
    OBVIOUS
  <1>1. CASE UNCHANGED vars
    <2>1. MessagesOK'
      BY <1>1, SameKept, MessagesKept DEF vars, trouble, Known
    <2>2. KnownOK'
      BY <1>1 DEF vars, state, trouble, Known, KnownOK, Started, Calm, isOld, wanted, isRunning, exists
    <2>3. FirstOK'
      BY <1>1 DEF vars, state, trouble, Known, FirstOK, Calm, isOld, wanted, exists
    <2> QED BY <1>1, <2>1, <2>2, <2>3 DEF vars, state, trouble, Known, CallsOK, Started, FinishedOK
  <1>2. CASE Next
    BY <1>2, InitializeKept, ReceiveKept, RestartKept, SetGoalKept, InstanceKept, AddKept, TimeoutKept,
       FailoverKept
       DEF Next, Actor
  <1> QED BY <1>1, <1>2

THEOREM KnownCorrect == Spec => [](TypeOK /\ Known)
  <1>1. Init => TypeOK /\ Known
    BY InitType, KnownInit
  <1>2. TypeOK /\ Known /\ [Next]_vars => (TypeOK /\ Known)'
    BY NextType, KnownNext
  <1> QED BY <1>1, <1>2, PTL DEF Spec

(***************************************************************************)
(* When the deployment step is over, no old instance is meant to run but   *)
(* for one that failed and is being ended, and none runs unless one failed *)
(* or the actor was started again: whatever is late, lost, or tried twice, *)
(* the actor never takes an instance for gone that it has not heard end.   *)
(***************************************************************************)
THEOREM FinishedCorrect == Spec => []FinishedIsReplaced
  <1>1. Known => FinishedIsReplaced
    <2> SUFFICES ASSUME Known, phase = "finished"
                 PROVE  \A i \in Ids : isOld(i) =>
                           /\ wanted(i) => \/ [id |-> i, awaited |-> TRUE] \in goals
                                           \/ {"task", "goal"} \subseteq history
                           /\ isRunning(i) => ~ Calm
      BY DEF FinishedIsReplaced, Calm
    <2>1. Started /\ oldActiveInstanceIds = {}
      BY DEF Known, FinishedOK, Started
    <2> QED BY <2>1 DEF Known, KnownOK
  <1> QED BY <1>1, KnownCorrect, PTL

-----------------------------------------------------------------------------
(***************************************************************************)
(* The capacity, as long as nothing goes wrong.                            *)
(***************************************************************************)

(* Numbers that begin with low at least, grow with every call of s by what *)
(* it adds at least, and end with high at most.                            *)
Sums(s, low, high) ==
    \E p \in [0..Len(s) -> Nat] :
        /\ low <= p[0]
        /\ \A k \in 1..Len(s) : p[k - 1] + s[k].count <= p[k]
        /\ \A k \in 0..Len(s) : p[k] <= high

LEMMA SumsEmpty ==
    ASSUME NEW low \in Nat, NEW high \in Int, low <= high
    PROVE  Sums(<<>>, low, high)
  <1> DEFINE p == [k \in {0} |-> low]
  <1>1. p \in [{0} -> Nat] /\ p[0] = low
    OBVIOUS
  <1>2. Len(<<>>) = 0 /\ 0..0 = {0} /\ 1..0 = {}
    OBVIOUS
  <1> HIDE DEF p
  <1> QED BY <1>1, <1>2 DEF Sums

LEMMA SumsBound ==
    ASSUME NEW s \in Seq(Adds), NEW low \in Nat, NEW high \in Int, Sums(s, low, high)
    PROVE  /\ low <= high
           /\ \A n \in Nat : n <= low => Sums(s, n, high)
  <1>1. PICK p \in [0..Len(s) -> Nat] :
          /\ low <= p[0]
          /\ \A k \in 1..Len(s) : p[k - 1] + s[k].count <= p[k]
          /\ \A k \in 0..Len(s) : p[k] <= high
    BY DEF Sums
  <1>2. Len(s) \in Nat /\ 0 \in 0..Len(s)
    OBVIOUS
  <1>3. p[0] \in Nat /\ p[0] <= high
    BY <1>1, <1>2
  <1>4. ASSUME NEW n \in Nat, n <= low PROVE Sums(s, n, high)
    <2>1. n <= p[0]
      BY <1>1, <1>3, <1>4
    <2> QED BY <1>1, <2>1 DEF Sums
  <1> QED BY <1>1, <1>3, <1>4

(* The first call is done.                                                 *)
LEMMA SumsTail ==
    ASSUME NEW s \in Seq(Adds), s # <<>>, NEW low \in Nat, NEW high \in Int, Sums(s, low, high),
           NEW now \in Nat, now <= low + Head(s).count
    PROVE  Sums(Tail(s), now, high)
  <1>1. PICK p \in [0..Len(s) -> Nat] :
          /\ low <= p[0]
          /\ \A k \in 1..Len(s) : p[k - 1] + s[k].count <= p[k]
          /\ \A k \in 0..Len(s) : p[k] <= high
    BY DEF Sums
  <1> DEFINE l == Len(s) - 1
             q == [k \in 0..l |-> p[k + 1]]
  <1>2. l \in Nat /\ Len(s) = l + 1 /\ Len(Tail(s)) = l /\ Head(s) = s[1] /\ Head(s) \in Adds
    OBVIOUS
  <1>3. \A k \in 1..l : Tail(s)[k] = s[k + 1]
    BY <1>2
  <1> HIDE DEF l
  <1>4. \A k \in 0..l : k + 1 \in 0..Len(s)
    BY <1>2
  <1>5. q \in [0..l -> Nat] /\ \A k \in 0..l : q[k] = p[k + 1] /\ q[k] <= high
    BY <1>1, <1>4
  <1> HIDE DEF q
  <1>6. now <= q[0]
    <2>1. 0 \in 0..l /\ 1 \in 1..Len(s) /\ 0 \in 0..Len(s) /\ 1 \in 0..Len(s)
      BY <1>2
    <2>2. p[1 - 1] + s[1].count <= p[1] /\ q[0] = p[0 + 1]
      BY <1>1, <1>5, <2>1
    <2>3. p[0] + s[1].count <= p[1] /\ q[0] = p[1]
      BY <2>2
    <2>4. p[0] \in Nat /\ p[1] \in Nat /\ s[1].count \in Nat
      BY <1>2, <2>1 DEF Adds
    <2> QED BY <1>1, <1>2, <2>3, <2>4
  <1>7. ASSUME NEW k \in 1..l PROVE q[k - 1] + Tail(s)[k].count <= q[k]
    <2>1. k + 1 \in 1..Len(s) /\ k - 1 \in 0..l /\ k \in 0..l /\ k - 1 + 1 = k /\ (k + 1) - 1 = k
      BY <1>2
    <2>2. p[(k + 1) - 1] + s[k + 1].count <= p[k + 1]
      BY <1>1, <2>1
    <2>3. q[k - 1] = p[k] /\ q[k] = p[k + 1]
      BY <1>5, <2>1
    <2> QED BY <1>3, <2>1, <2>2, <2>3
  <1> QED BY <1>2, <1>5, <1>6, <1>7 DEF Sums

(* Another call is made.                                                   *)
LEMMA SumsAppend ==
    ASSUME NEW s \in Seq(Adds), NEW low \in Nat, NEW high \in Int, Sums(s, low, high), NEW a \in Adds
    PROVE  Sums(Append(s, a), low, high + a.count)
  <1>1. PICK p \in [0..Len(s) -> Nat] :
          /\ low <= p[0]
          /\ \A k \in 1..Len(s) : p[k - 1] + s[k].count <= p[k]
          /\ \A k \in 0..Len(s) : p[k] <= high
    BY DEF Sums
  <1> DEFINE l == Len(s)
             n == a.count
             top == high + n
             q == [k \in 0..(l + 1) |-> IF k = l + 1 THEN top ELSE p[k]]
             t == Append(s, a)
  <1>2. l \in Nat /\ n \in Nat /\ top \in Int /\ high <= top
    BY DEF Adds
  <1>3. Len(t) = l + 1 /\ t[l + 1] = a /\ \A k \in 1..l : t[k] = s[k]
    OBVIOUS
  <1>4. l \in 0..l /\ 0 \in 0..l /\ \A k \in 0..l : p[k] \in Nat /\ p[k] <= high
    BY <1>1, <1>2
  <1>5. top \in Nat
    BY <1>2, <1>4
  <1> HIDE DEF l, t, top
  <1>6. \A k \in 0..(l + 1) : k = l + 1 \/ k \in 0..l
    BY <1>2
  <1>7. /\ q \in [0..(l + 1) -> Nat] /\ q[l + 1] = top
        /\ \A k \in 0..l : q[k] = p[k]
    BY <1>2, <1>4, <1>5, <1>6
  <1> HIDE DEF q
  <1>8. \A k \in 0..(l + 1) : q[k] <= top
    BY <1>2, <1>4, <1>6, <1>7
  <1>9. ASSUME NEW k \in 1..(l + 1) PROVE q[k - 1] + t[k].count <= q[k]
    <2>1. CASE k = l + 1
      <3>1. q[k - 1] = p[l] /\ t[k].count = n /\ q[k] = top
        BY <1>2, <1>3, <1>4, <1>7, <2>1
      <3> QED BY <1>2, <1>4, <3>1 DEF top
    <2>2. CASE k # l + 1
      <3>1. k \in 1..l /\ k \in 0..l /\ k - 1 \in 0..l
        BY <1>2, <2>2
      <3> QED BY <1>1, <1>3, <1>7, <3>1 DEF l
    <2> QED BY <2>1, <2>2
  <1>10. low <= q[0]
    BY <1>1, <1>4, <1>7
  <1> QED BY <1>3, <1>7, <1>8, <1>9, <1>10 DEF Sums, t, top

LEMMA SumsAdded ==
    ASSUME TypeOK, NEW low \in Nat, NEW high \in Int, Sums(adds, low, high),
           NEW n \in Nat, NEW reply \in {"Done", "CheckFinished"}
    PROVE  Sums(adds \o add(n, reply), low, high + n)
  <1> DEFINE a == [count |-> n, reply |-> reply, after |-> awaitedGoals]
  <1>1. adds \in Seq(Adds) /\ a \in Adds
    BY DEF TypeOK, Adds, awaitedGoals
  <1>2. a.count = n
    OBVIOUS
  <1>3. CASE n = 0
    <2>1. adds \o add(n, reply) = adds /\ high + n = high
      BY <1>1, <1>3 DEF add
    <2> QED BY <2>1
  <1>4. CASE n # 0
    <2>1. add(n, reply) = <<a>>
      BY <1>4 DEF add
    <2> HIDE DEF a
    <2>2. adds \o <<a>> = Append(adds, a)
      BY <1>1
    <2> QED BY <1>1, <1>2, <2>1, <2>2, SumsAppend
  <1> QED BY <1>3, <1>4

(* The instances that are killed at once, and the ones that follow, are    *)
(* different ones.                                                         *)
LEMMA KillOrder ==
    ASSUME NEW S \in SUBSET Ids, NEW q \in toKillOrdered(S), NEW n \in Nat, n <= Len(q)
    PROVE  /\ Len(q) = Cardinality(S)
           /\ \A i \in ToSet(SubSeq(q, 1, n)) : \E j \in 1..n : j \in DOMAIN q /\ i = q[j]
           /\ Len(SubSeq(q, n + 1, Len(q))) = Len(q) - n
           /\ \A k \in DOMAIN SubSeq(q, n + 1, Len(q)) :
                n + k \in DOMAIN q /\ SubSeq(q, n + 1, Len(q))[k] = q[n + k] /\ k > 0 /\ k \in Nat
           /\ \A k \in DOMAIN q : q[k] \in S
           /\ \A k, l \in DOMAIN q : q[k] = q[l] => k = l
  <1> DEFINE c == Cardinality(S)
  <1>1. c \in Nat /\ IsFiniteSet(S)
    BY CountsAreNat
  <1>2. q \in [1..c -> S] /\ ToSet(q) = S
    BY DEF toKillOrdered
  <1>3. /\ IsFiniteSet(1..c) /\ Cardinality(1..c) = c
    BY <1>1, FS_Interval
  <1>4. q \in Surjection(1..c, S)
    <2>1. \A t \in S : \E s \in 1..c : q[s] = t
      BY <1>2 DEF ToSet
    <2> QED BY <1>2, <2>1 DEF Surjection
  <1>5. q \in Injection(1..c, S)
    BY <1>3, <1>4, FS_SurjSameCardinalityImpliesInj
  <1>6. \A k, l \in 1..c : q[k] = q[l] => k = l
    BY <1>2, <1>5 DEF Injection, IsInjective
  <1> HIDE DEF c
  <1>7. q \in Seq(S) /\ Len(q) = c /\ DOMAIN q = 1..c /\ \A k \in 1..c : q[k] \in S
    BY <1>1, <1>2
  <1> DEFINE a == SubSeq(q, 1, n)
             b == SubSeq(q, n + 1, Len(q))
  <1>8. n \in 0..c
    BY <1>1, <1>7
  <1>9. Len(a) = n /\ DOMAIN a = 1..n /\ \A k \in 1..n : a[k] = q[k]
    BY <1>1, <1>7, <1>8
  <1>10. Len(b) = c - n /\ DOMAIN b = 1..(c - n) /\ \A k \in 1..(c - n) : b[k] = q[n + k]
    <2>1. Len(b) = c - n
      BY <1>1, <1>7, <1>8
    <2>2. DOMAIN b = 1..(c - n)
      BY <1>1, <1>7, <1>8, <2>1
    <2>3. \A k \in 1..(c - n) : b[k] = q[n + k]
      BY <1>1, <1>7, <1>8
    <2> QED BY <2>1, <2>2, <2>3
  <1> HIDE DEF a, b
  <1>11. \A k \in 1..n : k \in 1..c
    BY <1>1, <1>8
  <1>12. \A k \in 1..(c - n) : n + k \in 1..c /\ k > 0 /\ k \in Nat
    BY <1>1, <1>8
  <1>13. \A i \in ToSet(a) : \E j \in 1..n : i = a[j]
    BY <1>9 DEF ToSet
  <1>14. \A i \in ToSet(a) : \E j \in 1..n : j \in DOMAIN q /\ i = q[j]
    BY <1>7, <1>9, <1>11, <1>13
  <1>15. \A k \in DOMAIN b : n + k \in DOMAIN q /\ b[k] = q[n + k] /\ k > 0 /\ k \in Nat
    BY <1>7, <1>10, <1>12
  <1> QED BY <1>6, <1>7, <1>10, <1>14, <1>15 DEF a, b, c

New == {i \in Ids : isNew(i)}
NewMessageOK(m) == m.type = "InstanceChanged" /\ ~ m.old => m.cond = "running"

(* The actor starts from the old instances alone.                          *)
FirstQuiet ==
    phase = "initializing" =>
        /\ adds = <<>> /\ goals = {} /\ toKill = <<>> /\ mailbox = <<>>
        /\ \A i \in Ids : /\ exists(i) <=> i <= conf.existing
                          /\ exists(i) => isOld(i) /\ wanted(i)

(* Every instance has been counted when it was created, and no new one     *)
(* ends.                                                                   *)
NewQuiet ==
    /\ \A i \in Ids : i > created => ~ exists(i)
    /\ \A i \in Ids : isNew(i) => wanted(i)
    /\ \A k \in DOMAIN mailbox : NewMessageOK(mailbox[k])

(* The instances that are killed, or will be, are different old ones that  *)
(* are still meant to run.                                                 *)
KillsQuiet ==
    /\ \A g \in goals : isOld(g.id) /\ wanted(g.id)
    /\ \A k \in DOMAIN toKill :
          /\ isOld(toKill[k]) /\ wanted(toKill[k])
          /\ \A g \in goals : g.id # toKill[k]
    /\ \A k, l \in DOMAIN toKill : toKill[k] = toKill[l] => k = l

(* The actor has counted all instances of the new version that there are   *)
(* or that it has asked for, and has left room for the old ones.           *)
CapacityQuiet ==
    phase # "initializing" =>
        /\ Cardinality(oldActiveInstanceIds) + instancesStarted <= max(maxCapacity, conf.existing)
        /\ Sums(adds, Cardinality(New), instancesStarted)

Quiet == history = {} => FirstQuiet /\ NewQuiet /\ KillsQuiet /\ CapacityQuiet

(* What happens as long as nothing goes wrong.                             *)
LEMMA QuietSteps ==
    ASSUME TypeOK, Known, history' = {}, [Next]_vars
    PROVE  /\ history = {}
           /\ \/ Initialize
              \/ Receive
              \/ \E g \in goals : SetGoal(g)
              \/ \E i \in Ids : TaskRuns(i) \/ TaskKilled(i) \/ BecomesHealthy(i) \/ BecomesReady(i)
              \/ AddDone
              \/ UNCHANGED vars
  <1>1. \A kind : ~ fault(kind)
    BY DEF fault
  <1>2. history = {}
    <2>1. history' = history \/ \E kind : fault(kind)
      BY DEF Next, vars, Actor, Initialize, Receive, Restart, SetGoal, SetGoalFails, TaskRuns, TaskKilled,
             TaskFails, BecomesHealthy, BecomesUnhealthy, BecomesReady, Interfere, AddDone, AddFails,
             LostAddTimesOut, AddTimesOut, Failover, trouble
    <2> QED BY <1>1, <2>1
  <1>3. phase # "stopped"
    BY <1>2 DEF Known, FirstOK, Calm
  <1>4. \A k \in DOMAIN adds : adds[k].count # 0
    BY <1>2 DEF Known, CallsOK
  <1>5. /\ \A k \in DOMAIN adds : ~ LostAddTimesOut(k) /\ ~ AddTimesOut(k)
        /\ ~ AddFails /\ ~ Failover /\ ~ Restart
    BY <1>1, <1>3, <1>4 DEF LostAddTimesOut, AddTimesOut, AddFails, Failover, Restart
  <1>6. /\ \A g \in goals : ~ SetGoalFails(g)
        /\ \A i \in Ids : ~ TaskFails(i) /\ ~ BecomesUnhealthy(i) /\ ~ Interfere(i)
    BY <1>1 DEF SetGoalFails, TaskFails, BecomesUnhealthy, Interfere
  <1> QED BY <1>2, <1>5, <1>6 DEF Next, Actor

(* How an update changes the tracker, and what the actor will hear of it.  *)
Heard(i, x) ==
    [type |-> "InstanceChanged", id |-> i, old |-> x.old, cond |-> x.cond, goal |-> x.goal]

MailboxGrows(m) ==
    \A k \in DOMAIN mailbox' :
        \/ k \in DOMAIN mailbox /\ mailbox'[k] = mailbox[k]
        \/ k \notin DOMAIN mailbox /\ (\A l \in DOMAIN mailbox : l < k) /\ k = Len(mailbox) + 1 /\ mailbox'[k] = m

LEMMA Appended ==
    ASSUME TypeOK, NEW m \in Message,
           mailbox' = mailbox \/ mailbox' = Append(mailbox, m)
    PROVE  MailboxGrows(m)
  <1>1. mailbox \in Seq(Message) /\ DOMAIN mailbox = 1..Len(mailbox) /\ Len(mailbox) \in Nat
    BY DEF TypeOK
  <1>2. CASE mailbox' = mailbox
    BY <1>2 DEF MailboxGrows
  <1>3. CASE mailbox' = Append(mailbox, m)
    <2>1. \A k \in DOMAIN Append(mailbox, m) :
             \/ k \in DOMAIN mailbox /\ Append(mailbox, m)[k] = mailbox[k]
             \/ k = Len(mailbox) + 1 /\ Append(mailbox, m)[k] = m
      BY <1>1, ElementsOfAppend
    <2>2. Len(mailbox) + 1 \notin DOMAIN mailbox /\ \A l \in DOMAIN mailbox : l < Len(mailbox) + 1
      BY <1>1
    <2> QED BY <1>3, <2>1, <2>2 DEF MailboxGrows
  <1> QED BY <1>2, <1>3

LEMMA Updated ==
    ASSUME TypeOK, NEW i \in Ids, NEW x \in Instance, exists(i), update(i, x)
    PROVE  /\ \A j \in Ids : j # i => tracker'[j] = tracker[j]
           /\ \/ tracker'[i] = x
              \/ tracker'[i] = None /\ x.goal = "Ended" /\ x.cond # "running"
           /\ Heard(i, x) \in Message
           /\ MailboxGrows(Heard(i, x))
           /\ x.cond = (IF x.old THEN "running" ELSE "scheduled") => mailbox' = mailbox
           /\ x # None
  <1>1. tracker \in [Ids -> Instance \cup {None}] /\ mailbox \in Seq(Message)
    BY DEF TypeOK
  <1>2. tracker' = [tracker EXCEPT ![i] = IF x.goal = "Ended" /\ x.cond /= "running" /\ ~ conf.isResident
                                          THEN None ELSE x]
    BY DEF update
  <1>3. Heard(i, x) \in Message
    BY DEF Message, Instance, Heard
  <1>4. /\ mailbox' = mailbox \/ mailbox' = mailbox \o InstanceChanged(i, x)
        /\ InstanceChanged(i, x) = (IF x.cond = (IF x.old THEN "running" ELSE "scheduled")
                                    THEN <<>> ELSE <<Heard(i, x)>>)
    BY DEF update, publish, InstanceChanged, Heard
  <1>5. mailbox \o <<>> = mailbox /\ \A m \in Message : mailbox \o <<m>> = Append(mailbox, m)
    BY <1>1
  <1>6. MailboxGrows(Heard(i, x))
    BY <1>3, <1>4, <1>5, Appended
  <1>7. x.cond = (IF x.old THEN "running" ELSE "scheduled") => mailbox' = mailbox
    BY <1>4, <1>5
  <1> QED BY <1>1, <1>2, <1>3, <1>6, <1>7, NoneAssumption

LEMMA UnionCount ==
    ASSUME NEW S \in SUBSET Ids, NEW T \in SUBSET Ids
    PROVE  /\ Cardinality(S \cup T) <= Cardinality(S) + Cardinality(T)
           /\ S \cap T = {} => Cardinality(S \cup T) = Cardinality(S) + Cardinality(T)
  <1>1. /\ IsFiniteSet(S) /\ IsFiniteSet(T) /\ Cardinality(S) \in Nat /\ Cardinality(T) \in Nat
        /\ Cardinality(S \cap T) \in Nat
    BY CountsAreNat
  <1>2. Cardinality(S \cup T) = Cardinality(S) + Cardinality(T) - Cardinality(S \cap T)
    BY <1>1, FS_Union
  <1>3. S \cap T = {} => Cardinality(S \cap T) = 0
    BY FS_EmptySet
  <1> QED BY <1>1, <1>2, <1>3

(* An old instance is given up.                                            *)
LEMMA SetGoalQuiet ==
    ASSUME TypeOK, Known, KillsQuiet, history = {}, NEW g \in goals, SetGoal(g)
    PROVE  /\ g.id \in Ids /\ isOld(g.id) /\ wanted(g.id)
           /\ \A j \in Ids : j # g.id => tracker'[j] = tracker[j]
           /\ ~ wanted(g.id)' /\ ~ isNew(g.id)'
           /\ \A h \in goals' : h \in goals /\ h.id # g.id
           /\ \E m \in Message :
                 /\ m.type = "InstanceChanged" /\ m.old /\ m.id = g.id /\ m.goal = "Ended"
                 /\ MailboxGrows(m)
                 /\ isRunning(g.id) => mailbox' = mailbox
           /\ UNCHANGED <<conf, created, phase, state, adds>>
  <1> DEFINE x == [tracker[g.id] EXCEPT !.goal = "Ended"]
             m == Heard(g.id, x)
  <1>1. g.id \in Ids /\ isOld(g.id) /\ wanted(g.id) /\ exists(g.id)
    BY DEF TypeOK, KillsQuiet, wanted
  <1>2. x \in Instance /\ tracker[g.id] \in Instance
    BY <1>1, existsType
  <1>3. x.goal = "Ended" /\ x.old = tracker[g.id].old /\ x.cond = tracker[g.id].cond
    BY <1>2 DEF Instance
  <1>4. update(g.id, x)
    BY <1>1 DEF SetGoal
  <1>5. m.type = "InstanceChanged" /\ m.old = x.old /\ m.id = g.id /\ m.goal = x.goal /\ m.cond = x.cond
    BY DEF Heard
  <1> HIDE DEF x
  <1>6. /\ \A j \in Ids : j # g.id => tracker'[j] = tracker[j]
        /\ tracker'[g.id] \in {x, None} /\ x # None
        /\ m \in Message /\ MailboxGrows(m)
        /\ x.cond = (IF x.old THEN "running" ELSE "scheduled") => mailbox' = mailbox
    BY <1>1, <1>2, <1>4, Updated
  <1> HIDE DEF m
  <1>7. x.old
    BY <1>1, <1>3 DEF isOld
  <1>8. ~ wanted(g.id)' /\ ~ isNew(g.id)'
    BY <1>3, <1>6, <1>7 DEF wanted, isNew, exists
  <1>9. isRunning(g.id) => mailbox' = mailbox
    BY <1>3, <1>6, <1>7 DEF isRunning
  <1>10. ASSUME NEW h \in goals' PROVE h \in goals /\ h.id # g.id
    <2>1. h \in goals /\ h # g
      BY DEF SetGoal
    <2>2. ~ h.awaited /\ ~ g.awaited
      BY <2>1 DEF Known, CallsOK
    <2>3. h \in Goals /\ g \in Goals
      BY <2>1 DEF TypeOK, Goals
    <2> QED BY <2>1, <2>2, <2>3 DEF Goals
  <1>11. UNCHANGED <<conf, created, phase, state, adds>>
    BY DEF SetGoal
  <1> QED BY <1>1, <1>3, <1>5, <1>6, <1>7, <1>8, <1>9, <1>10, <1>11

LEMMA TaskRunsQuiet ==
    ASSUME TypeOK, NEW i \in Ids, TaskRuns(i)
    PROVE  /\ wanted(i) /\ ~ isRunning(i)
           /\ \A j \in Ids : j # i => tracker'[j] = tracker[j]
           /\ exists(i)' /\ wanted(i)' /\ isRunning(i)'
           /\ tracker'[i].old = tracker[i].old /\ tracker'[i].healthy = tracker[i].healthy
           /\ \E m \in Message :
                 /\ m.type = "InstanceChanged" /\ m.old = tracker[i].old /\ m.id = i
                 /\ m.cond = "running" /\ m.goal = "Running"
                 /\ MailboxGrows(m)
                 /\ tracker[i].old => mailbox' = mailbox
           /\ UNCHANGED <<conf, created, phase, state, goals, adds>>
  <1> DEFINE x == [tracker[i] EXCEPT !.cond = "running"]
             m == Heard(i, x)
  <1>1. wanted(i) /\ exists(i) /\ ~ isRunning(i) /\ update(i, x)
        /\ UNCHANGED <<conf, created, phase, state, goals, adds>>
    BY DEF TaskRuns, wanted
  <1>2. x \in Instance /\ tracker[i] \in Instance
    BY <1>1, existsType
  <1>3. /\ x.goal = tracker[i].goal /\ x.old = tracker[i].old /\ x.cond = "running"
        /\ x.healthy = tracker[i].healthy
    BY <1>2 DEF Instance
  <1>4. m.type = "InstanceChanged" /\ m.old = x.old /\ m.id = i /\ m.goal = x.goal /\ m.cond = x.cond
    BY DEF Heard
  <1> HIDE DEF x
  <1>5. /\ \A j \in Ids : j # i => tracker'[j] = tracker[j]
        /\ \/ tracker'[i] = x
           \/ tracker'[i] = None /\ x.goal = "Ended" /\ x.cond # "running"
        /\ m \in Message /\ MailboxGrows(m)
        /\ x.cond = (IF x.old THEN "running" ELSE "scheduled") => mailbox' = mailbox
        /\ x # None
    BY <1>1, <1>2, Updated
  <1> HIDE DEF m
  <1>6. tracker'[i] = x /\ tracker[i].goal = "Running"
    BY <1>1, <1>3, <1>5 DEF wanted
  <1>7. exists(i)' /\ wanted(i)' /\ isRunning(i)'
    BY <1>3, <1>5, <1>6 DEF wanted, isRunning, exists
  <1>8. tracker[i].old => mailbox' = mailbox
    BY <1>3, <1>5
  <1> QED BY <1>1, <1>3, <1>4, <1>5, <1>6, <1>7, <1>8

LEMMA TaskKilledQuiet ==
    ASSUME TypeOK, NewQuiet, NEW i \in Ids, TaskKilled(i)
    PROVE  /\ ~ wanted(i) /\ isOld(i)
           /\ \A j \in Ids : j # i => tracker'[j] = tracker[j]
           /\ ~ wanted(i)' /\ ~ isNew(i)'
           /\ \E m \in Message :
                 /\ m.type = "InstanceChanged" /\ m.old /\ m.id = i
                 /\ m.cond = "dead" /\ m.goal = "Ended"
                 /\ MailboxGrows(m)
           /\ UNCHANGED <<conf, created, phase, state, goals, adds>>
  <1> DEFINE x == [tracker[i] EXCEPT !.cond = "dead", !.healthy = FALSE]
             m == Heard(i, x)
  <1>1. ~ wanted(i) /\ exists(i) /\ update(i, x)
        /\ UNCHANGED <<conf, created, phase, state, goals, adds>>
    BY DEF TaskKilled, isRunning
  <1>2. x \in Instance /\ tracker[i] \in Instance /\ isOld(i)
    BY <1>1, existsType DEF NewQuiet, isNew, isOld
  <1>3. x.goal = "Ended" /\ x.old /\ x.cond = "dead"
    BY <1>1, <1>2 DEF Instance, wanted, isOld
  <1>4. m.type = "InstanceChanged" /\ m.old = x.old /\ m.id = i /\ m.goal = x.goal /\ m.cond = x.cond
    BY DEF Heard
  <1> HIDE DEF x
  <1>5. /\ \A j \in Ids : j # i => tracker'[j] = tracker[j]
        /\ tracker'[i] \in {x, None}
        /\ m \in Message /\ MailboxGrows(m)
    BY <1>1, <1>2, Updated
  <1> HIDE DEF m
  <1>6. ~ wanted(i)' /\ ~ isNew(i)'
    BY <1>3, <1>5 DEF wanted, isNew, exists
  <1> QED BY <1>1, <1>2, <1>3, <1>4, <1>5, <1>6

LEMMA HealthyQuiet ==
    ASSUME TypeOK, NEW i \in Ids, BecomesHealthy(i)
    PROVE  /\ conf.hasHealthChecks
           /\ \A j \in Ids : j # i => tracker'[j] = tracker[j]
           /\ exists(i) /\ exists(i)' /\ isRunning(i) /\ isRunning(i)'
           /\ tracker'[i].old = tracker[i].old /\ tracker'[i].goal = tracker[i].goal
           /\ tracker'[i].healthy
           /\ \E m \in Message :
                 /\ m.type = "InstanceHealthy" /\ m.id = i
                 /\ MailboxGrows(m)
                 /\ tracker[i].old => mailbox' = mailbox
           /\ UNCHANGED <<conf, created, phase, state, goals, adds>>
  <1> DEFINE x == [tracker[i] EXCEPT !.healthy = TRUE]
             m == [type |-> "InstanceHealthy", id |-> i]
  <1>1. /\ conf.hasHealthChecks /\ exists(i) /\ isRunning(i) /\ tracker' = [tracker EXCEPT ![i].healthy = TRUE]
        /\ UNCHANGED <<conf, created, phase, state, goals, adds>>
    BY DEF BecomesHealthy, isRunning
  <1>2. x \in Instance /\ tracker[i] \in Instance
    BY <1>1, existsType
  <1>3. x.goal = tracker[i].goal /\ x.old = tracker[i].old /\ x.cond = tracker[i].cond /\ x.healthy
    BY <1>2 DEF Instance
  <1>4. tracker'[i] = x /\ \A j \in Ids : j # i => tracker'[j] = tracker[j]
    BY <1>1 DEF TypeOK
  <1> HIDE DEF x
  <1>5. exists(i)' /\ isRunning(i)'
    BY <1>1, <1>2, <1>3, <1>4, NoneAssumption DEF exists, isRunning
  <1>6. m \in Message /\ m.type = "InstanceHealthy" /\ m.id = i
    BY DEF Message
  <1>7. /\ mailbox' = mailbox \/ mailbox' = mailbox \o <<>> \/ mailbox' = mailbox \o <<m>>
        /\ tracker[i].old => mailbox' = mailbox \/ mailbox' = mailbox \o <<>>
    BY DEF BecomesHealthy, publish
  <1> HIDE DEF m
  <1>8. mailbox \o <<>> = mailbox /\ mailbox \o <<m>> = Append(mailbox, m)
    BY <1>6 DEF TypeOK
  <1>9. MailboxGrows(m)
    BY <1>6, <1>7, <1>8, Appended
  <1> QED BY <1>1, <1>3, <1>4, <1>5, <1>6, <1>7, <1>8, <1>9

LEMMA ReadyQuiet ==
    ASSUME TypeOK, NEW i \in Ids, BecomesReady(i)
    PROVE  /\ phase # "initializing" /\ i \in subscriptions
           /\ \A k \in DOMAIN mailbox : ~ (mailbox[k].type = "ReadinessCheckResult" /\ mailbox[k].id = i)
           /\ \E m \in Message : m.type = "ReadinessCheckResult" /\ m.id = i /\ MailboxGrows(m)
           /\ UNCHANGED <<conf, tracker, created, phase, state, goals, adds>>
  <1> DEFINE m == [type |-> "ReadinessCheckResult", id |-> i]
  <1>1. m \in Message /\ m.type = "ReadinessCheckResult" /\ m.id = i
    BY DEF Message
  <1>2. /\ phase # "initializing" /\ i \in subscriptions /\ mailbox' = Append(mailbox, m)
        /\ \A k \in DOMAIN mailbox : mailbox[k] # m
        /\ UNCHANGED <<conf, tracker, created, phase, state, goals, adds>>
    BY DEF BecomesReady
  <1>3. ASSUME NEW k \in DOMAIN mailbox, mailbox[k].type = "ReadinessCheckResult", mailbox[k].id = i
        PROVE  FALSE
    <2>1. mailbox[k] \in Message
      BY DEF TypeOK
    <2>2. mailbox[k] \in [type : {"InstanceHealthy", "ReadinessCheckResult"}, id : Ids]
      BY <1>3, <2>1 DEF Message
    <2>3. mailbox[k] = m
      BY <1>3, <2>2
    <2> QED BY <1>2, <2>3
  <1> HIDE DEF m
  <1>4. MailboxGrows(m)
    BY <1>1, <1>2, Appended
  <1> QED BY <1>1, <1>2, <1>3, <1>4

(* The launch queue adds as many instances as it was asked for.            *)
LEMMA AddQuiet ==
    ASSUME TypeOK, NEW n \in Nat, addInstances(n)
    PROVE  /\ created' \in Nat /\ created <= created' /\ Added \in Instance /\ Added # None
           /\ \A i \in Ids : \/ tracker'[i] = tracker[i]
                             \/ tracker'[i] = Added /\ i \in reusable
                             \/ tracker'[i] = Added /\ created < i /\ i <= created'
           /\ Cardinality(New)' <= Cardinality(New) + n
  <1> DEFINE c == Cardinality(reusable)
             r == min(n, c)
             fresh == (created + 1)..(created + n - r)
  <1>1. c \in Nat /\ created \in 0..MaxInstances /\ MaxInstances \in Nat
    BY CountsAreNat, TaskReplaceAssumption DEF reusable, TypeOK
  <1> HIDE DEF c
  <1>2. r \in Nat /\ r <= n
    BY <1>1 DEF min
  <1>3. created + n - r <= MaxInstances /\ created' = created + n - r
    BY DEF addInstances, c
  <1>4. PICK S \in SUBSET reusable :
          /\ Cardinality(S) = r
          /\ tracker' = [i \in Ids |-> IF i \in S \cup fresh THEN Added ELSE tracker[i]]
    BY DEF addInstances, c
  <1> HIDE DEF r
  <1>5. created' \in Nat /\ created <= created'
    BY <1>1, <1>2, <1>3
  <1>6. Added \in Instance /\ Added # None
    <2>1. Added \in Instance
      BY DEF Added, Instance
    <2> QED BY <2>1, NoneAssumption
  <1>7. S \in SUBSET Ids /\ New \in SUBSET Ids /\ fresh \in SUBSET Ids
    <2>1. created + 1 >= 1 /\ created + n - r <= MaxInstances
      BY <1>1, <1>3
    <2>2. \A a, b \in Int : a >= 1 /\ b <= MaxInstances => a..b \subseteq 1..MaxInstances
      BY <1>1
    <2>3. fresh \subseteq 1..MaxInstances
      BY <1>1, <1>2, <2>1, <2>2
    <2> QED BY <2>3 DEF reusable, New, Ids
  <1>8. \A i \in fresh : created < i /\ i <= created'
    BY <1>1, <1>2, <1>3
  <1>9. Cardinality(fresh) = n - r
    <2>1. created + 1 \in Int /\ created + n - r \in Int
      BY <1>1, <1>2
    <2>2. \A a, b \in Int : Cardinality(a..b) = IF a > b THEN 0 ELSE b - a + 1
      BY FS_Interval
    <2> DEFINE a == created + 1
               b == created + n - r
    <2>3. a \in Int /\ b \in Int /\ fresh = a..b
      BY <2>1
    <2>4. (a > b => n - r = 0) /\ b - a + 1 = n - r
      BY <1>1, <1>2
    <2> HIDE DEF a, b, fresh
    <2> QED BY <2>2, <2>3, <2>4
  <1> HIDE DEF fresh
  <1>10. \A i \in Ids : tracker'[i] = tracker[i] \/ (tracker'[i] = Added /\ i \in S \cup fresh)
    BY <1>4
  <1>11. New' \subseteq New \cup (S \cup fresh)
    <2>1. ASSUME NEW i \in Ids, isNew(i)', i \notin S \cup fresh PROVE isNew(i)
      BY <1>10, <2>1 DEF isNew, exists
    <2> QED BY <2>1 DEF New
  <1>12. Cardinality(New') <= Cardinality(New) + n
    <2>1. /\ New' \in SUBSET Ids /\ S \cup fresh \in SUBSET Ids /\ New \cup (S \cup fresh) \in SUBSET Ids
      BY <1>7 DEF New
    <2>2. /\ Cardinality(New') \in Nat /\ Cardinality(New \cup (S \cup fresh)) \in Nat
          /\ IsFiniteSet(New \cup (S \cup fresh))
      BY <2>1, CountsAreNat
    <2>3. Cardinality(New') <= Cardinality(New \cup (S \cup fresh))
      BY <1>11, <2>2, FS_Subset
    <2>4. Cardinality(S \cup fresh) <= r + (n - r)
      BY <1>4, <1>7, <1>9, UnionCount
    <2>5. Cardinality(New \cup (S \cup fresh)) <= Cardinality(New) + Cardinality(S \cup fresh)
      BY <1>7, <2>1, UnionCount
    <2>6. Cardinality(New) \in Nat /\ Cardinality(S \cup fresh) \in Nat
      BY <1>7, <2>1, CountsAreNat
    <2> QED BY <1>2, <2>2, <2>3, <2>4, <2>5, <2>6
  <1>13. Cardinality(New)' = Cardinality(New')
    OBVIOUS
  <1> QED BY <1>4, <1>5, <1>6, <1>8, <1>10, <1>12, <1>13

(* An instance changes, which is not a new one that ends, nor one that is  *)
(* still to be killed.                                                     *)
LEMMA InstanceQuiet ==
    ASSUME TypeOK, FirstQuiet, NewQuiet, KillsQuiet, CapacityQuiet,
           NEW i \in Ids, \A j \in Ids : j # i => tracker'[j] = tracker[j],
           exists(i)' => exists(i), isNew(i)' => isNew(i) /\ wanted(i)',
           \/ isOld(i) /\ wanted(i) => isOld(i)' /\ wanted(i)'
           \/ (\A h \in goals' : h.id # i) /\ (\A k \in DOMAIN toKill : toKill[k] # i),
           goals' \subseteq goals,
           phase = "initializing" => exists(i) /\ exists(i)' /\ isOld(i)' /\ wanted(i)' /\ mailbox' = mailbox,
           NEW m, MailboxGrows(m), NewMessageOK(m),
           UNCHANGED <<conf, created, phase, state, adds>>
    PROVE  FirstQuiet' /\ NewQuiet' /\ KillsQuiet' /\ CapacityQuiet'
  <1>1. ASSUME NEW j \in Ids, j # i
        PROVE  /\ exists(j)' <=> exists(j)
               /\ isOld(j)' <=> isOld(j)
               /\ isNew(j)' <=> isNew(j)
               /\ wanted(j)' <=> wanted(j)
    <2>1. tracker'[j] = tracker[j]
      BY <1>1
    <2> QED BY <2>1 DEF exists, isOld, isNew, wanted
  <1>2. FirstQuiet'
    <2> SUFFICES ASSUME phase = "initializing" PROVE FirstQuiet'
      BY DEF FirstQuiet
    <2>1. ASSUME NEW j \in Ids
          PROVE  (exists(j)' <=> j <= conf.existing) /\ (exists(j)' => isOld(j)' /\ wanted(j)')
      BY <1>1, <2>1 DEF FirstQuiet
    <2>2. adds' = <<>> /\ goals' = {} /\ toKill' = <<>> /\ mailbox' = <<>>
      BY DEF FirstQuiet, state
    <2> QED BY <2>1, <2>2 DEF FirstQuiet
  <1>3. NewQuiet'
    <2>1. \A j \in Ids : (isNew(j)' => wanted(j)') /\ (exists(j)' => exists(j))
      BY <1>1 DEF NewQuiet
    <2>2. \A k \in DOMAIN mailbox' : NewMessageOK(mailbox'[k])
      BY DEF MailboxGrows, NewQuiet
    <2>3. \A k \in DOMAIN mailbox' : NewMessageOK(mailbox[k])'
      BY <2>2 DEF NewMessageOK
    <2> QED BY <2>1, <2>3 DEF NewQuiet
  <1>4. KillsQuiet'
    <2>1. toKill' = toKill /\ \A k \in DOMAIN toKill : toKill[k] \in Ids
      BY DEF state, TypeOK
    <2>2. \A g \in goals : g.id \in Ids
      BY DEF TypeOK
    <2>3. ASSUME NEW g \in goals' PROVE isOld(g.id)' /\ wanted(g.id)'
      BY <1>1, <2>2 DEF KillsQuiet
    <2>4. ASSUME NEW k \in DOMAIN toKill
          PROVE  isOld(toKill[k])' /\ wanted(toKill[k])' /\ \A g \in goals' : g.id # toKill[k]
      <3>1. PICK j \in Ids :
               /\ j = toKill[k] /\ isOld(j) /\ wanted(j)
               /\ \A g \in goals' : g.id # j
               /\ j = i => isOld(i)' /\ wanted(i)'
        BY <2>1 DEF KillsQuiet
      <3>2. isOld(j)' /\ wanted(j)'
        BY <1>1, <3>1
      <3>3. toKill'[k] = toKill[k]
        BY <2>1
      <3> QED BY <3>1, <3>2, <3>3 DEF isOld, wanted, exists
    <2> QED BY <2>1, <2>3, <2>4 DEF KillsQuiet, isOld, wanted, exists
  <1>5. CapacityQuiet'
    <2>1. New' \subseteq New /\ New' \in SUBSET Ids /\ New \in SUBSET Ids
      BY <1>1 DEF New
    <2>2. Cardinality(New') <= Cardinality(New) /\ Cardinality(New') \in Nat /\ Cardinality(New) \in Nat
      BY <2>1, CountsAreNat, FS_Subset
    <2>3. adds \in Seq(Adds) /\ instancesStarted \in Int
      BY DEF TypeOK, Adds
    <2>4. Sums(adds, Cardinality(New), instancesStarted) => Sums(adds, Cardinality(New'), instancesStarted)
      BY <2>2, <2>3, SumsBound
    <2> QED BY <2>4 DEF CapacityQuiet, state, max
  <1> QED BY <1>2, <1>3, <1>4, <1>5

LEMMA WorldQuiet ==
    ASSUME TypeOK, Known, history = {}, FirstQuiet, NewQuiet, KillsQuiet, CapacityQuiet,
           \/ \E g \in goals : SetGoal(g)
           \/ \E i \in Ids : TaskRuns(i) \/ TaskKilled(i) \/ BecomesHealthy(i) \/ BecomesReady(i)
    PROVE  FirstQuiet' /\ NewQuiet' /\ KillsQuiet' /\ CapacityQuiet'
  <1>1. ASSUME NEW g \in goals, SetGoal(g)
        PROVE  FirstQuiet' /\ NewQuiet' /\ KillsQuiet' /\ CapacityQuiet'
    <2> DEFINE i == g.id
    <2>1. /\ i \in Ids
          /\ \A j \in Ids : j # i => tracker'[j] = tracker[j]
          /\ ~ isNew(i)' /\ exists(i)
          /\ \A h \in goals' : h \in goals /\ h.id # i
          /\ UNCHANGED <<conf, created, phase, state, adds>>
      BY <1>1, SetGoalQuiet DEF wanted
    <2>2. PICK m \in Message : m.type = "InstanceChanged" /\ m.old /\ MailboxGrows(m)
      BY <1>1, SetGoalQuiet
    <2>3. NewMessageOK(m)
      BY <2>2 DEF NewMessageOK
    <2>4. \A k \in DOMAIN toKill : toKill[k] # i
      BY DEF KillsQuiet
    <2>5. goals' \subseteq goals /\ phase # "initializing"
      BY <2>1 DEF FirstQuiet
    <2> HIDE DEF i
    <2> QED BY <2>1, <2>2, <2>3, <2>4, <2>5, InstanceQuiet
  <1>2. ASSUME NEW i \in Ids, TaskRuns(i)
        PROVE  FirstQuiet' /\ NewQuiet' /\ KillsQuiet' /\ CapacityQuiet'
    <2>1. /\ wanted(i)
          /\ \A j \in Ids : j # i => tracker'[j] = tracker[j]
          /\ exists(i)' /\ wanted(i)' /\ tracker'[i].old = tracker[i].old
          /\ UNCHANGED <<conf, created, phase, state, goals, adds>>
      BY <1>2, TaskRunsQuiet
    <2>2. PICK m \in Message :
             /\ m.type = "InstanceChanged" /\ m.cond = "running" /\ MailboxGrows(m)
             /\ tracker[i].old => mailbox' = mailbox
      BY <1>2, TaskRunsQuiet
    <2>3. NewMessageOK(m)
      BY <2>2 DEF NewMessageOK
    <2>4. /\ exists(i) /\ (isNew(i)' => isNew(i)) /\ (isOld(i) => isOld(i)')
          /\ isOld(i) => tracker[i].old
      BY <2>1 DEF isNew, isOld, wanted
    <2>5. phase = "initializing" => isOld(i)
      BY <2>4 DEF FirstQuiet
    <2> QED BY <2>1, <2>2, <2>3, <2>4, <2>5, InstanceQuiet
  <1>3. ASSUME NEW i \in Ids, TaskKilled(i)
        PROVE  FirstQuiet' /\ NewQuiet' /\ KillsQuiet' /\ CapacityQuiet'
    <2>1. /\ ~ wanted(i) /\ isOld(i)
          /\ \A j \in Ids : j # i => tracker'[j] = tracker[j]
          /\ ~ isNew(i)' /\ exists(i)
          /\ UNCHANGED <<conf, created, phase, state, goals, adds>>
      BY <1>3, TaskKilledQuiet DEF isOld
    <2>2. PICK m \in Message : m.type = "InstanceChanged" /\ m.old /\ MailboxGrows(m)
      BY <1>3, TaskKilledQuiet
    <2>3. NewMessageOK(m)
      BY <2>2 DEF NewMessageOK
    <2>4. phase # "initializing"
      BY <2>1 DEF FirstQuiet
    <2> QED BY <2>1, <2>2, <2>3, <2>4, InstanceQuiet
  <1>4. ASSUME NEW i \in Ids, BecomesHealthy(i)
        PROVE  FirstQuiet' /\ NewQuiet' /\ KillsQuiet' /\ CapacityQuiet'
    <2>1. /\ \A j \in Ids : j # i => tracker'[j] = tracker[j]
          /\ exists(i) /\ exists(i)'
          /\ tracker'[i].old = tracker[i].old /\ tracker'[i].goal = tracker[i].goal
          /\ UNCHANGED <<conf, created, phase, state, goals, adds>>
      BY <1>4, HealthyQuiet
    <2>2. PICK m \in Message :
             m.type = "InstanceHealthy" /\ MailboxGrows(m) /\ (tracker[i].old => mailbox' = mailbox)
      BY <1>4, HealthyQuiet
    <2>3. NewMessageOK(m)
      BY <2>2 DEF NewMessageOK
    <2>4. /\ isNew(i)' <=> isNew(i)
          /\ isOld(i)' <=> isOld(i)
          /\ wanted(i)' <=> wanted(i)
          /\ isOld(i) => tracker[i].old
      BY <2>1 DEF isNew, isOld, wanted
    <2>5. isNew(i) => wanted(i)
      BY DEF NewQuiet
    <2>6. phase = "initializing" => isOld(i) /\ wanted(i)
      BY <2>1 DEF FirstQuiet
    <2> QED BY <2>1, <2>2, <2>3, <2>4, <2>5, <2>6, InstanceQuiet
  <1>5. ASSUME NEW i \in Ids, BecomesReady(i)
        PROVE  FirstQuiet' /\ NewQuiet' /\ KillsQuiet' /\ CapacityQuiet'
    <2>1. /\ phase # "initializing"
          /\ UNCHANGED <<conf, tracker, created, phase, state, goals, adds>>
      BY <1>5, ReadyQuiet
    <2>2. PICK m \in Message : m.type = "ReadinessCheckResult" /\ MailboxGrows(m)
      BY <1>5, ReadyQuiet
    <2>3. NewMessageOK(m)
      BY <2>2 DEF NewMessageOK
    <2>4. /\ isNew(i)' <=> isNew(i)
          /\ isOld(i)' <=> isOld(i)
          /\ wanted(i)' <=> wanted(i)
          /\ isNew(i) => wanted(i)
          /\ exists(i)' <=> exists(i)
      BY <2>1 DEF isNew, isOld, wanted, exists, NewQuiet
    <2> QED BY <2>1, <2>2, <2>3, <2>4, InstanceQuiet
  <1> QED BY <1>1, <1>2, <1>3, <1>4, <1>5

LEMMA AddDoneQuiet ==
    ASSUME TypeOK, Known, history = {}, FirstQuiet, NewQuiet, KillsQuiet, CapacityQuiet, AddDone
    PROVE  FirstQuiet' /\ NewQuiet' /\ KillsQuiet' /\ CapacityQuiet'
  <1>1. adds \in Seq(Adds) /\ adds # <<>> /\ mailbox \in Seq(Message) /\ instancesStarted \in Int
    BY DEF TypeOK, Adds, AddDone
  <1>2. Head(adds) \in Adds
    BY <1>1, ElementsOfTail
  <1> DEFINE n == Head(adds).count
  <1>3. /\ n \in Nat /\ addInstances(n) /\ adds' = Tail(adds)
        /\ UNCHANGED <<conf, state, goals>>
    BY <1>2 DEF AddDone, Adds
  <1>4. phase # "initializing" /\ phase' # "initializing"
    BY <1>1 DEF FirstQuiet, AddDone
  <1> HIDE DEF n
  <1>5. /\ Added # None
        /\ \A i \in Ids : tracker'[i] = tracker[i] \/ tracker'[i] = Added
        /\ \A i \in Ids : tracker'[i] = tracker[i] \/ i \in reusable \/ created < i
        /\ Cardinality(New)' <= Cardinality(New) + n
    BY <1>3, AddQuiet
  <1>6. UNCHANGED toKill /\ \A k \in DOMAIN toKill : toKill[k] \in Ids
    BY <1>3 DEF state, TypeOK
  <1>7. ASSUME NEW i \in Ids, isOld(i), wanted(i)
        PROVE  isOld(i)' /\ wanted(i)'
    <2>1. i \notin reusable /\ ~ (i > created) /\ i \in Int /\ created \in Int
      <3>1. i \in Int /\ created \in Int /\ exists(i)
        BY <1>7 DEF isOld, TypeOK, Ids
      <3> QED BY <1>7, <3>1 DEF reusable, NewQuiet
    <2>2. tracker'[i] = tracker[i]
      BY <1>5, <2>1
    <2> QED BY <1>7, <2>2 DEF isOld, wanted, exists
  <1>8. KillsQuiet'
    <2>1. \A g \in goals : g.id \in Ids
      BY DEF TypeOK
    <2>2. \A g \in goals' : isOld(g.id)' /\ wanted(g.id)'
      BY <1>3, <1>7, <2>1 DEF KillsQuiet
    <2>3. ASSUME NEW k \in DOMAIN toKill
          PROVE  isOld(toKill[k])' /\ wanted(toKill[k])'
      <3>1. toKill[k] \in Ids /\ isOld(toKill[k]) /\ wanted(toKill[k])
        BY <1>6 DEF KillsQuiet
      <3>2. \A i \in Ids : isOld(i) /\ wanted(i) => isOld(i)' /\ wanted(i)'
        BY <1>7
      <3>3. \A i : i = toKill[k] => isOld(i)' /\ wanted(i)'
        BY <3>1, <3>2
      <3> QED BY <1>6, <3>3 DEF isOld, wanted, exists
    <2> QED BY <1>3, <1>6, <2>2, <2>3 DEF KillsQuiet
  <1>9. NewQuiet'
    <2>1. ASSUME NEW i \in Ids PROVE isNew(i)' => wanted(i)'
      <3>1. CASE tracker'[i] = tracker[i]
        BY <3>1 DEF NewQuiet, isNew, wanted, exists
      <3>2. CASE tracker'[i] = Added
        BY <3>2 DEF isNew, wanted, Added
      <3> QED BY <1>5, <3>1, <3>2
    <2>2. ASSUME NEW i \in Ids, i > created' PROVE ~ exists(i)'
      <3>1. i > created /\ ~ exists(i) /\ i \notin reusable
        <4>1. created \in Int /\ created' \in Int /\ created <= created' /\ i \in Int
          BY <1>3, AddQuiet DEF TypeOK, Ids
        <4>2. i > created
          BY <2>2, <4>1
        <4> QED BY <4>2 DEF NewQuiet, reusable
      <3>2. tracker'[i] = tracker[i]
        <4>1. /\ created' \in Int /\ i \in Int
              /\ tracker'[i] = tracker[i] \/ i \in reusable \/ i <= created'
          BY <1>3, AddQuiet DEF Ids
        <4> QED BY <2>2, <3>1, <4>1
      <3> QED BY <3>1, <3>2 DEF exists
    <2> DEFINE m == [type |-> "CheckFinished"]
    <2>3. mailbox' = mailbox \/ mailbox' = Append(mailbox, m)
      BY DEF AddDone
    <2>4. m \in Message /\ NewMessageOK(m)
      BY DEF Message, NewMessageOK
    <2> HIDE DEF m
    <2>5. MailboxGrows(m)
      BY <2>3, <2>4, Appended
    <2>6. \A k \in DOMAIN mailbox' : NewMessageOK(mailbox'[k])
      BY <2>4, <2>5 DEF MailboxGrows, NewQuiet
    <2>7. \A k \in DOMAIN mailbox' : NewMessageOK(mailbox[k])'
      BY <2>6 DEF NewMessageOK
    <2> QED BY <2>1, <2>2, <2>7 DEF NewQuiet
  <1>10. CapacityQuiet'
    <2>1. Cardinality(New) \in Nat /\ Cardinality(New') \in Nat /\ Cardinality(New)' = Cardinality(New')
      BY CountsAreNat DEF New
    <2>2. Sums(adds', Cardinality(New'), instancesStarted)
      BY <1>1, <1>3, <1>4, <1>5, <2>1, SumsTail DEF CapacityQuiet, n
    <2>3. /\ Cardinality(oldActiveInstanceIds)' = Cardinality(oldActiveInstanceIds)
          /\ instancesStarted' = instancesStarted /\ maxCapacity' = maxCapacity /\ conf' = conf
      BY <1>3 DEF state
    <2> QED BY <1>4, <2>1, <2>2, <2>3 DEF CapacityQuiet, max
  <1>11. FirstQuiet'
    BY <1>4 DEF FirstQuiet
  <1> QED BY <1>8, <1>9, <1>10, <1>11

(* The actor takes one message, and may leave itself another one.          *)
LEMMA Heeded ==
    ASSUME TypeOK, Known, history = {}, NewQuiet, Receive
    PROVE  \E m \in Message :
              /\ 1 \in DOMAIN mailbox /\ m = mailbox[1]
              /\ \/ InstanceRuns(m) \/ InstanceHealthy(m) \/ InstanceStillHealthy(m)
                 \/ ReadinessCheckResult(m) \/ OldEnded(m) \/ CheckFinished(m)
  <1>1. mailbox \in Seq(Message) /\ mailbox # <<>> /\ Handle(Head(mailbox))
    BY DEF TypeOK, Receive
  <1>2. PICK m \in Message : m = Head(mailbox) /\ 1 \in DOMAIN mailbox /\ m = mailbox[1]
    BY <1>1, ElementsOfTail
  <1>3. Handle(m)
    BY <1>1, <1>2
  <1>4. MessageOK(m) /\ NewMessageOK(m)
    BY <1>2 DEF Known, MessagesOK, NewQuiet, MessageOK, NewMessageOK
  <1>5. ~ NewTerminated(m)
    BY <1>4 DEF NewMessageOK, NewTerminated
  <1>6. ~ OldTerminated(m) /\ ~ Failed(m)
    BY <1>4 DEF MessageOK, OldTerminated, Failed, Calm
  <1> QED BY <1>2, <1>3, <1>5, <1>6 DEF Handle

LEMMA Handled ==
    ASSUME TypeOK, Receive, NEW m,
           \/ InstanceRuns(m) \/ InstanceHealthy(m) \/ InstanceStillHealthy(m)
           \/ ReadinessCheckResult(m) \/ OldEnded(m) \/ CheckFinished(m)
    PROVE  /\ \A k \in DOMAIN mailbox' :
                 \/ k \in Nat /\ k + 1 \in DOMAIN mailbox /\ mailbox'[k] = mailbox[k + 1]
                 \/ mailbox'[k] = [type |-> "CheckFinished"]
           /\ UNCHANGED <<conf, tracker, created, maxCapacity, history>>
           /\ phase = "initialized" /\ phase' # "initializing"
           /\ UNCHANGED <<toKill, goals>> \/ killNextOldInstance
           /\ OldEnded(m) \/ UNCHANGED <<oldActiveInstanceIds, instancesStarted, adds>>
  <1> DEFINE c == [type |-> "CheckFinished"]
  <1>1. c \in Message
    BY DEF Message
  <1>2. mailbox \in Seq(Message) /\ mailbox # <<>>
    BY DEF TypeOK, Receive
  <1>3. /\ Tail(mailbox) \in Seq(Message)
        /\ \A k \in DOMAIN Tail(mailbox) :
              k \in Nat /\ k + 1 \in DOMAIN mailbox /\ Tail(mailbox)[k] = mailbox[k + 1]
    <2>1. Tail(mailbox) \in Seq(Message)
      BY <1>2, ElementsOfTail
    <2>2. \A k \in DOMAIN Tail(mailbox) : k \in Nat
      BY <2>1
    <2> QED BY <1>2, <2>1, <2>2, ElementsOfTail
  <1>4. /\ phase = "initialized"
        /\ UNCHANGED <<conf, tracker, created, maxCapacity, history>>
        /\ UNCHANGED <<toKill, goals>> \/ killNextOldInstance
        /\ OldEnded(m) \/ UNCHANGED <<oldActiveInstanceIds, instancesStarted, adds>>
    BY DEF Receive, trouble, InstanceRuns, InstanceHealthy, InstanceStillHealthy,
           ReadinessCheckResult, OldEnded, CheckFinished, instanceConditionChanged
  <1>5. /\ mailbox' \in {<<>>, Tail(mailbox), Tail(mailbox) \o <<>>, Tail(mailbox) \o <<c>>}
        /\ phase' \in {phase, "finished"}
    BY DEF InstanceRuns, InstanceHealthy, InstanceStillHealthy,
           ReadinessCheckResult, OldEnded, CheckFinished, instanceConditionChanged, goesOn, checkFinished
  <1> HIDE DEF c
  <1>6. Tail(mailbox) \o <<>> = Tail(mailbox) /\ Tail(mailbox) \o <<c>> = Append(Tail(mailbox), c)
    BY <1>1, <1>3
  <1>7. ASSUME NEW k \in DOMAIN mailbox'
        PROVE  \/ k \in Nat /\ k + 1 \in DOMAIN mailbox /\ mailbox'[k] = mailbox[k + 1]
               \/ mailbox'[k] = c
    <2>1. mailbox' # <<>>
      BY <1>7
    <2>2. CASE mailbox' = Tail(mailbox)
      BY <1>3, <1>7, <2>2
    <2>3. CASE mailbox' = Append(Tail(mailbox), c)
      <3>1. \A l \in DOMAIN Append(Tail(mailbox), c) :
               \/ l \in DOMAIN Tail(mailbox) /\ Append(Tail(mailbox), c)[l] = Tail(mailbox)[l]
               \/ Append(Tail(mailbox), c)[l] = c
        BY <1>1, <1>3, ElementsOfAppend
      <3> QED BY <1>3, <1>7, <2>3, <3>1
    <2> QED BY <1>5, <1>6, <2>1, <2>2, <2>3
  <1> QED BY <1>4, <1>5, <1>7 DEF c

(* The next old instance is killed, or none.                               *)
LEMMA KillsMoved ==
    ASSUME TypeOK, KillsQuiet, tracker' = tracker, UNCHANGED <<toKill, goals>> \/ killNextOldInstance
    PROVE  KillsQuiet'
  <1>1. CASE UNCHANGED <<toKill, goals>>
    BY <1>1 DEF KillsQuiet, isOld, wanted, exists
  <1>2. CASE killNextOldInstance /\ toKill = <<>>
    BY <1>1, <1>2 DEF killNextOldInstance
  <1>3. CASE killNextOldInstance /\ toKill # <<>>
    <2>1. toKill \in Seq(Ids) /\ toKill' = Tail(toKill) /\ goals' = goals \cup kill({Head(toKill)})
      BY <1>3 DEF TypeOK, killNextOldInstance
    <2>2. /\ 1 \in DOMAIN toKill /\ Head(toKill) = toKill[1]
          /\ \A k \in DOMAIN toKill' : k \in Int /\ k + 1 \in DOMAIN toKill /\ toKill'[k] = toKill[k + 1]
                                       /\ k + 1 # 1
      <3>1. \A k \in DOMAIN Tail(toKill) : k \in Nat \ {0}
        BY <1>3, <2>1
      <3>2. \A k \in Nat \ {0} : k \in Int /\ k + 1 # 1
        OBVIOUS
      <3> QED BY <1>3, <2>1, <3>1, <3>2, ElementsOfTail
    <2>3. \A g \in kill({Head(toKill)}) : g.id = toKill[1]
      BY <2>2 DEF kill
    <2>4. \A k, l \in DOMAIN toKill : toKill[k] = toKill[l] => k = l
      BY DEF KillsQuiet
    <2>5. /\ \A g \in goals : isOld(g.id) /\ wanted(g.id)
          /\ \A k \in DOMAIN toKill :
                /\ isOld(toKill[k]) /\ wanted(toKill[k])
                /\ \A g \in goals : g.id # toKill[k]
      BY DEF KillsQuiet
    <2>6. \A g \in goals' : isOld(g.id) /\ wanted(g.id)
      BY <2>1, <2>2, <2>3, <2>5
    <2>7. \A k \in DOMAIN toKill' :
             /\ isOld(toKill'[k]) /\ wanted(toKill'[k])
             /\ \A g \in goals' : g.id # toKill'[k]
      <3> SUFFICES ASSUME NEW k \in DOMAIN toKill'
                   PROVE  /\ isOld(toKill'[k]) /\ wanted(toKill'[k])
                          /\ \A g \in goals' : g.id # toKill'[k]
        OBVIOUS
      <3>1. PICK l \in DOMAIN toKill : toKill'[k] = toKill[l] /\ l # 1
        BY <2>2
      <3>2. isOld(toKill[l]) /\ wanted(toKill[l]) /\ \A g \in goals : g.id # toKill[l]
        BY <2>5
      <3>3. toKill[1] # toKill[l]
        BY <2>2, <2>4, <3>1
      <3>4. \A g \in goals' : g.id # toKill[l]
        BY <2>1, <2>3, <3>2, <3>3
      <3> QED BY <3>1, <3>2, <3>4
    <2>8. \A k, l \in DOMAIN toKill' : toKill'[k] = toKill'[l] => k = l
      <3> SUFFICES ASSUME NEW k \in DOMAIN toKill', NEW l \in DOMAIN toKill', toKill'[k] = toKill'[l]
                   PROVE  k = l
        OBVIOUS
      <3>1. k \in Int /\ l \in Int /\ k + 1 = l + 1
        BY <2>2, <2>4
      <3> QED BY <3>1
    <2> QED BY <2>6, <2>7, <2>8 DEF KillsQuiet, isOld, wanted, exists
  <1> QED BY <1>1, <1>2, <1>3

(* What is started when an old instance has ended fits.                    *)
LEMMA StartFits ==
    ASSUME conf \in Upgrades, NEW started \in Int, NEW old \in SUBSET Ids, NEW capacity \in Nat,
           NEW n, n = instancesToStartNow(started, old, capacity)
    PROVE  /\ n \in Nat
           /\ n = 0 \/ Cardinality(old) + started + n <= capacity
  <1>1. conf.instances \in Nat /\ Cardinality(old) \in Nat
    BY CapacitiesAreNat, CountsAreNat
  <1> QED BY <1>1 DEF instancesToStartNow, min, max

LEMMA ReceiveQuiet ==
    ASSUME TypeOK, Known, history = {}, FirstQuiet, NewQuiet, KillsQuiet, CapacityQuiet, Receive
    PROVE  FirstQuiet' /\ NewQuiet' /\ KillsQuiet' /\ CapacityQuiet'
  <1>1. PICK m \in Message :
              \/ InstanceRuns(m) \/ InstanceHealthy(m) \/ InstanceStillHealthy(m)
              \/ ReadinessCheckResult(m) \/ OldEnded(m) \/ CheckFinished(m)
    BY Heeded
  <1>2. /\ \A k \in DOMAIN mailbox' :
              \/ k \in Nat /\ k + 1 \in DOMAIN mailbox /\ mailbox'[k] = mailbox[k + 1]
              \/ mailbox'[k] = [type |-> "CheckFinished"]
        /\ UNCHANGED <<conf, tracker, created, maxCapacity>>
        /\ phase = "initialized" /\ phase' # "initializing"
        /\ UNCHANGED <<toKill, goals>> \/ killNextOldInstance
        /\ OldEnded(m) \/ UNCHANGED <<oldActiveInstanceIds, instancesStarted, adds>>
    BY <1>1, Handled
  <1>3. FirstQuiet' /\ KillsQuiet'
    BY <1>2, KillsMoved DEF FirstQuiet
  <1>4. NewQuiet'
    <2>1. \A k \in DOMAIN mailbox' : NewMessageOK(mailbox'[k])
      BY <1>2 DEF NewQuiet, NewMessageOK
    <2>2. \A k \in DOMAIN mailbox' : NewMessageOK(mailbox[k])'
      BY <2>1 DEF NewMessageOK
    <2> QED BY <1>2, <2>2 DEF NewQuiet, isNew, wanted, exists
  <1>5. CapacityQuiet'
    <2>1. New' = New
      BY <1>2 DEF New, isNew, exists
    <2>2. CASE UNCHANGED <<oldActiveInstanceIds, instancesStarted, adds>>
      BY <1>2, <2>1, <2>2 DEF CapacityQuiet, max
    <2>3. CASE OldEnded(m)
      <3> DEFINE old == oldActiveInstanceIds \ {m.id}
                 n == instancesToStartNow(instancesStarted, old, maxCapacity)
                 most == max(maxCapacity, conf.existing)
      <3>1. /\ oldActiveInstanceIds' = old /\ instancesStarted' = instancesStarted + n
            /\ adds' = adds \o add(n, "CheckFinished")
        BY <2>3 DEF OldEnded
      <3>2. /\ conf \in Upgrades /\ instancesStarted \in Int /\ maxCapacity \in Nat
            /\ oldActiveInstanceIds \in SUBSET Ids /\ old \in SUBSET Ids /\ conf.existing \in Nat
        BY TaskReplaceAssumption DEF TypeOK
      <3>3. n \in Nat /\ (n = 0 \/ Cardinality(old) + instancesStarted + n <= maxCapacity)
        BY <3>2, StartFits
      <3>4. /\ Cardinality(old) \in Nat /\ Cardinality(oldActiveInstanceIds) \in Nat
            /\ Cardinality(old) <= Cardinality(oldActiveInstanceIds)
        BY <3>2, CountsAreNat, FS_Subset
      <3>5. /\ Cardinality(oldActiveInstanceIds) + instancesStarted <= most
            /\ Sums(adds, Cardinality(New), instancesStarted)
        BY <1>2 DEF CapacityQuiet
      <3>6. most \in Nat /\ maxCapacity <= most
        BY <3>2 DEF max
      <3> HIDE DEF old, n, most
      <3>7. Cardinality(old) + instancesStarted + n <= most
        BY <3>2, <3>3, <3>4, <3>5, <3>6
      <3>8. Sums(adds', Cardinality(New), instancesStarted + n)
        <4>1. Cardinality(New) \in Nat
          BY CountsAreNat DEF New
        <4> QED BY <3>1, <3>2, <3>3, <3>5, <4>1, SumsAdded
      <3>9. Cardinality(oldActiveInstanceIds') + instancesStarted' <= most
        BY <3>1, <3>2, <3>3, <3>4, <3>7
      <3>10. max(maxCapacity', conf'.existing) = most
        BY <1>2 DEF most, max
      <3> QED BY <2>1, <3>1, <3>8, <3>9, <3>10 DEF CapacityQuiet, max
    <2> QED BY <1>2, <2>2, <2>3
  <1> QED BY <1>3, <1>4, <1>5

LEMMA InitializeQuiet ==
    ASSUME TypeOK, Known, history = {}, FirstQuiet, NewQuiet, KillsQuiet, CapacityQuiet, Initialize
    PROVE  FirstQuiet' /\ NewQuiet' /\ KillsQuiet' /\ CapacityQuiet'
  <1> DEFINE old == {i \in Ids : isOld(i) /\ wanted(i)}
             started == {i \in Ids : isNew(i)}
             n == instancesToStartNow(Cardinality(started), old, startingCapacity)
  <1>1. /\ phase = "initializing" /\ phase' # "initializing"
        /\ maxCapacity' = startingCapacity
        /\ oldActiveInstanceIds' = old
        /\ instancesStarted' = Cardinality(started) + n
        /\ adds' = adds \o add(n, "Done")
        /\ mailbox' \in {<<>>, mailbox}
        /\ UNCHANGED <<conf, tracker, created>>
    BY DEF Initialize
  <1>2. PICK q \in toKillOrdered(old) :
          LET k == min(nrToKillImmediately, Len(q))
          IN  /\ toKill' = SubSeq(q, k + 1, Len(q))
              /\ goals' = goals \cup kill(ToSet(SubSeq(q, 1, k)))
    BY DEF Initialize
  <1>3. /\ adds = <<>> /\ goals = {} /\ mailbox = <<>>
        /\ \A i \in Ids : /\ exists(i) <=> i <= conf.existing
                          /\ exists(i) => isOld(i) /\ wanted(i)
    BY <1>1 DEF FirstQuiet
  <1>4. conf \in Upgrades /\ old \in SUBSET Ids /\ started \in SUBSET Ids /\ conf.existing \in 0..MaxInstances
    BY TaskReplaceAssumption DEF TypeOK
  <1>5. started = {} /\ Cardinality(started) = 0 /\ New = {} /\ New' = {}
    BY <1>1, <1>3, FS_EmptySet DEF isNew, isOld, New, exists
  <1>6. old = 1..conf.existing /\ Cardinality(old) = conf.existing
    <2>1. \A i \in Ids : i \in old <=> i <= conf.existing
      BY <1>3 DEF isOld
    <2>2. old = 1..conf.existing
      BY <1>4, <2>1, TaskReplaceAssumption DEF Ids
    <2>3. conf.existing \in Nat /\ conf.existing \in Int
      BY <1>4, TaskReplaceAssumption
    <2>4. \A a, b \in Int : Cardinality(a..b) = IF a > b THEN 0 ELSE b - a + 1
      BY FS_Interval
    <2>5. \A b \in Nat : Cardinality(1..b) = b
      <3>1. \A b \in Nat : Cardinality(1..b) = IF 1 > b THEN 0 ELSE b - 1 + 1
        BY <2>4
      <3> QED BY <3>1
    <2> QED BY <2>2, <2>3, <2>5
  <1>7. startingCapacity \in Nat
    BY <1>4, CapacitiesAreNat
  <1> HIDE DEF old, started
  <1>8. n \in Nat /\ (n = 0 \/ Cardinality(old) + 0 + n <= startingCapacity)
    <2>1. n = instancesToStartNow(0, old, startingCapacity)
      BY <1>5
    <2> HIDE DEF n
    <2>2. 0 \in Int /\ n = instancesToStartNow(0, old, startingCapacity)
      BY <2>1
    <2> QED BY <1>4, <1>7, <2>2, StartFits
  <1> HIDE DEF n
  <1>9. KillsQuiet'
    <2> DEFINE k == min(nrToKillImmediately, Len(q))
    <2>1. Len(q) = Cardinality(old)
      BY <1>2, <1>4, <1>6, KillOrder, KillCountIsNat
    <2>2. k \in Nat /\ k <= Len(q)
      BY <1>4, <1>6, <2>1, KillCountIsNat DEF min
    <2>3. toKill' = SubSeq(q, k + 1, Len(q)) /\ goals' = kill(ToSet(SubSeq(q, 1, k)))
      BY <1>2, <1>3
    <2> HIDE DEF k
    <2>4. /\ \A i \in ToSet(SubSeq(q, 1, k)) : \E j \in 1..k : j \in DOMAIN q /\ i = q[j]
          /\ \A l \in DOMAIN SubSeq(q, k + 1, Len(q)) :
                k + l \in DOMAIN q /\ SubSeq(q, k + 1, Len(q))[l] = q[k + l] /\ l > 0 /\ l \in Nat
          /\ \A l \in DOMAIN q : q[l] \in old
          /\ \A l, j \in DOMAIN q : q[l] = q[j] => l = j
      BY <1>4, <2>2, KillOrder
    <2>5. \A g \in goals' : \E j \in 1..k : j \in DOMAIN q /\ g.id = q[j]
      BY <2>3, <2>4 DEF kill
    <2>6. \A l \in DOMAIN toKill' : k + l \in DOMAIN q /\ toKill'[l] = q[k + l] /\ l > 0 /\ l \in Nat
      BY <2>3, <2>4
    <2>7. \A i \in old : i \in Ids /\ isOld(i)' /\ wanted(i)'
      BY <1>1 DEF old, isOld, wanted, exists
    <2>8. \A g \in goals' : isOld(g.id)' /\ wanted(g.id)'
      BY <2>4, <2>5, <2>7
    <2>9. ASSUME NEW l \in DOMAIN toKill'
          PROVE  /\ isOld(toKill[l])' /\ wanted(toKill[l])'
                 /\ \A g \in goals' : g.id # toKill'[l]
      <3>1. PICK i \in old : i = toKill'[l] /\ i = q[k + l] /\ k + l \in DOMAIN q /\ l > 0 /\ l \in Nat
        BY <2>4, <2>6
      <3>2. isOld(toKill[l])' /\ wanted(toKill[l])'
        BY <2>7, <3>1 DEF isOld, wanted, exists
      <3>3. ASSUME NEW g \in goals', g.id = i PROVE FALSE
        <4>1. PICK j \in 1..k : j \in DOMAIN q /\ g.id = q[j]
          BY <2>5
        <4>2. j = k + l
          BY <2>4, <3>1, <3>3, <4>1
        <4> QED BY <2>2, <3>1, <4>1, <4>2
      <3> QED BY <3>1, <3>2, <3>3
    <2>10. \A l, j \in DOMAIN toKill' : toKill'[l] = toKill'[j] => l = j
      <3> SUFFICES ASSUME NEW l \in DOMAIN toKill', NEW j \in DOMAIN toKill', toKill'[l] = toKill'[j]
                   PROVE  l = j
        OBVIOUS
      <3>1. k + l = k + j /\ l \in Nat /\ j \in Nat
        BY <2>4, <2>6
      <3> QED BY <2>2, <3>1
    <2> QED BY <2>8, <2>9, <2>10 DEF KillsQuiet
  <1>10. NewQuiet'
    <2>1. mailbox' = <<>>
      BY <1>1, <1>3
    <2> QED BY <1>1, <2>1 DEF NewQuiet, isNew, wanted, exists
  <1>11. CapacityQuiet'
    <2>1. Sums(adds, 0, 0)
      BY <1>3, SumsEmpty
    <2>2. Sums(adds', 0, n)
      <3>1. Sums(adds \o add(n, "Done"), 0, 0 + n) /\ 0 + n = n
        BY <1>8, <2>1, SumsAdded
      <3> QED BY <1>1, <3>1
    <2>3. instancesStarted' = n /\ Cardinality(New)' = 0
      BY <1>1, <1>5, <1>8, FS_EmptySet
    <2>4. conf.existing \in Nat /\ conf'.existing = conf.existing
      BY <1>1, <1>4
    <2>5. Cardinality(old) + n <= max(startingCapacity, conf.existing)
      BY <1>6, <1>7, <1>8, <2>4 DEF max
    <2> QED BY <1>1, <2>2, <2>3, <2>4, <2>5 DEF CapacityQuiet, max
  <1>12. FirstQuiet'
    BY <1>1 DEF FirstQuiet
  <1> QED BY <1>9, <1>10, <1>11, <1>12

LEMMA InitQuiet == Init => Quiet
  <1> SUFFICES ASSUME Init PROVE FirstQuiet /\ NewQuiet /\ KillsQuiet /\ CapacityQuiet
    BY DEF Quiet
  <1>1. /\ phase = "initializing" /\ adds = <<>> /\ goals = {} /\ toKill = <<>> /\ mailbox = <<>>
        /\ created = conf.existing
    BY DEF Init
  <1>2. ASSUME NEW i \in Ids
        PROVE  /\ exists(i) <=> i <= conf.existing
               /\ exists(i) => isOld(i) /\ wanted(i)
    <2>1. CASE i <= conf.existing
      <3>1. PICK x \in Instance : tracker[i] = x /\ x.old /\ x.goal = "Running"
        <4>1. (conf.hasHealthChecks /\ i > conf.waiting) \in BOOLEAN
          BY TaskReplaceAssumption DEF Init
        <4>2. \A c \in {"scheduled", "running"}, h \in BOOLEAN :
                 [old |-> TRUE, goal |-> "Running", cond |-> c, healthy |-> h] \in Instance
          BY DEF Instance
        <4>3. \E c \in {"scheduled", "running"}, h \in BOOLEAN :
                 tracker[i] = [old |-> TRUE, goal |-> "Running", cond |-> c, healthy |-> h]
          BY <2>1, <4>1 DEF Init
        <4> QED BY <4>2, <4>3
      <3>2. tracker[i] # None
        BY <3>1, NoneAssumption
      <3> QED BY <2>1, <3>1, <3>2 DEF exists, isOld, wanted
    <2>2. CASE ~ (i <= conf.existing)
      BY <2>2 DEF Init, exists
    <2> QED BY <2>1, <2>2
  <1>3. \A i \in Ids : i > conf.existing => ~ (i <= conf.existing)
    BY TaskReplaceAssumption DEF Init, Ids
  <1>4. FirstQuiet
    BY <1>1, <1>2 DEF FirstQuiet
  <1>5. NewQuiet
    <2>1. \A i \in Ids : i > created => ~ exists(i)
      BY <1>1, <1>2, <1>3
    <2>2. \A i \in Ids : ~ isNew(i)
      BY <1>2 DEF isNew, isOld
    <2>3. DOMAIN mailbox = {}
      BY <1>1
    <2> QED BY <2>1, <2>2, <2>3 DEF NewQuiet
  <1>6. KillsQuiet /\ CapacityQuiet
    BY <1>1 DEF KillsQuiet, CapacityQuiet
  <1> QED BY <1>4, <1>5, <1>6

LEMMA NextQuiet == TypeOK /\ Known /\ Quiet /\ [Next]_vars => Quiet'
  <1> SUFFICES ASSUME TypeOK, Known, Quiet, [Next]_vars, history' = {}
               PROVE  FirstQuiet' /\ NewQuiet' /\ KillsQuiet' /\ CapacityQuiet'
    BY DEF Quiet
  <1>1. /\ history = {}
        /\ \/ Initialize
           \/ Receive
           \/ \E g \in goals : SetGoal(g)
           \/ \E i \in Ids : TaskRuns(i) \/ TaskKilled(i) \/ BecomesHealthy(i) \/ BecomesReady(i)
           \/ AddDone
           \/ UNCHANGED vars
    BY QuietSteps
  <1>2. FirstQuiet /\ NewQuiet /\ KillsQuiet /\ CapacityQuiet
    BY <1>1 DEF Quiet
  <1>3. CASE UNCHANGED vars
    <2>1. UNCHANGED <<conf, tracker, created, phase, maxCapacity, oldActiveInstanceIds, toKill,
                      instancesStarted, mailbox, goals, adds>>
      BY <1>3 DEF vars, state
    <2>2. FirstQuiet' /\ NewQuiet' /\ KillsQuiet'
      BY <1>2, <2>1 DEF FirstQuiet, NewQuiet, NewMessageOK, KillsQuiet, exists, isOld, isNew, wanted
    <2>3. New' = New
      BY <2>1 DEF New, isNew, exists
    <2>4. CapacityQuiet'
      BY <1>2, <2>1, <2>3 DEF CapacityQuiet, max
    <2> QED BY <2>2, <2>4
  <1> QED BY <1>1, <1>2, <1>3, InitializeQuiet, ReceiveQuiet, WorldQuiet, AddDoneQuiet

LEMMA QuietIsKept == TypeOK /\ Known /\ Quiet => CapacityKept
  <1> SUFFICES ASSUME TypeOK, Known, Quiet, history = {}, phase # "initializing"
               PROVE  Count(LAMBDA i : wanted(i) \/ isRunning(i)) <= max(maxCapacity, conf.existing)
    BY DEF CapacityKept
  <1> DEFINE held == {i \in Ids : wanted(i) \/ isRunning(i)}
             most == max(maxCapacity, conf.existing)
  <1>1. Started
    BY DEF TypeOK, Started, Known, FirstOK, Calm
  <1>2. \A g \in goals : ~ g.awaited
    BY DEF Known, CallsOK
  <1>3. held \subseteq oldActiveInstanceIds \cup New
    <2> SUFFICES ASSUME NEW i \in Ids, wanted(i) \/ isRunning(i), ~ isNew(i)
                 PROVE  i \in oldActiveInstanceIds
      BY DEF New
    <2>1. isOld(i)
      BY DEF isNew, isOld, wanted, isRunning
    <2>2. /\ wanted(i) => \/ i \in oldActiveInstanceIds
                          \/ [id |-> i, awaited |-> TRUE] \in goals
                          \/ {"task", "goal"} \subseteq history
          /\ isRunning(i) => i \in oldActiveInstanceIds \/ ~ Calm
      BY <1>1, <2>1 DEF Known, KnownOK
    <2>3. [id |-> i, awaited |-> TRUE] \notin goals
      BY <1>2
    <2> QED BY <2>2, <2>3 DEF Calm
  <1>4. /\ oldActiveInstanceIds \in SUBSET Ids /\ New \in SUBSET Ids
        /\ maxCapacity \in Nat /\ conf.existing \in Nat /\ instancesStarted \in Int /\ adds \in Seq(Adds)
    BY TaskReplaceAssumption DEF TypeOK, New, Adds
  <1>5. /\ Cardinality(oldActiveInstanceIds) + instancesStarted <= most
        /\ Sums(adds, Cardinality(New), instancesStarted)
    BY DEF Quiet, CapacityQuiet
  <1>6. /\ Cardinality(oldActiveInstanceIds) \in Nat /\ Cardinality(New) \in Nat
        /\ held \in SUBSET Ids /\ oldActiveInstanceIds \cup New \in SUBSET Ids
    BY <1>4, CountsAreNat
  <1>7. Cardinality(New) <= instancesStarted
    BY <1>4, <1>5, <1>6, SumsBound
  <1> HIDE DEF held
  <1>8. Cardinality(held) <= Cardinality(oldActiveInstanceIds \cup New)
    BY <1>3, <1>6, CountsAreNat, FS_Subset
  <1>9. /\ Cardinality(held) \in Nat /\ Cardinality(oldActiveInstanceIds \cup New) \in Nat
        /\ Cardinality(oldActiveInstanceIds \cup New) <= Cardinality(oldActiveInstanceIds) + Cardinality(New)
    BY <1>4, <1>6, CountsAreNat, UnionCount
  <1>10. most \in Nat
    BY <1>4 DEF max
  <1> HIDE DEF most
  <1>11. Cardinality(held) <= most
    BY <1>4, <1>5, <1>6, <1>7, <1>8, <1>9, <1>10
  <1> QED BY <1>11 DEF Count, held, most

(***************************************************************************)
(* As long as nothing goes wrong, there are never more tasks, or instances *)
(* about to be launched, than maximumOverCapacity allows, or than there    *)
(* were when the replacement began.                                        *)
(***************************************************************************)
THEOREM CapacityCorrect == Spec => []CapacityKept
  <1>1. Init => TypeOK /\ Known /\ Quiet
    BY InitType, KnownInit, InitQuiet
  <1>2. TypeOK /\ Known /\ Quiet /\ [Next]_vars => TypeOK' /\ Known' /\ Quiet'
    BY NextType, KnownNext, NextQuiet
  <1>3. TypeOK /\ Known /\ Quiet => CapacityKept
    BY QuietIsKept
  <1> QED BY <1>1, <1>2, <1>3, PTL DEF Spec

-----------------------------------------------------------------------------
(***************************************************************************)
(* The instances that are up, as long as nothing goes wrong.               *)
(***************************************************************************)
oldMessage(m) == m.type = "InstanceChanged" /\ m.old
newMessage(m) == m.type = "InstanceChanged" /\ ~ m.old
readyMessage(m) == m.type = "ReadinessCheckResult"
aboutNew(m) == newMessage(m) \/ readyMessage(m) \/ m.type = "InstanceHealthy"

sacrifice == IF conf.isResident /\ minHealthy = mostInstances THEN 1 ELSE 0
leastUp == min(minHealthy, conf.existing) - sacrifice

(* An old instance is up until it is killed.                               *)
OldUp == \A i \in Ids : isOld(i) /\ wanted(i) => up(i)

(* The instances that the actor counts or watches are new ones that run.   *)
NewUp ==
    /\ \A i \in healthy : isNew(i) /\ isRunning(i) /\ (conf.hasHealthChecks => tracker[i].healthy)
    /\ \A i \in ready : isNew(i) /\ isRunning(i)
    /\ \A i \in subscriptions : isNew(i) /\ isRunning(i) /\ conf.hasReadinessChecks /\ i \notin ready

(* The actor hears of an old instance when it has been killed, and of a    *)
(* new one that it does not count yet when it runs, when it is healthy and *)
(* when it is ready.                                                       *)
HeardOK(m) ==
    /\ oldMessage(m) => m.id \notin healthy \cup ready \cup subscriptions
    /\ newMessage(m) => /\ isNew(m.id) /\ isRunning(m.id) /\ m.id \notin subscriptions
                        /\ m.id \in healthy => conf.hasHealthChecks
                        /\ m.id \in ready => ~ conf.hasReadinessChecks
    /\ m.type = "InstanceHealthy" => /\ isNew(m.id) /\ isRunning(m.id)
                                     /\ conf.hasHealthChecks /\ tracker[m.id].healthy
    /\ readyMessage(m) => m.id \in subscriptions

(* What was sent before m, of which some may be about the same instance.   *)
SentBefore(n, m) ==
    /\ oldMessage(m) /\ aboutNew(n) => n.id # m.id
    /\ newMessage(n) /\ newMessage(m) => n.id # m.id
    /\ readyMessage(n) /\ readyMessage(m) => n.id # m.id

HeardUp ==
    /\ \A k \in DOMAIN mailbox : HeardOK(mailbox[k])
    /\ \A k, l \in DOMAIN mailbox : k < l => SentBefore(mailbox[k], mailbox[l])

(* For every new instance that it counts the actor kills one old instance  *)
(* at most.                                                                *)
EnoughUp ==
    phase # "initializing" => Len(toKill) + Cardinality(healthy \cap ready) >= leastUp

AllUp == history = {} /\ conf.waiting = 0 => OldUp /\ NewUp /\ HeardUp /\ EnoughUp

LEMMA LeastIsInt ==
    ASSUME conf \in Upgrades
    PROVE  /\ leastUp \in Int /\ sacrifice \in 0..1 /\ conf.existing \in 0..MaxInstances
           /\ minHealthy <= conf.instances /\ conf.instances \in Nat /\ minHealthy \in Nat
  <1>1. /\ conf.instances \in Nat /\ conf.minimumHealthCapacity \in 0..10
        /\ minHealthy \in Nat /\ conf.existing \in 0..MaxInstances
    BY TaskReplaceAssumption, CapacitiesAreNat
  <1>2. \A a \in Nat, b \in 0..10 : a * b \in Nat /\ a * b <= 10 * a
    <2> SUFFICES ASSUME NEW a \in Nat, NEW b \in 0..10
                 PROVE  a * b \in Nat /\ a * b <= 10 * a
      OBVIOUS
    <2>1. b \in {0, 1, 2, 3, 4, 5, 6, 7, 8, 9, 10}
      OBVIOUS
    <2> QED BY <2>1
  <1>3. PICK p \in Nat : p = conf.instances * conf.minimumHealthCapacity /\ p <= 10 * conf.instances
    BY <1>1, <1>2
  <1>4. minHealthy <= conf.instances
    <2>1. minHealthy = (p + 9) \div 10
      BY <1>3 DEF minHealthy
    <2> QED BY <1>1, <1>3, <2>1
  <1>5. sacrifice \in 0..1
    BY DEF sacrifice
  <1>6. leastUp \in Int
    BY <1>1, <1>5, TaskReplaceAssumption DEF leastUp, min
  <1> QED BY <1>1, <1>4, <1>5, <1>6

(* How many of the instances may be killed at once.                        *)
LEMMA KillsLeaveEnough ==
    ASSUME conf \in Upgrades, Count(exists) = conf.existing
    PROVE  conf.existing - min(nrToKillImmediately, conf.existing) >= leastUp
  <1> DEFINE c == consideredHealthyInstancesCount
             killed == IF noRoom /\ conf.isResident THEN c - minHealthy + 1 ELSE max(0, c - minHealthy)
             extra == conf.existing - conf.instances
  <1>1. nrToKillImmediately = max(extra, killed)
    BY DEF nrToKillImmediately
  <1>2. c \in Nat /\ c <= conf.existing
    <2> DEFINE S == {i \in Ids : wanted(i) /\ consideredHealthy(i)}
               T == {i \in Ids : exists(i)}
    <2>1. S \subseteq T /\ S \in SUBSET Ids /\ T \in SUBSET Ids
      BY DEF wanted
    <2>2. Cardinality(S) \in Nat /\ Cardinality(S) <= Cardinality(T)
      BY <2>1, CountsAreNat, FS_Subset
    <2>3. c = Cardinality(S) /\ conf.existing = Cardinality(T)
      BY DEF consideredHealthyInstancesCount, Count
    <2> QED BY <2>2, <2>3
  <1> HIDE DEF c
  <1>3. /\ minHealthy \in Nat /\ conf.instances \in Nat /\ minHealthy <= conf.instances
        /\ sacrifice \in 0..1 /\ conf.existing \in Nat
    BY LeastIsInt, TaskReplaceAssumption
  <1>4. /\ noRoom => minHealthy <= c
        /\ noRoom /\ conf.isResident => sacrifice = 1
    BY DEF noRoom, sacrifice, c
  <1>5. killed \in Nat /\ killed <= max(0, c - minHealthy) + sacrifice
    BY <1>2, <1>3, <1>4 DEF max
  <1> HIDE DEF killed
  <1>6. extra \in Int
    BY <1>3
  <1>7. max(extra, killed) <= conf.existing - leastUp
    BY <1>2, <1>3, <1>5 DEF max, min, leastUp
  <1>8. leastUp <= conf.existing
    BY <1>3 DEF leastUp, min
  <1>9. leastUp \in Int /\ nrToKillImmediately \in Nat
    BY LeastIsInt, KillCountIsNat
  <1> HIDE DEF extra
  <1> QED BY <1>1, <1>3, <1>7, <1>9 DEF min

LEMMA MessageIds == \A m \in Message : oldMessage(m) \/ aboutNew(m) => m.id \in Ids
  BY DEF Message, oldMessage, aboutNew, newMessage, readyMessage

(* The running new instances go on, and the actor hears of a change.       *)
LEMMA WorldUp ==
    ASSUME TypeOK, NewUp, HeardUp, EnoughUp,
           UNCHANGED <<conf, state>>, phase' # "initializing" => phase # "initializing",
           \A j \in Ids : isNew(j) /\ isRunning(j) =>
              isNew(j)' /\ isRunning(j)' /\ (tracker[j].healthy => tracker'[j].healthy),
           NEW m \in Message, MailboxGrows(m),
           mailbox' = mailbox \/ (HeardOK(m)' /\ \A k \in DOMAIN mailbox : SentBefore(mailbox[k], m))
    PROVE  NewUp' /\ HeardUp' /\ EnoughUp'
  <1>1. /\ UNCHANGED <<conf, toKill, healthy, ready, subscriptions>>
        /\ healthy \subseteq Ids /\ ready \subseteq Ids /\ subscriptions \subseteq Ids
        /\ mailbox \in Seq(Message)
    BY DEF state, TypeOK
  <1>2. NewUp'
    BY <1>1 DEF NewUp
  <1>3. ASSUME NEW n \in Message, HeardOK(n) PROVE HeardOK(n)'
    <2>1. oldMessage(n)' = oldMessage(n) /\ newMessage(n)' = newMessage(n) /\ readyMessage(n)' = readyMessage(n)
      BY DEF oldMessage, newMessage, readyMessage
    <2>2. newMessage(n) \/ n.type = "InstanceHealthy" => n.id \in Ids
      BY MessageIds DEF aboutNew
    <2> QED BY <1>1, <1>3, <2>1, <2>2 DEF HeardOK
  <1>4. ASSUME NEW k \in DOMAIN mailbox' PROVE HeardOK(mailbox[k])'
    <2>1. CASE k \in DOMAIN mailbox /\ mailbox'[k] = mailbox[k]
      <3>1. PICK n \in Message : n = mailbox[k] /\ n = mailbox'[k] /\ HeardOK(n)
        BY <1>1, <2>1 DEF HeardUp
      <3>2. HeardOK(n)'
        BY <1>3, <3>1
      <3> QED BY <3>1, <3>2 DEF HeardOK, oldMessage, newMessage, readyMessage
    <2>2. CASE k \notin DOMAIN mailbox /\ mailbox'[k] = m
      <3>1. HeardOK(m)'
        BY <1>4, <2>2
      <3> QED BY <2>2, <3>1 DEF HeardOK, oldMessage, newMessage, readyMessage
    <2> QED BY <1>4, <2>1, <2>2 DEF MailboxGrows
  <1>5. ASSUME NEW k \in DOMAIN mailbox', NEW l \in DOMAIN mailbox', k < l
        PROVE  SentBefore(mailbox'[k], mailbox'[l])
    <2>1. \A j \in DOMAIN mailbox' :
             \/ j \in DOMAIN mailbox /\ j \in Int /\ mailbox'[j] = mailbox[j]
             \/ /\ j \in Int /\ (\A i \in DOMAIN mailbox : i \in Int /\ i < j) /\ j = Len(mailbox) + 1
                /\ mailbox'[j] = m /\ j \notin DOMAIN mailbox
      BY <1>1 DEF MailboxGrows
    <2>2. k \in DOMAIN mailbox /\ k \in Int /\ l \in Int /\ mailbox'[k] = mailbox[k]
      BY <1>5, <2>1
    <2>3. CASE l \in DOMAIN mailbox /\ mailbox'[l] = mailbox[l]
      BY <1>5, <2>2, <2>3 DEF HeardUp
    <2>4. CASE l \notin DOMAIN mailbox /\ mailbox'[l] = m
      BY <2>2, <2>4
    <2> QED BY <2>1, <2>3, <2>4
  <1>6. \A k, l \in DOMAIN mailbox' : k < l => SentBefore(mailbox[k], mailbox[l])'
    BY <1>5 DEF SentBefore, oldMessage, aboutNew, newMessage, readyMessage
  <1>7. HeardUp'
    BY <1>4, <1>6 DEF HeardUp
  <1>8. EnoughUp'
    BY <1>1 DEF EnoughUp, leastUp, sacrifice, minHealthy, mostInstances, min
  <1> QED BY <1>2, <1>7, <1>8

(* Where nothing is sent.                                                  *)
LEMMA NothingHeard ==
    ASSUME mailbox' = mailbox
    PROVE  \E m \in Message : MailboxGrows(m)
  <1>1. [type |-> "CheckFinished"] \in Message
    BY DEF Message
  <1> QED BY <1>1 DEF MailboxGrows

LEMMA SetGoalUp ==
    ASSUME TypeOK, Known, KillsQuiet, history = {}, OldUp, NewUp, HeardUp, EnoughUp,
           NEW g \in goals, SetGoal(g)
    PROVE  OldUp' /\ NewUp' /\ HeardUp' /\ EnoughUp'
  <1> DEFINE i == g.id
  <1>1. /\ i \in Ids /\ isOld(i) /\ wanted(i)
        /\ \A j \in Ids : j # i => tracker'[j] = tracker[j]
        /\ ~ wanted(i)' /\ (isRunning(i) => mailbox' = mailbox)
        /\ UNCHANGED <<conf, created, phase, state, adds>>
    BY SetGoalQuiet
  <1> HIDE DEF i
  <1>2. mailbox' = mailbox
    BY <1>1 DEF OldUp, up
  <1>3. PICK m \in Message : MailboxGrows(m)
    BY <1>2, NothingHeard
  <1>4. \A j \in Ids : isNew(j) /\ isRunning(j) =>
              isNew(j)' /\ isRunning(j)' /\ (tracker[j].healthy => tracker'[j].healthy)
    <2>1. ~ isNew(i)
      BY <1>1 DEF isNew, isOld
    <2> QED BY <1>1, <2>1 DEF isNew, isRunning, exists
  <1>5. OldUp'
    BY <1>1 DEF OldUp, up, isOld, wanted, isRunning, exists
  <1> QED BY <1>1, <1>2, <1>3, <1>4, <1>5, WorldUp

LEMMA TaskRunsUp ==
    ASSUME TypeOK, OldUp, NewUp, HeardUp, EnoughUp, NEW i \in Ids, TaskRuns(i)
    PROVE  OldUp' /\ NewUp' /\ HeardUp' /\ EnoughUp'
  <1>1. /\ wanted(i) /\ ~ isRunning(i)
        /\ \A j \in Ids : j # i => tracker'[j] = tracker[j]
        /\ exists(i)' /\ wanted(i)' /\ isRunning(i)'
        /\ tracker'[i].old = tracker[i].old
        /\ UNCHANGED <<conf, created, phase, state, goals, adds>>
    BY TaskRunsQuiet
  <1>2. PICK m \in Message :
                 /\ m.type = "InstanceChanged" /\ m.old = tracker[i].old /\ m.id = i
                 /\ m.cond = "running" /\ m.goal = "Running"
                 /\ MailboxGrows(m)
    BY TaskRunsQuiet
  <1>3. ~ tracker[i].old /\ isNew(i)'
    <2>1. ~ isOld(i) /\ exists(i)
      BY <1>1 DEF OldUp, up, wanted
    <2>2. ~ tracker[i].old
      BY <2>1 DEF isOld
    <2> QED BY <1>1, <2>2 DEF isNew
  <1>4. OldUp'
    BY <1>1, <1>3 DEF OldUp, up, isOld, isNew, wanted, isRunning, exists
  <1>5. \A j \in Ids : isNew(j) /\ isRunning(j) =>
              isNew(j)' /\ isRunning(j)' /\ (tracker[j].healthy => tracker'[j].healthy)
    BY <1>1 DEF isNew, isRunning, exists
  <1>6. i \notin healthy /\ i \notin ready /\ i \notin subscriptions
    BY <1>1 DEF NewUp
  <1>7. newMessage(m) /\ ~ oldMessage(m) /\ ~ readyMessage(m) /\ m.type # "InstanceHealthy"
    BY <1>2, <1>3 DEF newMessage, oldMessage, readyMessage
  <1>8. HeardOK(m)'
    <2>1. /\ newMessage(m)' = newMessage(m) /\ oldMessage(m)' = oldMessage(m)
          /\ readyMessage(m)' = readyMessage(m) /\ m.id = i
      BY <1>2 DEF newMessage, oldMessage, readyMessage
    <2>2. UNCHANGED <<healthy, ready, subscriptions>>
      BY <1>1 DEF state
    <2>3. i \notin healthy' /\ i \notin ready' /\ i \notin subscriptions' /\ isNew(i)' /\ isRunning(i)'
      BY <1>1, <1>3, <1>6, <2>2
    <2> QED BY <1>7, <2>1, <2>3 DEF HeardOK
  <1>9. \A k \in DOMAIN mailbox : SentBefore(mailbox[k], m)
    <2>1. \A k \in DOMAIN mailbox : newMessage(mailbox[k]) => mailbox[k].id # i
      BY <1>1 DEF HeardUp, HeardOK
    <2> QED BY <1>2, <1>7, <2>1 DEF SentBefore
  <1> QED BY <1>1, <1>2, <1>4, <1>5, <1>8, <1>9, WorldUp

LEMMA TaskKilledUp ==
    ASSUME TypeOK, NewQuiet, OldUp, NewUp, HeardUp, EnoughUp, NEW i \in Ids, TaskKilled(i)
    PROVE  OldUp' /\ NewUp' /\ HeardUp' /\ EnoughUp'
  <1>1. /\ ~ wanted(i) /\ isOld(i)
        /\ \A j \in Ids : j # i => tracker'[j] = tracker[j]
        /\ ~ wanted(i)' /\ ~ isNew(i)'
        /\ UNCHANGED <<conf, created, phase, state, goals, adds>>
    BY TaskKilledQuiet
  <1>2. PICK m \in Message :
           m.type = "InstanceChanged" /\ m.old /\ m.id = i /\ MailboxGrows(m)
    BY TaskKilledQuiet
  <1>3. ~ isNew(i)
    BY <1>1 DEF isNew, isOld
  <1>4. OldUp'
    BY <1>1 DEF OldUp, up, isOld, wanted, isRunning, exists
  <1>5. \A j \in Ids : isNew(j) /\ isRunning(j) =>
              isNew(j)' /\ isRunning(j)' /\ (tracker[j].healthy => tracker'[j].healthy)
    BY <1>1, <1>3 DEF isNew, isRunning, exists
  <1>6. i \notin healthy /\ i \notin ready /\ i \notin subscriptions
    BY <1>3 DEF NewUp
  <1>7. oldMessage(m) /\ ~ newMessage(m) /\ ~ readyMessage(m) /\ m.type # "InstanceHealthy"
    BY <1>2 DEF newMessage, oldMessage, readyMessage
  <1>8. HeardOK(m)'
    <2>1. /\ newMessage(m)' = newMessage(m) /\ oldMessage(m)' = oldMessage(m)
          /\ readyMessage(m)' = readyMessage(m) /\ m.id = i
      BY <1>2 DEF newMessage, oldMessage, readyMessage
    <2>2. UNCHANGED <<healthy, ready, subscriptions>>
      BY <1>1 DEF state
    <2> QED BY <1>6, <1>7, <2>1, <2>2 DEF HeardOK
  <1>9. \A k \in DOMAIN mailbox : SentBefore(mailbox[k], m)
    <2>1. \A k \in DOMAIN mailbox : aboutNew(mailbox[k]) => mailbox[k].id # i
      BY <1>3, <1>6 DEF HeardUp, HeardOK, aboutNew
    <2> QED BY <1>2, <1>7, <2>1 DEF SentBefore
  <1> QED BY <1>1, <1>2, <1>4, <1>5, <1>8, <1>9, WorldUp

LEMMA HealthyUp ==
    ASSUME TypeOK, OldUp, NewUp, HeardUp, EnoughUp, NEW i \in Ids, BecomesHealthy(i)
    PROVE  OldUp' /\ NewUp' /\ HeardUp' /\ EnoughUp'
  <1>1. /\ conf.hasHealthChecks
        /\ \A j \in Ids : j # i => tracker'[j] = tracker[j]
        /\ exists(i) /\ exists(i)' /\ isRunning(i) /\ isRunning(i)'
        /\ tracker'[i].old = tracker[i].old /\ tracker'[i].goal = tracker[i].goal
        /\ tracker'[i].healthy
        /\ UNCHANGED <<conf, created, phase, state, goals, adds>>
    BY HealthyQuiet
  <1>2. PICK m \in Message :
           m.type = "InstanceHealthy" /\ m.id = i /\ MailboxGrows(m) /\ (tracker[i].old => mailbox' = mailbox)
    BY HealthyQuiet
  <1>3. OldUp'
    <2>1. ASSUME NEW j \in Ids, isOld(j)', wanted(j)' PROVE up(j)'
      <3>1. CASE j = i
        BY <1>1, <2>1, <3>1 DEF up
      <3>2. CASE j # i
        <4>1. tracker'[j] = tracker[j]
          BY <1>1, <3>2
        <4> QED BY <1>1, <2>1, <4>1 DEF OldUp, up, isOld, wanted, isRunning, exists
      <3> QED BY <3>1, <3>2
    <2> QED BY <2>1 DEF OldUp
  <1>4. \A j \in Ids : isNew(j) /\ isRunning(j) =>
              isNew(j)' /\ isRunning(j)' /\ (tracker[j].healthy => tracker'[j].healthy)
    BY <1>1 DEF isNew, isRunning, exists
  <1>5. CASE tracker[i].old
    BY <1>1, <1>2, <1>3, <1>4, <1>5, WorldUp
  <1>6. CASE ~ tracker[i].old
    <2>1. ~ newMessage(m) /\ ~ oldMessage(m) /\ ~ readyMessage(m)
      BY <1>2 DEF newMessage, oldMessage, readyMessage
    <2>2. HeardOK(m)'
      <3>1. /\ newMessage(m)' = newMessage(m) /\ oldMessage(m)' = oldMessage(m)
            /\ readyMessage(m)' = readyMessage(m) /\ m.id = i
        BY <1>2 DEF newMessage, oldMessage, readyMessage
      <3>2. isNew(i)'
        BY <1>1, <1>6 DEF isNew
      <3> QED BY <1>1, <2>1, <3>1, <3>2 DEF HeardOK
    <2>3. \A k \in DOMAIN mailbox : SentBefore(mailbox[k], m)
      BY <2>1 DEF SentBefore
    <2> QED BY <1>1, <1>2, <1>3, <1>4, <2>2, <2>3, WorldUp
  <1> QED BY <1>5, <1>6

LEMMA ReadyUp ==
    ASSUME TypeOK, OldUp, NewUp, HeardUp, EnoughUp, NEW i \in Ids, BecomesReady(i)
    PROVE  OldUp' /\ NewUp' /\ HeardUp' /\ EnoughUp'
  <1>1. /\ i \in subscriptions
        /\ \A k \in DOMAIN mailbox : ~ (mailbox[k].type = "ReadinessCheckResult" /\ mailbox[k].id = i)
        /\ UNCHANGED <<conf, tracker, created, phase, state, goals, adds>>
    BY ReadyQuiet
  <1>2. PICK m \in Message : m.type = "ReadinessCheckResult" /\ m.id = i /\ MailboxGrows(m)
    BY ReadyQuiet
  <1>3. OldUp'
    BY <1>1 DEF OldUp, up, isOld, wanted, isRunning, exists
  <1>4. \A j \in Ids : isNew(j) /\ isRunning(j) =>
              isNew(j)' /\ isRunning(j)' /\ (tracker[j].healthy => tracker'[j].healthy)
    BY <1>1 DEF isNew, isRunning, exists
  <1>5. ~ newMessage(m) /\ ~ oldMessage(m) /\ readyMessage(m) /\ m.type # "InstanceHealthy"
    BY <1>2 DEF newMessage, oldMessage, readyMessage
  <1>6. HeardOK(m)'
    <2>1. /\ newMessage(m)' = newMessage(m) /\ oldMessage(m)' = oldMessage(m)
          /\ readyMessage(m)' = readyMessage(m) /\ m.id = i
      BY <1>2 DEF newMessage, oldMessage, readyMessage
    <2>2. i \in subscriptions'
      BY <1>1 DEF state
    <2> QED BY <1>5, <2>1, <2>2 DEF HeardOK
  <1>7. \A k \in DOMAIN mailbox : SentBefore(mailbox[k], m)
    BY <1>1, <1>2, <1>5 DEF SentBefore, readyMessage
  <1> QED BY <1>1, <1>2, <1>3, <1>4, <1>6, <1>7, WorldUp

LEMMA AddDoneUp ==
    ASSUME TypeOK, FirstQuiet, NewQuiet, OldUp, NewUp, HeardUp, EnoughUp, AddDone
    PROVE  OldUp' /\ NewUp' /\ HeardUp' /\ EnoughUp'
  <1>1. adds \in Seq(Adds) /\ adds # <<>>
    BY DEF TypeOK, Adds, AddDone
  <1>2. Head(adds) \in Adds
    BY <1>1, ElementsOfTail
  <1> DEFINE n == Head(adds).count
             m == [type |-> "CheckFinished"]
  <1>3. /\ n \in Nat /\ addInstances(n) /\ UNCHANGED <<conf, state>>
        /\ mailbox' = mailbox \/ mailbox' = Append(mailbox, m)
    BY <1>2 DEF AddDone, Adds
  <1>4. phase # "initializing"
    BY <1>1 DEF FirstQuiet
  <1> HIDE DEF n
  <1>5. \A i \in Ids : \/ tracker'[i] = tracker[i]
                       \/ tracker'[i] = Added /\ i \in reusable
                       \/ tracker'[i] = Added /\ created < i
    BY <1>3, AddQuiet
  <1>6. \A i \in Ids : isRunning(i) => i \notin reusable /\ ~ (created < i)
    <2> SUFFICES ASSUME NEW i \in Ids, isRunning(i) PROVE i \notin reusable /\ ~ (created < i)
      OBVIOUS
    <2>1. i \in Int /\ created \in Int
      BY DEF Ids, TypeOK
    <2>2. ~ (i > created)
      BY DEF NewQuiet, isRunning
    <2> QED BY <2>1, <2>2 DEF reusable, isRunning
  <1>7. \A i \in Ids : isNew(i) /\ isRunning(i) =>
              isNew(i)' /\ isRunning(i)' /\ (tracker[i].healthy => tracker'[i].healthy)
    BY <1>5, <1>6 DEF isNew, isRunning, exists
  <1>8. OldUp'
    <2>1. ASSUME NEW i \in Ids, isOld(i)', wanted(i)' PROVE up(i)'
      <3>1. tracker'[i] = tracker[i]
        BY <1>5, <2>1 DEF isOld, Added
      <3> QED BY <1>3, <2>1, <3>1 DEF OldUp, up, isOld, wanted, isRunning, exists
    <2> QED BY <2>1 DEF OldUp
  <1>9. m \in Message /\ ~ newMessage(m) /\ ~ oldMessage(m) /\ ~ readyMessage(m) /\ m.type # "InstanceHealthy"
    BY DEF Message, newMessage, oldMessage, readyMessage
  <1> HIDE DEF m
  <1>10. MailboxGrows(m)
    BY <1>3, <1>9, Appended
  <1>11. HeardOK(m)'
    <2>1. newMessage(m)' = newMessage(m) /\ oldMessage(m)' = oldMessage(m) /\ readyMessage(m)' = readyMessage(m)
      BY DEF newMessage, oldMessage, readyMessage, m
    <2>2. (m.type)' = m.type
      BY DEF m
    <2> QED BY <1>9, <2>1, <2>2 DEF HeardOK
  <1>12. \A k \in DOMAIN mailbox : SentBefore(mailbox[k], m)
    BY <1>9 DEF SentBefore
  <1> QED BY <1>3, <1>4, <1>7, <1>8, <1>9, <1>10, <1>11, <1>12, WorldUp

(* An old instance is killed for a new one that has been counted.          *)
LEMMA EnoughKept ==
    ASSUME TypeOK, phase # "initializing", EnoughUp, conf' = conf, healthy' \subseteq Ids,
           healthy \cap ready \subseteq healthy' \cap ready',
           \/ UNCHANGED toKill
           \/ \E i \in healthy' \cap ready' : i \notin healthy \cap ready /\ killNextOldInstance
    PROVE  EnoughUp'
  <1> DEFINE B == healthy \cap ready
             C == healthy' \cap ready'
  <1>1. B \in SUBSET Ids /\ C \in SUBSET Ids /\ B \subseteq C /\ toKill \in Seq(Ids)
    BY DEF TypeOK
  <1>2. Len(toKill) + Cardinality(B) >= leastUp
    BY DEF EnoughUp
  <1>3. leastUp' = leastUp /\ leastUp \in Int
    <2>1. leastUp' = leastUp
      BY DEF leastUp, sacrifice, minHealthy, mostInstances, min
    <2> QED BY <2>1, LeastIsInt DEF TypeOK
  <1> HIDE DEF B, C
  <1>4. /\ Cardinality(B) \in Nat /\ Cardinality(C) \in Nat /\ Cardinality(B) <= Cardinality(C)
        /\ Len(toKill) \in Nat
    BY <1>1, CountsAreNat, FS_Subset
  <1>5. Len(toKill') \in Nat /\ Len(toKill') + Cardinality(C) >= Len(toKill) + Cardinality(B)
    <2>1. CASE UNCHANGED toKill
      BY <1>4, <2>1
    <2>2. ASSUME NEW i \in C, i \notin B, killNextOldInstance
          PROVE  Len(toKill') \in Nat /\ Len(toKill') + Cardinality(C) >= Len(toKill) + Cardinality(B)
      <3>1. Len(toKill') \in Nat /\ Len(toKill') >= Len(toKill) - 1
        <4>1. CASE toKill = <<>>
          BY <1>1, <1>4, <2>2, <4>1 DEF killNextOldInstance
        <4>2. CASE toKill # <<>>
          <5>1. toKill' = Tail(toKill)
            BY <2>2, <4>2 DEF killNextOldInstance
          <5>2. Len(Tail(toKill)) = Len(toKill) - 1 /\ Len(toKill) > 0
            BY <1>1, <4>2
          <5> QED BY <1>4, <5>1, <5>2
        <4> QED BY <4>1, <4>2
      <3>2. Cardinality(B \cup {i}) = Cardinality(B) + 1
        BY <1>1, <2>2, CountsAreNat, FS_AddElement
      <3>3. Cardinality(B \cup {i}) <= Cardinality(C)
        BY <1>1, <2>2, CountsAreNat, FS_Subset
      <3> QED BY <1>4, <3>1, <3>2, <3>3
    <2>3. UNCHANGED toKill \/ \E i \in C : i \notin B /\ killNextOldInstance
      BY DEF B, C
    <2> QED BY <2>1, <2>2, <2>3
  <1>6. Len(toKill') + Cardinality(C) >= leastUp'
    BY <1>2, <1>3, <1>4, <1>5
  <1> QED BY <1>6 DEF EnoughUp, C

(* The rest of the messages are still right.                               *)
LEMMA HeededUp ==
    ASSUME TypeOK, HeardUp, Receive, 1 \in DOMAIN mailbox, NEW m \in Message, m = mailbox[1],
           \/ InstanceRuns(m) \/ InstanceHealthy(m) \/ InstanceStillHealthy(m)
           \/ ReadinessCheckResult(m) \/ OldEnded(m) \/ CheckFinished(m),
           \A n \in Message : HeardOK(n) /\ SentBefore(m, n) => HeardOK(n)'
    PROVE  HeardUp'
  <1> DEFINE c == [type |-> "CheckFinished"]
  <1>1. \A k \in DOMAIN mailbox' :
                 \/ k \in Nat /\ k + 1 \in DOMAIN mailbox /\ mailbox'[k] = mailbox[k + 1]
                 \/ mailbox'[k] = c
    BY Handled
  <1>2. mailbox \in Seq(Message) /\ mailbox' \in Seq(Message)
    BY ReceiveType DEF TypeOK
  <1>3. ~ oldMessage(c) /\ ~ newMessage(c) /\ ~ readyMessage(c) /\ c.type # "InstanceHealthy" /\ ~ aboutNew(c)
    BY DEF oldMessage, newMessage, readyMessage, aboutNew
  <1> HIDE DEF c
  <1>4. ASSUME NEW k \in DOMAIN mailbox' PROVE HeardOK(mailbox[k])'
    <2>1. ASSUME k \in Nat, k + 1 \in DOMAIN mailbox, mailbox'[k] = mailbox[k + 1]
          PROVE  HeardOK(mailbox[k])'
      <3>1. 1 < k + 1
        <4>1. k \in DOMAIN mailbox' /\ \A j \in DOMAIN mailbox' : j \in Nat /\ j > 0
          BY <1>2
        <4> QED BY <4>1
      <3>2. PICK n \in Message : n = mailbox[k + 1] /\ n = mailbox'[k]
        BY <1>2, <2>1
      <3>3. HeardOK(n) /\ SentBefore(m, n)
        BY <2>1, <3>1, <3>2 DEF HeardUp
      <3>4. HeardOK(n)'
        BY <3>3
      <3> QED BY <3>2, <3>4 DEF HeardOK, oldMessage, newMessage, readyMessage
    <2>2. CASE mailbox'[k] = c
      BY <1>3, <2>2 DEF HeardOK, oldMessage, newMessage, readyMessage
    <2> QED BY <1>1, <2>1, <2>2
  <1>5. ASSUME NEW k \in DOMAIN mailbox', NEW l \in DOMAIN mailbox', k < l
        PROVE  SentBefore(mailbox'[k], mailbox'[l])
    <2>1. CASE mailbox'[k] = c \/ mailbox'[l] = c
      BY <1>3, <2>1 DEF SentBefore
    <2>2. CASE ~ (mailbox'[k] = c \/ mailbox'[l] = c)
      <3>1. /\ k \in Nat /\ k + 1 \in DOMAIN mailbox /\ mailbox'[k] = mailbox[k + 1]
            /\ l \in Nat /\ l + 1 \in DOMAIN mailbox /\ mailbox'[l] = mailbox[l + 1]
        BY <1>1, <2>2
      <3>2. k + 1 < l + 1
        BY <1>5, <3>1
      <3> QED BY <3>1, <3>2 DEF HeardUp
    <2> QED BY <2>1, <2>2
  <1>6. \A k, l \in DOMAIN mailbox' : k < l => SentBefore(mailbox[k], mailbox[l])'
    BY <1>5 DEF SentBefore, oldMessage, aboutNew, newMessage, readyMessage
  <1> QED BY <1>4, <1>6 DEF HeardUp

(* What the actor counts changes with a message.                           *)
LEMMA CountsUp ==
    ASSUME TypeOK, NewUp, UNCHANGED <<conf, tracker>>, NEW m \in Message, HeardOK(m),
           \/ InstanceRuns(m) \/ InstanceHealthy(m) \/ InstanceStillHealthy(m)
           \/ ReadinessCheckResult(m) \/ OldEnded(m) \/ CheckFinished(m)
    PROVE  /\ NewUp'
           /\ \A n \in Message : HeardOK(n) /\ SentBefore(m, n) => HeardOK(n)'
           /\ healthy \cap ready \subseteq healthy' \cap ready'
           /\ \/ UNCHANGED toKill
              \/ \E i \in healthy' \cap ready' : i \notin healthy \cap ready /\ killNextOldInstance
  <1> DEFINE H(n) ==
        /\ oldMessage(n) => n.id \notin healthy' \cup ready' \cup subscriptions'
        /\ newMessage(n) => /\ isNew(n.id) /\ isRunning(n.id) /\ n.id \notin subscriptions'
                            /\ n.id \in healthy' => conf.hasHealthChecks
                            /\ n.id \in ready' => ~ conf.hasReadinessChecks
        /\ n.type = "InstanceHealthy" => /\ isNew(n.id) /\ isRunning(n.id)
                                         /\ conf.hasHealthChecks /\ tracker[n.id].healthy
        /\ readyMessage(n) => n.id \in subscriptions'
        N ==
        /\ \A i \in healthy' : isNew(i) /\ isRunning(i) /\ (conf.hasHealthChecks => tracker[i].healthy)
        /\ \A i \in ready' : isNew(i) /\ isRunning(i)
        /\ \A i \in subscriptions' : isNew(i) /\ isRunning(i) /\ conf.hasReadinessChecks /\ i \notin ready'
        K ==
        /\ healthy \cap ready \subseteq healthy' \cap ready'
        /\ \/ UNCHANGED toKill
           \/ \E i \in healthy' \cap ready' : i \notin healthy \cap ready /\ killNextOldInstance
  <1>1. \A n \in Message : H(n) => HeardOK(n)'
    BY DEF HeardOK, oldMessage, newMessage, readyMessage, isNew, isRunning, exists
  <1>2. N => NewUp'
    BY DEF NewUp, isNew, isRunning, exists
  <1>3. SUFFICES N /\ K /\ \A n \in Message : HeardOK(n) /\ SentBefore(m, n) => H(n)
    <2> HIDE DEF H, N
    <2> QED BY <1>1, <1>2
  <1>4. CASE InstanceRuns(m)
    <2>1. /\ newMessage(m) /\ aboutNew(m)
          /\ isNew(m.id) /\ isRunning(m.id) /\ m.id \notin subscriptions
          /\ m.id \in healthy => conf.hasHealthChecks
          /\ m.id \in ready => ~ conf.hasReadinessChecks
      BY <1>4 DEF InstanceRuns, newMessage, aboutNew, HeardOK
    <2>2. /\ healthy' = IF conf.hasHealthChecks THEN healthy ELSE healthy \cup {m.id}
          /\ \/ /\ conf.hasReadinessChecks
                /\ subscriptions' = subscriptions \cup {m.id} /\ ready' = ready /\ toKill' = toKill
             \/ /\ ~ conf.hasReadinessChecks /\ ~ conf.hasHealthChecks
                /\ ready' = ready \cup {m.id} /\ subscriptions' = subscriptions
                /\ killNextOldInstance \/ toKill' = toKill
             \/ /\ ~ conf.hasReadinessChecks /\ conf.hasHealthChecks
                /\ UNCHANGED <<ready, subscriptions, toKill>>
      BY <1>4 DEF InstanceRuns, instanceConditionChanged
    <2>3. N
      BY <2>1, <2>2 DEF NewUp
    <2>4. K
      BY <2>1, <2>2
    <2>5. ASSUME NEW n \in Message, HeardOK(n), SentBefore(m, n) PROVE H(n)
      <3>1. (oldMessage(n) => n.id # m.id) /\ (newMessage(n) => n.id # m.id)
        BY <2>1, <2>5 DEF SentBefore
      <3> QED BY <2>1, <2>2, <2>5, <3>1 DEF HeardOK
    <2> HIDE DEF H, N, K
    <2> QED BY <2>3, <2>4, <2>5
  <1>5. CASE InstanceHealthy(m)
    <2>1. /\ aboutNew(m)
          /\ isNew(m.id) /\ isRunning(m.id) /\ conf.hasHealthChecks /\ tracker[m.id].healthy
          /\ m.id \notin healthy
      BY <1>5 DEF InstanceHealthy, aboutNew, HeardOK
    <2>2. /\ healthy' = healthy \cup {m.id} /\ subscriptions' = subscriptions
          /\ ready' = IF conf.hasReadinessChecks THEN ready ELSE ready \cup {m.id}
          /\ \/ m.id \in healthy' \cap ready' /\ killNextOldInstance
             \/ toKill' = toKill
      BY <1>5 DEF InstanceHealthy, instanceConditionChanged
    <2>3. N
      BY <2>1, <2>2 DEF NewUp
    <2>4. K
      BY <2>1, <2>2
    <2>5. ASSUME NEW n \in Message, HeardOK(n), SentBefore(m, n) PROVE H(n)
      <3>1. oldMessage(n) => n.id # m.id
        BY <2>1, <2>5 DEF SentBefore
      <3> QED BY <2>1, <2>2, <2>5, <3>1 DEF HeardOK
    <2> HIDE DEF H, N, K
    <2> QED BY <2>3, <2>4, <2>5
  <1>6. CASE ReadinessCheckResult(m)
    <2>1. /\ aboutNew(m) /\ readyMessage(m) /\ m.id \in subscriptions
          /\ isNew(m.id) /\ isRunning(m.id) /\ conf.hasReadinessChecks /\ m.id \notin ready
      BY <1>6 DEF ReadinessCheckResult, aboutNew, readyMessage, HeardOK, NewUp
    <2>2. /\ healthy' = healthy /\ subscriptions' = subscriptions \ {m.id}
          /\ ready' = ready \cup {m.id}
          /\ \/ m.id \in healthy' \cap ready' /\ killNextOldInstance
             \/ toKill' = toKill
      BY <1>6 DEF ReadinessCheckResult, instanceConditionChanged
    <2>3. N
      BY <2>1, <2>2 DEF NewUp
    <2>4. K
      BY <2>1, <2>2
    <2>5. ASSUME NEW n \in Message, HeardOK(n), SentBefore(m, n) PROVE H(n)
      <3>1. (oldMessage(n) => n.id # m.id) /\ (readyMessage(n) => n.id # m.id)
        BY <2>1, <2>5 DEF SentBefore
      <3> QED BY <2>1, <2>2, <2>5, <3>1 DEF HeardOK
    <2> HIDE DEF H, N, K
    <2> QED BY <2>3, <2>4, <2>5
  <1>7. CASE InstanceStillHealthy(m) \/ OldEnded(m) \/ CheckFinished(m)
    <2>1. healthy' = healthy /\ ready' = ready /\ subscriptions' = subscriptions
      <3>1. CASE OldEnded(m)
        <4>1. m.id \notin healthy \cup ready
          BY <3>1 DEF OldEnded, oldMessage, HeardOK
        <4> QED BY <3>1, <4>1 DEF OldEnded, instanceTerminated
      <3> QED BY <1>7, <3>1 DEF InstanceStillHealthy, CheckFinished
    <2>2. toKill' = toKill
      BY <1>7 DEF InstanceStillHealthy, OldEnded, CheckFinished
    <2>3. N /\ K
      BY <2>1, <2>2 DEF NewUp
    <2>4. ASSUME NEW n \in Message, HeardOK(n) PROVE H(n)
      BY <2>1, <2>4 DEF HeardOK
    <2> HIDE DEF H, N, K
    <2> QED BY <2>3, <2>4
  <1> QED BY <1>4, <1>5, <1>6, <1>7

LEMMA ReceiveUp ==
    ASSUME TypeOK, Known, history = {}, NewQuiet, OldUp, NewUp, HeardUp, EnoughUp, Receive
    PROVE  OldUp' /\ NewUp' /\ HeardUp' /\ EnoughUp'
  <1>1. PICK m \in Message :
              /\ 1 \in DOMAIN mailbox /\ m = mailbox[1]
              /\ \/ InstanceRuns(m) \/ InstanceHealthy(m) \/ InstanceStillHealthy(m)
                 \/ ReadinessCheckResult(m) \/ OldEnded(m) \/ CheckFinished(m)
    BY Heeded
  <1>2. UNCHANGED <<conf, tracker>> /\ phase = "initialized"
    BY <1>1, Handled
  <1>3. HeardOK(m)
    BY <1>1 DEF HeardUp
  <1>4. /\ NewUp'
        /\ \A n \in Message : HeardOK(n) /\ SentBefore(m, n) => HeardOK(n)'
        /\ healthy \cap ready \subseteq healthy' \cap ready'
        /\ \/ UNCHANGED toKill
           \/ \E i \in healthy' \cap ready' : i \notin healthy \cap ready /\ killNextOldInstance
    BY <1>1, <1>2, <1>3, CountsUp
  <1>5. HeardUp'
    BY <1>1, <1>4, HeededUp
  <1>6. healthy' \subseteq Ids
    BY ReceiveType DEF TypeOK
  <1>7. EnoughUp'
    BY <1>2, <1>4, <1>6, EnoughKept
  <1>8. OldUp'
    BY <1>2 DEF OldUp, up, isOld, wanted, isRunning, exists
  <1> QED BY <1>4, <1>5, <1>7, <1>8

LEMMA FirstCount ==
    ASSUME conf \in Upgrades, FirstQuiet, phase = "initializing"
    PROVE  LET old == {i \in Ids : isOld(i) /\ wanted(i)}
           IN  Cardinality(old) = conf.existing /\ Count(exists) = conf.existing
  <1> DEFINE old == {i \in Ids : isOld(i) /\ wanted(i)}
  <1>1. \A i \in Ids : /\ exists(i) <=> i <= conf.existing
                       /\ exists(i) => isOld(i) /\ wanted(i)
    BY DEF FirstQuiet
  <1>2. conf.existing \in 0..MaxInstances
    BY TaskReplaceAssumption
  <1>3. old = 1..conf.existing /\ {i \in Ids : exists(i)} = old
    <2>1. \A i \in Ids : (i \in old <=> i <= conf.existing) /\ (exists(i) <=> i \in old)
      BY <1>1 DEF isOld
    <2>2. old = 1..conf.existing
      <3>1. \A i \in Ids : i \in old <=> i <= conf.existing
        BY <2>1
      <3>2. \A i : i \in old => i \in Ids
        OBVIOUS
      <3> HIDE DEF old
      <3>3. \A i : i \in old <=> i \in 1..conf.existing
        BY <1>2, <3>1, <3>2, TaskReplaceAssumption DEF Ids
      <3> QED BY <3>3
    <2> HIDE DEF old
    <2>3. {i \in Ids : exists(i)} = {i \in Ids : i \in old} /\ old \subseteq Ids
      BY <2>1 DEF old
    <2> QED BY <2>2, <2>3
  <1>4. \A a, b \in Int : Cardinality(a..b) = IF a > b THEN 0 ELSE b - a + 1
    BY FS_Interval
  <1>5. \A b \in Nat : Cardinality(1..b) = b
    <2>1. \A b \in Nat : Cardinality(1..b) = IF 1 > b THEN 0 ELSE b - 1 + 1
      BY <1>4
    <2> QED BY <2>1
  <1>6. conf.existing \in Nat
    BY <1>2, TaskReplaceAssumption
  <1>7. Cardinality(old) = conf.existing
    BY <1>3, <1>5, <1>6
  <1> HIDE DEF old
  <1>8. Cardinality({i \in Ids : exists(i)}) = conf.existing
    BY <1>3, <1>7
  <1> QED BY <1>7, <1>8 DEF Count, old

LEMMA InitializeUp ==
    ASSUME TypeOK, FirstQuiet, OldUp, NewUp, HeardUp, EnoughUp, Initialize
    PROVE  OldUp' /\ NewUp' /\ HeardUp' /\ EnoughUp'
  <1> DEFINE old == {i \in Ids : isOld(i) /\ wanted(i)}
             started == {i \in Ids : isNew(i)}
  <1>1. /\ phase = "initializing" /\ phase' # "initializing"
        /\ healthy' \subseteq started /\ ready' \subseteq started /\ subscriptions' \subseteq started
        /\ mailbox' \in {<<>>, mailbox}
        /\ UNCHANGED <<conf, tracker>>
    BY DEF Initialize
  <1>2. PICK q \in toKillOrdered(old) :
          toKill' = SubSeq(q, min(nrToKillImmediately, Len(q)) + 1, Len(q))
    BY DEF Initialize
  <1>3. mailbox' = <<>> /\ started = {}
    BY <1>1 DEF FirstQuiet, isNew, isOld
  <1>4. healthy' = {} /\ ready' = {} /\ subscriptions' = {} /\ DOMAIN mailbox' = {}
    BY <1>1, <1>3
  <1>5. OldUp' /\ NewUp' /\ HeardUp'
    <2>1. OldUp'
      BY <1>1 DEF OldUp, up, isOld, wanted, isRunning, exists
    <2> QED BY <1>4, <2>1 DEF NewUp, HeardUp
  <1>6. conf \in Upgrades /\ old \in SUBSET Ids
    BY DEF TypeOK
  <1>7. Cardinality(old) = conf.existing /\ Count(exists) = conf.existing
    BY <1>1, <1>6, FirstCount
  <1> HIDE DEF old, started
  <1>8. nrToKillImmediately \in Nat /\ conf.existing \in Nat
    BY <1>6, KillCountIsNat, TaskReplaceAssumption
  <1> DEFINE n == min(nrToKillImmediately, conf.existing)
  <1>9. n \in Nat /\ n <= conf.existing
    BY <1>8 DEF min
  <1>10. conf.existing - n >= leastUp
    BY <1>6, <1>7, KillsLeaveEnough
  <1>11. Len(q) = conf.existing
    <2>1. q \in [1..Cardinality(old) -> old]
      BY <1>2 DEF toKillOrdered
    <2> QED BY <1>7, <1>8, <2>1
  <1>12. toKill' = SubSeq(q, n + 1, Len(q))
    BY <1>2, <1>11
  <1> HIDE DEF n
  <1>13. Len(toKill') = conf.existing - n
    <2>1. Len(SubSeq(q, n + 1, Len(q))) = Len(q) - n
      BY <1>2, <1>6, <1>9, <1>11, KillOrder
    <2> QED BY <1>11, <1>12, <2>1
  <1>14. leastUp' = leastUp /\ leastUp \in Int
    <2>1. leastUp' = leastUp
      BY <1>1 DEF leastUp, sacrifice, minHealthy, mostInstances, min
    <2> QED BY <1>6, <2>1, LeastIsInt
  <1>15. Cardinality(healthy' \cap ready') = 0
    BY <1>4, FS_EmptySet
  <1>16. Len(toKill') + Cardinality(healthy' \cap ready') >= leastUp'
    BY <1>8, <1>9, <1>10, <1>13, <1>14, <1>15
  <1> QED BY <1>5, <1>16 DEF EnoughUp

LEMMA InitUp == Init => AllUp
  <1> SUFFICES ASSUME Init, conf.waiting = 0 PROVE OldUp /\ NewUp /\ HeardUp /\ EnoughUp
    BY DEF AllUp
  <1>1. /\ phase = "initializing" /\ mailbox = <<>> /\ DOMAIN mailbox = {}
        /\ healthy = {} /\ ready = {} /\ subscriptions = {}
    BY DEF Init
  <1>2. ASSUME NEW i \in Ids, exists(i) PROVE up(i)
    <2>1. /\ i <= conf.existing /\ i > conf.waiting /\ conf.hasHealthChecks \in BOOLEAN
          /\ ~ (i <= conf.waiting)
      <3>1. i \in Nat \ {0}
        BY DEF Ids
      <3>2. i <= conf.existing
        BY <1>2 DEF exists, Init
      <3> QED BY <3>1, <3>2, TaskReplaceAssumption DEF Init
    <2>2. tracker[i] = [old |-> TRUE, goal |-> "Running", cond |-> "running", healthy |-> conf.hasHealthChecks]
      BY <2>1 DEF Init
    <2> QED BY <1>2, <2>2 DEF up, isRunning, wanted
  <1>3. OldUp
    BY <1>2 DEF OldUp, isOld
  <1> QED BY <1>1, <1>3 DEF NewUp, HeardUp, EnoughUp

LEMMA NextUp == TypeOK /\ Known /\ Quiet /\ AllUp /\ [Next]_vars => AllUp'
  <1> SUFFICES ASSUME TypeOK, Known, Quiet, AllUp, [Next]_vars, history' = {}, conf'.waiting = 0
               PROVE  OldUp' /\ NewUp' /\ HeardUp' /\ EnoughUp'
    BY DEF AllUp
  <1>1. /\ history = {}
        /\ \/ Initialize
           \/ Receive
           \/ \E g \in goals : SetGoal(g)
           \/ \E i \in Ids : TaskRuns(i) \/ TaskKilled(i) \/ BecomesHealthy(i) \/ BecomesReady(i)
           \/ AddDone
           \/ UNCHANGED vars
    BY QuietSteps
  <1>2. conf' = conf
    BY <1>1 DEF Initialize, Receive, SetGoal, TaskRuns, TaskKilled, BecomesHealthy, BecomesReady, AddDone, vars
  <1>3. FirstQuiet /\ NewQuiet /\ KillsQuiet /\ OldUp /\ NewUp /\ HeardUp /\ EnoughUp
    BY <1>1, <1>2 DEF Quiet, AllUp
  <1>4. CASE UNCHANGED vars
    <2>1. UNCHANGED <<conf, tracker, phase, toKill, healthy, ready, subscriptions, mailbox>>
      BY <1>4 DEF vars, state
    <2>2. OldUp' /\ NewUp'
      BY <1>3, <2>1 DEF OldUp, NewUp, up, isOld, isNew, wanted, isRunning, exists
    <2>3. HeardUp'
      BY <1>3, <2>1 DEF HeardUp, HeardOK, SentBefore, oldMessage, newMessage, readyMessage, aboutNew,
                        isNew, isRunning, exists
    <2>4. EnoughUp'
      BY <1>3, <2>1 DEF EnoughUp, leastUp, sacrifice, minHealthy, mostInstances, min
    <2> QED BY <2>2, <2>3, <2>4
  <1>5. CASE Initialize
    BY <1>3, <1>5, InitializeUp
  <1>6. CASE Receive
    BY <1>1, <1>3, <1>6, ReceiveUp
  <1>7. CASE \E g \in goals : SetGoal(g)
    BY <1>1, <1>3, <1>7, SetGoalUp
  <1>8. CASE \E i \in Ids : TaskRuns(i) \/ TaskKilled(i) \/ BecomesHealthy(i) \/ BecomesReady(i)
    BY <1>3, <1>8, TaskRunsUp, TaskKilledUp, HealthyUp, ReadyUp
  <1>9. CASE AddDone
    BY <1>3, <1>9, AddDoneUp
  <1> QED BY <1>1, <1>4, <1>5, <1>6, <1>7, <1>8, <1>9

LEMMA UpIsEnough == TypeOK /\ Quiet /\ AllUp => HealthyKept
  <1> SUFFICES ASSUME TypeOK, Quiet, AllUp, history = {}, conf.waiting = 0
               PROVE  Count(up) >= leastUp
    BY DEF HealthyKept, leastUp, sacrifice
  <1> DEFINE Up == {i \in Ids : up(i)}
  <1>1. FirstQuiet /\ NewQuiet /\ KillsQuiet /\ OldUp /\ NewUp /\ EnoughUp
    BY DEF Quiet, AllUp
  <1>2. Up \in SUBSET Ids /\ Cardinality(Up) \in Nat /\ IsFiniteSet(Up)
    BY CountsAreNat
  <1>3. leastUp \in Int /\ conf.existing \in Nat /\ leastUp <= conf.existing
    <2>1. leastUp \in Int /\ sacrifice \in 0..1 /\ conf.existing \in Nat /\ minHealthy \in Nat
      BY LeastIsInt, TaskReplaceAssumption DEF TypeOK
    <2> QED BY <2>1 DEF leastUp, min
  <1>4. CASE phase = "initializing"
    <2> DEFINE old == {i \in Ids : isOld(i) /\ wanted(i)}
    <2>1. old \subseteq Up
      BY <1>1 DEF OldUp
    <2>2. Cardinality(old) = conf.existing
      BY <1>1, <1>4, FirstCount DEF TypeOK
    <2> HIDE DEF old, Up
    <2>3. Cardinality(old) <= Cardinality(Up)
      BY <1>2, <2>1, FS_Subset
    <2>4. Cardinality(Up) >= leastUp
      BY <1>2, <1>3, <2>2, <2>3
    <2> QED BY <2>4 DEF Count, Up
  <1>5. CASE phase # "initializing"
    <2> DEFINE A == {toKill[k] : k \in DOMAIN toKill}
               B == healthy \cap ready
               l == Len(toKill)
    <2>1. toKill \in Seq(Ids) /\ l \in Nat /\ DOMAIN toKill = 1..l /\ B \in SUBSET Ids /\ A \in SUBSET Ids
      BY DEF TypeOK
    <2>2. \A i \in A : isOld(i) /\ up(i)
      BY <1>1, <2>1 DEF KillsQuiet, OldUp
    <2>3. \A i \in B : isNew(i) /\ up(i)
      BY <1>1, <2>1 DEF NewUp, NewQuiet, up
    <2>4. A \cap B = {}
      <3> HIDE DEF A, B
      <3> QED BY <2>2, <2>3 DEF isOld, isNew
    <2>5. Cardinality(A) = l
      <3>1. \A a \in 1..l, b \in 1..l : toKill[a] = toKill[b] => a = b
        BY <1>1, <2>1 DEF KillsQuiet
      <3>2. toKill \in [1..l -> A]
        BY <2>1
      <3>3. toKill \in Bijection(1..l, A)
        <4>1. \A t \in A : \E s \in 1..l : toKill[s] = t
          BY <2>1
        <4> HIDE DEF A, l
        <4>2. toKill \in Injection(1..l, A)
          BY <3>1, <3>2 DEF Injection, IsInjective
        <4>3. toKill \in Surjection(1..l, A)
          BY <3>2, <4>1 DEF Surjection
        <4> QED BY <4>2, <4>3 DEF Bijection
      <3>4. IsFiniteSet(1..l) /\ Cardinality(1..l) = l
        <4> HIDE DEF l
        <4>1. \A a, b \in Int : IsFiniteSet(a..b) /\ Cardinality(a..b) = IF a > b THEN 0 ELSE b - a + 1
          BY FS_Interval
        <4>2. l \in Int /\ l >= 0
          BY <2>1
        <4>3. IsFiniteSet(1..l) /\ Cardinality(1..l) = IF 1 > l THEN 0 ELSE l - 1 + 1
          BY <4>1, <4>2
        <4> QED BY <4>2, <4>3
      <3>5. ExistsBijection(1..l, A)
        BY <3>3 DEF ExistsBijection
      <3> HIDE DEF A, l
      <3>6. IsFiniteSet(A) /\ Cardinality(A) = Cardinality(1..l)
        BY <2>1, <3>4, <3>5, CountsAreNat, FS_Bijection
      <3> QED BY <3>4, <3>6
    <2>6. l + Cardinality(B) >= leastUp
      BY <1>1, <1>5 DEF EnoughUp
    <2>7. A \cup B \subseteq Up
      BY <2>1, <2>2, <2>3
    <2> HIDE DEF A, B, l, Up
    <2>8. Cardinality(A \cup B) = l + Cardinality(B)
      BY <2>1, <2>4, <2>5, UnionCount
    <2>9. Cardinality(A \cup B) <= Cardinality(Up)
      BY <1>2, <2>7, FS_Subset
    <2>10. Cardinality(Up) >= leastUp
      <3>1. Cardinality(B) \in Nat
        BY <2>1, CountsAreNat
      <3> QED BY <1>2, <1>3, <2>1, <2>6, <2>8, <2>9, <3>1
    <2> QED BY <2>10 DEF Count, Up
  <1> QED BY <1>4, <1>5

(***************************************************************************)
(* As long as nothing goes wrong, as many instances are up at any time as  *)
(* minimumHealthCapacity asks for, or as there were, if there were fewer.  *)
(* The actor kills an old instance only for a new one that it counts, what *)
(* it counts is up, and an instance that is used again is not forgotten    *)
(* when the end of its former task is handled.                             *)
(***************************************************************************)
THEOREM HealthyCorrect == Spec => []HealthyKept
  <1>1. Init => TypeOK /\ Known /\ Quiet /\ AllUp
    BY InitType, KnownInit, InitQuiet, InitUp
  <1>2. TypeOK /\ Known /\ Quiet /\ AllUp /\ [Next]_vars => TypeOK' /\ Known' /\ Quiet' /\ AllUp'
    BY NextType, KnownNext, NextQuiet, NextUp
  <1>3. TypeOK /\ Quiet /\ AllUp => HealthyKept
    BY UpIsEnough
  <1> QED BY <1>1, <1>2, <1>3, PTL DEF Spec
=============================================================================
