-------------------------- MODULE KillServiceProofs --------------------------
(* Proofs about KillService, for every number of instances, every chunk    *)
(* size and every behaviour of Mesos, the tracker and the callers.         *)
EXTENDS KillService, FiniteSetTheorems, TLAPS

(* The part of the state the actor writes.                                 *)
ServiceOK ==
    /\ IsKills(instancesToKill)
    /\ IsKills(inFlight)
    /\ retryTimer \in BOOLEAN
    /\ kills \subseteq Tasks
    /\ decommissioning \subseteq Instances
    /\ givenUp \in Nat
    /\ InFlightBounded
    /\ InFlightWatched
    /\ WaitsForRoomOnly

(* The rest.                                                               *)
EnvironmentOK ==
    /\ mailbox \in Seq(Messages)
    /\ read \in PartialFunction(Instance)
    /\ instances \in [Instances -> Instance]
    /\ mesos \in [Tasks -> {"none", "running", "unreachable", "dead"}]
    /\ driver \in BOOLEAN
    /\ requests \in 0..MaxRequests
    /\ restarts \in 0..MaxRestarts
    /\ subscribed \in BOOLEAN
    /\ query \in {"none", "asked", "answered"}
    /\ found \in PartialFunction(Instance)
    /\ unheard \subseteq Instances

IInv == ServiceOK /\ EnvironmentOK

(* Two queues of kills joined, and a queue without some of its kills.      *)
LEMMA Joined ==
    ASSUME NEW f, NEW g, IsKills(f), IsKills(g)
    PROVE  IsKills(With(f, g)) /\ DOMAIN With(f, g) = DOMAIN f \cup DOMAIN g
  BY DEF IsKills, With

LEMMA Removed ==
    ASSUME NEW f, IsKills(f), NEW S
    PROVE  IsKills(Without(f, S)) /\ DOMAIN Without(f, S) = DOMAIN f \ S
  BY DEF IsKills, Without

(* processKill adds the kills it issues to those in flight.                *)
LEMMA ProcessedOne ==
    ASSUME NEW now, NEW flying, IsKills(now), IsKills(flying),
           kills \subseteq Tasks, decommissioning \subseteq Instances,
           processKill(now, flying)
    PROVE  /\ IsKills(inFlight')
           /\ DOMAIN inFlight' = DOMAIN flying \cup acting(now, "IssueKillRequest")
           /\ kills' \subseteq Tasks
           /\ decommissioning' \subseteq Instances
<1> DEFINE issued == Restrict(now, acting(now, "IssueKillRequest"))
<1>1. /\ kills' = killTasks(issued)
      /\ inFlight' = With(flying, issued)
      /\ decommissioning' = decommissioning \cup acting(now, "Decommission")
  BY DEF processKill
<1>2. /\ IsKills(issued) /\ DOMAIN issued \subseteq DOMAIN now
      /\ DOMAIN issued = acting(now, "IssueKillRequest")
  BY DEF IsKills, Restrict, acting
<1>3. \A i \in DOMAIN issued : issued[i].tasks \subseteq Tasks
  BY <1>2 DEF IsKills, ToKill
<1>4. kills' \subseteq Tasks
  BY <1>1, <1>3 DEF killTasks
<1>5. decommissioning' \subseteq Instances
  BY <1>1 DEF IsKills, acting
<1> HIDE DEF issued
<1> QED
  BY <1>1, <1>2, <1>4, <1>5, Joined

(* The cardinalities of a union and of a difference.                       *)
LEMMA Sizes ==
    ASSUME NEW A, NEW B, IsFiniteSet(A), IsFiniteSet(B), A \cap B = {}
    PROVE  /\ IsFiniteSet(A \cup B)
           /\ Cardinality(A) \in Nat /\ Cardinality(B) \in Nat
           /\ Cardinality(A \cup B) = Cardinality(A) + Cardinality(B)
<1>1. Cardinality(A) \in Nat /\ Cardinality(B) \in Nat
  BY FS_CardinalityType
<1>2. Cardinality(A \cap B) = 0
  BY FS_EmptySet
<1>3. /\ IsFiniteSet(A \cup B)
      /\ Cardinality(A \cup B) = Cardinality(A) + Cardinality(B) - Cardinality(A \cap B)
  BY FS_Union
<1> QED
  BY <1>1, <1>2, <1>3

(* processKills keeps to the chunk, sets the timer, and uses the room it   *)
(* has for kills that it issues or gives up.                               *)
LEMMA Processed ==
    ASSUME NEW queued, NEW flying, KillAssumption, IsKills(queued), IsKills(flying),
           DOMAIN queued \cap DOMAIN flying = {},
           Cardinality(DOMAIN flying) <= killChunkSize,
           kills \subseteq Tasks, decommissioning \subseteq Instances,
           processKills(queued, flying)
    PROVE  ServiceOK'
<1> DEFINE issued == acting(queued, "IssueKillRequest")
<1>1. PICK S \in take(queued, flying) :
          /\ processKill(Restrict(queued, S), flying)
          /\ givenUp' = Cardinality(S \ issued)
          /\ instancesToKill' = Without(queued, S)
          /\ retryTimer' = (DOMAIN inFlight' /= {})
  BY DEF processKills
<1>2. S \subseteq DOMAIN queued
  BY DEF take
<1>3. /\ IsKills(Restrict(queued, S)) /\ DOMAIN Restrict(queued, S) = S
      /\ acting(Restrict(queued, S), "IssueKillRequest") = S \cap issued
  BY <1>2 DEF IsKills, Restrict, acting
<1> HIDE DEF issued
<1>4. /\ IsKills(inFlight')
      /\ DOMAIN inFlight' = DOMAIN flying \cup (S \cap issued)
      /\ kills' \subseteq Tasks
      /\ decommissioning' \subseteq Instances
  BY <1>1, <1>3, ProcessedOne
<1>5. IsKills(instancesToKill') /\ DOMAIN instancesToKill' = DOMAIN queued \ S
  BY <1>1, Removed
<1>6. IsFiniteSet(DOMAIN flying) /\ IsFiniteSet(S) /\ IsFiniteSet(S \cap issued) /\ IsFiniteSet(S \ issued)
  BY <1>2, FS_Subset DEF IsKills, KillAssumption
<1>7. /\ Cardinality(DOMAIN flying) \in Nat /\ Cardinality(S \cap issued) \in Nat
      /\ Cardinality(DOMAIN inFlight') = Cardinality(DOMAIN flying) + Cardinality(S \cap issued)
  <2>1. DOMAIN flying \cap (S \cap issued) = {}
    BY <1>2
  <2> QED BY <1>4, <1>6, <2>1, Sizes
<1>8. /\ Cardinality(S \ issued) \in Nat
      /\ Cardinality(S) = Cardinality(S \cap issued) + Cardinality(S \ issued)
  <2>1. (S \cap issued) \cap (S \ issued) = {} /\ (S \cap issued) \cup (S \ issued) = S
    OBVIOUS
  <2>2. /\ Cardinality(S \ issued) \in Nat
        /\ Cardinality((S \cap issued) \cup (S \ issued)) =
              Cardinality(S \cap issued) + Cardinality(S \ issued)
    BY <1>6, <2>1, Sizes
  <2> QED BY <2>1, <2>2
<1>9. \/ S = {} /\ Cardinality(DOMAIN flying) >= killChunkSize
      \/ Cardinality(DOMAIN flying) + Cardinality(S) = killChunkSize
      \/ S = DOMAIN queued /\ Cardinality(DOMAIN flying) + Cardinality(S) < killChunkSize
  BY <1>7, <1>8 DEF take, killCount, KillAssumption
<1>10. S = {} => Cardinality(S \cap issued) = 0
  <2>1. S = {} => S \cap issued = {}
    OBVIOUS
  <2> QED BY <2>1, FS_EmptySet
<1>11. Cardinality(DOMAIN inFlight') <= killChunkSize
  BY <1>7, <1>8, <1>9, <1>10 DEF KillAssumption
<1>12. DOMAIN instancesToKill' /= {} => Cardinality(DOMAIN inFlight') + givenUp' >= killChunkSize
  BY <1>1, <1>5, <1>7, <1>8, <1>9 DEF KillAssumption
<1>13. DOMAIN inFlight' \cap DOMAIN instancesToKill' = {}
  BY <1>2, <1>4, <1>5
<1> QED
  BY <1>1, <1>4, <1>5, <1>8, <1>11, <1>12, <1>13
  DEF ServiceOK, InFlightBounded, InFlightWatched, WaitsForRoomOnly

(* A kill of an instance that is asked for.                                *)
LEMMA Asked ==
    ASSUME KillAssumption, ServiceOK, NEW asked \in PartialFunction(Instance), killInstances(asked)
    PROVE  ServiceOK'
<1> DEFINE fresh == {i \in DOMAIN asked : i \notin DOMAIN inFlight /\ ~isTerminalTask(asked[i])}
           new == [i \in fresh |-> [tasks |-> {<<i, asked[i].task>>}, known |-> asked[i]]]
<1>1. /\ DOMAIN asked \subseteq Instances
      /\ \A i \in DOMAIN asked : asked[i] \in Instance
  BY DEF PartialFunction
<1>2. \A i \in fresh : new[i] \in ToKill
  BY <1>1 DEF ToKill, Tasks, Instance
<1>3. IsKills(new) /\ DOMAIN new = fresh
  BY <1>1, <1>2 DEF IsKills
<1>4. processKills(With(instancesToKill, new), inFlight)
  BY DEF killInstances
<1>5. fresh \cap DOMAIN inFlight = {}
  OBVIOUS
<1> HIDE DEF fresh, new
<1>6. /\ IsKills(With(instancesToKill, new))
      /\ DOMAIN With(instancesToKill, new) \cap DOMAIN inFlight = {}
  BY <1>3, <1>5, Joined DEF ServiceOK, InFlightWatched
<1> QED
  BY <1>4, <1>6, Processed DEF ServiceOK, InFlightBounded

(* A kill that is over.                                                    *)
LEMMA Terminal ==
    ASSUME KillAssumption, ServiceOK, NEW i, handleTerminal(i)
    PROVE  ServiceOK'
<1>1. /\ IsKills(Without(instancesToKill, {i})) /\ IsKills(Without(inFlight, {i}))
      /\ DOMAIN Without(instancesToKill, {i}) \cap DOMAIN Without(inFlight, {i}) = {}
      /\ DOMAIN Without(inFlight, {i}) \subseteq DOMAIN inFlight
  <2>1. IsKills(instancesToKill) /\ IsKills(inFlight)
    BY DEF ServiceOK
  <2>2. DOMAIN instancesToKill \cap DOMAIN inFlight = {}
    BY DEF ServiceOK, InFlightWatched
  <2>3. /\ IsKills(Without(instancesToKill, {i}))
        /\ DOMAIN Without(instancesToKill, {i}) = DOMAIN instancesToKill \ {i}
    BY <2>1, Removed
  <2>4. /\ IsKills(Without(inFlight, {i}))
        /\ DOMAIN Without(inFlight, {i}) = DOMAIN inFlight \ {i}
    BY <2>1, Removed
  <2> QED BY <2>2, <2>3, <2>4
<1>2. IsFiniteSet(DOMAIN inFlight)
  BY FS_Subset DEF ServiceOK, IsKills, KillAssumption
<1>3. /\ Cardinality(DOMAIN Without(inFlight, {i})) <= Cardinality(DOMAIN inFlight)
      /\ Cardinality(DOMAIN Without(inFlight, {i})) \in Nat
      /\ Cardinality(DOMAIN inFlight) \in Nat
  BY <1>1, <1>2, FS_Subset, FS_CardinalityType
<1>4. Cardinality(DOMAIN Without(inFlight, {i})) <= killChunkSize
  BY <1>3 DEF ServiceOK, InFlightBounded, KillAssumption
<1> QED
  BY <1>1, <1>4, Processed DEF handleTerminal, ServiceOK

(* Whatever message the actor receives.                                    *)
LEMMA Received ==
    ASSUME KillAssumption, ServiceOK, NEW m \in Messages, receive(m)
    PROVE  ServiceOK'
<1>0. CASE UNCHANGED <<service, kills, decommissioning>>
  BY <1>0 DEF service, ServiceOK, InFlightBounded, InFlightWatched, WaitsForRoomOnly
<1>1. CASE m.type = "KillInstances"
  BY <1>1, Asked DEF receive, Messages
<1>2. CASE m.type = "KillUnknownTaskById"
  <2>1. m.task \in Tasks /\ m.task[1] \in Instances /\ killUnknownTaskById(m.task)
    BY <1>2 DEF receive, Messages, Tasks
  <2>2. CASE m.task[1] \in DOMAIN inFlight
    BY <1>0, <2>1, <2>2 DEF killUnknownTaskById
  <2>3. CASE m.task[1] \notin DOMAIN inFlight
    <3> DEFINE new == [i \in {m.task[1]} |-> [tasks |-> {m.task}, known |-> None]]
    <3>1. processKills(With(instancesToKill, new), inFlight)
      BY <2>1, <2>3 DEF killUnknownTaskById
    <3>2. IsKills(new) /\ DOMAIN new = {m.task[1]}
      BY <2>1 DEF IsKills, ToKill
    <3> HIDE DEF new
    <3>3. /\ IsKills(With(instancesToKill, new))
          /\ DOMAIN With(instancesToKill, new) \cap DOMAIN inFlight = {}
      <4>1. IsKills(instancesToKill) /\ DOMAIN instancesToKill \cap DOMAIN inFlight = {}
        BY DEF ServiceOK, InFlightWatched
      <4>2. /\ IsKills(With(instancesToKill, new))
            /\ DOMAIN With(instancesToKill, new) = DOMAIN instancesToKill \cup DOMAIN new
        BY <3>2, <4>1, Joined
      <4> QED BY <2>3, <3>2, <4>1, <4>2
    <3> QED BY <3>1, <3>3, Processed DEF ServiceOK, InFlightBounded
  <2> QED BY <2>2, <2>3
<1>3. CASE m.type = "InstanceChanged"
  <2>1. m.id \in Instances /\ m.instance \in Instance /\ instanceChanged(m.id, m.instance)
    BY <1>3 DEF receive, Messages
  <2>2. [j \in {m.id} |-> m.instance] \in PartialFunction(Instance)
    <3>1. [j \in {m.id} |-> m.instance] \in [{m.id} -> Instance] /\ {m.id} \in SUBSET Instances
      BY <2>1
    <3> QED BY <3>1 DEF PartialFunction
  <2>3. \/ handleTerminal(m.id)
        \/ killInstances([j \in {m.id} |-> m.instance])
        \/ UNCHANGED <<service, kills, decommissioning>>
    BY <2>1, Zenon DEF instanceChanged
  <2> QED BY <1>0, <2>2, <2>3, Asked, Terminal
<1>4. CASE m.type = "UnknownInstanceTerminated"
  <2>1. handleTerminal(m.id) \/ UNCHANGED <<service, kills, decommissioning>>
    BY <1>4 DEF receive
  <2> QED BY <1>0, <2>1, Terminal
<1> QED
  BY <1>1, <1>2, <1>3, <1>4 DEF Messages

(* Messages are put at the end of the mailbox.                             *)
LEMMA Sent ==
    ASSUME EnvironmentOK, NEW m \in Messages, send(m) \/ announce(m)
    PROVE  mailbox' \in Seq(Messages)
<1>1. mailbox \in Seq(Messages)
  BY DEF EnvironmentOK
<1>2. Append(mailbox, m) \in Seq(Messages)
  BY <1>1
<1>3. mailbox' \in {mailbox, Append(mailbox, m)}
  BY DEF send, announce
<1> QED
  BY <1>1, <1>2, <1>3

LEMMA Told ==
    ASSUME EnvironmentOK, NEW i \in Instances, told(i)
    PROVE  unheard' \subseteq Instances
  BY DEF EnvironmentOK, told

LEMMA Changed ==
    ASSUME EnvironmentOK, NEW i \in Instances, NEW instance \in Instance, changed(i, instance)
    PROVE  /\ instances' \in [Instances -> Instance] /\ mailbox' \in Seq(Messages)
           /\ unheard' \subseteq Instances
<1>1. kept(i, instance) \in Instance
  BY DEF kept, Instance, Conditions
<1>2. [type |-> "InstanceChanged", id |-> i, instance |-> instance] \in Messages
  BY DEF Messages
<1> QED
  BY <1>1, <1>2, Sent, Told DEF changed, EnvironmentOK

(* Any subset of the instances the tracker knows can be sent.              *)
LEMMA Copied ==
    ASSUME EnvironmentOK, NEW S \in SUBSET Instances
    PROVE  Restrict(instances, S) \in PartialFunction(Instance)
<1>1. Restrict(instances, S) \in [S -> Instance]
  BY DEF EnvironmentOK, Restrict
<1> QED
  BY <1>1 DEF PartialFunction

LEMMA Published ==
    ASSUME EnvironmentOK, NEW t \in Tasks, NEW status \in {"running", "unreachable", "dead"},
           publish(t, status)
    PROVE  /\ instances' \in [Instances -> Instance] /\ mailbox' \in Seq(Messages)
           /\ unheard' \subseteq Instances
<1> DEFINE instance == instances[t[1]]
<1>1. t[1] \in Instances /\ instance \in Instance
  BY DEF Tasks, EnvironmentOK
<1>2. /\ [type |-> "UnknownInstanceTerminated", id |-> t[1]] \in Messages
      /\ [type |-> "KillUnknownTaskById", task |-> t] \in Messages
  BY <1>1 DEF Messages
<1>3. [instance EXCEPT !.condition = conditionOf(status)] \in Instance
  BY <1>1 DEF Instance, Conditions, conditionOf
<1>4. \/ /\ announce([type |-> "UnknownInstanceTerminated", id |-> t[1]])
         /\ UNCHANGED <<instances, unheard>>
      \/ /\ send([type |-> "KillUnknownTaskById", task |-> t])
         /\ UNCHANGED <<instances, unheard>>
      \/ UNCHANGED <<mailbox, instances, unheard>>
      \/ changed(t[1], [instance EXCEPT !.condition = conditionOf(status)])
  BY DEF publish
<1> HIDE DEF instance
<1>5. CASE /\ announce([type |-> "UnknownInstanceTerminated", id |-> t[1]])
           /\ UNCHANGED <<instances, unheard>>
  BY <1>2, <1>5, Sent DEF EnvironmentOK
<1>6. CASE /\ send([type |-> "KillUnknownTaskById", task |-> t])
           /\ UNCHANGED <<instances, unheard>>
  BY <1>2, <1>6, Sent DEF EnvironmentOK
<1>7. CASE UNCHANGED <<mailbox, instances, unheard>>
  BY <1>7 DEF EnvironmentOK
<1>8. CASE changed(t[1], [instance EXCEPT !.condition = conditionOf(status)])
  BY <1>1, <1>3, <1>8, Changed
<1> QED
  BY <1>4, <1>5, <1>6, <1>7, <1>8

(* A step that leaves the actor, the kills and the goal changes alone      *)
(* keeps the part of the invariant that is about them.                     *)
LEMMA ServiceUnchanged ==
    ASSUME ServiceOK, UNCHANGED service, kills' \subseteq Tasks, decommissioning' \subseteq Instances
    PROVE  ServiceOK'
  BY DEF service, ServiceOK, InFlightBounded, InFlightWatched, WaitsForRoomOnly

LEMMA StatusOK ==
    ASSUME IInv, NEW t \in Tasks, NEW status \in {"running", "unreachable", "dead"},
           TaskStatus(t, status), kills' \subseteq kills
    PROVE  IInv'
<1>1. ServiceOK'
  BY ServiceUnchanged DEF IInv, ServiceOK, TaskStatus
<1>2. /\ instances' \in [Instances -> Instance] /\ mailbox' \in Seq(Messages)
      /\ unheard' \subseteq Instances
  BY Published DEF IInv, TaskStatus
<1>3. mesos' \in [Tasks -> {"none", "running", "unreachable", "dead"}]
  BY DEF IInv, EnvironmentOK, TaskStatus
<1> QED
  BY <1>1, <1>2, <1>3 DEF IInv, EnvironmentOK, TaskStatus, callers, asking

(* The invariant holds at the start and is kept by every step.             *)
LEMMA InitOK == KillAssumption /\ Init => IInv
<1> SUFFICES ASSUME KillAssumption, Init PROVE IInv
  OBVIOUS
<1>1. DOMAIN Nothing = {} /\ IsKills(Nothing)
  BY DEF Nothing, IsKills
<1>2. Nothing \in PartialFunction(Instance)
  <2>1. Nothing \in [{} -> Instance] /\ {} \in SUBSET Instances
    BY DEF Nothing
  <2> QED BY <2>1 DEF PartialFunction
<1>3. InFlightBounded
  BY <1>1, FS_EmptySet DEF Init, InFlightBounded, KillAssumption
<1>4. ServiceOK
  BY <1>1, <1>3 DEF Init, ServiceOK, InFlightWatched, WaitsForRoomOnly
<1>5. \A i \in Instances : firstTask(i) \in 0..MaxTask
  BY DEF firstTask, KillAssumption
<1>6. instances \in [Instances -> Instance]
  BY <1>5 DEF Init, Instance, Conditions, Goals
<1>7. /\ mesos \in [Tasks -> {"none", "running", "unreachable", "dead"}]
      /\ mailbox \in Seq(Messages)
      /\ driver \in BOOLEAN
      /\ subscribed \in BOOLEAN /\ query \in {"none", "asked", "answered"} /\ unheard \subseteq Instances
  BY DEF Init
<1>8. requests \in 0..MaxRequests /\ restarts \in 0..MaxRestarts
  BY DEF Init, KillAssumption
<1>9. read \in PartialFunction(Instance) /\ found \in PartialFunction(Instance)
  BY <1>2 DEF Init
<1> QED
  BY <1>4, <1>6, <1>7, <1>8, <1>9 DEF IInv, EnvironmentOK

LEMMA NextOK == KillAssumption /\ IInv /\ [Next]_vars => IInv'
<1> SUFFICES ASSUME KillAssumption, IInv, [Next]_vars PROVE IInv'
  OBVIOUS
<1> USE DEF IInv
<1>1. CASE Receive
  <2>1. Head(mailbox) \in Messages /\ mailbox' \in Seq(Messages)
    BY <1>1 DEF Receive, EnvironmentOK
  <2>2. ServiceOK'
    BY <1>1, <2>1, Received DEF Receive
  <2> QED BY <1>1, <2>1, <2>2 DEF Receive, EnvironmentOK, callers, start, asking
<1>2. ASSUME NEW S \in SUBSET Instances, Retry(S) PROVE IInv'
  <2>1. S \subseteq DOMAIN inFlight /\ IsKills(inFlight) /\ IsKills(instancesToKill)
    BY <1>2 DEF Retry, ServiceOK
  <2>2. IsKills(Restrict(inFlight, S)) /\ DOMAIN Restrict(inFlight, S) = S
    BY <2>1 DEF IsKills, Restrict
  <2>3. /\ IsKills(inFlight')
        /\ DOMAIN inFlight' = DOMAIN inFlight \cup acting(Restrict(inFlight, S), "IssueKillRequest")
        /\ kills' \subseteq Tasks
        /\ decommissioning' \subseteq Instances
    BY <1>2, <2>1, <2>2, ProcessedOne DEF Retry, ServiceOK
  <2>4. DOMAIN inFlight' = DOMAIN inFlight
    BY <2>1, <2>2, <2>3 DEF acting
  <2>5. /\ IsKills(instancesToKill')
        /\ DOMAIN instancesToKill' = DOMAIN instancesToKill \ S
    BY <1>2, <2>1, Removed DEF Retry
  <2>6. /\ InFlightBounded' /\ InFlightWatched' /\ retryTimer' \in BOOLEAN
        /\ WaitsForRoomOnly' /\ givenUp' \in Nat
    BY <1>2, <2>4, <2>5 DEF Retry, ServiceOK, InFlightBounded, InFlightWatched, WaitsForRoomOnly
  <2>7. ServiceOK'
    BY <2>3, <2>5, <2>6 DEF ServiceOK
  <2> QED BY <1>2, <2>7 DEF Retry, EnvironmentOK, callers, start, asking
<1>3. ASSUME NEW S \in SUBSET Instances, ReadInstances(S) PROVE IInv'
  <2>1. ServiceOK'
    BY <1>3, ServiceUnchanged DEF ReadInstances, ServiceOK
  <2>2. read' \in PartialFunction(Instance)
    BY <1>3, Copied DEF ReadInstances
  <2>3. requests' \in 0..MaxRequests
    BY <1>3 DEF ReadInstances, EnvironmentOK, KillAssumption
  <2> QED BY <1>3, <2>1, <2>2, <2>3 DEF ReadInstances, EnvironmentOK, start, asking
<1>4. CASE KillInstancesAndForget
  <2>1. ServiceOK'
    BY <1>4, ServiceUnchanged DEF KillInstancesAndForget, ServiceOK
  <2>2. [type |-> "KillInstances", instances |-> read] \in Messages
    BY DEF EnvironmentOK, Messages
  <2>3. mailbox' \in Seq(Messages)
    BY <1>4, <2>2, Sent DEF KillInstancesAndForget
  <2>4. read' \in PartialFunction(Instance)
    <3>1. Nothing \in [{} -> Instance] /\ {} \in SUBSET Instances
      BY DEF Nothing
    <3> QED BY <1>4, <3>1 DEF KillInstancesAndForget, PartialFunction
  <2> QED BY <1>4, <2>1, <2>3, <2>4 DEF KillInstancesAndForget, EnvironmentOK, start, asking
<1>5. ASSUME NEW i \in Instances, NEW goal \in {"Stopped", "Decommissioned"}, SetGoal(i, goal)
      PROVE  IInv'
  <2>1. ServiceOK'
    BY <1>5, ServiceUnchanged DEF SetGoal, ServiceOK
  <2>2. [instances[i] EXCEPT !.goal = goal] \in Instance
    BY DEF EnvironmentOK, Instance, Goals
  <2>3. /\ instances' \in [Instances -> Instance] /\ mailbox' \in Seq(Messages)
        /\ unheard' \subseteq Instances
    BY <1>5, <2>2, Changed DEF SetGoal
  <2> QED BY <1>5, <2>1, <2>3 DEF SetGoal, EnvironmentOK, callers, asking
<1>6. ASSUME NEW i \in Instances, Decommission(i) PROVE IInv'
  <2>1. ServiceOK'
    BY <1>6, ServiceUnchanged DEF Decommission, ServiceOK
  <2>2. [instances[i] EXCEPT !.goal = "Decommissioned"] \in Instance
    BY DEF EnvironmentOK, Instance, Goals
  <2>3. \/ changed(i, [instances[i] EXCEPT !.goal = "Decommissioned"])
        \/ UNCHANGED <<instances, mailbox, unheard>>
    BY <1>6 DEF Decommission
  <2>4. /\ instances' \in [Instances -> Instance] /\ mailbox' \in Seq(Messages)
        /\ unheard' \subseteq Instances
    BY <2>2, <2>3, Changed DEF EnvironmentOK
  <2> QED BY <1>6, <2>1, <2>4 DEF Decommission, EnvironmentOK, callers, asking
<1>7. ASSUME NEW i \in Instances, Relaunch(i) PROVE IInv'
  <2>1. ServiceOK'
    BY <1>7, ServiceUnchanged DEF Relaunch, ServiceOK
  <2>2. instances[i] \in Instance /\ instances[i].task + 1 \in 0..MaxTask
    BY <1>7 DEF Relaunch, EnvironmentOK, Instance, KillAssumption
  <2>3. [instances[i] EXCEPT !.condition = "Running", !.task = @ + 1] \in Instance
    BY <2>2 DEF Instance, Conditions
  <2>4. /\ instances' \in [Instances -> Instance] /\ mailbox' \in Seq(Messages)
        /\ unheard' \subseteq Instances
    BY <1>7, <2>3, Changed DEF Relaunch
  <2>5. mesos' \in [Tasks -> {"none", "running", "unreachable", "dead"}]
    BY <1>7 DEF Relaunch, EnvironmentOK
  <2> QED BY <1>7, <2>1, <2>4, <2>5 DEF Relaunch, EnvironmentOK, callers, asking
<1>8. ASSUME NEW i \in Instances, ExpungeUnreachable(i) PROVE IInv'
  <2>1. ServiceOK'
    BY <1>8, ServiceUnchanged DEF ExpungeUnreachable, ServiceOK
  <2>2. [type |-> "InstanceChanged", id |-> i, instance |-> instances[i]] \in Messages
    BY DEF EnvironmentOK, Messages
  <2>3. mailbox' \in Seq(Messages) /\ unheard' \subseteq Instances
    BY <1>8, <2>2, Sent, Told DEF ExpungeUnreachable
  <2>4. instances' \in [Instances -> Instance]
    BY <1>8 DEF ExpungeUnreachable, EnvironmentOK, Instance, Conditions
  <2> QED BY <1>8, <2>1, <2>3, <2>4 DEF ExpungeUnreachable, EnvironmentOK, callers, asking
<1>9. ASSUME NEW t \in Tasks,
             \/ TaskKilled(t) \/ TaskEnds(t) \/ TaskUnreachable(t)
             \/ TaskReachable(t) \/ StrayReported(t)
      PROVE  IInv'
  <2>1. PICK status \in {"running", "unreachable", "dead"} :
            TaskStatus(t, status) /\ kills' \subseteq kills
    BY <1>9 DEF TaskKilled, TaskEnds, TaskUnreachable, TaskReachable, StrayReported
  <2> QED BY <2>1, StatusOK
<1>10. ASSUME NEW t \in Tasks, KillLost(t) PROVE IInv'
  <2>1. ServiceOK'
    BY <1>10, ServiceUnchanged DEF KillLost, ServiceOK
  <2> QED BY <1>10, <2>1 DEF KillLost, EnvironmentOK, callers, start, asking
<1>11. ASSUME NEW present \in BOOLEAN, DriverChanges(present) PROVE IInv'
  <2>1. ServiceOK'
    BY <1>11, ServiceUnchanged DEF DriverChanges, ServiceOK
  <2> QED BY <1>11, <2>1 DEF DriverChanges, EnvironmentOK, callers, start, asking
<1>12. CASE Restart
  <2>1. DOMAIN Nothing = {} /\ IsKills(Nothing)
    BY DEF Nothing, IsKills
  <2>2. Nothing \in PartialFunction(Instance)
    <3>1. Nothing \in [{} -> Instance] /\ {} \in SUBSET Instances
      BY DEF Nothing
    <3> QED BY <3>1 DEF PartialFunction
  <2>3. InFlightBounded' /\ InFlightWatched' /\ WaitsForRoomOnly'
    BY <1>12, <2>1, FS_EmptySet
    DEF Restart, InFlightBounded, InFlightWatched, WaitsForRoomOnly, KillAssumption
  <2>4. ServiceOK'
    BY <1>12, <2>1, <2>3 DEF Restart, ServiceOK
  <2>5. mailbox' \in Seq(Messages)
    BY <1>12 DEF Restart
  <2>6. restarts' \in 0..MaxRestarts
    BY <1>12 DEF Restart, EnvironmentOK, KillAssumption
  <2> QED BY <1>12, <2>2, <2>4, <2>5, <2>6 DEF Restart, EnvironmentOK
<1>14. CASE PreStart
  <2>1. ServiceOK'
    BY <1>14, ServiceUnchanged
    DEF PreStart, Subscribe, QueryAnswered, QueryFails, QueryPiped, ServiceOK
  <2>2. CASE Subscribe
    BY <2>1, <2>2 DEF Subscribe, EnvironmentOK, callers
  <2>3. CASE QueryAnswered
    <3>1. initializeWithDecommissionedInstances \in SUBSET Instances
      BY DEF initializeWithDecommissionedInstances
    <3>2. found' \in PartialFunction(Instance)
      BY <2>3, <3>1, Copied DEF QueryAnswered
    <3> QED BY <2>1, <2>3, <3>2 DEF QueryAnswered, EnvironmentOK, callers
  <2>4. CASE QueryFails
    BY <2>1, <2>4 DEF QueryFails, EnvironmentOK, callers
  <2>5. CASE QueryPiped
    <3>1. [type |-> "KillInstances", instances |-> found] \in Messages
      BY DEF EnvironmentOK, Messages
    <3>2. mailbox' \in Seq(Messages)
      BY <2>5, <3>1, Sent DEF QueryPiped
    <3>3. found' \in PartialFunction(Instance)
      <4>1. Nothing \in [{} -> Instance] /\ {} \in SUBSET Instances
        BY DEF Nothing
      <4> QED BY <2>5, <4>1 DEF QueryPiped, PartialFunction
    <3> QED BY <2>1, <2>5, <3>2, <3>3 DEF QueryPiped, EnvironmentOK, callers
  <2> QED BY <1>14, <2>2, <2>3, <2>4, <2>5 DEF PreStart
<1>13. CASE UNCHANGED vars
  BY <1>13
  DEF vars, ServiceOK, EnvironmentOK, InFlightBounded, InFlightWatched, WaitsForRoomOnly
<1> QED
  BY <1>1, <1>2, <1>3, <1>4, <1>5, <1>6, <1>7, <1>8, <1>9, <1>10, <1>11, <1>12, <1>13, <1>14
  DEF Next

LEMMA Invariance == Spec => []IInv
<1>1. KillAssumption
  BY KillAssumption
<1> QED
  BY <1>1, InitOK, NextOK, PTL DEF Spec

(* All state of the kill service and its surroundings stays in its type.   *)
THEOREM TypeCorrect == Spec => []TypeOK
<1>1. IInv => TypeOK
  BY DEF IInv, ServiceOK, EnvironmentOK, TypeOK
<1> QED
  BY <1>1, Invariance, PTL

(* For every kill_chunk_size and any number of instances, KillServiceActor *)
(* never has more kills in flight than that: neither retries, nor kills of *)
(* unknown tasks, nor goal changes get around processKills.                *)
THEOREM BoundCorrect == Spec => []InFlightBounded
<1>1. IInv => InFlightBounded
  BY DEF IInv, ServiceOK
<1> QED
  BY <1>1, Invariance, PTL

(* A kill in flight always has a running retry timer and is not queued a   *)
(* second time.                                                            *)
THEOREM WatchCorrect == Spec => []InFlightWatched
<1>1. IInv => InFlightWatched
  BY DEF IInv, ServiceOK
<1> QED
  BY <1>1, Invariance, PTL

(* In every environment, partitions included, KillServiceActor leaves a    *)
(* kill in the queue only while every place in the chunk is taken by a kill *)
(* in flight or was spent, in the last chunk, on an unreachable instance    *)
(* that was given up: terminations, retries, kills of unknown tasks, copies *)
(* of any age and a new leader leave no place unused otherwise.             *)
THEOREM RoomCorrect == Spec => []WaitsForRoomOnly
<1>1. IInv => WaitsForRoomOnly
  BY DEF IInv, ServiceOK
<1> QED
  BY <1>1, Invariance, PTL
=============================================================================
