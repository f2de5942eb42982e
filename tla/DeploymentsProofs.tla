-------------------------- MODULE DeploymentsProofs --------------------------
(* Proofs about Deployments, for any run specs and plans and any number of *)
(* scale operations, cancellations, failures, timeouts and restarts.       *)
EXTENDS Deployments, FiniteSetTheorems, WellFoundedInduction, TLAPS

(* Whatever is known of a plan, it has been submitted; so the lock version *)
(* of a plan that is submitted is not that of an earlier life of it.       *)
SubmittedOK ==
    /\ repository \subseteq submitted
    /\ \A i \in DOMAIN mailbox : mailbox[i].plan \in submitted
    /\ \A o \in operations : o.for \in submitted /\ (o.type = "store" => o.plans \subseteq submitted)
    /\ \A w \in waiting : w.plan \in submitted
    /\ \A p \in Plans :
          actor[p] /= "none" \/ runningDeployments[p] /= "None" \/ awaited[p] /= 0 => p \in submitted

(* A version of the lock belongs to one scale operation, one awaited plan  *)
(* or releases on their way, and a lock is the last one of its run spec.   *)
VersionsOK ==
    /\ \A r \in RunSpecs : latest[r] <= currentLockVersion /\ lockedRunSpecs[r] \in {0, latest[r]}
    /\ \A p \in Plans : awaited[p] <= currentLockVersion
    /\ \A s \in scaling : s.version \in 1..currentLockVersion
    /\ \A m \in releases : m.version \in 1..currentLockVersion
    /\ \A s \in scaling, m \in releases : s.version /= m.version
    /\ \A s, t \in scaling : s.version = t.version => s = t
    /\ \A s \in scaling, p \in Plans : awaited[p] /= s.version
    /\ \A m \in releases, p \in Plans : awaited[p] /= m.version
    /\ \A p, q \in Plans : p /= q /\ awaited[p] = awaited[q] => awaited[p] = 0

(* A plan whose result is awaited is known to the manager or on its way.   *)
AwaitedOK == \A p \in Plans : awaited[p] /= 0 => starting(p) \/ runningDeployments[p] /= "None"

Owned ==
    \A r \in RunSpecs : lockedRunSpecs[r] /= 0 =>
        \/ [spec |-> r, version |-> lockedRunSpecs[r]] \in scaling
        \/ \E m \in releases : r \in m.specs /\ m.version = lockedRunSpecs[r]
        \/ \E p \in Plans : awaited[p] = lockedRunSpecs[r] /\ r \in affectedRunSpecIds[p]

LocksOK == VersionsOK /\ Owned /\ LastLockHolds

IInv == TypeOK /\ SubmittedOK /\ LocksOK /\ AwaitedOK

(* A message that is sent comes last, and the others stay.                 *)
LEMMA Appended ==
    ASSUME mailbox \in Seq(Message), NEW m \in Message, mailbox' = Append(mailbox, m)
    PROVE  /\ mailbox' \in Seq(Message)
           /\ \A i \in DOMAIN mailbox' : mailbox'[i] = m \/ \E j \in DOMAIN mailbox : mailbox'[i] = mailbox[j]
           /\ \A j \in DOMAIN mailbox : j \in DOMAIN mailbox' /\ mailbox'[j] = mailbox[j]
           /\ \E i \in DOMAIN mailbox' : mailbox'[i] = m
  OBVIOUS

(* A message is received: it was the first, and the others stay.           *)
LEMMA Taken ==
    ASSUME mailbox \in Seq(Message), mailbox /= <<>>, mailbox' = Tail(mailbox)
    PROVE  /\ mailbox' \in Seq(Message)
           /\ Head(mailbox) \in Message
           /\ \E j \in DOMAIN mailbox : mailbox[j] = Head(mailbox)
           /\ \A i \in DOMAIN mailbox' : \E j \in DOMAIN mailbox : mailbox'[i] = mailbox[j]
           /\ \A j \in DOMAIN mailbox :
                 mailbox[j] = Head(mailbox) \/ \E i \in DOMAIN mailbox' : mailbox'[i] = mailbox[j]
<1>1. /\ mailbox' \in Seq(Message) /\ Head(mailbox) \in Message
      /\ Len(mailbox) \in Nat /\ Len(mailbox) > 0
      /\ DOMAIN mailbox = 1..Len(mailbox) /\ DOMAIN mailbox' = 1..(Len(mailbox) - 1)
      /\ Head(mailbox) = mailbox[1]
      /\ \A i \in 1..(Len(mailbox) - 1) : mailbox'[i] = mailbox[i + 1]
  OBVIOUS
<1>2. ASSUME NEW j \in DOMAIN mailbox, mailbox[j] /= Head(mailbox)
      PROVE  j - 1 \in DOMAIN mailbox' /\ mailbox'[j - 1] = mailbox[j]
  BY <1>1, <1>2
<1>3. \A i \in DOMAIN mailbox' : i + 1 \in DOMAIN mailbox /\ mailbox'[i] = mailbox[i + 1]
  BY <1>1
<1>4. 1 \in DOMAIN mailbox
  BY <1>1
<1> QED
  BY ZenonT(20), <1>1, <1>2, <1>3, <1>4

LEMMA Sent ==
    ASSUME NEW type \in MessageTypes, NEW p \in Plans
    PROVE  message(type, p) \in Message
  BY DEF message, Message, Infos, NoInfos, Status

(* What a step that leaves the locks alone may do with what is awaited:    *)
(* nothing, or turn it into releases.                                      *)
LEMMA Completed ==
    ASSUME TypeOK, LocksOK, DeploymentsAssumption, NEW plans \in SUBSET Plans, complete(plans),
           UNCHANGED <<locks, scaling>>
    PROVE  /\ LocksOK'
           /\ awaited' \in [Plans -> Nat]
           /\ releases' \subseteq [specs : SUBSET RunSpecs, version : Nat]
           /\ \A p \in Plans : awaited'[p] = IF p \in plans THEN 0 ELSE awaited[p]
<1> DEFINE Release(p) == [specs |-> affectedRunSpecIds[p], version |-> awaited[p]]
<1>1. /\ awaited' = [p \in Plans |-> IF p \in plans THEN 0 ELSE awaited[p]]
      /\ releases' = releases \cup {Release(p) : p \in {q \in plans : awaited[q] /= 0}}
      /\ UNCHANGED <<lockedRunSpecs, currentLockVersion, latest, scaling>>
  BY DEF complete, locks
<1>2. /\ awaited \in [Plans -> Nat] /\ currentLockVersion \in Nat
      /\ affectedRunSpecIds \in [Plans -> SUBSET RunSpecs]
      /\ releases \subseteq [specs : SUBSET RunSpecs, version : Nat]
      /\ latest \in [RunSpecs -> Nat] /\ lockedRunSpecs \in [RunSpecs -> Nat]
  BY DEF TypeOK, DeploymentsAssumption
<1>3. \A p \in Plans : awaited'[p] = IF p \in plans THEN 0 ELSE awaited[p]
  BY <1>1
<1>4. awaited' \in [Plans -> Nat]
  BY <1>1, <1>2
<1>5. \A m \in releases' : m \in releases \/ \E p \in plans : awaited[p] /= 0 /\ m = Release(p)
  BY <1>1
<1>6. releases' \subseteq [specs : SUBSET RunSpecs, version : Nat]
  BY <1>2, <1>5
<1>7. VersionsOK'
  <2>1. \A m \in releases' : m.version \in 1..currentLockVersion
    BY <1>2, <1>5 DEF LocksOK, VersionsOK
  <2>2. \A s \in scaling, m \in releases' : s.version /= m.version
    BY <1>2, <1>5 DEF LocksOK, VersionsOK
  <2>3. \A m \in releases', p \in Plans : awaited'[p] /= m.version
    BY <1>2, <1>3, <1>5, <2>1 DEF LocksOK, VersionsOK
  <2>4. /\ \A p \in Plans : awaited'[p] <= currentLockVersion
        /\ \A s \in scaling, p \in Plans : awaited'[p] /= s.version
        /\ \A p, q \in Plans : p /= q /\ awaited'[p] = awaited'[q] => awaited'[p] = 0
    BY <1>2, <1>3 DEF LocksOK, VersionsOK
  <2> QED
    BY <1>1, <2>1, <2>2, <2>3, <2>4 DEF LocksOK, VersionsOK
<1>8. Owned'
  <2> SUFFICES ASSUME NEW r \in RunSpecs, lockedRunSpecs[r] /= 0
               PROVE  \/ [spec |-> r, version |-> lockedRunSpecs[r]] \in scaling
                      \/ \E m \in releases' : r \in m.specs /\ m.version = lockedRunSpecs[r]
                      \/ \E p \in Plans : awaited'[p] = lockedRunSpecs[r] /\ r \in affectedRunSpecIds[p]
    BY <1>1 DEF Owned
  <2>1. ASSUME NEW p \in Plans, awaited[p] = lockedRunSpecs[r], r \in affectedRunSpecIds[p], p \in plans
        PROVE  \E m \in releases' : r \in m.specs /\ m.version = lockedRunSpecs[r]
    <3>1. Release(p) \in releases'
      BY <1>1, <2>1
    <3> QED BY <2>1, <3>1
  <2> QED BY <1>1, <1>3, <2>1 DEF LocksOK, Owned
<1>9. LastLockHolds'
  BY <1>1, <1>2, <1>3 DEF LocksOK, LastLockHolds
<1> QED
  BY <1>3, <1>4, <1>6, <1>7, <1>8, <1>9 DEF LocksOK

LEMMA Untouched ==
    ASSUME LocksOK, UNCHANGED <<locks, scaling, awaited, releases>>
    PROVE  LocksOK'
  BY DEF LocksOK, VersionsOK, Owned, LastLockHolds, locks

(* What the manager makes of a message: a plan that is still awaited stays *)
(* or becomes known, and nothing is done for a plan that is not known yet, *)
(* except for the one the message is about.                                *)
ManagerTypeOK ==
    /\ runningDeployments \in Infos
    /\ actor \in [Plans -> {"none", "deploying", "canceled"}]
    /\ operations \subseteq Operation
    /\ waiting \subseteq [plan : Plans, on : SUBSET Plans]

StaysAwaited(m) ==
    \A p \in Plans :
        /\ awaited'[p] \in {0, awaited[p]}
        /\ awaited'[p] /= 0 /\ runningDeployments[p] /= "None" => runningDeployments'[p] /= "None"
        /\ awaited'[p] /= 0 /\ m.type = "StartDeployment" /\ m.plan = p
           => runningDeployments'[p] /= "None"

ConcernsPlan(m) ==
    /\ \A p \in Plans :
          /\ runningDeployments'[p] /= "None" => runningDeployments[p] /= "None" \/ p = m.plan
          /\ actor'[p] /= "none" => actor[p] /= "none" \/ p = m.plan
    /\ \A o \in operations' : o \in operations \/ (o.for = m.plan /\ (o.type = "store" => o.plans = {m.plan}))
    /\ \A w \in waiting' : w \in waiting \/ w.plan = m.plan

ManagerStep(m) ==
    /\ LocksOK'
    /\ awaited' \in [Plans -> Nat]
    /\ releases' \subseteq [specs : SUBSET RunSpecs, version : Nat]
    /\ ManagerTypeOK'
    /\ StaysAwaited(m)
    /\ ConcernsPlan(m)

LEMMA Handled ==
    ASSUME TypeOK, LocksOK, DeploymentsAssumption, NEW m \in Message, Handle(m),
           UNCHANGED <<locks, scaling>>
    PROVE  ManagerStep(m)
<1>1. /\ m.plan \in Plans /\ m.type \in MessageTypes /\ m.seen \in Infos
      /\ ManagerTypeOK /\ awaited \in [Plans -> Nat]
      /\ releases \subseteq [specs : SUBSET RunSpecs, version : Nat]
  BY DEF Message, TypeOK, ManagerTypeOK
<1>2. /\ NoInfos \in Infos /\ conflictingDeployments(m.plan) \in Infos
      /\ \A seen : conflicts(seen) \subseteq Plans
  BY <1>1 DEF Infos, NoInfos, Status, ManagerTypeOK, conflictingDeployments, conflicts
<1>3. ASSUME NEW type \in {"store", "delete", "forget"}, NEW plans \in SUBSET Plans, NEW seen \in Infos
      PROVE  /\ operation(type, m.plan, plans, seen) \in Operation
             /\ operation(type, m.plan, plans, seen).for = m.plan
             /\ operation(type, m.plan, plans, seen).type = type
             /\ operation(type, m.plan, plans, seen).plans = plans
  BY <1>1 DEF operation, Operation
<1>4. markScheduled(m.plan) =>
          /\ runningDeployments' \in Infos
          /\ \A p \in Plans :
                runningDeployments'[p] = IF p = m.plan THEN "Scheduled" ELSE runningDeployments[p]
  BY <1>1 DEF markScheduled, Infos, Status, ManagerTypeOK
<1>5. CASE startNonConflictingDeployment(m)
  <2>1. LocksOK'
    BY <1>5, Untouched DEF startNonConflictingDeployment
  <2>2. ManagerTypeOK'
    BY <1>1, <1>2, <1>3, <1>4, <1>5 DEF startNonConflictingDeployment, ManagerTypeOK
  <2> QED
    BY <1>1, <1>2, <1>3, <1>4, <1>5, <2>1, <2>2
       DEF startNonConflictingDeployment, ManagerStep, StaysAwaited, ConcernsPlan
<1>6. CASE giveUpConflictingDeployment(m)
  <2>1. complete({m.plan}) /\ UNCHANGED <<runningDeployments, actor, operations, waiting>>
    BY <1>6 DEF giveUpConflictingDeployment, manager
  <2> QED
    BY <1>1, <2>1, Completed DEF ManagerStep, StaysAwaited, ConcernsPlan, ManagerTypeOK
<1>7. CASE startConflictingDeployment(m)
  <2>1. LocksOK'
    BY <1>7, Untouched DEF startConflictingDeployment
  <2>2. ManagerTypeOK'
    BY <1>1, <1>2, <1>3, <1>4, <1>7 DEF startConflictingDeployment, ManagerTypeOK
  <2> QED
    BY <1>1, <1>2, <1>3, <1>4, <1>7, <2>1, <2>2
       DEF startConflictingDeployment, ManagerStep, StaysAwaited, ConcernsPlan
<1>8. CASE CancelDeletedConflicts(m)
  <2> DEFINE present == {q \in conflicts(m.seen) : runningDeployments[q] /= "None"}
             scheduled == {q \in present : m.seen[q] = "Scheduled"}
             deploying == {q \in present : m.seen[q] = "Deploying"}
  <2>1. /\ complete(scheduled)
        /\ runningDeployments' = [q \in Plans |-> IF q \in deploying THEN "Canceling"
                                                  ELSE removed(scheduled)[q]]
        /\ actor' = stopActor(deploying)
        /\ operations' = operations \cup {operation("store", m.plan, {m.plan}, m.seen)}
        /\ UNCHANGED waiting
        /\ m.type = "CancelDeletedConflicts"
    BY <1>8 DEF CancelDeletedConflicts, cancelDeletedConflicts
  <2>2. scheduled \subseteq Plans /\ deploying \subseteq present /\ present \subseteq Plans
    BY <1>2
  <2>3. \A p \in Plans : runningDeployments'[p] = IF p \in deploying THEN "Canceling"
                           ELSE IF p \in scheduled THEN "None" ELSE runningDeployments[p]
    BY <2>1 DEF removed
  <2>4. runningDeployments' \in Infos
    BY <1>1, <2>1 DEF Infos, Status, ManagerTypeOK, removed
  <2>5. /\ actor' \in [Plans -> {"none", "deploying", "canceled"}]
        /\ \A p \in Plans : actor'[p] /= "none" => actor[p] /= "none"
    BY <1>1, <2>1 DEF stopActor, ManagerTypeOK
  <2>6. /\ LocksOK' /\ awaited' \in [Plans -> Nat]
        /\ releases' \subseteq [specs : SUBSET RunSpecs, version : Nat]
        /\ \A p \in Plans : awaited'[p] = IF p \in scheduled THEN 0 ELSE awaited[p]
    BY <2>1, <2>2, Completed
  <2>7. ManagerTypeOK'
    BY <1>1, <1>3, <2>1, <2>4, <2>5 DEF ManagerTypeOK
  <2>8. StaysAwaited(m)
    BY <2>1, <2>3, <2>6 DEF StaysAwaited
  <2>9. ConcernsPlan(m)
    <3>1. \A p \in Plans : runningDeployments'[p] /= "None" => runningDeployments[p] /= "None"
      BY <2>3
    <3>2. \A o \in operations' : o \in operations \/ (o.for = m.plan /\ o.plans = {m.plan})
      BY <1>1, <1>3, <2>1
    <3> QED BY <2>1, <2>5, <3>1, <3>2 DEF ConcernsPlan
  <2> QED BY <2>6, <2>7, <2>8, <2>9 DEF ManagerStep
<1>9. CASE WaitForCanceledConflicts(m)
  <2>1. LocksOK'
    BY <1>9, Untouched DEF WaitForCanceledConflicts
  <2> QED
    BY <1>1, <1>9, <2>1 DEF WaitForCanceledConflicts, ManagerStep, StaysAwaited, ConcernsPlan, ManagerTypeOK
<1>10. CASE LaunchDeployment(m)
  <2>1. LocksOK'
    BY <1>10, Untouched DEF LaunchDeployment
  <2> QED
    BY <1>1, <1>10, <2>1
       DEF LaunchDeployment, ManagerStep, StaysAwaited, ConcernsPlan, ManagerTypeOK, Infos, Status
<1>11. CASE FailedRepositoryOperation(m)
  <2>1. /\ complete({m.plan}) /\ m.type = "FailedRepositoryOperation"
        /\ runningDeployments' = [p \in Plans |-> IF p = m.plan THEN "None" ELSE runningDeployments[p]]
        /\ UNCHANGED <<actor, operations, waiting>>
    BY <1>11 DEF FailedRepositoryOperation, removed
  <2> QED
    BY <1>1, <2>1, Completed DEF ManagerStep, StaysAwaited, ConcernsPlan, ManagerTypeOK, Infos, Status
<1>12. CASE DeploymentFinished(m)
  <2>1. /\ complete({m.plan}) /\ m.type = "DeploymentFinished"
        /\ runningDeployments' = [p \in Plans |-> IF p = m.plan THEN "None" ELSE runningDeployments[p]]
        /\ operations' = operations \cup {operation("forget", m.plan, {m.plan}, NoInfos)}
        /\ UNCHANGED <<actor, waiting>>
    BY <1>12 DEF DeploymentFinished, removed
  <2>2. ManagerTypeOK'
    BY <1>1, <1>2, <1>3, <2>1 DEF ManagerTypeOK, Infos, Status
  <2>3. ConcernsPlan(m)
    BY <1>1, <1>2, <1>3, <2>1 DEF ConcernsPlan
  <2> QED
    BY <1>1, <2>1, <2>2, <2>3, Completed DEF ManagerStep, StaysAwaited
<1>13. CASE cancelDeployment(m)
  <2>1. LocksOK'
    BY <1>13, Untouched DEF cancelDeployment
  <2> QED
    BY <1>1, <1>13, <2>1 DEF cancelDeployment, stopActor, ManagerStep, StaysAwaited, ConcernsPlan,
                             ManagerTypeOK, Infos, Status
<1>14. CASE Ignored(m)
  <2>1. LocksOK'
    BY <1>14, Untouched DEF Ignored
  <2> QED
    BY <1>1, <1>14, <2>1 DEF Ignored, manager, ManagerStep, StaysAwaited, ConcernsPlan, ManagerTypeOK
<1> QED
  BY <1>5, <1>6, <1>7, <1>8, <1>9, <1>10, <1>11, <1>12, <1>13, <1>14 DEF Handle, StartDeployment

-----------------------------------------------------------------------------
LEMMA InitOK == DeploymentsAssumption /\ Init => IInv
<1> SUFFICES ASSUME DeploymentsAssumption, Init PROVE IInv
  OBVIOUS
<1>1. TypeOK
  BY DEF Init, TypeOK, DeploymentsAssumption, Infos, NoInfos, Status
<1>2. SubmittedOK /\ AwaitedOK
  BY DEF Init, SubmittedOK, AwaitedOK, NoInfos
<1>3. LocksOK
  BY DEF Init, LocksOK, VersionsOK, Owned, LastLockHolds
<1> QED
  BY <1>1, <1>2, <1>3 DEF IInv

LEMMA DeployOK ==
    ASSUME IInv, DeploymentsAssumption, NEW p \in Plans, NEW force \in BOOLEAN, Deploy(p, force)
    PROVE  IInv'
<1> DEFINE v == currentLockVersion + 1
           m == [message("StartDeployment", p) EXCEPT !.force = force]
<1>1. /\ p \notin submitted /\ submitted' = submitted \cup {p}
      /\ currentLockVersion' = v
      /\ lockedRunSpecs' = [r \in RunSpecs |-> IF r \in affectedRunSpecIds[p] THEN v ELSE lockedRunSpecs[r]]
      /\ latest' = [r \in RunSpecs |-> IF r \in affectedRunSpecIds[p] THEN v ELSE latest[r]]
      /\ awaited' = [awaited EXCEPT ![p] = v]
      /\ mailbox' = Append(mailbox, m)
      /\ UNCHANGED <<scaling, releases, runningDeployments, actor, operations, waiting, repository, events, died>>
  BY DEF Deploy, addLocks, manager
<1>2. m \in Message /\ m.type = "StartDeployment" /\ m.plan = p
  BY Sent DEF MessageTypes, message, Message
<1>3. /\ mailbox' \in Seq(Message)
      /\ \A i \in DOMAIN mailbox' : mailbox'[i] = m \/ \E j \in DOMAIN mailbox : mailbox'[i] = mailbox[j]
      /\ \A j \in DOMAIN mailbox : j \in DOMAIN mailbox' /\ mailbox'[j] = mailbox[j]
      /\ \E i \in DOMAIN mailbox' : mailbox'[i] = m
  BY <1>1, <1>2, Appended DEF IInv, TypeOK
<1>4. /\ awaited \in [Plans -> Nat] /\ awaited[p] = 0 /\ currentLockVersion \in Nat
      /\ latest \in [RunSpecs -> Nat] /\ lockedRunSpecs \in [RunSpecs -> Nat]
      /\ affectedRunSpecIds[p] \subseteq RunSpecs
      /\ \A q \in Plans : awaited'[q] = IF q = p THEN v ELSE awaited[q]
  BY <1>1 DEF IInv, TypeOK, SubmittedOK, DeploymentsAssumption
<1>5. TypeOK'
  <2>1. awaited' \in [Plans -> Nat] /\ v \in Nat
    BY <1>1, <1>4
  <2>2. lockedRunSpecs' \in [RunSpecs -> Nat] /\ latest' \in [RunSpecs -> Nat]
    BY <1>1, <1>4
  <2> QED BY <1>1, <1>3, <2>1, <2>2 DEF IInv, TypeOK
<1>6. SubmittedOK'
  BY <1>1, <1>2, <1>3, <1>4 DEF IInv, SubmittedOK
<1>7. VersionsOK'
  <2>1. \A r \in RunSpecs : latest'[r] <= v /\ lockedRunSpecs'[r] \in {0, latest'[r]}
    BY <1>1, <1>4 DEF IInv, LocksOK, VersionsOK
  <2>2. /\ \A q \in Plans : awaited'[q] <= v
        /\ \A q, o \in Plans : q /= o /\ awaited'[q] = awaited'[o] => awaited'[q] = 0
    BY <1>4 DEF IInv, LocksOK, VersionsOK
  <2>3. /\ \A s \in scaling : s.version \in 1..v
        /\ \A l \in releases : l.version \in 1..v
        /\ \A s \in scaling, q \in Plans : awaited'[q] /= s.version
        /\ \A l \in releases, q \in Plans : awaited'[q] /= l.version
    BY <1>4 DEF IInv, LocksOK, VersionsOK
  <2> QED BY <1>1, <2>1, <2>2, <2>3 DEF IInv, LocksOK, VersionsOK
<1>8. Owned'
  <2> SUFFICES ASSUME NEW r \in RunSpecs, lockedRunSpecs'[r] /= 0
               PROVE  \/ [spec |-> r, version |-> lockedRunSpecs'[r]] \in scaling
                      \/ \E l \in releases : r \in l.specs /\ l.version = lockedRunSpecs'[r]
                      \/ \E q \in Plans : awaited'[q] = lockedRunSpecs'[r] /\ r \in affectedRunSpecIds[q]
    BY <1>1 DEF Owned
  <2>1. CASE r \in affectedRunSpecIds[p]
    BY <1>1, <1>4, <2>1
  <2>2. CASE r \notin affectedRunSpecIds[p]
    BY <1>1, <1>4, <2>2 DEF IInv, LocksOK, Owned
  <2> QED BY <2>1, <2>2
<1>9. LastLockHolds'
  <2> SUFFICES ASSUME NEW r \in RunSpecs
               PROVE  /\ [spec |-> r, version |-> latest'[r]] \in scaling => lockedRunSpecs'[r] = latest'[r]
                      /\ \A q \in Plans : /\ r \in affectedRunSpecIds[q]
                                          /\ awaited'[q] = latest'[r] /\ awaited'[q] /= 0
                                          => lockedRunSpecs'[r] = latest'[r]
    BY <1>1 DEF LastLockHolds
  <2>1. CASE r \in affectedRunSpecIds[p]
    BY <1>1, <2>1
  <2>2. CASE r \notin affectedRunSpecIds[p]
    BY <1>1, <1>4, <2>2 DEF IInv, LocksOK, VersionsOK, LastLockHolds
  <2> QED BY <2>1, <2>2
<1>10. AwaitedOK'
  <2>1. starting(p)'
    BY <1>2, <1>3 DEF starting
  <2>2. \A q \in Plans : starting(q) => starting(q)'
    BY <1>3 DEF starting
  <2> QED BY <1>1, <1>4, <2>1, <2>2 DEF IInv, AwaitedOK
<1> QED
  BY <1>5, <1>6, <1>7, <1>8, <1>9, <1>10 DEF IInv, LocksOK

LEMMA ScaleRunSpecOK ==
    ASSUME IInv, DeploymentsAssumption, NEW r \in RunSpecs, ScaleRunSpec(r)
    PROVE  IInv'
<1> DEFINE v == currentLockVersion + 1
           new == [spec |-> r, version |-> v]
<1>1. /\ events < MaxEvents /\ events' = events + 1
      /\ lockedRunSpecs[r] = 0
      /\ currentLockVersion' = v
      /\ lockedRunSpecs' = [q \in RunSpecs |-> IF q = r THEN v ELSE lockedRunSpecs[q]]
      /\ latest' = [q \in RunSpecs |-> IF q = r THEN v ELSE latest[q]]
      /\ scaling' = scaling \cup {new}
      /\ UNCHANGED <<releases, awaited, runningDeployments, actor, operations, waiting, mailbox, repository,
                     submitted, died>>
  BY DEF ScaleRunSpec, addLocks, manager, noConflictsWith
<1>2. /\ awaited \in [Plans -> Nat] /\ currentLockVersion \in Nat
      /\ latest \in [RunSpecs -> Nat] /\ lockedRunSpecs \in [RunSpecs -> Nat]
      /\ scaling \subseteq [spec : RunSpecs, version : Nat]
      /\ events \in 0..MaxEvents /\ MaxEvents \in Nat
  BY DEF IInv, TypeOK, DeploymentsAssumption
<1>3. TypeOK'
  <2>1. lockedRunSpecs' \in [RunSpecs -> Nat] /\ latest' \in [RunSpecs -> Nat] /\ v \in Nat
    BY <1>1, <1>2
  <2>2. scaling' \subseteq [spec : RunSpecs, version : Nat] /\ events' \in 0..MaxEvents
    BY <1>1, <1>2
  <2> QED BY <1>1, <2>1, <2>2 DEF IInv, TypeOK
<1>4. SubmittedOK' /\ AwaitedOK'
  BY <1>1 DEF IInv, SubmittedOK, AwaitedOK, starting
<1>5. VersionsOK'
  <2>1. \A q \in RunSpecs : latest'[q] <= v /\ lockedRunSpecs'[q] \in {0, latest'[q]}
    BY <1>1, <1>2 DEF IInv, LocksOK, VersionsOK
  <2>2. /\ \A q \in Plans : awaited[q] <= v
        /\ \A s \in scaling' : s.version \in 1..v
        /\ \A m \in releases : m.version \in 1..v
    BY <1>1, <1>2 DEF IInv, LocksOK, VersionsOK
  <2>3. /\ \A s \in scaling', m \in releases : s.version /= m.version
        /\ \A s, t \in scaling' : s.version = t.version => s = t
        /\ \A s \in scaling', q \in Plans : awaited[q] /= s.version
    BY <1>1, <1>2 DEF IInv, LocksOK, VersionsOK
  <2> QED BY <1>1, <2>1, <2>2, <2>3 DEF IInv, LocksOK, VersionsOK
<1>6. Owned'
  BY <1>1, <1>2 DEF IInv, LocksOK, Owned
<1>7. LastLockHolds'
  <2> SUFFICES ASSUME NEW q \in RunSpecs
               PROVE  /\ [spec |-> q, version |-> latest'[q]] \in scaling' => lockedRunSpecs'[q] = latest'[q]
                      /\ \A p \in Plans : /\ q \in affectedRunSpecIds[p]
                                          /\ awaited[p] = latest'[q] /\ awaited[p] /= 0
                                          => lockedRunSpecs'[q] = latest'[q]
    BY <1>1 DEF LastLockHolds
  <2>1. CASE q = r
    BY <1>1, <2>1
  <2>2. CASE q /= r
    BY <1>1, <1>2, <2>2 DEF IInv, LocksOK, LastLockHolds
  <2> QED BY <2>1, <2>2
<1> QED
  BY <1>3, <1>4, <1>5, <1>6, <1>7 DEF IInv, LocksOK

LEMMA ScaleCompletedOK ==
    ASSUME IInv, NEW s \in scaling, ScaleCompleted(s)
    PROVE  IInv'
<1> DEFINE new == [specs |-> {s.spec}, version |-> s.version]
<1>1. /\ scaling' = scaling \ {s} /\ releases' = releases \cup {new}
      /\ UNCHANGED <<lockedRunSpecs, currentLockVersion, latest, awaited, runningDeployments, actor,
                     operations, waiting, mailbox, repository, submitted, events, died>>
  BY DEF ScaleCompleted, locks, manager, bounds
<1>2. /\ s \in [spec : RunSpecs, version : Nat]
      /\ scaling \subseteq [spec : RunSpecs, version : Nat]
      /\ releases \subseteq [specs : SUBSET RunSpecs, version : Nat]
      /\ awaited \in [Plans -> Nat] /\ currentLockVersion \in Nat
  BY DEF IInv, TypeOK
<1>3. TypeOK'
  BY <1>1, <1>2 DEF IInv, TypeOK
<1>4. SubmittedOK' /\ AwaitedOK'
  BY <1>1 DEF IInv, SubmittedOK, AwaitedOK, starting
<1>5. VersionsOK'
  BY <1>1, <1>2 DEF IInv, LocksOK, VersionsOK
<1>6. Owned'
  <2> SUFFICES ASSUME NEW r \in RunSpecs, lockedRunSpecs[r] /= 0
               PROVE  \/ [spec |-> r, version |-> lockedRunSpecs[r]] \in scaling'
                      \/ \E m \in releases' : r \in m.specs /\ m.version = lockedRunSpecs[r]
                      \/ \E p \in Plans : awaited[p] = lockedRunSpecs[r] /\ r \in affectedRunSpecIds[p]
    BY <1>1 DEF Owned
  <2>1. CASE s = [spec |-> r, version |-> lockedRunSpecs[r]]
    <3>1. new \in releases' /\ r \in new.specs /\ new.version = lockedRunSpecs[r]
      BY <1>1, <2>1
    <3> QED BY <3>1
  <2>2. CASE s /= [spec |-> r, version |-> lockedRunSpecs[r]]
    <3>1. \/ [spec |-> r, version |-> lockedRunSpecs[r]] \in scaling
          \/ \E m \in releases : r \in m.specs /\ m.version = lockedRunSpecs[r]
          \/ \E p \in Plans : awaited[p] = lockedRunSpecs[r] /\ r \in affectedRunSpecIds[p]
      BY DEF IInv, LocksOK, Owned
    <3> QED BY <1>1, <2>2, <3>1
  <2> QED BY <2>1, <2>2
<1>7. LastLockHolds'
  BY <1>1 DEF IInv, LocksOK, LastLockHolds
<1> QED
  BY <1>3, <1>4, <1>5, <1>6, <1>7 DEF IInv, LocksOK

LEMMA RemoveLocksOK ==
    ASSUME IInv, NEW m \in releases, RemoveLocks(m)
    PROVE  IInv'
<1>1. /\ releases' = releases \ {m}
      /\ lockedRunSpecs' = [r \in RunSpecs |-> IF r \in m.specs /\ lockedRunSpecs[r] = m.version
                                               THEN 0 ELSE lockedRunSpecs[r]]
      /\ UNCHANGED <<currentLockVersion, latest, scaling, awaited, runningDeployments, actor, operations,
                     waiting, mailbox, repository, submitted, events, died>>
  BY DEF RemoveLocks, removeLocks, manager, bounds
<1>2. /\ m \in [specs : SUBSET RunSpecs, version : Nat] /\ m.version /= 0
      /\ lockedRunSpecs \in [RunSpecs -> Nat] /\ latest \in [RunSpecs -> Nat]
      /\ awaited \in [Plans -> Nat] /\ currentLockVersion \in Nat
  BY DEF IInv, TypeOK, LocksOK, VersionsOK
<1>3. TypeOK'
  <2>1. lockedRunSpecs' \in [RunSpecs -> Nat]
    BY <1>1, <1>2
  <2> QED BY <1>1, <2>1 DEF IInv, TypeOK
<1>4. SubmittedOK' /\ AwaitedOK'
  BY <1>1 DEF IInv, SubmittedOK, AwaitedOK, starting
<1>5. VersionsOK'
  BY <1>1, <1>2 DEF IInv, LocksOK, VersionsOK
<1>6. Owned'
  BY <1>1, <1>2 DEF IInv, LocksOK, Owned
<1>7. LastLockHolds'
  <2> SUFFICES ASSUME NEW r \in RunSpecs
               PROVE  /\ [spec |-> r, version |-> latest[r]] \in scaling => lockedRunSpecs'[r] = latest[r]
                      /\ \A p \in Plans : /\ r \in affectedRunSpecIds[p]
                                          /\ awaited[p] = latest[r] /\ awaited[p] /= 0
                                          => lockedRunSpecs'[r] = latest[r]
    BY <1>1 DEF LastLockHolds
  <2>1. [spec |-> r, version |-> latest[r]] \in scaling => latest[r] /= m.version
    BY DEF IInv, LocksOK, VersionsOK
  <2>2. \A p \in Plans : awaited[p] /= m.version
    BY DEF IInv, LocksOK, VersionsOK
  <2> QED BY <1>1, <2>1, <2>2 DEF IInv, LocksOK, LastLockHolds
<1> QED
  BY <1>3, <1>4, <1>5, <1>6, <1>7 DEF IInv, LocksOK

LEMMA AskTimeoutOK ==
    ASSUME IInv, DeploymentsAssumption, NEW p \in Plans, AskTimeout(p)
    PROVE  IInv'
<1>1. /\ events < MaxEvents /\ events' = events + 1
      /\ awaited[p] /= 0
      /\ awaited' = [awaited EXCEPT ![p] = 0]
      /\ releases' = releases \cup {[specs |-> affectedRunSpecIds[p], version |-> awaited[p]]}
      /\ UNCHANGED <<lockedRunSpecs, currentLockVersion, latest, scaling, runningDeployments, actor,
                     operations, waiting, mailbox, repository, submitted, died>>
  BY DEF AskTimeout, locks, manager
<1>2. awaited \in [Plans -> Nat] /\ events \in 0..MaxEvents /\ MaxEvents \in Nat
  BY DEF IInv, TypeOK, DeploymentsAssumption
<1>3. complete({p})
  BY <1>1, <1>2 DEF complete
<1>4. /\ LocksOK' /\ awaited' \in [Plans -> Nat]
      /\ releases' \subseteq [specs : SUBSET RunSpecs, version : Nat]
      /\ \A q \in Plans : awaited'[q] = IF q = p THEN 0 ELSE awaited[q]
  BY <1>1, <1>3, Completed DEF IInv, locks
<1>5. TypeOK'
  BY <1>1, <1>2, <1>4 DEF IInv, TypeOK
<1>6. SubmittedOK' /\ AwaitedOK'
  BY <1>1, <1>4 DEF IInv, SubmittedOK, AwaitedOK, starting
<1> QED
  BY <1>4, <1>5, <1>6 DEF IInv

LEMMA CancelDeploymentOK ==
    ASSUME IInv, DeploymentsAssumption, NEW p \in Plans, CancelDeployment(p)
    PROVE  IInv'
<1> DEFINE m == message("CancelDeployment", p)
<1>1. /\ events < MaxEvents /\ events' = events + 1
      /\ runningDeployments[p] /= "None"
      /\ mailbox' = Append(mailbox, m)
      /\ UNCHANGED <<lockedRunSpecs, currentLockVersion, latest, scaling, releases, awaited,
                     runningDeployments, actor, operations, waiting, repository, submitted, died>>
  BY DEF CancelDeployment, locks, manager
<1>2. m \in Message /\ m.plan = p
  BY Sent DEF MessageTypes, message
<1>3. /\ mailbox' \in Seq(Message)
      /\ \A i \in DOMAIN mailbox' : mailbox'[i] = m \/ \E j \in DOMAIN mailbox : mailbox'[i] = mailbox[j]
      /\ \A j \in DOMAIN mailbox : j \in DOMAIN mailbox' /\ mailbox'[j] = mailbox[j]
  BY <1>1, <1>2, Appended DEF IInv, TypeOK
<1>4. TypeOK'
  BY <1>1, <1>3 DEF IInv, TypeOK, DeploymentsAssumption
<1>5. SubmittedOK'
  BY <1>1, <1>2, <1>3 DEF IInv, SubmittedOK
<1>6. AwaitedOK'
  BY <1>1, <1>3 DEF IInv, AwaitedOK, starting
<1>7. LocksOK'
  BY <1>1, Untouched DEF IInv, locks
<1> QED
  BY <1>4, <1>5, <1>6, <1>7 DEF IInv

LEMMA ReceiveOK ==
    ASSUME IInv, DeploymentsAssumption, Receive
    PROVE  IInv'
<1> DEFINE m == Head(mailbox)
<1>1. /\ mailbox /= <<>> /\ mailbox' = Tail(mailbox) /\ Handle(m)
      /\ UNCHANGED <<lockedRunSpecs, currentLockVersion, latest, scaling, repository, submitted, events, died>>
  BY DEF Receive, locks, bounds
<1>2. /\ mailbox' \in Seq(Message)
      /\ m \in Message
      /\ \E j \in DOMAIN mailbox : mailbox[j] = m
      /\ \A i \in DOMAIN mailbox' : \E j \in DOMAIN mailbox : mailbox'[i] = mailbox[j]
      /\ \A j \in DOMAIN mailbox :
            mailbox[j] = m \/ \E i \in DOMAIN mailbox' : mailbox'[i] = mailbox[j]
  BY <1>1, Taken DEF IInv, TypeOK
<1> HIDE DEF m
<1>3. ManagerStep(m)
  BY <1>1, <1>2, Handled DEF IInv, locks
<1>4. TypeOK'
  BY <1>1, <1>2, <1>3 DEF IInv, TypeOK, ManagerStep, ManagerTypeOK
<1>5. SubmittedOK'
  <2>1. m.plan \in submitted
    BY <1>2 DEF IInv, SubmittedOK
  <2>2. \A i \in DOMAIN mailbox' : mailbox'[i].plan \in submitted
    BY <1>2 DEF IInv, SubmittedOK
  <2>3. \A p \in Plans : actor'[p] /= "none" \/ runningDeployments'[p] /= "None" \/ awaited'[p] /= 0
                         => p \in submitted
    BY <1>3, <2>1 DEF IInv, SubmittedOK, ManagerStep, StaysAwaited, ConcernsPlan
  <2>4. /\ \A o \in operations' : o.for \in submitted /\ (o.type = "store" => o.plans \subseteq submitted)
        /\ \A w \in waiting' : w.plan \in submitted
    BY <1>3, <2>1 DEF IInv, SubmittedOK, ManagerStep, ConcernsPlan
  <2> QED BY <1>1, <2>2, <2>3, <2>4 DEF IInv, SubmittedOK
<1>6. AwaitedOK'
  <2> SUFFICES ASSUME NEW p \in Plans, awaited'[p] /= 0, runningDeployments'[p] = "None"
               PROVE  starting(p)'
    BY DEF AwaitedOK
  <2>1. awaited[p] /= 0 /\ runningDeployments[p] = "None"
    <3>1. StaysAwaited(m)
      BY <1>3 DEF ManagerStep
    <3> QED BY <3>1 DEF StaysAwaited
  <2>2. PICK j \in DOMAIN mailbox : mailbox[j].type = "StartDeployment" /\ mailbox[j].plan = p
    BY <2>1 DEF IInv, AwaitedOK, starting
  <2>3. mailbox[j] /= m
    BY <1>3, <2>2 DEF ManagerStep, StaysAwaited
  <2> QED BY <1>2, <2>2, <2>3 DEF starting
<1> QED
  BY <1>3, <1>4, <1>5, <1>6 DEF IInv, ManagerStep

(* The result of an operation is sent to the manager.                      *)
LEMMA Told ==
    ASSUME NEW type \in MessageTypes, NEW o \in Operation
    PROVE  /\ [message(type, o.for) EXCEPT !.seen = o.seen] \in Message
           /\ [message(type, o.for) EXCEPT !.seen = o.seen].plan = o.for
  BY Sent DEF message, Message, Operation

LEMMA RepositoryStepOK ==
    ASSUME IInv, DeploymentsAssumption, RepositoryStep
    PROVE  IInv'
<1>1. PICK o \in operations :
          \/ Stored(o)
          \/ Deleted(o)
          \/ \E p \in o.plans : DeletedOne(o, p)
          \/ Failed(o)
          \/ Forgotten(o)
  BY DEF RepositoryStep
<1>2. UNCHANGED <<lockedRunSpecs, currentLockVersion, latest, scaling, releases, awaited,
                  runningDeployments, actor, waiting, submitted, died>>
  BY DEF RepositoryStep, locks
<1>3. o \in Operation /\ operations \subseteq Operation /\ mailbox \in Seq(Message)
  BY DEF IInv, TypeOK
<1>4. /\ mailbox' \in Seq(Message)
      /\ \A i \in DOMAIN mailbox' : \/ mailbox'[i].plan = o.for
                                    \/ \E j \in DOMAIN mailbox : mailbox'[i] = mailbox[j]
      /\ \A j \in DOMAIN mailbox : j \in DOMAIN mailbox' /\ mailbox'[j] = mailbox[j]
  <2>1. CASE mailbox' = mailbox
    BY <1>3, <2>1
  <2>2. CASE \E type \in MessageTypes : tell(type, o)
    BY <1>3, <2>2, Told, Appended DEF tell
  <2>3. mailbox' = mailbox \/ \E type \in MessageTypes : tell(type, o)
    BY <1>1 DEF Stored, Deleted, DeletedOne, Failed, Forgotten, MessageTypes
  <2> QED BY <2>1, <2>2, <2>3
<1>5. /\ operations' \subseteq Operation
      /\ \A x \in operations' : \/ x \in operations
                                \/ x.for = o.for /\ x.type /= "store"
  <2>1. CASE Stored(o) \/ Deleted(o) \/ Forgotten(o)
    BY <1>3, <2>1 DEF Stored, Deleted, Forgotten
  <2>2. CASE \E p \in o.plans : DeletedOne(o, p)
    <3>1. PICK p \in o.plans : DeletedOne(o, p)
      BY <2>2
    <3>2. /\ [o EXCEPT !.plans = @ \ {p}] \in Operation
          /\ [o EXCEPT !.plans = @ \ {p}].for = o.for
          /\ [o EXCEPT !.plans = @ \ {p}].type = "delete"
      BY <1>3, <3>1 DEF Operation, DeletedOne
    <3> QED BY <1>3, <3>1, <3>2 DEF DeletedOne
  <2>3. CASE Failed(o)
    <3>1. PICK rest \in SUBSET o.plans :
             operations' = (operations \ {o})
                \cup {operation("forget", o.for, {q}, NoInfos) : q \in IF o.type = "delete" THEN rest ELSE {}}
      BY <2>3 DEF Failed
    <3>2. o.for \in Plans /\ rest \subseteq Plans /\ NoInfos \in Infos
      BY <1>3 DEF Operation, NoInfos, Infos, Status
    <3>3. \A q \in rest : /\ operation("forget", o.for, {q}, NoInfos) \in Operation
                          /\ operation("forget", o.for, {q}, NoInfos).for = o.for
                          /\ operation("forget", o.for, {q}, NoInfos).type = "forget"
      BY <3>2 DEF operation, Operation
    <3> QED BY <1>3, <3>1, <3>3
  <2> QED BY <1>1, <2>1, <2>2, <2>3
<1>6. /\ repository' \subseteq Plans /\ repository' \subseteq submitted
      /\ events' \in 0..MaxEvents
  <2>1. /\ repository \subseteq Plans /\ repository \subseteq submitted
        /\ events \in 0..MaxEvents /\ MaxEvents \in Nat
        /\ o.plans \subseteq Plans /\ (o.type = "store" => o.plans \subseteq submitted)
    BY <1>3 DEF IInv, TypeOK, SubmittedOK, Operation, DeploymentsAssumption
  <2>2. \/ repository' = repository \cup o.plans /\ o.type = "store"
        \/ repository' \subseteq repository
    BY <1>1 DEF Stored, Deleted, DeletedOne, Failed, Forgotten
  <2>3. events' = events \/ (events < MaxEvents /\ events' = events + 1)
    BY <1>1 DEF Stored, Deleted, DeletedOne, Failed, Forgotten
  <2>4. events' \in 0..MaxEvents
    BY <2>1, <2>3
  <2> QED BY <2>1, <2>2, <2>4
<1>7. TypeOK'
  BY <1>2, <1>4, <1>5, <1>6 DEF IInv, TypeOK
<1>8. SubmittedOK'
  BY <1>2, <1>4, <1>5, <1>6 DEF IInv, SubmittedOK
<1>9. AwaitedOK'
  BY <1>2, <1>4 DEF IInv, AwaitedOK, starting
<1>10. LocksOK'
  BY <1>2, Untouched DEF IInv, locks
<1> QED
  BY <1>7, <1>8, <1>9, <1>10 DEF IInv

LEMMA CanceledOK ==
    ASSUME IInv, NEW w \in waiting, Canceled(w)
    PROVE  IInv'
<1> DEFINE m == message("LaunchDeployment", w.plan)
<1>1. /\ waiting' = waiting \ {w}
      /\ mailbox' = Append(mailbox, m)
      /\ UNCHANGED <<lockedRunSpecs, currentLockVersion, latest, scaling, releases, awaited,
                     runningDeployments, actor, operations, repository, submitted, events, died>>
  BY DEF Canceled, locks, bounds
<1>2. m \in Message /\ m.plan = w.plan
  BY Sent DEF MessageTypes, message, IInv, TypeOK
<1>3. /\ mailbox' \in Seq(Message)
      /\ \A i \in DOMAIN mailbox' : mailbox'[i] = m \/ \E j \in DOMAIN mailbox : mailbox'[i] = mailbox[j]
      /\ \A j \in DOMAIN mailbox : j \in DOMAIN mailbox' /\ mailbox'[j] = mailbox[j]
  BY <1>1, <1>2, Appended DEF IInv, TypeOK
<1>4. TypeOK'
  BY <1>1, <1>3 DEF IInv, TypeOK
<1>5. SubmittedOK'
  BY <1>1, <1>2, <1>3 DEF IInv, SubmittedOK
<1>6. AwaitedOK'
  BY <1>1, <1>3 DEF IInv, AwaitedOK, starting
<1>7. LocksOK'
  BY <1>1, Untouched DEF IInv, locks
<1> QED
  BY <1>4, <1>5, <1>6, <1>7 DEF IInv

LEMMA EndsOK ==
    ASSUME IInv, NEW p \in Plans, Ends(p)
    PROVE  IInv'
<1> DEFINE m == message("DeploymentFinished", p)
<1>1. /\ actor[p] /= "none"
      /\ actor' = [actor EXCEPT ![p] = "none"]
      /\ mailbox' = Append(mailbox, m)
      /\ UNCHANGED <<lockedRunSpecs, currentLockVersion, latest, scaling, releases, awaited,
                     runningDeployments, operations, waiting, repository, submitted, events, died>>
  BY DEF Ends, locks, bounds
<1>2. m \in Message /\ m.plan = p
  BY Sent DEF MessageTypes, message
<1>3. /\ mailbox' \in Seq(Message)
      /\ \A i \in DOMAIN mailbox' : mailbox'[i] = m \/ \E j \in DOMAIN mailbox : mailbox'[i] = mailbox[j]
      /\ \A j \in DOMAIN mailbox : j \in DOMAIN mailbox' /\ mailbox'[j] = mailbox[j]
  BY <1>1, <1>2, Appended DEF IInv, TypeOK
<1>4. TypeOK'
  BY <1>1, <1>3 DEF IInv, TypeOK
<1>5. SubmittedOK'
  BY <1>1, <1>2, <1>3 DEF IInv, SubmittedOK, TypeOK
<1>6. AwaitedOK'
  BY <1>1, <1>3 DEF IInv, AwaitedOK, starting
<1>7. LocksOK'
  BY <1>1, Untouched DEF IInv, locks
<1> QED
  BY <1>4, <1>5, <1>6, <1>7 DEF IInv

LEMMA ThrowsOK ==
    ASSUME IInv, DeploymentsAssumption, NEW p \in Plans, Throws(p)
    PROVE  IInv'
<1>1. /\ events < MaxEvents /\ events' = events + 1
      /\ actor[p] /= "none"
      /\ actor' = [actor EXCEPT ![p] = "none"]
      /\ died' = died \cup {p}
      /\ UNCHANGED <<lockedRunSpecs, currentLockVersion, latest, scaling, releases, awaited,
                     runningDeployments, mailbox, operations, waiting, repository, submitted>>
  BY DEF Throws, locks
<1>2. TypeOK'
  BY <1>1 DEF IInv, TypeOK, DeploymentsAssumption
<1>3. SubmittedOK' /\ AwaitedOK'
  BY <1>1 DEF IInv, SubmittedOK, AwaitedOK, starting, TypeOK
<1>4. LocksOK'
  BY <1>1, Untouched DEF IInv, locks
<1> QED
  BY <1>2, <1>3, <1>4 DEF IInv

(* A finite set of numbers has a largest one.                              *)
LEMMA Largest ==
    ASSUME NEW n \in Nat, NEW S \in SUBSET (1..n), S /= {}
    PROVE  \E i \in S : \A j \in S : j <= i
<1> DEFINE T == {n - i : i \in S}
<1>1. T \subseteq Nat /\ T /= {}
  <2>1. \A i \in S : i \in 1..n
    OBVIOUS
  <2>2. \A i \in S : n - i \in Nat
    BY <2>1
  <2>3. PICK i \in S : TRUE
    OBVIOUS
  <2>4. n - i \in T
    BY <2>3
  <2> QED BY <2>2, <2>4
<1> DEFINE R == OpToRel(<, Nat)
<1>2. IsWellFoundedOn(R, Nat)
  BY NatLessThanWellFounded
<1> HIDE DEF R
<1>3. PICK x \in T : \A y \in T : <<y, x>> \notin R
  BY <1>1, <1>2, WFMin
<1> USE DEF R
<1>4. \A y \in T : ~ (y < x)
  BY <1>1, <1>3 DEF OpToRel
<1>5. PICK i \in S : x = n - i
  BY <1>3
<1>6. \A j \in S : ~ (n - j < n - i)
  BY <1>4, <1>5
<1> QED
  BY <1>5, <1>6

(* The recovered plans are locked and awaited under their position.        *)
LEMMA Recovered ==
    ASSUME DeploymentsAssumption, NEW plans \in SUBSET Plans,
           NEW order \in [1..Cardinality(plans) -> plans], {order[i] : i \in DOMAIN order} = plans,
           LoadedDeployments(order), scaling' = {}, releases' = {}
    PROVE  /\ currentLockVersion' \in Nat
           /\ lockedRunSpecs' \in [RunSpecs -> Nat] /\ latest' = lockedRunSpecs'
           /\ awaited' \in [Plans -> Nat]
           /\ mailbox' \in Seq(Message)
           /\ \A i \in DOMAIN mailbox' : mailbox'[i].plan \in plans
           /\ \A i \in DOMAIN mailbox' : mailbox'[i] = message("StartDeployment", mailbox'[i].plan)
           /\ \A i, j \in DOMAIN mailbox' : mailbox'[i].plan = mailbox'[j].plan => i = j
           /\ \A p \in Plans : awaited'[p] /= 0 => p \in plans /\ starting(p)'
           /\ LocksOK'
<1> DEFINE n == Cardinality(plans)
           locking(r) == {i \in 1..n : r \in affectedRunSpecIds[order[i]]}
<1>1. IsFiniteSet(plans) /\ n \in Nat
  BY FS_Subset, FS_CardinalityType DEF DeploymentsAssumption
<1>2. DOMAIN order = 1..n /\ Len(order) = n
  <2>1. order \in [1..n -> plans]
    OBVIOUS
  <2> HIDE DEF n
  <2> QED BY <1>1, <2>1
<1>3. order \in Injection(1..n, plans)
  <2>1. order \in Surjection(1..n, plans)
    BY <1>2 DEF Surjection
  <2>2. IsFiniteSet(1..n) /\ Cardinality(1..n) = n
    <3>1. IsFiniteSet(1..n) /\ Cardinality(1..n) = IF 1 > n THEN 0 ELSE n - 1 + 1
      BY <1>1, FS_Interval
    <3> HIDE DEF n
    <3> QED BY <1>1, <3>1
  <2> QED BY <2>1, <2>2, FS_Surjection
<1>4. \A i, j \in 1..n : order[i] = order[j] => i = j
  BY <1>3 DEF Injection, IsInjective
<1>5. \A i \in 1..n : order[i] \in plans
  BY <1>2
<1> HIDE DEF n
<1>6. \A p \in Plans : \/ awaited'[p] = 0
                       \/ awaited'[p] \in 1..n /\ order[awaited'[p]] = p
  BY <1>2 DEF LoadedDeployments
<1>7. \A i \in 1..n : awaited'[order[i]] = i
  <2> SUFFICES ASSUME NEW i \in 1..n PROVE awaited'[order[i]] = i
    OBVIOUS
  <2>1. order[i] \in Plans
    BY <1>5
  <2>2. awaited'[order[i]] = CHOOSE k \in 1..n : order[k] = order[i]
    BY <1>2, <2>1 DEF LoadedDeployments
  <2>3. awaited'[order[i]] \in 1..n /\ order[awaited'[order[i]]] = order[i]
    BY <2>2
  <2> QED BY <1>4, <2>3
<1>8. \A r \in RunSpecs : \/ lockedRunSpecs'[r] = 0
                          \/ lockedRunSpecs'[r] \in locking(r)
  <2> SUFFICES ASSUME NEW r \in RunSpecs, locking(r) /= {}
               PROVE  lockedRunSpecs'[r] \in locking(r)
    BY <1>2 DEF LoadedDeployments
  <2>1. \E i \in locking(r) : \A j \in locking(r) : j <= i
    BY <1>1, Largest
  <2>2. \E i \in 1..n : /\ r \in affectedRunSpecIds[order[i]]
                        /\ \A j \in 1..n : r \in affectedRunSpecIds[order[j]] => j <= i
    BY <2>1
  <2>3. lockedRunSpecs'[r] = CHOOSE i \in 1..n :
                                /\ r \in affectedRunSpecIds[order[i]]
                                /\ \A j \in 1..n : r \in affectedRunSpecIds[order[j]] => j <= i
    BY <1>2 DEF LoadedDeployments
  <2> QED BY <2>2, <2>3
<1>9. /\ currentLockVersion' = n /\ latest' = lockedRunSpecs'
      /\ DOMAIN lockedRunSpecs' = RunSpecs
      /\ lockedRunSpecs' = [r \in RunSpecs |-> lockedRunSpecs'[r]]
      /\ awaited' = [p \in Plans |-> awaited'[p]]
  BY <1>2 DEF LoadedDeployments
<1>10. lockedRunSpecs' \in [RunSpecs -> Nat] /\ awaited' \in [Plans -> Nat]
  <2>1. \A r \in RunSpecs : lockedRunSpecs'[r] \in Nat
    BY <1>8
  <2>2. \A p \in Plans : awaited'[p] \in Nat
    BY <1>6
  <2> QED BY <1>9, <2>1, <2>2
<1>11. /\ mailbox' = [i \in 1..n |-> message("StartDeployment", order[i])]
       /\ \A i \in 1..n : message("StartDeployment", order[i]) \in Message
  BY <1>2, <1>5, Sent DEF LoadedDeployments, MessageTypes
<1>12. mailbox' \in Seq(Message)
  BY <1>1, <1>11
<1>13. /\ \A i \in DOMAIN mailbox' : mailbox'[i].plan \in plans
       /\ \A i \in DOMAIN mailbox' : mailbox'[i] = message("StartDeployment", mailbox'[i].plan)
       /\ \A i, j \in DOMAIN mailbox' : mailbox'[i].plan = mailbox'[j].plan => i = j
  <2>1. \A p : message("StartDeployment", p).plan = p
    BY DEF message
  <2>2. DOMAIN mailbox' = 1..n /\ \A i \in 1..n : mailbox'[i] = message("StartDeployment", order[i])
    BY <1>11
  <2>3. \A i \in 1..n : mailbox'[i].plan = order[i]
    BY <2>1, <2>2
  <2> QED BY <1>4, <1>5, <2>2, <2>3
<1>14. \A p \in Plans : awaited'[p] /= 0 => p \in plans /\ starting(p)'
  BY <1>5, <1>6, <1>11 DEF starting, message
<1>15. VersionsOK'
  <2>1. \A r \in RunSpecs : latest'[r] <= n /\ lockedRunSpecs'[r] \in {0, latest'[r]}
    BY <1>1, <1>8, <1>9
  <2>2. /\ \A p \in Plans : awaited'[p] <= n
        /\ \A p, q \in Plans : p /= q /\ awaited'[p] = awaited'[q] => awaited'[p] = 0
    BY <1>1, <1>6
  <2> QED BY <1>9, <2>1, <2>2 DEF VersionsOK
<1>16. Owned'
  <2> SUFFICES ASSUME NEW r \in RunSpecs, lockedRunSpecs'[r] /= 0
               PROVE  \E p \in Plans : awaited'[p] = lockedRunSpecs'[r] /\ r \in affectedRunSpecIds[p]
    BY DEF Owned
  <2> DEFINE i == lockedRunSpecs'[r]
  <2>1. i \in 1..n /\ r \in affectedRunSpecIds[order[i]]
    BY <1>8
  <2>2. order[i] \in Plans /\ awaited'[order[i]] = i
    BY <1>5, <1>7, <2>1
  <2> QED BY <2>1, <2>2
<1>17. LastLockHolds'
  BY <1>9 DEF LastLockHolds
<1> QED
  BY <1>1, <1>9, <1>10, <1>12, <1>13, <1>14, <1>15, <1>16, <1>17 DEF LocksOK

LEMMA RestartOK ==
    ASSUME IInv, DeploymentsAssumption, Restart
    PROVE  IInv'
<1>1. PICK recovered \in {repository', {}} :
          \E order \in [1..Cardinality(recovered) -> recovered] :
             /\ {order[i] : i \in DOMAIN order} = recovered
             /\ LoadedDeployments(order)
  BY DEF Restart
<1>2. /\ events < MaxEvents /\ events' = events + 1
      /\ repository' \in SUBSET Plans
      /\ \A p \in repository' \ repository : inProgress({"store"}, p)
      /\ scaling' = {} /\ releases' = {} /\ operations' = {} /\ waiting' = {}
      /\ runningDeployments' = NoInfos
      /\ actor' = [p \in Plans |-> "none"]
      /\ submitted' = submitted /\ died' = {}
  BY DEF Restart
<1>3. recovered \in SUBSET Plans /\ recovered \subseteq repository'
  BY <1>2
<1>4. /\ currentLockVersion' \in Nat
      /\ lockedRunSpecs' \in [RunSpecs -> Nat] /\ latest' = lockedRunSpecs'
      /\ awaited' \in [Plans -> Nat]
      /\ mailbox' \in Seq(Message)
      /\ \A i \in DOMAIN mailbox' : mailbox'[i].plan \in recovered
      /\ \A p \in Plans : awaited'[p] /= 0 => p \in recovered /\ starting(p)'
      /\ LocksOK'
  BY <1>1, <1>2, <1>3, Recovered
<1>5. repository' \subseteq submitted
  <2>1. \A p \in repository' \ repository : p \in submitted
    BY <1>2 DEF inProgress, IInv, SubmittedOK
  <2> QED BY <2>1 DEF IInv, SubmittedOK
<1>6. TypeOK'
  <2>1. runningDeployments' \in Infos /\ actor' \in [Plans -> {"none", "deploying", "canceled"}]
    BY <1>2 DEF Infos, NoInfos, Status
  <2>2. events' \in 0..MaxEvents
    BY <1>2 DEF IInv, TypeOK, DeploymentsAssumption
  <2> QED BY <1>2, <1>4, <2>1, <2>2 DEF IInv, TypeOK
<1>7. SubmittedOK'
  BY <1>2, <1>3, <1>4, <1>5 DEF SubmittedOK, NoInfos
<1>8. AwaitedOK'
  BY <1>4 DEF AwaitedOK
<1> QED
  BY <1>4, <1>6, <1>7, <1>8 DEF IInv

LEMMA NextOK == DeploymentsAssumption /\ IInv /\ [Next]_vars => IInv'
<1> SUFFICES ASSUME DeploymentsAssumption, IInv, [Next]_vars PROVE IInv'
  OBVIOUS
<1>1. ASSUME NEW p \in Plans, NEW force \in BOOLEAN, Deploy(p, force) PROVE IInv'
  BY <1>1, DeployOK
<1>2. ASSUME NEW r \in RunSpecs, ScaleRunSpec(r) PROVE IInv'
  BY <1>2, ScaleRunSpecOK
<1>3. ASSUME NEW s \in scaling, ScaleCompleted(s) PROVE IInv'
  BY <1>3, ScaleCompletedOK
<1>4. ASSUME NEW m \in releases, RemoveLocks(m) PROVE IInv'
  BY <1>4, RemoveLocksOK
<1>5. ASSUME NEW p \in Plans, AskTimeout(p) PROVE IInv'
  BY <1>5, AskTimeoutOK
<1>6. ASSUME NEW p \in Plans, CancelDeployment(p) PROVE IInv'
  BY <1>6, CancelDeploymentOK
<1>7. ASSUME NEW p \in Plans, Ends(p) PROVE IInv'
  BY <1>7, EndsOK
<1>8. CASE Receive
  BY <1>8, ReceiveOK
<1>9. CASE RepositoryStep
  BY <1>9, RepositoryStepOK
<1>10. ASSUME NEW w \in waiting, Canceled(w) PROVE IInv'
  BY <1>10, CanceledOK
<1>11. CASE Restart
  BY <1>11, RestartOK
<1>12. ASSUME NEW p \in Plans, Throws(p) PROVE IInv'
  BY <1>12, ThrowsOK
<1>13. CASE UNCHANGED vars
  BY <1>13 DEF vars, IInv, TypeOK, SubmittedOK, AwaitedOK, starting, LocksOK, VersionsOK, Owned, LastLockHolds
<1> QED
  BY <1>1, <1>2, <1>3, <1>4, <1>5, <1>6, <1>7, <1>8, <1>9, <1>10, <1>11, <1>12, <1>13 DEF Next

LEMMA Invariance == Spec => []IInv
<1>1. DeploymentsAssumption
  BY DeploymentsAssumption
<1> QED
  BY <1>1, InitOK, NextOK, PTL DEF Spec

(* The state of the scheduler actor, the deployment manager and the        *)
(* repository stays in its type.                                           *)
THEOREM TypeCorrect == Spec => []TypeOK
<1>1. IInv => TypeOK
  BY DEF IInv
<1> QED
  BY <1>1, Invariance, PTL

(* MarathonSchedulerActor never leaves a lock behind: whatever fails or    *)
(* times out, a locked run spec has somebody who will release just that    *)
(* version of the lock, also after a new leader has recovered the plans.   *)
THEOREM OwnersCorrect == Spec => []LocksAreOwned
<1>1. IInv => LocksAreOwned
  BY DEF IInv, LocksOK, Owned, AwaitedOK, LocksAreOwned
<1> QED
  BY <1>1, Invariance, PTL

(* removeLock compares versions: however late a release arrives, it does   *)
(* not take away the lock of the last one who raised it.                   *)
THEOREM LastLockCorrect == Spec => []LastLockHolds
<1>1. IInv => LastLockHolds
  BY DEF IInv, LocksOK
<1> QED
  BY <1>1, Invariance, PTL
==============================================================================
