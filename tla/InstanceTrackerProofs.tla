------------------------ MODULE InstanceTrackerProofs ------------------------
(* Proofs about InstanceTracker, for any instances, apps, calls and any    *)
(* number of crashes, and that it implements AtomicUpdates.                *)
EXTENDS InstanceTracker, WellFoundedInduction, TLAPS

(* The call a message is about.                                            *)
callOf(m) == IF m.type = "RepositoryStateUpdated" THEN m.effect.update ELSE m.update

(* A change that is in the repository and not yet in memory.               *)
Stored(m) == m.type = "RepositoryStateUpdated" /\ m.effect.effect /= "Noop"

(* Only updates are resolved.                                              *)
KindsOK ==
    \A k \in DOMAIN mailbox :
        /\ mailbox[k].type = "ListBySpec" => KindOf[mailbox[k].update] = "Query"
        /\ mailbox[k].type = "UpdateContext" => KindOf[mailbox[k].update] /= "Query"

(* A snapshot comes first, and there is one unless it has been received.   *)
(* There is no subscriber before the instances are loaded.                 *)
ChannelOK ==
    channel /= None =>
        /\ phase = "initialized"
        /\ \A k \in DOMAIN channel : "snapshot" \in DOMAIN channel[k] => k = 1
        /\ view \in Snapshots \/ (channel /= <<>> /\ "snapshot" \in DOMAIN channel[1])

(* A call in progress waits in the queue or is the one its app's substream *)
(* waits for; that one, and one whose ask has timed out, is in one place   *)
(* of the mailbox, the writes and the update steps at most.                *)
QueueOK ==
    /\ \A k \in DOMAIN queue : reply[queue[k]] = "pending" /\ asked[appOf(queue[k])] /= queue[k]
    /\ \A k, l \in DOMAIN queue : queue[k] = queue[l] => k = l

AskedOK == \A a \in Apps : asked[a] /= None => appOf(asked[a]) = a /\ reply[asked[a]] = "pending"

underWay == {u \in Updates : asked[appOf(u)] = u \/ (AskMayTimeOut /\ reply[u] = "failed")}

Working(box, ws, ss, calls) ==
    /\ \A k \in DOMAIN box : callOf(box[k]) \in calls
    /\ \A k, l \in DOMAIN box : callOf(box[k]) = callOf(box[l]) => k = l
    /\ \A e \in ws \cup ss :
          /\ e.update \in calls
          /\ \A k \in DOMAIN box : callOf(box[k]) /= e.update
    /\ \A d, e \in ws : d.update = e.update => d = e
    /\ \A d, e \in ss : d.update = e.update => d = e
    /\ \A d \in ws, e \in ss : d.update /= e.update

PlacesOK == QueueOK /\ AskedOK /\ Working(mailbox, writes, stepping, underWay)

(* Nothing is resolved before the instances are loaded.                    *)
LoadingOK ==
    phase = "initializing" =>
        /\ writes = {} /\ stepping = {}
        /\ \A k \in DOMAIN mailbox : mailbox[k].type /= "RepositoryStateUpdated"

(* What has been resolved is what an update makes of the instance in the   *)
(* repository, which the memory agrees with.                               *)
MessageOK(m, store) ==
    m.type = "RepositoryStateUpdated" =>
        LET e == m.effect
            instance == store[InstanceOf[e.update]]
        IN  IF e.effect = "Noop" THEN Promise!ignores(instance, e.update) ELSE instance = e.instance

WriteOK(e, store) ==
    /\ e.effect /= "Noop"
    /\ Promise!accepts(store[InstanceOf[e.update]], e.update)
    /\ e.instance = Promise!after(store[InstanceOf[e.update]], e.update)

StoredCall(box, u) == \E k \in DOMAIN box : Stored(box[k]) /\ callOf(box[k]) = u

Agree(box, mem, store) ==
    \A i \in Instances :
        (\A u \in Updates : StoredCall(box, u) => InstanceOf[u] /= i) => mem[i] = store[i]

EffectsOK ==
    /\ \A e \in writes : WriteOK(e, repo)
    /\ \A k \in DOMAIN mailbox : MessageOK(mailbox[k], repo)
    /\ phase = "initialized" => Agree(mailbox, memory, repo)

(* A call that is pending waits or is being worked on, and the calls of    *)
(* its app that were queued before it are ahead of it.                     *)
PendingOK ==
    \A u \in Updates :
        reply[u] = "pending" => asked[appOf(u)] = u \/ \E k \in DOMAIN queue : queue[k] = u

AheadOK ==
    /\ \A u \in Updates : \A v \in ahead[u] : reply[v] /= "none"
    /\ \A u \in Updates, v \in Updates :
        reply[u] = "pending" /\ reply[v] = "pending" /\ v \in ahead[u] =>
            /\ v /= u /\ appOf(v) = appOf(u)
            /\ \/ asked[appOf(v)] = v
               \/ \E k, l \in DOMAIN queue : k < l /\ queue[k] = v /\ queue[l] = u

TypeInv == TypeOK /\ KindsOK
ViewInv == TypeInv /\ ChannelOK /\ SubscriberFollows
CallsInv == ViewInv /\ PlacesOK /\ LoadingOK
OrderInv == CallsInv /\ EffectsOK /\ PendingOK /\ AheadOK

-----------------------------------------------------------------------------
(* Sequences and messages.                                                 *)

LEMMA Appended ==
    ASSUME NEW S, NEW s \in Seq(S), NEW x \in S
    PROVE  LET t == Append(s, x)
           IN  /\ t \in Seq(S) /\ Len(s) \in Nat /\ Len(t) = Len(s) + 1
               /\ DOMAIN s = 1..Len(s) /\ DOMAIN t = DOMAIN s \cup {Len(s) + 1}
               /\ Len(s) + 1 \notin DOMAIN s /\ t[Len(s) + 1] = x
               /\ \A k \in DOMAIN s : t[k] = s[k]
  OBVIOUS

LEMMA Removed ==
    ASSUME NEW S, NEW s \in Seq(S), s /= <<>>
    PROVE  LET t == Tail(s)
           IN  /\ t \in Seq(S) /\ Len(s) \in Nat /\ Len(t) = Len(s) - 1
               /\ Head(s) \in S /\ Head(s) = s[1] /\ 1 \in DOMAIN s
               /\ \A k \in DOMAIN t : k \in Nat \ {0} /\ k + 1 \in DOMAIN s /\ t[k] = s[k + 1]
               /\ \A k \in DOMAIN s \ {1} : k \in Nat /\ k - 1 \in DOMAIN t /\ t[k - 1] = s[k]
  OBVIOUS

LEMMA MessageTypes ==
    ASSUME NEW m \in Messages
    PROVE  /\ callOf(m) \in Updates
           /\ m.type \in {"UpdateContext", "ListBySpec", "RepositoryStateUpdated"}
           /\ m.type = "RepositoryStateUpdated" => /\ m.effect \in Effects
                                                   /\ callOf(m) = m.effect.update
           /\ m.type /= "RepositoryStateUpdated" => m.update \in Updates /\ callOf(m) = m.update
  BY DEF Messages, callOf, Effects

LEMMA EffectTypes ==
    ASSUME NEW e \in Effects
    PROVE  e.update \in Updates /\ e.effect \in {"Update", "Expunge", "Noop"} /\ e.instance \in SUBSET Updates
  BY DEF Effects

LEMMA StoredMessage ==
    ASSUME NEW e \in Effects
    PROVE  LET m == [type |-> "RepositoryStateUpdated", effect |-> e]
           IN  /\ m \in Messages /\ m.type = "RepositoryStateUpdated" /\ m.effect = e /\ callOf(m) = e.update
  BY DEF Messages, callOf

LEMMA appOfType ==
    ASSUME TrackerAssumption, NEW u \in Updates
    PROVE  InstanceOf[u] \in Instances /\ appOf(u) \in Apps /\ KindOf[u] \in {"Schedule", "Change", "Expunge", "Query"}
  BY DEF TrackerAssumption, appOf, Apps

(* What an update is resolved to.                                          *)
LEMMA Resolved ==
    ASSUME TrackerAssumption, TypeOK, NEW u \in Updates, KindOf[u] /= "Query",
           NEW e \in resolveUpdateEffect(u)
    PROVE  /\ e.update = u
           /\ \/ e \in Effects
              \/ e.effect = "Failure"
           /\ e.effect \in {"Update", "Expunge"} =>
                 /\ Promise!accepts(memory[InstanceOf[u]], u)
                 /\ e.instance = Promise!after(memory[InstanceOf[u]], u)
           /\ e.effect = "Noop" => Promise!ignores(memory[InstanceOf[u]], u)
<1> DEFINE instance == memory[InstanceOf[u]]
<1>1. instance \in SUBSET Updates /\ KindOf[u] \in {"Schedule", "Change", "Expunge"}
  BY appOfType DEF TypeOK, Snapshots
<1> HIDE DEF instance
<1>2. CASE e = Failure(u)
  BY <1>2 DEF Failure
<1>3. CASE /\ e = Update(u, {u}) /\ KindOf[u] = "Schedule" /\ instance = Absent
  BY <1>1, <1>3 DEF Update, Effects, Promise!accepts, Promise!after, instance, Absent, Promise!Absent
<1>4. CASE e \in {Update(u, instance \cup {u}), Noop(u)} /\ KindOf[u] = "Change" /\ instance /= Absent
  BY <1>1, <1>4
  DEF Update, Noop, Effects, Promise!accepts, Promise!after, Promise!ignores, instance, Absent, Promise!Absent
<1>5. CASE e = Noop(u) /\ KindOf[u] = "Expunge" /\ instance = Absent
  BY <1>1, <1>5 DEF Noop, Effects, Promise!ignores, instance, Absent, Promise!Absent
<1>6. CASE e = Expunge(u) /\ KindOf[u] = "Expunge" /\ instance /= Absent
  BY <1>1, <1>6 DEF Expunge, Effects, Promise!accepts, Promise!after, instance, Absent, Promise!Absent
<1> QED
  BY <1>1, <1>2, <1>3, <1>4, <1>5, <1>6 DEF resolveUpdateEffect, instance

LEMMA AnswerType ==
    ASSUME TrackerAssumption, TypeOK, NEW u \in Updates, NEW r \in {"ok", "failed"}, Answer(u, r)
    PROVE  /\ reply' \in [Updates -> {"none", "pending", "ok", "failed", "lost"}]
           /\ asked' \in [Apps -> Updates \cup {None}]
  BY appOfType DEF Answer, TypeOK

-----------------------------------------------------------------------------
(* Types.                                                                  *)

(* A message is put at the end of the mailbox.                             *)
LEMMA Posted ==
    ASSUME mailbox \in Seq(Messages), KindsOK, NEW m \in Messages,
           m.type = "ListBySpec" => KindOf[m.update] = "Query",
           m.type = "UpdateContext" => KindOf[m.update] /= "Query",
           mailbox' = Append(mailbox, m)
    PROVE  mailbox' \in Seq(Messages) /\ KindsOK'
<1>1. /\ mailbox' \in Seq(Messages)
      /\ \A k \in DOMAIN mailbox' : mailbox'[k] = m \/ (k \in DOMAIN mailbox /\ mailbox'[k] = mailbox[k])
  BY Appended
<1> QED
  BY <1>1 DEF KindsOK

(* The first message is received.                                          *)
LEMMA Received ==
    ASSUME mailbox \in Seq(Messages), KindsOK, mailbox /= <<>>, mailbox' = Tail(mailbox)
    PROVE  mailbox' \in Seq(Messages) /\ KindsOK'
<1>1. /\ mailbox' \in Seq(Messages)
      /\ \A k \in DOMAIN mailbox' : k + 1 \in DOMAIN mailbox /\ mailbox'[k] = mailbox[k + 1]
  BY Removed
<1> QED
  BY <1>1 DEF KindsOK

LEMMA FirstMessage ==
    ASSUME mailbox \in Seq(Messages), KindsOK, mailbox /= <<>>
    PROVE  /\ Head(mailbox) \in Messages /\ Head(mailbox) = mailbox[1] /\ 1 \in DOMAIN mailbox
           /\ Head(mailbox).type = "ListBySpec" => KindOf[Head(mailbox).update] = "Query"
           /\ Head(mailbox).type = "UpdateContext" => KindOf[Head(mailbox).update] /= "Query"
<1>1. Head(mailbox) \in Messages /\ Head(mailbox) = mailbox[1] /\ 1 \in DOMAIN mailbox
  BY Removed
<1> QED
  BY <1>1 DEF KindsOK

LEMMA persistedType ==
    ASSUME TrackerAssumption, TypeOK, NEW e \in Effects
    PROVE  persisted(e) \in Snapshots /\ updateApp(e) \in Snapshots
<1>1. InstanceOf[e.update] \in Instances /\ e.instance \in SUBSET Updates
  BY EffectTypes, appOfType
<1> QED
  BY <1>1 DEF TypeOK, Snapshots, persisted, updateApp

ChannelMessages == [snapshot : Snapshots] \cup [change : Changes]

isSnapshot(m) == "snapshot" \in DOMAIN m

LEMMA ChannelType ==
    ASSUME TypeOK
    PROVE  channel = None \/ channel \in Seq(ChannelMessages)
  BY DEF TypeOK, ChannelMessages

LEMMA ChannelMessageTypes ==
    ASSUME NEW m \in ChannelMessages
    PROVE  IF isSnapshot(m) THEN m.snapshot \in Snapshots
           ELSE m.change.instance \in Instances /\ m.change.now \in SUBSET Updates
<1>1. CASE m \in [snapshot : Snapshots]
  BY <1>1 DEF isSnapshot
<1>2. CASE m \in [change : Changes]
  <2>1. ~ isSnapshot(m) /\ m.change \in Changes
    BY <1>2 DEF isSnapshot
  <2> QED BY <2>1 DEF Changes
<1> QED
  BY <1>1, <1>2 DEF ChannelMessages

LEMMA notifiedType ==
    ASSUME TrackerAssumption, TypeOK, NEW e \in Effects
    PROVE  notifySubscribers(e) = None \/ notifySubscribers(e) \in Seq(ChannelMessages)
<1>1. [change |-> [instance |-> InstanceOf[e.update], now |-> e.instance]] \in ChannelMessages
  BY EffectTypes, appOfType DEF ChannelMessages, Changes
<1>2. CASE channel = None
  BY <1>2 DEF notifySubscribers
<1>3. CASE channel /= None
  <2>1. channel \in Seq(ChannelMessages)
    BY <1>3, ChannelType
  <2> QED BY <1>1, <1>3, <2>1, Appended DEF notifySubscribers
<1> QED
  BY <1>2, <1>3

LEMMA TypeInit == TrackerAssumption /\ Init => TypeInv
<1> SUFFICES ASSUME TrackerAssumption, Init PROVE TypeInv
  OBVIOUS
<1>1. TypeOK
  BY DEF TrackerAssumption, Init, TypeOK, Snapshots, Absent
<1> QED
  BY <1>1 DEF Init, TypeInv, KindsOK

LEMMA CrashType ==
    ASSUME TrackerAssumption, TypeInv, Crash
    PROVE  TypeInv'
<1>1. PICK landed \in SUBSET writes :
        repo' = [i \in Instances |->
                    IF \E e \in landed : InstanceOf[e.update] = i
                    THEN (CHOOSE e \in landed : InstanceOf[e.update] = i).instance
                    ELSE repo[i]]
  BY DEF Crash
<1>2. \A i \in Instances : repo'[i] \in SUBSET Updates
  <2> SUFFICES ASSUME NEW i \in Instances PROVE repo'[i] \in SUBSET Updates
    OBVIOUS
  <2> DEFINE chosen == CHOOSE e \in landed : InstanceOf[e.update] = i
  <2>1. CASE \E e \in landed : InstanceOf[e.update] = i
    <3>1. chosen \in Effects
      BY <2>1 DEF TypeInv, TypeOK
    <3> HIDE DEF chosen
    <3>2. chosen.instance \in SUBSET Updates
      BY <3>1, EffectTypes
    <3> QED BY <1>1, <2>1, <3>2 DEF chosen
  <2>2. CASE ~ \E e \in landed : InstanceOf[e.update] = i
    BY <1>1, <2>2 DEF TypeInv, TypeOK, Snapshots
  <2> QED BY <2>1, <2>2
<1>3. repo' \in Snapshots
  <2>1. DOMAIN repo' = Instances /\ repo' = [i \in Instances |-> repo'[i]]
    BY <1>1
  <2> QED BY <1>2, <2>1 DEF Snapshots
<1>4. /\ reply' \in [Updates -> {"none", "pending", "ok", "failed", "lost"}]
      /\ crashes' \in 0..MaxCrashes
  BY DEF Crash, TypeInv, TypeOK, TrackerAssumption
<1>5. /\ memory' \in Snapshots /\ asked' \in [Apps -> Updates \cup {None}]
      /\ queue' \in Seq(Updates) /\ Len(queue') <= QueueSize /\ mailbox' \in Seq(Messages)
  BY DEF Crash, Snapshots, Absent, TrackerAssumption
<1>6. TypeOK'
  BY <1>3, <1>4, <1>5 DEF Crash, TypeInv, TypeOK
<1>7. KindsOK'
  BY DEF Crash, KindsOK
<1> QED
  BY <1>6, <1>7 DEF TypeInv

LEMMA TypeStep == TrackerAssumption /\ TypeInv /\ ChannelOK /\ [Next]_vars => TypeInv'
<1> SUFFICES ASSUME TrackerAssumption, TypeInv, ChannelOK, [Next]_vars PROVE TypeInv'
  OBVIOUS
<1> USE DEF TypeInv
<1>1. ASSUME NEW u \in Updates, Process(u) PROVE TypeInv'
  <2>1. queue' \in Seq(Updates) /\ Len(queue') <= QueueSize
    <3>1. /\ queue \in Seq(Updates) /\ QueueSize \in Nat /\ Len(queue) <= QueueSize
          /\ \/ Len(queue) < QueueSize /\ queue' = Append(queue, u)
             \/ queue' = queue
      BY <1>1 DEF Process, queueAccepts, TypeOK, TrackerAssumption
    <3> QED BY <3>1, Appended
  <2>2. /\ reply' \in [Updates -> {"none", "pending", "ok", "failed", "lost"}]
        /\ ahead' \in [Updates -> SUBSET Updates]
    <3> DEFINE before == {v \in Updates : reply[v] = "pending" /\ appOf(v) = appOf(u)}
    <3>1. before \in SUBSET Updates
      OBVIOUS
    <3>2. /\ \E r \in {"pending", "failed"} : reply' = [reply EXCEPT ![u] = r]
          /\ ahead' = ahead \/ ahead' = [ahead EXCEPT ![u] = before]
      BY <1>1 DEF Process
    <3> HIDE DEF before
    <3> QED BY <3>1, <3>2 DEF TypeOK
  <2> QED BY <1>1, <2>1, <2>2 DEF Process, TypeOK, KindsOK, subscriber
<1>2. ASSUME NEW u \in Updates, Expire(u) PROVE TypeInv'
  BY <1>2 DEF Expire, TypeOK, KindsOK, subscriber
<1>3. ASSUME NEW u \in Updates, AskTimeout(u) PROVE TypeInv'
  <2>1. Answer(u, "failed")
    BY <1>3 DEF AskTimeout
  <2>2. /\ reply' \in [Updates -> {"none", "pending", "ok", "failed", "lost"}]
        /\ asked' \in [Apps -> Updates \cup {None}]
    BY <2>1, AnswerType
  <2> QED BY <1>3, <2>2 DEF AskTimeout, TypeOK, KindsOK, subscriber
<1>4. ASSUME Dispatch PROVE TypeInv'
  <2> DEFINE u == Head(queue)
             m == [type |-> IF KindOf[u] = "Query" THEN "ListBySpec" ELSE "UpdateContext", update |-> u]
  <2>1. u \in Updates /\ queue' \in Seq(Updates) /\ Len(queue') <= QueueSize
    BY <1>4, Removed DEF Dispatch, TypeOK, TrackerAssumption
  <2>2. m \in Messages /\ (m.type = "ListBySpec" => KindOf[m.update] = "Query")
        /\ (m.type = "UpdateContext" => KindOf[m.update] /= "Query")
    BY <2>1 DEF Messages
  <2>3. mailbox' = Append(mailbox, m) /\ asked' = [asked EXCEPT ![appOf(u)] = u]
    BY <1>4 DEF Dispatch
  <2> HIDE DEF u, m
  <2>4. mailbox' \in Seq(Messages) /\ KindsOK'
    BY <2>2, <2>3, Posted DEF TypeOK
  <2>5. asked' \in [Apps -> Updates \cup {None}]
    BY <2>1, <2>3, appOfType DEF TypeOK
  <2> QED BY <1>4, <2>1, <2>4, <2>5 DEF Dispatch, TypeOK, subscriber
<1>5. ASSUME Load PROVE TypeInv'
  BY <1>5 DEF Load, TypeOK, KindsOK, subscriber, delegate
<1>6. ASSUME HandleUpdate PROVE TypeInv'
  <2> DEFINE u == Head(mailbox).update
  <2>1. u \in Updates /\ KindOf[u] /= "Query"
    BY <1>6, FirstMessage, MessageTypes DEF HandleUpdate, TypeOK
  <2>2. PICK e \in resolveUpdateEffect(u) :
          \/ /\ e.effect \in {"Update", "Expunge"}
             /\ writes' = writes \cup {e}
             /\ mailbox' = Tail(mailbox)
             /\ UNCHANGED <<asked, reply>>
          \/ /\ e.effect = "Noop"
             /\ mailbox' = Append(Tail(mailbox), [type |-> "RepositoryStateUpdated", effect |-> e])
             /\ UNCHANGED <<writes, asked, reply>>
          \/ /\ e.effect = "Failure"
             /\ mailbox' = Tail(mailbox)
             /\ Answer(e.update, "failed")
             /\ UNCHANGED writes
    BY <1>6 DEF HandleUpdate
  <2> HIDE DEF u
  <2>3. e.update = u /\ (e \in Effects \/ e.effect = "Failure")
    BY <2>1, Resolved
  <2>4. mailbox' \in Seq(Messages) /\ KindsOK'
    <3>1. mailbox /= <<>> /\ mailbox \in Seq(Messages)
      BY <1>6 DEF HandleUpdate, TypeOK
    <3>2. CASE mailbox' = Tail(mailbox)
      BY <3>1, <3>2, Received
    <3>3. CASE /\ e.effect = "Noop"
               /\ mailbox' = Append(Tail(mailbox), [type |-> "RepositoryStateUpdated", effect |-> e])
      <4> DEFINE m == [type |-> "RepositoryStateUpdated", effect |-> e]
      <4>1. m \in Messages /\ m.type = "RepositoryStateUpdated"
        BY <2>3, <3>3, StoredMessage
      <4> HIDE DEF m
      <4>2. /\ Tail(mailbox) \in Seq(Messages)
            /\ \A k \in DOMAIN Tail(mailbox) : k + 1 \in DOMAIN mailbox /\ Tail(mailbox)[k] = mailbox[k + 1]
        BY <3>1, Removed
      <4>3. /\ mailbox' \in Seq(Messages)
            /\ \A k \in DOMAIN mailbox' :
                  mailbox'[k] = m \/ (k \in DOMAIN Tail(mailbox) /\ mailbox'[k] = Tail(mailbox)[k])
        BY <3>3, <4>1, <4>2, Appended DEF m
      <4>4. \A k \in DOMAIN mailbox' : mailbox'[k] = m \/ \E l \in DOMAIN mailbox : mailbox'[k] = mailbox[l]
        BY <4>2, <4>3
      <4> QED BY <4>1, <4>3, <4>4 DEF KindsOK
    <3> QED BY <2>2, <3>2, <3>3
  <2>5. writes' \subseteq Effects
    BY <2>2, <2>3 DEF TypeOK
  <2>6. /\ reply' \in [Updates -> {"none", "pending", "ok", "failed", "lost"}]
        /\ asked' \in [Apps -> Updates \cup {None}]
    <3>1. CASE UNCHANGED <<asked, reply>>
      BY <3>1 DEF TypeOK
    <3>2. CASE Answer(u, "failed")
      BY <2>1, <3>2, AnswerType
    <3> QED BY <2>2, <2>3, <3>1, <3>2
  <2> QED BY <1>6, <2>4, <2>5, <2>6 DEF HandleUpdate, TypeOK, subscriber
<1>7. ASSUME HandleQuery PROVE TypeInv'
  <2> DEFINE u == Head(mailbox).update
  <2>1. u \in Updates
    BY <1>7, FirstMessage, MessageTypes DEF HandleQuery, TypeOK
  <2>2. Answer(u, "ok") /\ DOMAIN result' = Updates /\ mailbox' = Tail(mailbox) /\ mailbox /= <<>>
    BY <1>7 DEF HandleQuery, TypeOK
  <2> HIDE DEF u
  <2>3. /\ reply' \in [Updates -> {"none", "pending", "ok", "failed", "lost"}]
        /\ asked' \in [Apps -> Updates \cup {None}]
    BY <2>1, <2>2, AnswerType
  <2>4. mailbox' \in Seq(Messages) /\ KindsOK'
    BY <2>2, Received DEF TypeOK
  <2> QED BY <1>7, <2>2, <2>3, <2>4 DEF HandleQuery, TypeOK, subscriber
<1>8. ASSUME HandleRepositoryStateUpdated PROVE TypeInv'
  <2> DEFINE e == Head(mailbox).effect
  <2>1. e \in Effects /\ e.update \in Updates
    BY <1>8, FirstMessage, MessageTypes, EffectTypes DEF HandleRepositoryStateUpdated, TypeOK
  <2>2. /\ mailbox' = Tail(mailbox) /\ mailbox /= <<>>
        /\ \/ Answer(e.update, "ok") /\ UNCHANGED <<memory, stepping, channel>>
           \/ /\ memory' = updateApp(e)
              /\ channel' = notifySubscribers(e)
              /\ stepping' = stepping \cup {e}
              /\ UNCHANGED <<asked, reply>>
    BY <1>8 DEF HandleRepositoryStateUpdated
  <2> HIDE DEF e
  <2>3. mailbox' \in Seq(Messages) /\ KindsOK'
    BY <2>2, Received DEF TypeOK
  <2>4. /\ reply' \in [Updates -> {"none", "pending", "ok", "failed", "lost"}]
        /\ asked' \in [Apps -> Updates \cup {None}]
    <3>1. CASE UNCHANGED <<asked, reply>>
      BY <3>1 DEF TypeOK
    <3>2. CASE Answer(e.update, "ok")
      BY <2>1, <3>2, AnswerType
    <3> QED BY <2>2, <3>1, <3>2
  <2>5. /\ memory' \in Snapshots /\ stepping' \subseteq Effects
        /\ channel' = None \/ channel' \in Seq(ChannelMessages)
    BY <2>1, <2>2, persistedType, notifiedType DEF TypeOK, ChannelMessages
  <2> QED BY <1>8, <2>3, <2>4, <2>5 DEF HandleRepositoryStateUpdated, TypeOK, ChannelMessages
<1>9. ASSUME NEW e \in writes, WriteSucceeds(e) PROVE TypeInv'
  <2> DEFINE m == [type |-> "RepositoryStateUpdated", effect |-> e]
  <2>1. e \in Effects
    BY DEF TypeOK
  <2>2. m \in Messages /\ m.type = "RepositoryStateUpdated" /\ mailbox' = Append(mailbox, m)
    BY <1>9, <2>1, StoredMessage DEF WriteSucceeds
  <2> HIDE DEF m
  <2>3. mailbox' \in Seq(Messages) /\ KindsOK'
    BY <2>2, Posted DEF TypeOK
  <2>4. repo' \in Snapshots
    BY <1>9, <2>1, persistedType DEF WriteSucceeds
  <2> QED BY <1>9, <2>3, <2>4 DEF WriteSucceeds, TypeOK, subscriber, delegate
<1>10. ASSUME NEW e \in writes, WriteFails(e) PROVE TypeInv'
  <2>1. e \in Effects /\ e.update \in Updates
    BY EffectTypes DEF TypeOK
  <2>2. repo' \in Snapshots
    BY <1>10, <2>1, persistedType DEF WriteFails, TypeOK
  <2>3. Answer(e.update, "failed")
    BY <1>10 DEF WriteFails
  <2>4. /\ reply' \in [Updates -> {"none", "pending", "ok", "failed", "lost"}]
        /\ asked' \in [Apps -> Updates \cup {None}]
    BY <2>1, <2>3, AnswerType
  <2> QED BY <1>10, <2>2, <2>4 DEF WriteFails, TypeOK, KindsOK, subscriber
<1>11. ASSUME NEW e \in stepping, StepsDone(e) PROVE TypeInv'
  <2>1. e.update \in Updates
    BY EffectTypes DEF TypeOK
  <2>2. Answer(e.update, "ok")
    BY <1>11 DEF StepsDone
  <2>3. /\ reply' \in [Updates -> {"none", "pending", "ok", "failed", "lost"}]
        /\ asked' \in [Apps -> Updates \cup {None}]
    BY <2>1, <2>2, AnswerType
  <2> QED BY <1>11, <2>3 DEF StepsDone, TypeOK, KindsOK, subscriber
<1>12. ASSUME Subscribe PROVE TypeInv'
  <2>1. <<[snapshot |-> memory]>> \in Seq(ChannelMessages)
    BY DEF TypeOK, ChannelMessages
  <2> QED BY <1>12, <2>1 DEF Subscribe, TypeOK, KindsOK, delegate, ChannelMessages
<1>13. ASSUME Unsubscribe PROVE TypeInv'
  BY <1>13 DEF Unsubscribe, TypeOK, KindsOK, delegate
<1>14. ASSUME Receive PROVE TypeInv'
  <2> DEFINE m == Head(channel)
  <2>1. channel /= None /\ channel /= <<>> /\ channel' = Tail(channel)
    BY <1>14 DEF Receive
  <2>2. channel \in Seq(ChannelMessages)
    BY <2>1, ChannelType
  <2>3. channel' \in Seq(ChannelMessages) /\ m \in ChannelMessages /\ m = channel[1]
    BY <2>1, <2>2, Removed
  <2>4. view' = IF isSnapshot(m) THEN m.snapshot ELSE [view EXCEPT ![m.change.instance] = m.change.now]
    BY <1>14 DEF Receive, isSnapshot
  <2> HIDE DEF m
  <2>5. view \in Snapshots \/ isSnapshot(m)
    BY <2>1, <2>3 DEF ChannelOK, isSnapshot
  <2>6. view' \in Snapshots
    BY <2>3, <2>4, <2>5, ChannelMessageTypes DEF Snapshots
  <2> QED BY <1>14, <2>3, <2>6 DEF Receive, TypeOK, KindsOK, delegate, ChannelMessages
<1>15. CASE UNCHANGED vars
  BY <1>15 DEF vars, TypeOK, KindsOK, delegate, subscriber
<1> QED
  BY <1>1, <1>2, <1>3, <1>4, <1>5, <1>6, <1>7, <1>8, <1>9, <1>10, <1>11, <1>12, <1>13, <1>14, <1>15, CrashType
  DEF Next, Actor

-----------------------------------------------------------------------------
(* The subscriber.                                                         *)

(* What a message says of an instance, what the last of the messages that  *)
(* say something of it does, and what is known of it after the first one.  *)
says(m, i) == IF isSnapshot(m) THEN m.snapshot[i] ELSE m.change.now

positions(c, i) == {n \in 1..Len(c) : about(c[n], i)}

known(c, v, i) == IF positions(c, i) = {} THEN v[i] ELSE says(c[Max(positions(c, i))], i)

received(v, m) == IF isSnapshot(m) THEN m.snapshot ELSE [v EXCEPT ![m.change.instance] = m.change.now]

LEMMA knownIs == \A i \in Instances : lastKnown(i) = known(channel, view, i)
  BY DEF lastKnown, known, positions, says, isSnapshot

LEMMA Greatest ==
    ASSUME NEW n \in Nat, NEW S \in SUBSET (1..n), S /= {}
    PROVE  \E i \in S : \A j \in S : j <= i
<1> DEFINE T == {n - i : i \in S}
<1>1. T \subseteq Nat /\ T /= {}
  <2>1. \A i \in S : n - i \in Nat
    OBVIOUS
  <2> QED BY <2>1
<1> DEFINE R == OpToRel(<, Nat)
<1>2. IsWellFoundedOn(R, Nat)
  BY NatLessThanWellFounded
<1> HIDE DEF R
<1>3. PICK x \in T : \A y \in T : <<y, x>> \notin R
  BY <1>1, <1>2, WFMin
<1> USE DEF R
<1>4. \A y \in T : ~ (y < x)
  BY <1>1, <1>3 DEF OpToRel
<1>5. PICK i \in S : x = n - i
  BY <1>3
<1>6. \A j \in S : ~ (n - j < n - i)
  BY <1>4, <1>5
<1> QED
  BY <1>5, <1>6

LEMMA MaxIs ==
    ASSUME NEW S, NEW k \in S, S \subseteq Int, \A j \in S : j <= k
    PROVE  Max(S) = k
<1> DEFINE greatest(x) == x \in S /\ \A y \in S : x >= y
<1>1. greatest(k)
  OBVIOUS
<1>2. \A x : greatest(x) => x = k
  OBVIOUS
<1>3. Max(S) = CHOOSE x : greatest(x)
  BY DEF Max
<1> HIDE DEF greatest
<1> QED
  BY <1>1, <1>2, <1>3

(* The last position that says something of an instance.                   *)
LEMMA LastPosition ==
    ASSUME NEW c \in Seq(ChannelMessages), NEW v, NEW i, positions(c, i) /= {}
    PROVE  \E k \in positions(c, i) : /\ \A j \in positions(c, i) : j <= k
                                      /\ known(c, v, i) = says(c[k], i)
<1>1. Len(c) \in Nat /\ positions(c, i) \in SUBSET (1..Len(c))
  BY DEF positions
<1>2. PICK k \in positions(c, i) : \A j \in positions(c, i) : j <= k
  BY <1>1, Greatest
<1>3. Max(positions(c, i)) = k
  BY <1>1, <1>2, MaxIs
<1> QED
  BY <1>2, <1>3 DEF known

LEMMA KnownAt ==
    ASSUME NEW c \in Seq(ChannelMessages), NEW v, NEW i,
           NEW k \in positions(c, i), \A j \in positions(c, i) : j <= k
    PROVE  known(c, v, i) = says(c[k], i)
<1>1. positions(c, i) \subseteq Int
  BY DEF positions
<1> QED
  BY <1>1, MaxIs DEF known

LEMMA KnownAppended ==
    ASSUME NEW c \in Seq(ChannelMessages), NEW m \in ChannelMessages, NEW v, NEW i
    PROVE  known(Append(c, m), v, i) = IF about(m, i) THEN says(m, i) ELSE known(c, v, i)
<1> DEFINE d == Append(c, m)
           n == Len(c) + 1
<1>1. /\ d \in Seq(ChannelMessages) /\ Len(c) \in Nat /\ Len(d) = n /\ d[n] = m
      /\ \A k \in 1..Len(c) : d[k] = c[k]
  BY Appended
<1> HIDE DEF d
<1>2. CASE about(m, i)
  <2>1. n \in positions(d, i) /\ \A j \in positions(d, i) : j <= n
    BY <1>1, <1>2 DEF positions
  <2>2. known(d, v, i) = says(d[n], i)
    BY <1>1, <2>1, KnownAt
  <2> QED BY <1>1, <1>2, <2>2 DEF d
<1>3. CASE ~ about(m, i)
  <2>1. positions(d, i) = positions(c, i)
    <3>1. \A k \in positions(c, i) : k \in positions(d, i)
      BY <1>1 DEF positions
    <3>2. \A k \in positions(d, i) : k /= n
      BY <1>1, <1>3 DEF positions
    <3>3. \A k \in positions(d, i) : k \in 1..Len(c) /\ about(d[k], i)
      BY <1>1, <3>2 DEF positions
    <3>4. \A k \in positions(d, i) : k \in positions(c, i)
      BY <1>1, <3>3 DEF positions
    <3> QED BY <3>1, <3>4
  <2>2. CASE positions(c, i) = {}
    BY <1>3, <2>1, <2>2 DEF known, d
  <2>3. CASE positions(c, i) /= {}
    <3>1. PICK k \in positions(c, i) : /\ \A j \in positions(c, i) : j <= k
                                       /\ known(c, v, i) = says(c[k], i)
      BY <2>3, LastPosition
    <3>2. known(d, v, i) = says(d[k], i)
      BY <1>1, <2>1, <3>1, KnownAt
    <3>3. d[k] = c[k]
      BY <1>1 DEF positions
    <3> QED BY <1>3, <3>1, <3>2, <3>3 DEF d
  <2> QED BY <2>2, <2>3
<1> QED
  BY <1>2, <1>3

LEMMA KnownReceived ==
    ASSUME NEW c \in Seq(ChannelMessages), c /= <<>>, NEW v, NEW i \in Instances,
           v \in Snapshots \/ isSnapshot(c[1])
    PROVE  known(Tail(c), received(v, Head(c)), i) = known(c, v, i)
<1> DEFINE d == Tail(c)
           m == Head(c)
           w == received(v, m)
<1>1. /\ d \in Seq(ChannelMessages) /\ Len(c) \in Nat /\ Len(d) = Len(c) - 1
      /\ m \in ChannelMessages /\ m = c[1] /\ Len(c) >= 1
  BY Removed
<1>1a. \A k \in 1..Len(d) : k + 1 \in 1..Len(c) /\ d[k] = c[k + 1]
  OBVIOUS
<1>1b. \A k \in 2..Len(c) : k - 1 \in 1..Len(d) /\ d[k - 1] = c[k]
  OBVIOUS
<1> HIDE DEF d, m
<1>2. \A k \in positions(d, i) : k + 1 \in positions(c, i)
  BY <1>1a DEF positions
<1>3. \A k \in positions(c, i) : k = 1 \/ k - 1 \in positions(d, i)
  <2>1. \A k \in positions(c, i) : k = 1 \/ (k \in 2..Len(c) /\ about(c[k], i))
    BY <1>1 DEF positions
  <2> QED BY <1>1b, <2>1 DEF positions
<1>4. positions(c, i) \subseteq Int /\ positions(d, i) \subseteq 1..Len(d) /\ Len(d) \in Nat
  BY <1>1 DEF positions
<1>5. CASE positions(d, i) /= {}
  <2>1. PICK k \in positions(d, i) : /\ \A j \in positions(d, i) : j <= k
                                     /\ known(d, w, i) = says(d[k], i)
    BY <1>1, <1>5, LastPosition
  <2>2. k \in 1..Len(d) /\ k + 1 \in positions(c, i) /\ d[k] = c[k + 1]
    BY <1>1a, <1>2, <1>4, <2>1
  <2>3. \A j \in positions(c, i) : j <= k + 1
    <3> SUFFICES ASSUME NEW j \in positions(c, i) PROVE j <= k + 1
      OBVIOUS
    <3>1. CASE j = 1
      BY <2>2, <3>1
    <3>2. CASE j /= 1
      <4>1. j - 1 <= k
        BY <1>3, <2>1, <3>2
      <4> QED BY <1>4, <2>2, <4>1
    <3> QED BY <3>1, <3>2
  <2>4. known(c, v, i) = says(c[k + 1], i)
    BY <2>2, <2>3, KnownAt
  <2> QED BY <2>1, <2>2, <2>4 DEF d, m
<1>6. CASE positions(d, i) = {}
  <2>1. known(d, w, i) = w[i]
    BY <1>6 DEF known
  <2>2. \A k \in positions(c, i) : k = 1
    BY <1>3, <1>6
  <2>3. CASE about(m, i)
    <3>1. 1 \in positions(c, i) /\ \A j \in positions(c, i) : j <= 1
      BY <1>1, <2>2, <2>3 DEF positions
    <3>2. known(c, v, i) = says(m, i)
      BY <1>1, <3>1, KnownAt
    <3>3. w[i] = says(m, i)
      BY <1>1, <2>3 DEF received, says, about, isSnapshot, Snapshots
    <3> QED BY <2>1, <3>2, <3>3 DEF d, m
  <2>4. CASE ~ about(m, i)
    <3>1. positions(c, i) = {}
      <4>1. 1 \notin positions(c, i)
        BY <1>1, <2>4 DEF positions
      <4> QED BY <2>2, <4>1
    <3>2. known(c, v, i) = v[i]
      BY <3>1 DEF known
    <3>3. w[i] = v[i]
      BY <1>1, <2>4 DEF received, about, isSnapshot, Snapshots
    <3> QED BY <2>1, <3>2, <3>3 DEF d, m
  <2> QED BY <2>3, <2>4
<1> QED
  BY <1>5, <1>6

Follows == channel /= None => \A i \in Instances : known(channel, view, i) = memory[i]

LEMMA FollowsIs == (SubscriberFollows <=> Follows) /\ (SubscriberFollows' <=> Follows')
<1>1. \A i \in Instances : lastKnown(i)' = known(channel', view', i)
  BY DEF lastKnown, known, positions, says, isSnapshot
<1> QED
  BY <1>1, knownIs DEF SubscriberFollows, Follows

LEMMA ViewUnchanged ==
    ASSUME ChannelOK, Follows, UNCHANGED <<phase, memory, channel, view>>
    PROVE  ChannelOK' /\ Follows'
  BY DEF ChannelOK, Follows

LEMMA ViewInit == Init => ChannelOK /\ SubscriberFollows
  BY DEF Init, ChannelOK, SubscriberFollows

LEMMA ViewStep == TrackerAssumption /\ ViewInv /\ [Next]_vars => ViewInv'
<1> SUFFICES ASSUME TrackerAssumption, ViewInv, [Next]_vars PROVE ViewInv'
  OBVIOUS
<1>1. TypeInv /\ ChannelOK /\ Follows /\ TypeOK /\ KindsOK /\ (channel = None \/ channel \in Seq(ChannelMessages))
  BY FollowsIs, ChannelType DEF ViewInv, TypeInv
<1>2. ASSUME HandleRepositoryStateUpdated PROVE ChannelOK' /\ Follows'
  <2> DEFINE e == Head(mailbox).effect
             m == [change |-> [instance |-> InstanceOf[e.update], now |-> e.instance]]
  <2>1. e \in Effects /\ InstanceOf[e.update] \in Instances
    BY <1>1, <1>2, FirstMessage, MessageTypes, EffectTypes, appOfType DEF HandleRepositoryStateUpdated, TypeOK
  <2>2. /\ UNCHANGED <<phase, view>> /\ phase = "initialized"
        /\ \/ UNCHANGED <<memory, channel>>
           \/ memory' = updateApp(e) /\ channel' = notifySubscribers(e)
    BY <1>2 DEF HandleRepositoryStateUpdated
  <2>3. /\ m \in ChannelMessages /\ ~ isSnapshot(m)
        /\ \A i \in Instances : /\ about(m, i) <=> i = InstanceOf[e.update]
                                /\ says(m, i) = e.instance
    BY <2>1, EffectTypes DEF ChannelMessages, Changes, isSnapshot, about, says
  <2>4. CASE UNCHANGED <<memory, channel>>
    BY <1>1, <2>2, <2>4, ViewUnchanged
  <2>5. CASE channel = None /\ channel' = notifySubscribers(e)
    BY <2>5 DEF notifySubscribers, ChannelOK, Follows
  <2>6. CASE channel /= None /\ memory' = updateApp(e) /\ channel' = notifySubscribers(e)
    <3>1. channel' = Append(channel, m) /\ channel \in Seq(ChannelMessages)
      BY <1>1, <2>6 DEF notifySubscribers
    <3>2. /\ memory \in Snapshots
          /\ memory' = [memory EXCEPT ![InstanceOf[e.update]] = e.instance]
      BY <1>1, <2>6 DEF updateApp, TypeOK
    <3> HIDE DEF e, m
    <3>3. Follows'
      <4> SUFFICES ASSUME NEW i \in Instances PROVE known(channel', view', i) = memory'[i]
        BY DEF Follows
      <4>1. known(channel', view', i) = IF about(m, i) THEN says(m, i) ELSE known(channel, view, i)
        BY <2>2, <2>3, <3>1, KnownAppended
      <4>2. known(channel, view, i) = memory[i]
        BY <1>1, <2>6 DEF Follows
      <4> QED BY <2>1, <2>3, <3>2, <4>1, <4>2 DEF Snapshots
    <3>4. ChannelOK'
      <4>1. /\ Len(channel) \in Nat /\ DOMAIN channel = 1..Len(channel)
            /\ \A k \in DOMAIN channel' :
                  \/ k \in DOMAIN channel /\ channel'[k] = channel[k]
                  \/ channel'[k] = m
            /\ \A k \in DOMAIN channel : k \in DOMAIN channel' /\ channel'[k] = channel[k]
            /\ channel' /= <<>>
        BY <2>3, <3>1, Appended
      <4>2. \A k \in DOMAIN channel' : "snapshot" \in DOMAIN channel'[k] => k = 1
        BY <1>1, <2>3, <2>6, <4>1 DEF ChannelOK, isSnapshot
      <4>3. channel /= <<>> => 1 \in DOMAIN channel
        BY <3>1, Removed
      <4>4. view' \in Snapshots \/ "snapshot" \in DOMAIN channel'[1]
        BY <1>1, <2>2, <2>6, <4>1, <4>3 DEF ChannelOK
      <4> QED BY <2>2, <4>1, <4>2, <4>4 DEF ChannelOK
    <3> QED BY <3>3, <3>4
  <2> QED BY <2>2, <2>4, <2>5, <2>6
<1>3. ASSUME Receive PROVE ChannelOK' /\ Follows'
  <2> DEFINE m == Head(channel)
  <2>1. channel /= None /\ channel /= <<>> /\ channel' = Tail(channel) /\ UNCHANGED <<phase, memory>>
    BY <1>3 DEF Receive
  <2>2. channel \in Seq(ChannelMessages)
    BY <1>1, <2>1
  <2>3. /\ m = channel[1] /\ m \in ChannelMessages
        /\ \A k \in DOMAIN channel' : k \in Nat \ {0} /\ k + 1 \in DOMAIN channel /\ channel'[k] = channel[k + 1]
    BY <2>1, <2>2, Removed
  <2>4. view' = received(view, m)
    BY <1>3 DEF Receive, received, isSnapshot
  <2>5. view \in Snapshots \/ isSnapshot(m)
    BY <1>1, <2>1, <2>3 DEF ChannelOK, isSnapshot
  <2>6. Follows'
    <3> SUFFICES ASSUME NEW i \in Instances PROVE known(channel', view', i) = memory'[i]
      BY DEF Follows
    <3>1. known(channel', view', i) = known(channel, view, i)
      BY <2>1, <2>2, <2>3, <2>4, <2>5, KnownReceived
    <3> QED BY <1>1, <2>1, <3>1 DEF Follows
  <2> HIDE DEF m
  <2>7. view' \in Snapshots
    BY <2>3, <2>4, <2>5, ChannelMessageTypes DEF Snapshots, received
  <2>8. \A k \in DOMAIN channel' : "snapshot" \notin DOMAIN channel'[k]
    <3> SUFFICES ASSUME NEW k \in DOMAIN channel' PROVE "snapshot" \notin DOMAIN channel'[k]
      OBVIOUS
    <3>1. k \in Nat \ {0} /\ k + 1 \in DOMAIN channel /\ channel'[k] = channel[k + 1]
      BY <2>3
    <3>2. k + 1 /= 1
      BY <3>1
    <3> QED BY <1>1, <2>1, <3>1, <3>2 DEF ChannelOK
  <2> QED BY <1>1, <2>1, <2>6, <2>7, <2>8 DEF ChannelOK
<1>4. ASSUME Subscribe PROVE ChannelOK' /\ Follows'
  <2> DEFINE m == [snapshot |-> memory]
  <2>1. channel' = <<m>> /\ phase' = "initialized" /\ memory' = memory
    BY <1>4 DEF Subscribe
  <2>2. m \in ChannelMessages /\ isSnapshot(m) /\ \A i : about(m, i) /\ says(m, i) = memory[i]
    BY <1>1 DEF ChannelMessages, isSnapshot, about, says, TypeOK
  <2> HIDE DEF m
  <2>3. channel' \in Seq(ChannelMessages) /\ Len(channel') = 1 /\ channel'[1] = m
    BY <2>1, <2>2
  <2>4. Follows'
    <3> SUFFICES ASSUME NEW i \in Instances PROVE known(channel', view', i) = memory'[i]
      BY DEF Follows
    <3>1. 1 \in positions(channel', i) /\ \A j \in positions(channel', i) : j <= 1
      BY <2>2, <2>3 DEF positions
    <3>2. known(channel', view', i) = says(m, i)
      BY <2>3, <3>1, KnownAt
    <3> QED BY <2>1, <2>2, <3>2
  <2>5. ChannelOK'
    BY <2>1, <2>2 DEF ChannelOK, isSnapshot
  <2> QED BY <2>4, <2>5
<1>5. ASSUME channel' = None PROVE ChannelOK' /\ Follows'
  BY <1>5 DEF ChannelOK, Follows
<1>6. ASSUME Load PROVE ChannelOK' /\ Follows'
  <2>1. channel' = None
    BY <1>1, <1>6 DEF Load, ChannelOK, subscriber
  <2> QED BY <1>5, <2>1
<1>7. ASSUME Unsubscribe \/ Crash PROVE ChannelOK' /\ Follows'
  BY <1>5, <1>7 DEF Unsubscribe, Crash
<1>8. ASSUME UNCHANGED <<phase, memory, channel, view>> PROVE ChannelOK' /\ Follows'
  BY <1>1, <1>8, ViewUnchanged
<1>9. ASSUME NEW u \in Updates, Process(u) \/ Expire(u) \/ AskTimeout(u)
      PROVE  UNCHANGED <<phase, memory, channel, view>>
  BY <1>9 DEF Process, Expire, AskTimeout, subscriber
<1>10. ASSUME Dispatch \/ HandleUpdate \/ HandleQuery
       PROVE  UNCHANGED <<phase, memory, channel, view>>
  BY <1>10 DEF Dispatch, HandleUpdate, HandleQuery, subscriber
<1>11. ASSUME NEW e \in writes, WriteSucceeds(e) \/ WriteFails(e)
       PROVE  UNCHANGED <<phase, memory, channel, view>>
  BY <1>11 DEF WriteSucceeds, WriteFails, subscriber
<1>12. ASSUME NEW e \in stepping, StepsDone(e)
       PROVE  UNCHANGED <<phase, memory, channel, view>>
  BY <1>12 DEF StepsDone, subscriber
<1>13. CASE UNCHANGED vars
  BY <1>8, <1>13, FollowsIs, <1>1, TypeStep DEF vars, ViewInv
<1>14. ChannelOK' /\ Follows'
  BY <1>2, <1>3, <1>4, <1>6, <1>7, <1>8, <1>9, <1>10, <1>11, <1>12, <1>13 DEF Next, Actor, vars
<1>15. TypeInv'
  BY <1>1, TypeStep
<1> QED
  BY <1>14, <1>15, FollowsIs DEF ViewInv

LEMMA ViewAlways == Spec => []ViewInv
<1>1. Init => ViewInv
  BY TypeInit, ViewInit, TrackerAssumption DEF ViewInv
<1>2. ViewInv /\ [Next]_vars => ViewInv'
  BY ViewStep, TrackerAssumption
<1> QED
  BY <1>1, <1>2, PTL DEF Spec

(* The queue keeps to its size, every message is one the actor understands *)
(* and every instance is a set of calls, whatever times out, fails or ends.*)
THEOREM TypeCorrect == Spec => []TypeOK
<1>1. ViewInv => TypeOK
  BY DEF ViewInv, TypeInv
<1> QED
  BY <1>1, ViewAlways, PTL

(* A subscriber that has received what is on its way to it knows the       *)
(* instances as the tracker does: notifySubscribers sends every change of  *)
(* the memory, and the subscription starts with a snapshot of it.          *)
THEOREM SubscriberCorrect == Spec => []SubscriberFollows
<1>1. ViewInv => SubscriberFollows
  BY DEF ViewInv
<1> QED
  BY <1>1, ViewAlways, PTL

-----------------------------------------------------------------------------
(* Where the calls are.                                                    *)

(* Nothing works on a call.                                                *)
Idle(box, ws, ss, u) ==
    /\ \A k \in DOMAIN box : callOf(box[k]) /= u
    /\ \A e \in ws \cup ss : e.update /= u

LEMMA TakeMessage ==
    ASSUME NEW box \in Seq(Messages), NEW ws, NEW ss, NEW calls,
           Working(box, ws, ss, calls), box /= <<>>
    PROVE  Working(Tail(box), ws, ss, calls) /\ Idle(Tail(box), ws, ss, callOf(Head(box)))
<1> DEFINE t == Tail(box)
<1>1. /\ Head(box) = box[1] /\ 1 \in DOMAIN box
      /\ \A k \in DOMAIN t : k \in Nat \ {0} /\ k + 1 \in DOMAIN box /\ t[k] = box[k + 1]
  BY Removed
<1> HIDE DEF t
<1>2. \A k, l \in DOMAIN t : k + 1 = l + 1 => k = l
  BY <1>1
<1>3. \A k \in DOMAIN t : k + 1 /= 1
  BY <1>1
<1>4. Working(t, ws, ss, calls)
  BY <1>1, <1>2 DEF Working
<1>5. Idle(t, ws, ss, callOf(Head(box)))
  BY <1>1, <1>3 DEF Working, Idle
<1> QED
  BY <1>4, <1>5 DEF t

LEMMA TakeWrite ==
    ASSUME NEW box, NEW ws, NEW ss, NEW calls, NEW e \in ws, Working(box, ws, ss, calls)
    PROVE  Working(box, ws \ {e}, ss, calls) /\ Idle(box, ws \ {e}, ss, e.update)
  BY Zenon DEF Working, Idle

LEMMA TakeStep ==
    ASSUME NEW box, NEW ws, NEW ss, NEW calls, NEW e \in ss, Working(box, ws, ss, calls)
    PROVE  Working(box, ws, ss \ {e}, calls) /\ Idle(box, ws, ss \ {e}, e.update)
  BY Zenon DEF Working, Idle

LEMMA WorkOf ==
    ASSUME NEW box, NEW ws, NEW ss, NEW calls, Working(box, ws, ss, calls)
    PROVE  \A e \in ws \cup ss : e.update \in calls
  BY DEF Working

LEMMA PutMessage ==
    ASSUME NEW box \in Seq(Messages), NEW ws, NEW ss, NEW calls, NEW m \in Messages,
           Working(box, ws, ss, calls), Idle(box, ws, ss, callOf(m)),
           callOf(m) \in calls
    PROVE  Working(Append(box, m), ws, ss, calls)
<1> DEFINE t == Append(box, m)
           n == Len(box) + 1
<1>1. /\ DOMAIN t = DOMAIN box \cup {n} /\ n \notin DOMAIN box /\ t[n] = m
      /\ \A k \in DOMAIN box : t[k] = box[k]
  BY Appended
<1> HIDE DEF t, n
<1>2. \A k, l \in DOMAIN t : callOf(t[k]) = callOf(t[l]) => k = l
  BY <1>1 DEF Working, Idle
<1>3. \A k \in DOMAIN t : callOf(t[k]) \in calls
  BY <1>1 DEF Working
<1>4. \A e \in ws \cup ss, k \in DOMAIN t : callOf(t[k]) /= e.update
  BY <1>1 DEF Working, Idle
<1> QED
  BY <1>2, <1>3, <1>4 DEF Working, t

LEMMA PutWrite ==
    ASSUME NEW box, NEW ws, NEW ss, NEW calls, NEW e,
           Working(box, ws, ss, calls), Idle(box, ws, ss, e.update),
           e.update \in calls
    PROVE  Working(box, ws \cup {e}, ss, calls)
  BY Zenon DEF Working, Idle

LEMMA PutStep ==
    ASSUME NEW box, NEW ws, NEW ss, NEW calls, NEW e,
           Working(box, ws, ss, calls), Idle(box, ws, ss, e.update),
           e.update \in calls
    PROVE  Working(box, ws, ss \cup {e}, calls)
  BY Zenon DEF Working, Idle

(* Calls that nothing works on may come and go.                            *)
LEMMA OtherCalls ==
    ASSUME NEW box, NEW ws, NEW ss, NEW calls, NEW others, NEW u,
           Working(box, ws, ss, calls), Idle(box, ws, ss, u), calls \subseteq others \cup {u}
    PROVE  Working(box, ws, ss, others)
  BY Zenon DEF Working, Idle

LEMMA MoreCalls ==
    ASSUME NEW box, NEW ws, NEW ss, NEW calls, NEW others,
           Working(box, ws, ss, calls), calls \subseteq others
    PROVE  Working(box, ws, ss, others)
  BY Zenon DEF Working

LEMMA IdleUnlessCalled ==
    ASSUME NEW box, NEW ws, NEW ss, NEW calls, NEW u,
           Working(box, ws, ss, calls), u \notin calls
    PROVE  Idle(box, ws, ss, u)
  BY Zenon DEF Working, Idle

(* An answer to the call that its app waits for.                           *)
LEMMA AnswerCalls ==
    ASSUME TrackerAssumption, TypeOK, QueueOK, AskedOK, NEW u \in Updates, NEW r \in {"ok", "failed"},
           asked[appOf(u)] = u, Answer(u, r), queue' = queue
    PROVE  /\ asked' = [asked EXCEPT ![appOf(u)] = None]
           /\ reply' = [reply EXCEPT ![u] = r]
           /\ QueueOK' /\ AskedOK'
<1>1. asked' = [asked EXCEPT ![appOf(u)] = None] /\ reply' = [reply EXCEPT ![u] = r]
  BY DEF Answer
<1>2. /\ asked \in [Apps -> Updates \cup {None}] /\ DOMAIN reply = Updates /\ appOf(u) \in Apps
      /\ \A k \in DOMAIN queue : queue[k] \in Updates /\ appOf(queue[k]) \in Apps
      /\ None \notin Updates
  BY appOfType DEF TypeOK, TrackerAssumption
<1>3. \A k \in DOMAIN queue : queue[k] /= u
  BY DEF QueueOK
<1>4. QueueOK'
  <2>1. \A k \in DOMAIN queue : reply'[queue[k]] = "pending"
    BY <1>1, <1>2, <1>3 DEF QueueOK
  <2>2. \A k \in DOMAIN queue : asked'[appOf(queue[k])] /= queue[k]
    BY <1>1, <1>2 DEF QueueOK
  <2> QED BY <2>1, <2>2 DEF QueueOK
<1>5. AskedOK'
  <2> SUFFICES ASSUME NEW a \in Apps, asked'[a] /= None
               PROVE  appOf(asked'[a]) = a /\ reply'[asked'[a]] = "pending"
    BY DEF AskedOK
  <2>1. a /= appOf(u) /\ asked'[a] = asked[a]
    BY <1>1, <1>2
  <2>2. asked[a] /= None /\ asked[a] \in Updates /\ appOf(asked[a]) = a /\ reply[asked[a]] = "pending"
    BY <1>2, <2>1 DEF AskedOK
  <2>3. asked[a] /= u
    BY <2>1, <2>2
  <2> QED BY <1>1, <1>2, <2>1, <2>2, <2>3
<1> QED
  BY <1>1, <1>4, <1>5

(* What is under way when a call is answered, or its ask has timed out.    *)
LEMMA AnswerUnderWay ==
    ASSUME TrackerAssumption, TypeOK, NEW u \in Updates, NEW r, Answer(u, r)
    PROVE  /\ underWay \subseteq underWay' \cup {u}
           /\ AskMayTimeOut /\ r = "failed" => underWay \subseteq underWay'
<1>1. \A v \in Updates : appOf(v) \in Apps
  BY appOfType
<1>2. asked \in [Apps -> Updates \cup {None}] /\ DOMAIN reply = Updates
  BY DEF TypeOK
<1>3. CASE asked[appOf(u)] = u
  <2>1. asked' = [asked EXCEPT ![appOf(u)] = None] /\ reply' = [reply EXCEPT ![u] = r]
    BY <1>3 DEF Answer
  <2>2. \A v \in Updates : asked[appOf(v)] = v => v = u \/ asked'[appOf(v)] = v
    <3> SUFFICES ASSUME NEW v \in Updates, asked[appOf(v)] = v, v /= u PROVE asked'[appOf(v)] = v
      OBVIOUS
    <3>1. appOf(v) /= appOf(u)
      BY <1>3
    <3> QED BY <1>1, <1>2, <2>1, <3>1
  <2>3. \A v \in Updates : v /= u => reply'[v] = reply[v]
    BY <2>1
  <2>4. reply'[u] = r
    BY <1>2, <2>1
  <2> QED BY <2>2, <2>3, <2>4 DEF underWay
<1>4. CASE asked[appOf(u)] /= u
  BY <1>4 DEF Answer, underWay
<1> QED
  BY <1>3, <1>4

(* A call that nothing works on any more is answered, or is not, because   *)
(* its ask has timed out.                                                  *)
LEMMA AnswerWork ==
    ASSUME TrackerAssumption, TypeOK, QueueOK, AskedOK, NEW u \in Updates, NEW r \in {"ok", "failed"},
           Answer(u, r), queue' = queue,
           Working(mailbox', writes', stepping', underWay), Idle(mailbox', writes', stepping', u)
    PROVE  PlacesOK'
<1>1. QueueOK' /\ AskedOK'
  <2>1. CASE asked[appOf(u)] = u
    BY <2>1, AnswerCalls
  <2>2. CASE asked[appOf(u)] /= u
    BY <2>2 DEF Answer, QueueOK, AskedOK
  <2> QED BY <2>1, <2>2
<1>2. underWay \subseteq underWay' \cup {u}
  BY AnswerUnderWay
<1>3. Working(mailbox', writes', stepping', underWay')
  BY <1>2, OtherCalls
<1> QED
  BY <1>1, <1>3 DEF PlacesOK

LEMMA PlacesUnchanged ==
    ASSUME PlacesOK, UNCHANGED <<reply, queue, asked, mailbox, writes, stepping>>
    PROVE  PlacesOK'
  BY DEF PlacesOK, QueueOK, AskedOK, Working, underWay

LEMMA PlacesStep ==
    ASSUME TrackerAssumption, TypeInv, TypeInv', PlacesOK, [Next]_vars
    PROVE  PlacesOK'
<1>1. /\ TypeOK /\ KindsOK /\ QueueOK /\ AskedOK /\ Working(mailbox, writes, stepping, underWay)
      /\ queue \in Seq(Updates) /\ mailbox \in Seq(Messages) /\ None \notin Updates
      /\ writes \subseteq Effects /\ stepping \subseteq Effects
      /\ asked \in [Apps -> Updates \cup {None}] /\ DOMAIN reply = Updates
  BY DEF TypeInv, TypeOK, PlacesOK, TrackerAssumption
<1>2. mailbox' \in Seq(Messages) /\ writes' \cup stepping' \subseteq Effects
  BY DEF TypeInv, TypeOK
<1>3. ASSUME mailbox /= <<>>
      PROVE  /\ Head(mailbox) \in Messages /\ callOf(Head(mailbox)) \in Updates
             /\ callOf(Head(mailbox)) \in underWay
             /\ Working(Tail(mailbox), writes, stepping, underWay)
             /\ Idle(Tail(mailbox), writes, stepping, callOf(Head(mailbox)))
             /\ Tail(mailbox) \in Seq(Messages)
  <2>1. Head(mailbox) \in Messages /\ Head(mailbox) = mailbox[1] /\ 1 \in DOMAIN mailbox
    BY <1>1, <1>3, FirstMessage
  <2>2. callOf(mailbox[1]) \in underWay
    BY <1>1, <2>1 DEF Working
  <2> QED BY <1>1, <1>3, <2>1, <2>2, TakeMessage, MessageTypes, Removed
<1>4. ASSUME NEW u \in Updates, Process(u) PROVE PlacesOK'
  <2>1. UNCHANGED <<asked, mailbox, writes, stepping>> /\ reply[u] = "none"
    BY <1>4 DEF Process
  <2>2. /\ \A v \in Updates : reply[v] = "pending" => reply'[v] = "pending"
        /\ queue' = queue \/ (queue' = Append(queue, u) /\ reply'[u] = "pending")
    BY <1>1, <1>4 DEF Process
  <2>3. \A a \in Apps : asked[a] /= None => asked[a] \in Updates
    BY <1>1
  <2>4. AskedOK'
    BY <2>1, <2>2, <2>3, <1>1 DEF AskedOK
  <2>5. asked[appOf(u)] /= u /\ appOf(u) \in Apps
    BY <2>1, <1>1, appOfType DEF AskedOK
  <2>6. \A k \in DOMAIN queue : queue[k] \in Updates /\ queue[k] /= u
    BY <1>1, <2>1 DEF QueueOK
  <2>7. ASSUME queue' = queue PROVE QueueOK'
    BY <1>1, <2>1, <2>2, <2>6, <2>7 DEF QueueOK
  <2>8. ASSUME queue' = Append(queue, u), reply'[u] = "pending" PROVE QueueOK'
    <3>1. /\ \A k \in DOMAIN queue : queue'[k] = queue[k]
          /\ DOMAIN queue' = DOMAIN queue \cup {Len(queue) + 1}
          /\ queue'[Len(queue) + 1] = u
      BY <1>1, <2>8, Appended
    <3>2. \A k \in DOMAIN queue' : reply'[queue'[k]] = "pending" /\ asked'[appOf(queue'[k])] /= queue'[k]
      BY <1>1, <2>1, <2>2, <2>5, <2>6, <2>8, <3>1 DEF QueueOK
    <3>3. \A k, l \in DOMAIN queue' : queue'[k] = queue'[l] => k = l
      BY <1>1, <2>6, <3>1 DEF QueueOK
    <3> QED BY <3>2, <3>3 DEF QueueOK
  <2>9. QueueOK'
    BY <2>2, <2>7, <2>8
  <2>10. underWay \subseteq underWay'
    <3>1. \A v \in Updates : reply[v] = "failed" => reply'[v] = "failed"
      BY <1>1, <1>4, <2>1 DEF Process
    <3> QED BY <2>1, <3>1 DEF underWay
  <2>11. Working(mailbox', writes', stepping', underWay')
    BY <1>1, <2>1, <2>10, MoreCalls
  <2> QED BY <2>4, <2>9, <2>11 DEF PlacesOK
<1>5. ASSUME NEW u \in Updates, Expire(u) PROVE PlacesOK'
  BY <1>5, PlacesUnchanged DEF Expire
<1>6. ASSUME NEW u \in Updates, AskTimeout(u) PROVE PlacesOK'
  <2>1. /\ AskMayTimeOut /\ asked[appOf(u)] = u /\ Answer(u, "failed")
        /\ UNCHANGED <<queue, mailbox, writes, stepping>>
    BY <1>6 DEF AskTimeout
  <2>2. QueueOK' /\ AskedOK'
    BY <1>1, <2>1, AnswerCalls
  <2>3. underWay \subseteq underWay'
    BY <1>1, <2>1, AnswerUnderWay
  <2>4. Working(mailbox', writes', stepping', underWay')
    BY <1>1, <2>1, <2>3, MoreCalls
  <2> QED BY <2>2, <2>4 DEF PlacesOK
<1>7. ASSUME Dispatch PROVE PlacesOK'
  <2> DEFINE u == Head(queue)
             m == [type |-> IF KindOf[u] = "Query" THEN "ListBySpec" ELSE "UpdateContext", update |-> u]
  <2>1. /\ u \in Updates /\ u = queue[1] /\ 1 \in DOMAIN queue /\ queue' = Tail(queue)
        /\ \A k \in DOMAIN queue' : k \in Nat \ {0} /\ k + 1 \in DOMAIN queue /\ queue'[k] = queue[k + 1]
    BY <1>1, <1>7, Removed DEF Dispatch
  <2>2. m \in Messages /\ callOf(m) = u
    BY <2>1 DEF Messages, callOf
  <2>3. /\ mailbox' = Append(mailbox, m) /\ asked' = [asked EXCEPT ![appOf(u)] = u]
        /\ asked[appOf(u)] = None /\ UNCHANGED <<reply, writes, stepping>>
    BY <1>7 DEF Dispatch, substreamIdle
  <2> HIDE DEF u, m
  <2>4. appOf(u) \in Apps /\ \A k \in DOMAIN queue : queue[k] \in Updates /\ appOf(queue[k]) \in Apps
    BY <1>1, <2>1, appOfType
  <2>5. asked'[appOf(u)] = u /\ \A a \in Apps : a /= appOf(u) => asked'[a] = asked[a]
    BY <1>1, <2>3, <2>4
  <2>6. \A k \in DOMAIN queue' : queue'[k] /= u
    <3>1. \A k \in DOMAIN queue' : k + 1 \in DOMAIN queue /\ k + 1 /= 1 /\ queue'[k] = queue[k + 1]
      BY <2>1
    <3> QED BY <1>1, <2>1, <3>1 DEF QueueOK
  <2>7. QueueOK'
    <3>1. \A k \in DOMAIN queue' : reply'[queue'[k]] = "pending"
      BY <1>1, <2>1, <2>3 DEF QueueOK
    <3>2. \A k \in DOMAIN queue' : asked'[appOf(queue'[k])] /= queue'[k]
      BY <1>1, <2>1, <2>4, <2>5, <2>6 DEF QueueOK
    <3>3. \A k, l \in DOMAIN queue' : k \in Nat /\ l \in Nat /\ (queue'[k] = queue'[l] => k + 1 = l + 1)
      BY <1>1, <2>1 DEF QueueOK
    <3>4. \A k, l \in DOMAIN queue' : queue'[k] = queue'[l] => k = l
      BY <3>3
    <3> QED BY <3>1, <3>2, <3>4 DEF QueueOK
  <2>8. AskedOK'
    <3>1. reply[u] = "pending"
      BY <1>1, <2>1 DEF QueueOK
    <3> QED BY <1>1, <2>3, <2>5, <3>1 DEF AskedOK
  <2>9. Idle(mailbox, writes, stepping, u)
    <3>1. u \notin underWay
      BY <1>1, <2>1 DEF QueueOK, underWay
    <3> QED BY <1>1, <3>1, IdleUnlessCalled
  <2>10. underWay \subseteq underWay' /\ u \in underWay'
    <3>1. \A v \in Updates : asked[appOf(v)] = v => asked'[appOf(v)] = v
      <4> SUFFICES ASSUME NEW v \in Updates, asked[appOf(v)] = v PROVE asked'[appOf(v)] = v
        OBVIOUS
      <4>1. appOf(v) /= appOf(u)
        BY <1>1, <2>3
      <4> QED BY <2>5, <4>1, <1>1, appOfType
    <3> QED BY <2>1, <2>3, <2>5, <3>1 DEF underWay
  <2>11. Working(mailbox, writes, stepping, underWay')
    BY <1>1, <2>10, MoreCalls
  <2>12. Working(mailbox', writes', stepping', underWay')
    BY <1>1, <2>2, <2>3, <2>9, <2>10, <2>11, PutMessage
  <2> QED BY <2>7, <2>8, <2>12 DEF PlacesOK
<1>8. ASSUME Load PROVE PlacesOK'
  BY <1>8, PlacesUnchanged DEF Load, delegate
<1>9. ASSUME HandleUpdate PROVE PlacesOK'
  <2> DEFINE u == Head(mailbox).update
  <2>1. u = callOf(Head(mailbox)) /\ mailbox /= <<>> /\ KindOf[u] /= "Query"
    BY <1>1, <1>9, FirstMessage DEF HandleUpdate, callOf
  <2>2. PICK e \in resolveUpdateEffect(u) :
          \/ /\ writes' = writes \cup {e}
             /\ mailbox' = Tail(mailbox)
             /\ UNCHANGED <<asked, reply>>
          \/ /\ e.effect = "Noop"
             /\ mailbox' = Append(Tail(mailbox), [type |-> "RepositoryStateUpdated", effect |-> e])
             /\ UNCHANGED <<writes, asked, reply>>
          \/ /\ mailbox' = Tail(mailbox)
             /\ Answer(e.update, "failed")
             /\ UNCHANGED writes
    BY <1>9 DEF HandleUpdate
  <2>3. UNCHANGED <<queue, stepping>>
    BY <1>9 DEF HandleUpdate
  <2> HIDE DEF u
  <2>4. /\ u \in Updates /\ u \in underWay
        /\ Working(Tail(mailbox), writes, stepping, underWay)
        /\ Idle(Tail(mailbox), writes, stepping, u)
        /\ Tail(mailbox) \in Seq(Messages)
    BY <1>3, <2>1
  <2>5. e.update = u /\ (e \in Effects \/ e.effect = "Failure")
    BY <1>1, <2>1, <2>4, Resolved
  <2>6. CASE /\ writes' = writes \cup {e}
             /\ mailbox' = Tail(mailbox)
             /\ UNCHANGED <<asked, reply>>
    <3>1. Working(mailbox', writes', stepping', underWay)
      BY <2>3, <2>4, <2>5, <2>6, PutWrite
    <3> QED BY <1>1, <2>3, <2>6, <3>1 DEF PlacesOK, QueueOK, AskedOK, underWay
  <2>7. CASE /\ e.effect = "Noop"
             /\ mailbox' = Append(Tail(mailbox), [type |-> "RepositoryStateUpdated", effect |-> e])
             /\ UNCHANGED <<writes, asked, reply>>
    <3>1. Working(mailbox', writes', stepping', underWay)
      BY <2>3, <2>4, <2>5, <2>7, PutMessage, StoredMessage
    <3> QED BY <1>1, <2>3, <2>7, <3>1 DEF PlacesOK, QueueOK, AskedOK, underWay
  <2>8. CASE /\ mailbox' = Tail(mailbox)
             /\ Answer(e.update, "failed")
             /\ UNCHANGED writes
    BY <1>1, <1>2, <2>3, <2>4, <2>5, <2>8, AnswerWork
  <2> QED BY <2>2, <2>6, <2>7, <2>8
<1>10. ASSUME HandleQuery PROVE PlacesOK'
  <2> DEFINE u == Head(mailbox).update
  <2>1. /\ u = callOf(Head(mailbox)) /\ mailbox /= <<>> /\ mailbox' = Tail(mailbox)
        /\ Answer(u, "ok") /\ UNCHANGED <<queue, writes, stepping>>
    BY <1>10 DEF HandleQuery, callOf
  <2> HIDE DEF u
  <2> QED BY <1>1, <1>2, <1>3, <2>1, AnswerWork
<1>11. ASSUME HandleRepositoryStateUpdated PROVE PlacesOK'
  <2> DEFINE e == Head(mailbox).effect
  <2>1. /\ mailbox' = Tail(mailbox) /\ mailbox /= <<>> /\ UNCHANGED <<queue, writes>>
        /\ e.update = callOf(Head(mailbox))
        /\ \/ Answer(e.update, "ok") /\ UNCHANGED stepping
           \/ /\ stepping' = stepping \cup {e}
              /\ UNCHANGED <<asked, reply>>
    BY <1>11 DEF HandleRepositoryStateUpdated, callOf
  <2> HIDE DEF e
  <2>2. CASE Answer(e.update, "ok") /\ UNCHANGED stepping
    BY <1>1, <1>2, <1>3, <2>1, <2>2, AnswerWork
  <2>3. CASE stepping' = stepping \cup {e} /\ UNCHANGED <<asked, reply>>
    <3>1. Working(mailbox', writes', stepping', underWay)
      BY <1>3, <2>1, <2>3, PutStep
    <3> QED BY <1>1, <2>1, <2>3, <3>1 DEF PlacesOK, QueueOK, AskedOK, underWay
  <2> QED BY <2>1, <2>2, <2>3
<1>12. ASSUME NEW e \in writes, WriteSucceeds(e) PROVE PlacesOK'
  <2> DEFINE m == [type |-> "RepositoryStateUpdated", effect |-> e]
  <2>1. /\ mailbox' = Append(mailbox, m) /\ writes' = writes \ {e}
        /\ UNCHANGED <<queue, stepping, asked, reply>>
    BY <1>12 DEF WriteSucceeds, delegate
  <2>2. m \in Messages /\ callOf(m) = e.update
    BY <1>1, StoredMessage
  <2> HIDE DEF m
  <2>3. e.update \in underWay
    BY <1>1, WorkOf
  <2>4. Working(mailbox, writes \ {e}, stepping, underWay) /\ Idle(mailbox, writes \ {e}, stepping, e.update)
    BY <1>1, TakeWrite
  <2>5. Working(mailbox', writes', stepping', underWay)
    BY <1>1, <2>1, <2>2, <2>3, <2>4, PutMessage
  <2> QED BY <1>1, <2>1, <2>5 DEF PlacesOK, QueueOK, AskedOK, underWay
<1>13. ASSUME NEW e \in writes, WriteFails(e) PROVE PlacesOK'
  <2>1. /\ writes' = writes \ {e} /\ Answer(e.update, "failed") /\ UNCHANGED <<queue, stepping, mailbox>>
    BY <1>13 DEF WriteFails
  <2>2. e.update \in Updates
    BY <1>1, EffectTypes
  <2>3. e.update \in underWay
    BY <1>1, WorkOf
  <2>4. Working(mailbox, writes \ {e}, stepping, underWay) /\ Idle(mailbox, writes \ {e}, stepping, e.update)
    BY <1>1, TakeWrite
  <2> QED BY <1>1, <1>2, <2>1, <2>2, <2>3, <2>4, AnswerWork
<1>14. ASSUME NEW e \in stepping, StepsDone(e) PROVE PlacesOK'
  <2>1. /\ stepping' = stepping \ {e} /\ Answer(e.update, "ok") /\ UNCHANGED <<queue, writes, mailbox>>
    BY <1>14 DEF StepsDone
  <2>2. e.update \in Updates
    BY <1>1, EffectTypes
  <2>3. e.update \in underWay
    BY <1>1, WorkOf
  <2>4. Working(mailbox, writes, stepping \ {e}, underWay) /\ Idle(mailbox, writes, stepping \ {e}, e.update)
    BY <1>1, TakeStep
  <2> QED BY <1>1, <1>2, <2>1, <2>2, <2>3, <2>4, AnswerWork
<1>15. ASSUME Subscribe \/ Unsubscribe \/ Receive PROVE PlacesOK'
  BY <1>15, PlacesUnchanged DEF Subscribe, Unsubscribe, Receive, delegate
<1>16. ASSUME Crash PROVE PlacesOK'
  <2>1. /\ queue' = <<>> /\ mailbox' = <<>> /\ writes' = {} /\ stepping' = {}
        /\ asked' = [a \in Apps |-> None]
    BY <1>16 DEF Crash
  <2> QED BY <2>1 DEF PlacesOK, QueueOK, AskedOK, Working
<1>17. CASE UNCHANGED vars
  BY <1>17, PlacesUnchanged DEF vars
<1> QED
  BY <1>4, <1>5, <1>6, <1>7, <1>8, <1>9, <1>10, <1>11, <1>12, <1>13, <1>14, <1>15, <1>16, <1>17
  DEF Next, Actor

LEMMA LoadingStep ==
    ASSUME TypeInv, LoadingOK, [Next]_vars
    PROVE  LoadingOK'
<1>1. mailbox \in Seq(Messages)
  BY DEF TypeInv, TypeOK
<1>2. ASSUME phase' = "initialized" PROVE LoadingOK'
  BY <1>2 DEF LoadingOK
<1>3. ASSUME UNCHANGED <<phase, mailbox, writes, stepping>> PROVE LoadingOK'
  BY <1>3 DEF LoadingOK
<1>4. ASSUME NEW u \in Updates, Process(u) \/ Expire(u) \/ AskTimeout(u) PROVE LoadingOK'
  BY <1>3, <1>4 DEF Process, Expire, AskTimeout
<1>5. ASSUME Dispatch PROVE LoadingOK'
  <2> DEFINE u == Head(queue)
             m == [type |-> IF KindOf[u] = "Query" THEN "ListBySpec" ELSE "UpdateContext", update |-> u]
  <2>1. mailbox' = Append(mailbox, m) /\ UNCHANGED <<phase, writes, stepping>>
    BY <1>5 DEF Dispatch
  <2>2. m.type /= "RepositoryStateUpdated"
    OBVIOUS
  <2> HIDE DEF u, m
  <2>3. \A k \in DOMAIN mailbox' : mailbox'[k] = m \/ (k \in DOMAIN mailbox /\ mailbox'[k] = mailbox[k])
    BY <1>1, <2>1
  <2> QED BY <2>1, <2>2, <2>3 DEF LoadingOK
<1>6. ASSUME Load PROVE LoadingOK'
  BY <1>2, <1>6 DEF Load
<1>7. ASSUME HandleUpdate PROVE LoadingOK'
  BY <1>2, <1>7 DEF HandleUpdate
<1>8. ASSUME HandleQuery PROVE LoadingOK'
  BY <1>2, <1>8 DEF HandleQuery
<1>9. ASSUME HandleRepositoryStateUpdated PROVE LoadingOK'
  BY <1>2, <1>9 DEF HandleRepositoryStateUpdated
<1>10. ASSUME NEW e \in writes \cup stepping,
              UNCHANGED phase
       PROVE  LoadingOK'
  <2>1. phase /= "initializing"
    BY DEF LoadingOK
  <2> QED BY <1>10, <2>1 DEF LoadingOK
<1>11. ASSUME NEW e \in writes, WriteSucceeds(e) \/ WriteFails(e) PROVE LoadingOK'
  BY <1>10, <1>11 DEF WriteSucceeds, WriteFails
<1>12. ASSUME NEW e \in stepping, StepsDone(e) PROVE LoadingOK'
  BY <1>10, <1>12 DEF StepsDone
<1>13. ASSUME Subscribe \/ Unsubscribe \/ Receive PROVE LoadingOK'
  BY <1>3, <1>13 DEF Subscribe, Unsubscribe, Receive
<1>14. ASSUME Crash PROVE LoadingOK'
  BY <1>14 DEF Crash, LoadingOK
<1>15. CASE UNCHANGED vars
  BY <1>3, <1>15 DEF vars
<1> QED
  BY <1>4, <1>5, <1>6, <1>7, <1>8, <1>9, <1>11, <1>12, <1>13, <1>14, <1>15 DEF Next, Actor

LEMMA CallsInit == Init => CallsInv
<1> SUFFICES ASSUME Init PROVE CallsInv
  OBVIOUS
<1>1. QueueOK /\ AskedOK /\ Working(mailbox, writes, stepping, underWay) /\ LoadingOK
  BY DEF Init, QueueOK, AskedOK, Working, LoadingOK
<1> QED
  BY <1>1, TypeInit, ViewInit, TrackerAssumption DEF CallsInv, ViewInv, PlacesOK

LEMMA CallsStep == CallsInv /\ [Next]_vars => CallsInv'
  BY ViewStep, PlacesStep, LoadingStep, TrackerAssumption DEF CallsInv, ViewInv

(* Unless asks time out a call that is being worked on is the one its app  *)
(* waits for.                                                              *)
LEMMA OneCall ==
    ASSUME AskMayTimeOut = FALSE, TypeInv, PlacesOK
    PROVE  /\ \A k \in DOMAIN mailbox : /\ mailbox[k] \in Messages /\ callOf(mailbox[k]) \in Updates
                                        /\ asked[appOf(callOf(mailbox[k]))] = callOf(mailbox[k])
           /\ \A e \in writes \cup stepping : /\ e \in Effects /\ e.update \in Updates
                                              /\ asked[appOf(e.update)] = e.update
<1>1. \A k \in DOMAIN mailbox : mailbox[k] \in Messages
  BY DEF TypeInv, TypeOK
<1>2. \A e \in writes \cup stepping : e \in Effects
  BY DEF TypeInv, TypeOK
<1> QED
  BY <1>1, <1>2, MessageTypes, EffectTypes DEF PlacesOK, Working, underWay

(* ... and there is one for an instance.                                   *)
LEMMA OneOfApp ==
    \A v, w \in Updates :
        asked[appOf(v)] = v /\ asked[appOf(w)] = w /\ InstanceOf[v] = InstanceOf[w] => v = w
  BY DEF appOf

LEMMA OneChange == TypeInv /\ PlacesOK => OneChangeAtATime
<1> SUFFICES ASSUME TypeInv, PlacesOK, NEW i \in Instances, NEW d \in OnItsWay(i), NEW e \in OnItsWay(i),
                    reply[d.update] /= "failed", reply[e.update] /= "failed"
             PROVE  d = e
  BY DEF OneChangeAtATime
<1> DEFINE Written(x) == x \in writes
           Told(x) == \E k \in DOMAIN mailbox : callOf(mailbox[k]) = x.update /\ mailbox[k].effect = x
<1>1. \A x \in OnItsWay(i) : InstanceOf[x.update] = i /\ (Written(x) \/ Told(x))
  BY DEF OnItsWay, Range, callOf
<1>2. Working(mailbox, writes, stepping, underWay)
  BY DEF PlacesOK
<1>3. \A x \in OnItsWay(i) : x.update \in underWay
  BY <1>1, <1>2 DEF Working
<1>4. d.update = e.update
  BY <1>1, <1>3, OneOfApp DEF underWay
<1>5. CASE Written(d) /\ Written(e)
  BY <1>2, <1>4, <1>5 DEF Working
<1>6. CASE Told(d) /\ Told(e)
  BY <1>2, <1>4, <1>6 DEF Working
<1>7. CASE (Written(d) /\ Told(e)) \/ (Told(d) /\ Written(e))
  BY <1>2, <1>4, <1>7 DEF Working
<1> HIDE DEF Written, Told
<1> QED
  BY <1>1, <1>5, <1>6, <1>7

LEMMA CallsAlways == Spec => []CallsInv
<1>1. Init => CallsInv
  BY CallsInit
<1>2. CallsInv /\ [Next]_vars => CallsInv'
  BY CallsStep
<1> QED
  BY <1>1, <1>2, PTL DEF Spec

(* mapAsync(1) of an app's substream keeps a second change of an instance  *)
(* from being resolved while the first is not in memory, unless the ask of *)
(* one of them has timed out.                                              *)
THEOREM OneChangeCorrect == Spec => []OneChangeAtATime
<1>1. CallsInv => OneChangeAtATime
  BY OneChange DEF CallsInv, ViewInv
<1> QED
  BY <1>1, CallsAlways, PTL

-----------------------------------------------------------------------------
(* What the repository and the memory hold, when a failed write is not     *)
(* made.                                                                   *)

LEMMA StoredAppended ==
    ASSUME NEW box \in Seq(Messages), NEW m \in Messages
    PROVE  \A u : StoredCall(Append(box, m), u) <=> StoredCall(box, u) \/ (Stored(m) /\ callOf(m) = u)
<1> DEFINE t == Append(box, m)
           n == Len(box) + 1
<1>1. /\ DOMAIN t = DOMAIN box \cup {n} /\ t[n] = m /\ \A k \in DOMAIN box : t[k] = box[k]
  BY Appended
<1> HIDE DEF t, n
<1>2. \A u : StoredCall(t, u) <=> StoredCall(box, u) \/ (Stored(m) /\ callOf(m) = u)
  BY <1>1 DEF StoredCall
<1> QED
  BY <1>2 DEF t

LEMMA StoredRemoved ==
    ASSUME NEW box \in Seq(Messages), box /= <<>>
    PROVE  \A u : StoredCall(box, u) <=> \/ StoredCall(Tail(box), u)
                                         \/ Stored(Head(box)) /\ callOf(Head(box)) = u
<1> DEFINE t == Tail(box)
           m == Head(box)
<1>1. /\ m = box[1] /\ 1 \in DOMAIN box
      /\ \A k \in DOMAIN t : k + 1 \in DOMAIN box /\ t[k] = box[k + 1]
      /\ \A k \in DOMAIN box \ {1} : k - 1 \in DOMAIN t /\ t[k - 1] = box[k]
  BY Removed
<1> HIDE DEF t, m
<1>2. \A u : StoredCall(box, u) => StoredCall(t, u) \/ (Stored(m) /\ callOf(m) = u)
  BY <1>1 DEF StoredCall
<1>3. \A u : StoredCall(t, u) \/ (Stored(m) /\ callOf(m) = u) => StoredCall(box, u)
  BY <1>1 DEF StoredCall
<1> QED
  BY <1>2, <1>3 DEF t, m

LEMMA MessagesAppended ==
    ASSUME NEW box \in Seq(Messages), NEW m \in Messages, NEW store,
           \A k \in DOMAIN box : MessageOK(box[k], store), MessageOK(m, store)
    PROVE  \A k \in DOMAIN Append(box, m) : MessageOK(Append(box, m)[k], store)
<1> DEFINE t == Append(box, m)
<1>1. \A k \in DOMAIN t : t[k] = m \/ (k \in DOMAIN box /\ t[k] = box[k])
  BY Appended
<1> HIDE DEF t
<1>2. \A k \in DOMAIN t : MessageOK(t[k], store)
  BY <1>1
<1> QED
  BY <1>2 DEF t

LEMMA MessagesRemoved ==
    ASSUME NEW box \in Seq(Messages), box /= <<>>, NEW store,
           \A k \in DOMAIN box : MessageOK(box[k], store)
    PROVE  /\ \A k \in DOMAIN Tail(box) : MessageOK(Tail(box)[k], store)
           /\ MessageOK(Head(box), store)
<1> DEFINE t == Tail(box)
<1>1. /\ \A k \in DOMAIN t : k + 1 \in DOMAIN box /\ t[k] = box[k + 1]
      /\ Head(box) = box[1] /\ 1 \in DOMAIN box
  BY Removed
<1> HIDE DEF t
<1>2. \A k \in DOMAIN t : MessageOK(t[k], store)
  BY <1>1
<1> QED
  BY <1>1, <1>2 DEF t

(* The memory agrees with the repository about the instance of a call that *)
(* is being worked on and has not been written.                            *)
LEMMA NotStored ==
    ASSUME AskMayTimeOut = FALSE, TypeInv, PlacesOK, NEW u \in Updates, asked[appOf(u)] = u, ~ StoredCall(mailbox, u)
    PROVE  \A v \in Updates : StoredCall(mailbox, v) => AppOf[InstanceOf[v]] /= AppOf[InstanceOf[u]]
<1> SUFFICES ASSUME NEW v \in Updates, StoredCall(mailbox, v), AppOf[InstanceOf[v]] = AppOf[InstanceOf[u]]
             PROVE  FALSE
  OBVIOUS
<1>1. asked[appOf(v)] = v
  BY OneCall DEF StoredCall
<1>2. v = u
  BY <1>1 DEF appOf
<1> QED
  BY <1>2

LEMMA FirstNotStored ==
    ASSUME TypeInv, PlacesOK, mailbox /= <<>>, Head(mailbox).type /= "RepositoryStateUpdated"
    PROVE  ~ StoredCall(mailbox, callOf(Head(mailbox)))
<1>1. mailbox \in Seq(Messages) /\ Working(mailbox, writes, stepping, underWay)
  BY DEF TypeInv, TypeOK, PlacesOK
<1>2. Head(mailbox) = mailbox[1] /\ 1 \in DOMAIN mailbox
  BY <1>1, Removed
<1>3. \A k \in DOMAIN mailbox : callOf(mailbox[k]) = callOf(mailbox[1]) => k = 1
  BY <1>1, <1>2 DEF Working
<1> QED
  BY <1>2, <1>3 DEF StoredCall, Stored

LEMMA Persisted ==
    ASSUME TrackerAssumption, TypeOK, NEW e \in Effects
    PROVE  /\ persisted(e)[InstanceOf[e.update]] = e.instance
           /\ updateApp(e)[InstanceOf[e.update]] = e.instance
           /\ \A i \in Instances : i /= InstanceOf[e.update] => persisted(e)[i] = repo[i] /\ updateApp(e)[i] = memory[i]
<1>1. InstanceOf[e.update] \in Instances
  BY EffectTypes, appOfType
<1> QED
  BY <1>1 DEF TypeOK, Snapshots, persisted, updateApp

LEMMA EffectsUnchanged ==
    ASSUME EffectsOK, UNCHANGED <<repo, memory, mailbox, phase>>, writes' \subseteq writes
    PROVE  EffectsOK'
  BY DEF EffectsOK, Agree, MessageOK, WriteOK

LEMMA EffectsStep ==
    ASSUME TrackerAssumption, AskMayTimeOut = FALSE, FailuresAmbiguous = FALSE,
           TypeInv, PlacesOK, LoadingOK, EffectsOK, [Next]_vars
    PROVE  EffectsOK'
<1>1. /\ TypeOK /\ KindsOK /\ mailbox \in Seq(Messages)
      /\ Working(mailbox, writes, stepping, underWay)
      /\ writes \subseteq Effects /\ stepping \subseteq Effects
  BY DEF TypeInv, TypeOK, PlacesOK
<1>2. /\ \A e \in writes : WriteOK(e, repo)
      /\ \A k \in DOMAIN mailbox : MessageOK(mailbox[k], repo)
      /\ phase = "initialized" => Agree(mailbox, memory, repo)
  BY DEF EffectsOK
<1>3. ASSUME NEW u \in Updates, Process(u) \/ Expire(u) \/ AskTimeout(u) PROVE EffectsOK'
  BY <1>3, EffectsUnchanged DEF Process, Expire, AskTimeout
<1>4. ASSUME Dispatch PROVE EffectsOK'
  <2> DEFINE u == Head(queue)
             m == [type |-> IF KindOf[u] = "Query" THEN "ListBySpec" ELSE "UpdateContext", update |-> u]
  <2>1. mailbox' = Append(mailbox, m) /\ UNCHANGED <<phase, writes, memory, repo>> /\ u \in Updates
    BY <1>1, <1>4, Removed DEF Dispatch, TypeOK
  <2>2. m \in Messages /\ m.type /= "RepositoryStateUpdated"
    BY <2>1 DEF Messages
  <2> HIDE DEF u, m
  <2>3. \A v : StoredCall(mailbox', v) <=> StoredCall(mailbox, v)
    BY <1>1, <2>1, <2>2, StoredAppended DEF Stored
  <2>4. \A k \in DOMAIN mailbox' : MessageOK(mailbox'[k], repo)
    BY <1>1, <1>2, <2>1, <2>2, MessagesAppended DEF MessageOK
  <2> QED BY <1>2, <2>1, <2>3, <2>4 DEF EffectsOK, Agree
<1>5. ASSUME Load PROVE EffectsOK'
  <2>1. /\ UNCHANGED <<mailbox, writes, repo>> /\ memory' = repo
    BY <1>5 DEF Load
  <2> QED BY <1>2, <2>1 DEF EffectsOK, Agree
<1>6. ASSUME mailbox /= <<>>, ~ Stored(Head(mailbox))
      PROVE  \A v : StoredCall(Tail(mailbox), v) <=> StoredCall(mailbox, v)
  BY <1>1, <1>6, StoredRemoved
<1>7. ASSUME mailbox /= <<>>
      PROVE  /\ Head(mailbox) \in Messages /\ callOf(Head(mailbox)) \in Updates
             /\ Tail(mailbox) \in Seq(Messages)
             /\ asked[appOf(callOf(Head(mailbox)))] = callOf(Head(mailbox))
             /\ \A k \in DOMAIN Tail(mailbox) : MessageOK(Tail(mailbox)[k], repo)
             /\ MessageOK(Head(mailbox), repo)
  <2>1. Head(mailbox) = mailbox[1] /\ 1 \in DOMAIN mailbox /\ Tail(mailbox) \in Seq(Messages)
    BY <1>1, <1>7, Removed
  <2>2. /\ mailbox[1] \in Messages /\ callOf(mailbox[1]) \in Updates
        /\ asked[appOf(callOf(mailbox[1]))] = callOf(mailbox[1])
    BY <2>1, OneCall
  <2>3. /\ \A k \in DOMAIN Tail(mailbox) : MessageOK(Tail(mailbox)[k], repo)
        /\ MessageOK(Head(mailbox), repo)
    BY <1>1, <1>2, <1>7, MessagesRemoved
  <2> QED BY <2>1, <2>2, <2>3
<1>8. ASSUME HandleUpdate PROVE EffectsOK'
  <2> DEFINE u == Head(mailbox).update
             i == InstanceOf[u]
  <2>1. /\ u = callOf(Head(mailbox)) /\ mailbox /= <<>> /\ KindOf[u] /= "Query"
        /\ Head(mailbox).type /= "RepositoryStateUpdated" /\ phase = "initialized"
        /\ UNCHANGED <<phase, memory, repo>>
    BY <1>1, <1>8, FirstMessage DEF HandleUpdate, callOf
  <2>2. PICK e \in resolveUpdateEffect(u) :
          \/ /\ e.effect \in {"Update", "Expunge"}
             /\ writes' = writes \cup {e}
             /\ mailbox' = Tail(mailbox)
          \/ /\ e.effect = "Noop"
             /\ mailbox' = Append(Tail(mailbox), [type |-> "RepositoryStateUpdated", effect |-> e])
             /\ UNCHANGED writes
          \/ /\ mailbox' = Tail(mailbox)
             /\ UNCHANGED writes
    BY <1>8 DEF HandleUpdate
  <2> HIDE DEF u
  <2>3. u \in Updates /\ asked[appOf(u)] = u /\ ~ StoredCall(mailbox, u) /\ i \in Instances
    BY <1>7, <2>1, FirstNotStored, appOfType
  <2>4. memory[i] = repo[i]
    BY <1>2, <2>1, <2>3, NotStored DEF Agree
  <2> HIDE DEF i
  <2>5. /\ e.update = u
        /\ (e \in Effects \/ e.effect = "Failure")
        /\ e.effect \in {"Update", "Expunge"} => /\ Promise!accepts(memory[i], u)
                                                 /\ e.instance = Promise!after(memory[i], u)
        /\ e.effect = "Noop" => Promise!ignores(memory[i], u)
    BY <1>1, <2>1, <2>3, Resolved DEF i
  <2>6. ~ Stored(Head(mailbox))
    BY <2>1 DEF Stored
  <2>7. Agree(Tail(mailbox), memory, repo)
    BY <1>2, <1>6, <2>1, <2>6 DEF Agree
  <2>8. ASSUME e.effect \in {"Update", "Expunge"} PROVE WriteOK(e, repo)
    BY <2>4, <2>5, <2>8 DEF WriteOK, i
  <2>9. CASE mailbox' = Tail(mailbox)
    BY <1>2, <1>7, <2>1, <2>2, <2>7, <2>8, <2>9 DEF EffectsOK
  <2>10. CASE /\ e.effect = "Noop"
              /\ mailbox' = Append(Tail(mailbox), [type |-> "RepositoryStateUpdated", effect |-> e])
              /\ UNCHANGED writes
    <3> DEFINE m == [type |-> "RepositoryStateUpdated", effect |-> e]
    <3>1. m \in Messages /\ m.type = "RepositoryStateUpdated" /\ m.effect = e
      BY <2>5, <2>10, StoredMessage
    <3>2. mailbox' = Append(Tail(mailbox), m)
      BY <2>10
    <3> HIDE DEF m
    <3>3. MessageOK(m, repo) /\ ~ Stored(m)
      BY <2>4, <2>5, <2>10, <3>1 DEF MessageOK, Stored, i
    <3>4. \A v : StoredCall(mailbox', v) <=> StoredCall(Tail(mailbox), v)
      BY <1>7, <2>1, <3>1, <3>2, <3>3, StoredAppended
    <3>5. \A k \in DOMAIN mailbox' : MessageOK(mailbox'[k], repo)
      BY <1>7, <2>1, <3>1, <3>2, <3>3, MessagesAppended
    <3> QED BY <1>2, <2>1, <2>7, <2>10, <3>4, <3>5 DEF EffectsOK, Agree
  <2> QED BY <2>2, <2>9, <2>10
<1>9. ASSUME HandleQuery PROVE EffectsOK'
  <2>1. /\ mailbox /= <<>> /\ mailbox' = Tail(mailbox) /\ ~ Stored(Head(mailbox))
        /\ UNCHANGED <<phase, memory, repo, writes>>
    BY <1>9 DEF HandleQuery, Stored
  <2> QED BY <1>2, <1>6, <1>7, <2>1 DEF EffectsOK, Agree
<1>10. ASSUME HandleRepositoryStateUpdated PROVE EffectsOK'
  <2> DEFINE m == Head(mailbox)
             e == m.effect
             i == InstanceOf[e.update]
  <2>1. /\ mailbox' = Tail(mailbox) /\ mailbox /= <<>> /\ UNCHANGED <<phase, writes, repo>>
        /\ m.type = "RepositoryStateUpdated" /\ e.update = callOf(m) /\ phase = "initialized"
        /\ \/ e.effect = "Noop" /\ UNCHANGED memory
           \/ e.effect /= "Noop" /\ memory' = updateApp(e)
    BY <1>10 DEF HandleRepositoryStateUpdated, callOf
  <2>2. e \in Effects
    BY <1>7, <2>1, MessageTypes
  <2>3. MessageOK(m, repo)
    BY <1>7, <2>1
  <2>4. \A u : StoredCall(mailbox, u) <=> StoredCall(mailbox', u) \/ (Stored(m) /\ callOf(m) = u)
    BY <1>1, <2>1, StoredRemoved
  <2>5. Agree(mailbox, memory, repo)
    BY <1>2, <2>1
  <2> HIDE DEF m
  <2>6. CASE e.effect = "Noop" /\ UNCHANGED memory
    <3>1. ~ Stored(m)
      BY <2>6 DEF Stored
    <3> QED BY <1>2, <1>7, <2>1, <2>4, <2>5, <2>6, <3>1 DEF EffectsOK, Agree
  <2>7. CASE e.effect /= "Noop" /\ memory' = updateApp(e)
    <3>1. repo[i] = e.instance
      BY <2>1, <2>3, <2>7 DEF MessageOK
    <3>2. memory'[i] = e.instance /\ \A j \in Instances : j /= i => memory'[j] = memory[j]
      BY <1>1, <2>2, <2>7, Persisted
    <3>3. Agree(mailbox', memory', repo)
      <4> SUFFICES ASSUME NEW j \in Instances, j /= i,
                          \A u \in Updates : StoredCall(mailbox', u) => InstanceOf[u] /= j
                   PROVE  memory[j] = repo[j]
        BY <3>1, <3>2 DEF Agree
      <4>1. \A u \in Updates : StoredCall(mailbox, u) => InstanceOf[u] /= j
        BY <2>1, <2>4
      <4> QED BY <2>5, <4>1 DEF Agree
    <3> QED BY <1>2, <1>7, <2>1, <3>3 DEF EffectsOK
  <2> QED BY <2>1, <2>6, <2>7
<1>11. ASSUME NEW e \in writes, WriteSucceeds(e) PROVE EffectsOK'
  <2> DEFINE m == [type |-> "RepositoryStateUpdated", effect |-> e]
             i == InstanceOf[e.update]
  <2>1. /\ mailbox' = Append(mailbox, m) /\ writes' = writes \ {e} /\ repo' = persisted(e)
        /\ UNCHANGED <<phase, memory>>
    BY <1>11 DEF WriteSucceeds
  <2>2. e \in Effects /\ e.update \in Updates /\ WriteOK(e, repo) /\ asked[appOf(e.update)] = e.update
    BY <1>2, OneCall
  <2>3. m \in Messages /\ m.type = "RepositoryStateUpdated" /\ m.effect = e /\ callOf(m) = e.update
    BY <2>2, StoredMessage
  <2>4. repo'[i] = e.instance /\ \A j \in Instances : j /= i => repo'[j] = repo[j]
    BY <1>1, <2>1, <2>2, Persisted
  <2> HIDE DEF m
  <2>5. \A d \in writes' : InstanceOf[d.update] \in Instances /\ InstanceOf[d.update] /= i
    <3> SUFFICES ASSUME NEW d \in writes, d /= e
                 PROVE  InstanceOf[d.update] \in Instances /\ InstanceOf[d.update] /= i
      BY <2>1
    <3>1. d.update \in Updates /\ asked[appOf(d.update)] = d.update /\ d.update /= e.update
      BY <1>1, OneCall DEF Working
    <3> QED BY <2>2, <3>1, OneOfApp, appOfType
  <2>6. \A d \in writes' : WriteOK(d, repo')
    BY <1>2, <2>1, <2>4, <2>5 DEF WriteOK
  <2>7. \A k \in DOMAIN mailbox : callOf(mailbox[k]) /= e.update
    BY <1>1 DEF Working
  <2>8. \A k \in DOMAIN mailbox :
          /\ InstanceOf[callOf(mailbox[k])] \in Instances /\ InstanceOf[callOf(mailbox[k])] /= i
          /\ mailbox[k] \in Messages
    BY <2>2, <2>7, OneCall, OneOfApp, appOfType
  <2>9. \A k \in DOMAIN mailbox : MessageOK(mailbox[k], repo')
    <3> SUFFICES ASSUME NEW k \in DOMAIN mailbox, mailbox[k].type = "RepositoryStateUpdated"
                 PROVE  MessageOK(mailbox[k], repo')
      BY DEF MessageOK
    <3>1. callOf(mailbox[k]) = mailbox[k].effect.update
      BY DEF callOf
    <3>2. repo'[InstanceOf[mailbox[k].effect.update]] = repo[InstanceOf[mailbox[k].effect.update]]
      BY <2>4, <2>8, <3>1
    <3> QED BY <1>2, <3>2 DEF MessageOK
  <2>10. MessageOK(m, repo')
    BY <2>2, <2>3, <2>4 DEF MessageOK, WriteOK
  <2>11. \A k \in DOMAIN mailbox' : MessageOK(mailbox'[k], repo')
    BY <1>1, <2>1, <2>3, <2>9, <2>10, MessagesAppended
  <2>12. \A u : StoredCall(mailbox', u) <=> StoredCall(mailbox, u) \/ u = e.update
    BY <1>1, <2>1, <2>2, <2>3, StoredAppended DEF Stored, WriteOK
  <2>13. phase = "initialized" => Agree(mailbox', memory, repo')
    <3> SUFFICES ASSUME phase = "initialized", NEW j \in Instances,
                        \A u \in Updates : StoredCall(mailbox', u) => InstanceOf[u] /= j
                 PROVE  memory[j] = repo'[j]
      BY DEF Agree
    <3>1. j /= i /\ \A u \in Updates : StoredCall(mailbox, u) => InstanceOf[u] /= j
      BY <2>2, <2>12
    <3> QED BY <1>2, <2>4, <3>1 DEF Agree
  <2> QED BY <2>1, <2>6, <2>11, <2>13 DEF EffectsOK
<1>12. ASSUME NEW e \in writes, WriteFails(e) PROVE EffectsOK'
  BY <1>12, EffectsUnchanged DEF WriteFails
<1>13. ASSUME NEW e \in stepping, StepsDone(e) PROVE EffectsOK'
  BY <1>13, EffectsUnchanged DEF StepsDone
<1>14. ASSUME Subscribe \/ Unsubscribe \/ Receive PROVE EffectsOK'
  BY <1>14, EffectsUnchanged DEF Subscribe, Unsubscribe, Receive
<1>15. ASSUME Crash PROVE EffectsOK'
  BY <1>15 DEF Crash, EffectsOK
<1>16. CASE UNCHANGED vars
  BY <1>16, EffectsUnchanged DEF vars
<1> QED
  BY <1>3, <1>4, <1>5, <1>8, <1>9, <1>10, <1>11, <1>12, <1>13, <1>14, <1>15, <1>16 DEF Next, Actor

-----------------------------------------------------------------------------
(* The order of the calls of an app.                                       *)

LEMMA OrderUnchanged ==
    ASSUME PendingOK, AheadOK, UNCHANGED <<reply, queue, asked, ahead>>
    PROVE  PendingOK' /\ AheadOK'
  BY DEF PendingOK, AheadOK

(* A call that waits in the queue is not the one its app waits for.        *)
LEMMA OrderAnswered ==
    ASSUME TrackerAssumption, TypeInv, PlacesOK, PendingOK, AheadOK,
           NEW u \in Updates, NEW r \in {"ok", "failed"}, asked[appOf(u)] = u, Answer(u, r),
           UNCHANGED <<queue, ahead>>
    PROVE  PendingOK' /\ AheadOK'
<1>1. /\ asked' = [asked EXCEPT ![appOf(u)] = None]
      /\ reply' = [reply EXCEPT ![u] = r]
  BY DEF Answer
<1>2. asked \in [Apps -> Updates \cup {None}] /\ DOMAIN reply = Updates /\ appOf(u) \in Apps
      /\ ahead \in [Updates -> SUBSET Updates]
  BY appOfType DEF TypeInv, TypeOK
<1>3. \A v \in Updates : reply'[v] = "pending" => v /= u /\ reply[v] = "pending"
  BY <1>1, <1>2
<1>4. \A v \in Updates : v /= u /\ asked[appOf(v)] = v => asked'[appOf(v)] = v
  <2> SUFFICES ASSUME NEW v \in Updates, v /= u, asked[appOf(v)] = v PROVE asked'[appOf(v)] = v
    OBVIOUS
  <2>1. appOf(v) /= appOf(u) /\ appOf(v) \in Apps
    BY appOfType
  <2> QED BY <1>1, <1>2, <2>1
<1>5. PendingOK'
  BY <1>3, <1>4 DEF PendingOK
<1>6. \A v \in Updates : \A w \in ahead[v] : w \in Updates /\ reply'[w] /= "none"
  BY <1>1, <1>2 DEF AheadOK
<1>7. AheadOK'
  BY <1>3, <1>4, <1>6 DEF AheadOK
<1> QED
  BY <1>5, <1>7

LEMMA OrderStep ==
    ASSUME TrackerAssumption, AskMayTimeOut = FALSE,
           TypeInv, PlacesOK, PendingOK, AheadOK, [Next]_vars
    PROVE  PendingOK' /\ AheadOK'
<1>1. /\ TypeOK /\ KindsOK /\ QueueOK /\ AskedOK
      /\ queue \in Seq(Updates) /\ None \notin Updates
      /\ asked \in [Apps -> Updates \cup {None}] /\ DOMAIN reply = Updates
      /\ ahead \in [Updates -> SUBSET Updates]
  BY DEF TypeInv, TypeOK, PlacesOK, TrackerAssumption
<1>2. ASSUME NEW u \in Updates, Process(u) PROVE PendingOK' /\ AheadOK'
  <2> DEFINE before == {v \in Updates : reply[v] = "pending" /\ appOf(v) = appOf(u)}
             n == Len(queue) + 1
  <2>1. /\ UNCHANGED asked /\ reply[u] = "none"
        /\ \/ /\ queue' = Append(queue, u)
              /\ reply' = [reply EXCEPT ![u] = "pending"]
              /\ ahead' = [ahead EXCEPT ![u] = before]
           \/ reply' = [reply EXCEPT ![u] = "failed"] /\ UNCHANGED <<queue, ahead>>
    BY <1>2 DEF Process
  <2>2. \A v \in before : v \in Updates /\ reply[v] = "pending" /\ appOf(v) = appOf(u) /\ v /= u
    BY <2>1
  <2> HIDE DEF before
  <2>3. CASE /\ queue' = Append(queue, u)
             /\ reply' = [reply EXCEPT ![u] = "pending"]
             /\ ahead' = [ahead EXCEPT ![u] = before]
    <3>1. /\ n \in DOMAIN queue' /\ queue'[n] = u
          /\ \A k \in DOMAIN queue : k \in DOMAIN queue' /\ queue'[k] = queue[k] /\ k < n
      BY <1>1, <2>3, Appended
    <3> HIDE DEF n
    <3>2. \A v \in Updates : v /= u => reply'[v] = reply[v]
      BY <1>1, <2>3
    <3>3. PendingOK'
      BY <2>1, <3>1, <3>2 DEF PendingOK
    <3>4. ahead'[u] = before /\ \A v \in Updates : v /= u => ahead'[v] = ahead[v]
      BY <1>1, <2>3
    <3>5. \A v \in Updates : u \notin ahead[v]
      BY <2>1 DEF AheadOK
    <3>6. \A v \in Updates : \A w \in ahead'[v] : reply'[w] /= "none"
      <4> SUFFICES ASSUME NEW v \in Updates, NEW w \in ahead'[v] PROVE reply'[w] /= "none"
        OBVIOUS
      <4>1. CASE v = u
        BY <2>2, <3>2, <3>4, <4>1
      <4>2. CASE v /= u
        <5>1. w \in ahead[v] /\ w \in Updates /\ w /= u
          BY <1>1, <3>4, <3>5, <4>2
        <5> QED BY <3>2, <5>1 DEF AheadOK
      <4> QED BY <4>1, <4>2
    <3>7. ASSUME NEW v \in Updates, NEW w \in Updates,
                 reply'[v] = "pending", reply'[w] = "pending", w \in ahead'[v]
          PROVE  /\ w /= v /\ appOf(w) = appOf(v)
                 /\ \/ asked'[appOf(w)] = w
                    \/ \E k, l \in DOMAIN queue' : k < l /\ queue'[k] = w /\ queue'[l] = v
      <4>1. CASE v = u
        <5>1. w /= u /\ appOf(w) = appOf(u) /\ reply[w] = "pending"
          BY <2>2, <3>4, <3>7, <4>1
        <5>2. asked[appOf(w)] = w \/ \E k \in DOMAIN queue : queue[k] = w
          BY <5>1 DEF PendingOK
        <5> QED BY <2>1, <3>1, <4>1, <5>1, <5>2
      <4>2. CASE v /= u
        <5>1. w \in ahead[v] /\ w /= u /\ reply[v] = "pending" /\ reply[w] = "pending"
          BY <3>2, <3>4, <3>5, <3>7, <4>2
        <5>2. /\ w /= v /\ appOf(w) = appOf(v)
              /\ \/ asked[appOf(w)] = w
                 \/ \E k, l \in DOMAIN queue : k < l /\ queue[k] = w /\ queue[l] = v
          BY <5>1 DEF AheadOK
        <5> QED BY <2>1, <3>1, <5>2
      <4> QED BY <4>1, <4>2
    <3>8. AheadOK'
      BY <3>6, <3>7 DEF AheadOK
    <3> QED BY <3>3, <3>8
  <2>4. CASE reply' = [reply EXCEPT ![u] = "failed"] /\ UNCHANGED <<queue, ahead>>
    <3>1. /\ \A v \in Updates : reply'[v] = "pending" => reply[v] = "pending"
          /\ \A v \in Updates : reply'[v] = "none" => reply[v] = "none"
      BY <1>1, <2>4
    <3>2. PendingOK'
      BY <2>1, <2>4, <3>1 DEF PendingOK
    <3>3. \A v \in Updates : \A w \in ahead[v] : w \in Updates /\ reply'[w] /= "none"
      BY <1>1, <3>1 DEF AheadOK
    <3>4. AheadOK'
      BY <2>1, <2>4, <3>1, <3>3 DEF AheadOK
    <3> QED BY <3>2, <3>4
  <2> QED BY <2>1, <2>3, <2>4
<1>3. ASSUME NEW u \in Updates, Expire(u) PROVE PendingOK' /\ AheadOK'
  BY <1>3, OrderUnchanged DEF Expire
<1>4. ASSUME NEW u \in Updates, AskTimeout(u) PROVE FALSE
  BY <1>4 DEF AskTimeout
<1>5. ASSUME Dispatch PROVE PendingOK' /\ AheadOK'
  <2> DEFINE u == Head(queue)
  <2>1. /\ u \in Updates /\ u = queue[1] /\ 1 \in DOMAIN queue /\ queue' = Tail(queue)
        /\ \A k \in DOMAIN queue \ {1} : k \in Nat /\ k - 1 \in DOMAIN queue' /\ queue'[k - 1] = queue[k]
    BY <1>1, <1>5, Removed DEF Dispatch
  <2>2. /\ asked' = [asked EXCEPT ![appOf(u)] = u] /\ asked[appOf(u)] = None /\ UNCHANGED <<reply, ahead>>
    BY <1>5 DEF Dispatch, substreamIdle
  <2> HIDE DEF u
  <2>3. appOf(u) \in Apps
    BY <2>1, appOfType
  <2>4. asked'[appOf(u)] = u /\ \A v \in Updates : asked[appOf(v)] = v => asked'[appOf(v)] = v
    <3>1. asked'[appOf(u)] = u /\ \A a \in Apps : a /= appOf(u) => asked'[a] = asked[a]
      BY <1>1, <2>2, <2>3
    <3>2. \A v \in Updates : appOf(v) \in Apps /\ (asked[appOf(v)] = v => appOf(v) /= appOf(u))
      BY <1>1, <2>2, appOfType
    <3> QED BY <3>1, <3>2
  <2>5. \A v \in Updates : asked'[appOf(v)] = v \/ \A k \in DOMAIN queue : queue[k] = v => k /= 1
    BY <2>1, <2>4
  <2>6. PendingOK'
    <3> SUFFICES ASSUME NEW v \in Updates, reply[v] = "pending", asked'[appOf(v)] /= v
                 PROVE  \E k \in DOMAIN queue' : queue'[k] = v
      BY <2>2 DEF PendingOK
    <3>1. PICK k \in DOMAIN queue : queue[k] = v
      BY <2>4 DEF PendingOK
    <3>2. k \in DOMAIN queue \ {1}
      BY <2>5, <3>1
    <3> QED BY <2>1, <3>1, <3>2
  <2>7. ASSUME NEW v \in Updates, NEW w \in Updates,
               reply[v] = "pending", reply[w] = "pending", w \in ahead[v]
        PROVE  /\ w /= v /\ appOf(w) = appOf(v)
               /\ \/ asked'[appOf(w)] = w
                  \/ \E k, l \in DOMAIN queue' : k < l /\ queue'[k] = w /\ queue'[l] = v
    <3>1. /\ w /= v /\ appOf(w) = appOf(v)
          /\ \/ asked[appOf(w)] = w
             \/ \E k, l \in DOMAIN queue : k < l /\ queue[k] = w /\ queue[l] = v
      BY <2>7 DEF AheadOK
    <3>2. CASE asked'[appOf(w)] /= w
      <4>1. PICK k \in DOMAIN queue, l \in DOMAIN queue : k < l /\ queue[k] = w /\ queue[l] = v
        BY <2>4, <3>1, <3>2
      <4>2. k /= 1 /\ k \in 1..Len(queue) /\ l \in 1..Len(queue)
        BY <1>1, <2>5, <3>2, <4>1
      <4>3. l /= 1 /\ k - 1 < l - 1
        BY <1>1, <4>1, <4>2
      <4>4. /\ k - 1 \in DOMAIN queue' /\ queue'[k - 1] = w
            /\ l - 1 \in DOMAIN queue' /\ queue'[l - 1] = v
        BY <2>1, <4>1, <4>2, <4>3
      <4> QED BY <3>1, <4>3, <4>4
    <3> QED BY <3>1, <3>2
  <2>8. AheadOK'
    BY <2>2, <2>7 DEF AheadOK
  <2> QED BY <2>6, <2>8
<1>6. ASSUME Load \/ Subscribe \/ Unsubscribe \/ Receive PROVE PendingOK' /\ AheadOK'
  BY <1>6, OrderUnchanged DEF Load, Subscribe, Unsubscribe, Receive, delegate
<1>7. ASSUME mailbox /= <<>>
      PROVE  /\ callOf(Head(mailbox)) \in Updates
             /\ asked[appOf(callOf(Head(mailbox)))] = callOf(Head(mailbox))
  <2>1. Head(mailbox) = mailbox[1] /\ 1 \in DOMAIN mailbox
    BY <1>7, Removed DEF TypeInv, TypeOK
  <2> QED BY <2>1, OneCall
<1>8. ASSUME HandleUpdate PROVE PendingOK' /\ AheadOK'
  <2> DEFINE u == Head(mailbox).update
  <2>1. u = callOf(Head(mailbox)) /\ mailbox /= <<>> /\ KindOf[u] /= "Query" /\ UNCHANGED <<queue, ahead>>
    BY <1>1, <1>8, FirstMessage DEF HandleUpdate, callOf, TypeOK
  <2>2. PICK e \in resolveUpdateEffect(u) : UNCHANGED <<asked, reply>> \/ Answer(e.update, "failed")
    BY <1>8 DEF HandleUpdate
  <2> HIDE DEF u
  <2>3. u \in Updates /\ asked[appOf(u)] = u
    BY <1>7, <2>1
  <2>4. e.update = u
    BY <1>1, <2>1, <2>3, Resolved
  <2>5. CASE UNCHANGED <<asked, reply>>
    BY <2>1, <2>5, OrderUnchanged
  <2>6. CASE Answer(u, "failed")
    BY <2>1, <2>3, <2>6, OrderAnswered
  <2> QED BY <2>2, <2>4, <2>5, <2>6
<1>9. ASSUME HandleQuery PROVE PendingOK' /\ AheadOK'
  <2> DEFINE u == Head(mailbox).update
  <2>1. u = callOf(Head(mailbox)) /\ mailbox /= <<>> /\ Answer(u, "ok") /\ UNCHANGED <<queue, ahead>>
    BY <1>9 DEF HandleQuery, callOf
  <2> HIDE DEF u
  <2> QED BY <1>7, <2>1, OrderAnswered
<1>10. ASSUME HandleRepositoryStateUpdated PROVE PendingOK' /\ AheadOK'
  <2> DEFINE u == Head(mailbox).effect.update
  <2>1. /\ u = callOf(Head(mailbox)) /\ mailbox /= <<>> /\ UNCHANGED <<queue, ahead>>
        /\ Answer(u, "ok") \/ UNCHANGED <<asked, reply>>
    BY <1>10 DEF HandleRepositoryStateUpdated, callOf
  <2> HIDE DEF u
  <2>2. CASE UNCHANGED <<asked, reply>>
    BY <2>1, <2>2, OrderUnchanged
  <2>3. CASE Answer(u, "ok")
    BY <1>7, <2>1, <2>3, OrderAnswered
  <2> QED BY <2>1, <2>2, <2>3
<1>11. ASSUME NEW e \in writes, WriteSucceeds(e) PROVE PendingOK' /\ AheadOK'
  BY <1>11, OrderUnchanged DEF WriteSucceeds, delegate
<1>12. ASSUME NEW e \in writes \cup stepping,
              Answer(e.update, "failed") \/ Answer(e.update, "ok"), UNCHANGED <<queue, ahead>>
       PROVE  PendingOK' /\ AheadOK'
  BY <1>12, OneCall, OrderAnswered
<1>13. ASSUME NEW e \in writes, WriteFails(e) PROVE PendingOK' /\ AheadOK'
  BY <1>12, <1>13 DEF WriteFails
<1>14. ASSUME NEW e \in stepping, StepsDone(e) PROVE PendingOK' /\ AheadOK'
  BY <1>12, <1>14 DEF StepsDone
<1>15. ASSUME Crash PROVE PendingOK' /\ AheadOK'
  <2>1. \A u \in Updates : reply'[u] /= "pending" /\ (reply'[u] = "none" => reply[u] = "none")
    BY <1>15 DEF Crash
  <2>2. UNCHANGED ahead
    BY <1>15 DEF Crash
  <2>3. \A v \in Updates : \A w \in ahead[v] : w \in Updates /\ reply'[w] /= "none"
    BY <1>1, <2>1 DEF AheadOK
  <2> QED BY <2>1, <2>2, <2>3 DEF PendingOK, AheadOK
<1>16. CASE UNCHANGED vars
  BY <1>16, OrderUnchanged DEF vars
<1> QED
  BY <1>2, <1>3, <1>4, <1>5, <1>6, <1>8, <1>9, <1>10, <1>11, <1>13, <1>14, <1>15, <1>16 DEF Next, Actor

LEMMA OrderInit == Init => OrderInv
<1> SUFFICES ASSUME Init PROVE OrderInv
  OBVIOUS
<1>1. EffectsOK /\ PendingOK /\ AheadOK
  BY DEF Init, EffectsOK, PendingOK, AheadOK
<1> QED
  BY <1>1, CallsInit DEF OrderInv

LEMMA OrderInvStep ==
    ASSUME AskMayTimeOut = FALSE, FailuresAmbiguous = FALSE, OrderInv, [Next]_vars
    PROVE  OrderInv'
<1>1. TypeInv /\ PlacesOK /\ LoadingOK /\ CallsInv
  BY DEF OrderInv, CallsInv, ViewInv
<1>2. CallsInv' /\ EffectsOK' /\ PendingOK' /\ AheadOK'
  BY <1>1, CallsStep, EffectsStep, OrderStep, TrackerAssumption DEF OrderInv
<1> QED
  BY <1>2 DEF OrderInv

LEMMA OrderAlways ==
    ASSUME AskMayTimeOut = FALSE, FailuresAmbiguous = FALSE PROVE Spec => []OrderInv
<1>1. Init => OrderInv
  BY OrderInit
<1>2. OrderInv /\ [Next]_vars => OrderInv'
  BY OrderInvStep
<1> QED
  BY <1>1, <1>2, PTL DEF Spec

(* What the actor remembers is what the repository holds, but for the      *)
(* changes it has not been told of: the updates are resolved against the   *)
(* instances as they are stored, also after a restart.                     *)
THEOREM MemoryCorrect ==
    ASSUME AskMayTimeOut = FALSE, FailuresAmbiguous = FALSE PROVE Spec => []MemoryIsPersisted
<1>1. OrderInv => MemoryIsPersisted
  <2> SUFFICES ASSUME OrderInv, phase = "initialized", NEW i \in Instances, OnItsWay(i) = {}
               PROVE  memory[i] = repo[i]
    BY DEF MemoryIsPersisted
  <2>1. \A k \in DOMAIN mailbox : Stored(mailbox[k]) => InstanceOf[callOf(mailbox[k])] /= i
    BY DEF OnItsWay, Range, Stored, callOf
  <2>2. \A u \in Updates : StoredCall(mailbox, u) => InstanceOf[u] /= i
    BY <2>1 DEF StoredCall
  <2> QED BY <2>2 DEF OrderInv, EffectsOK, Agree
<1> QED
  BY <1>1, OrderAlways, PTL

(* A query is answered after the updates of its app that were queued       *)
(* before it.                                                              *)
LEMMA QueryAnswered ==
    ASSUME AskMayTimeOut = FALSE, OrderInv, HandleQuery, NEW u \in Updates, u = callOf(Head(mailbox))
    PROVE  /\ asked[appOf(u)] = u
           /\ \A v \in ahead[u] : reply[v] /= "pending"
           /\ \A i \in Instances : AppOf[i] = appOf(u) => memory[i] = repo[i]
<1>1. /\ TypeInv /\ PlacesOK /\ TypeOK /\ QueueOK /\ AskedOK /\ AheadOK /\ EffectsOK
      /\ mailbox \in Seq(Messages) /\ None \notin Updates
  BY TrackerAssumption DEF OrderInv, CallsInv, ViewInv, TypeInv, TypeOK, PlacesOK, TrackerAssumption
<1>2. mailbox /= <<>> /\ phase = "initialized" /\ Head(mailbox).type /= "RepositoryStateUpdated"
  BY DEF HandleQuery
<1>3. asked[appOf(u)] = u
  <2>1. Head(mailbox) = mailbox[1] /\ 1 \in DOMAIN mailbox
    BY <1>1, <1>2, Removed
  <2> QED BY <1>1, <2>1, OneCall
<1>4. reply[u] = "pending"
  BY <1>1, <1>3, TrackerAssumption, appOfType DEF AskedOK
<1>5. ASSUME NEW v \in ahead[u], reply[v] = "pending" PROVE FALSE
  <2>1. v \in Updates
    BY <1>1 DEF TypeOK
  <2>2. /\ v /= u /\ appOf(v) = appOf(u)
        /\ \/ asked[appOf(v)] = v
           \/ \E l \in DOMAIN queue : queue[l] = u
    BY <1>1, <1>4, <1>5, <2>1 DEF AheadOK
  <2> QED BY <1>1, <1>3, <2>2 DEF QueueOK
<1>6. ASSUME NEW i \in Instances, AppOf[i] = appOf(u) PROVE memory[i] = repo[i]
  <2>1. \A v \in Updates : StoredCall(mailbox, v) => AppOf[InstanceOf[v]] /= AppOf[InstanceOf[u]]
    BY <1>1, <1>2, <1>3, FirstNotStored, NotStored
  <2>2. \A v \in Updates : StoredCall(mailbox, v) => InstanceOf[v] /= i
    BY <1>6, <2>1 DEF appOf
  <2> QED BY <1>1, <1>2, <2>2 DEF EffectsOK, Agree
<1> QED
  BY <1>3, <1>5, <1>6

(* A read with readAfterWrite is answered with what the repository holds   *)
(* when every update queued before it has been answered.                   *)
THEOREM ReadsCorrect ==
    ASSUME AskMayTimeOut = FALSE, FailuresAmbiguous = FALSE PROVE Spec => ReadsSeeWrites
<1> DEFINE Sees == \A u \in Updates :
                      result'[u] /= result[u]
                      => /\ \A v \in ahead[u] : reply[v] /= "pending"
                         /\ \A i \in DOMAIN result'[u] : result'[u][i] = repo[i]
<1>1. OrderInv /\ [Next]_vars => [Sees]_vars
  <2> SUFFICES ASSUME OrderInv, Next, NEW u \in Updates, result'[u] /= result[u]
               PROVE  /\ \A v \in ahead[u] : reply[v] /= "pending"
                      /\ \A i \in DOMAIN result'[u] : result'[u][i] = repo[i]
    BY Zenon
  <2>1. HandleQuery
    BY DEF Next, Actor, Process, Expire, AskTimeout, Dispatch, Load, HandleUpdate,
           HandleRepositoryStateUpdated, WriteSucceeds, WriteFails, StepsDone, Subscribe, Unsubscribe,
           Receive, Crash, delegate
  <2> DEFINE w == Head(mailbox).update
  <2>2. /\ mailbox /= <<>> /\ w = callOf(Head(mailbox))
        /\ \/ result' = [result EXCEPT ![w] = specInstances(appOf(w))]
           \/ result' = result
    BY <2>1 DEF HandleQuery, callOf
  <2> HIDE DEF w
  <2>3. u = w
    BY <2>2 DEF OrderInv, CallsInv, ViewInv, TypeInv, TypeOK
  <2>4. result'[u] = specInstances(appOf(u))
    BY <2>2, <2>3 DEF OrderInv, CallsInv, ViewInv, TypeInv, TypeOK
  <2>5. /\ \A v \in ahead[u] : reply[v] /= "pending"
        /\ \A i \in Instances : AppOf[i] = appOf(u) => memory[i] = repo[i]
    BY <2>1, <2>2, <2>3, QueryAnswered
  <2>6. \A i \in DOMAIN result'[u] : i \in Instances /\ AppOf[i] = appOf(u) /\ result'[u][i] = memory[i]
    BY <2>4 DEF specInstances
  <2> QED BY <2>5, <2>6
<1> QED
  BY <1>1, OrderAlways, PTL DEF Spec, ReadsSeeWrites

-----------------------------------------------------------------------------
(* The calls take effect one at a time.                                    *)

Done(box, ss, u) == StoredCall(box, u) \/ \E e \in ss : e.update = u

outcome == [u \in Updates |-> IF reply[u] /= "pending" THEN reply[u]
                              ELSE IF written(u) THEN "applied" ELSE "open"]

(* The outcome of the calls, now and next.                                 *)
LEMMA Outcomes ==
    ASSUME TypeOK, TypeOK'
    PROVE  /\ DOMAIN outcome = Updates /\ DOMAIN outcome' = Updates
           /\ \A u \in Updates :
                 /\ outcome[u] = IF reply[u] /= "pending" THEN reply[u]
                                 ELSE IF Done(mailbox, stepping, u) THEN "applied" ELSE "open"
                 /\ outcome'[u] = IF reply'[u] /= "pending" THEN reply'[u]
                                  ELSE IF Done(mailbox', stepping', u) THEN "applied" ELSE "open"
<1>1. \A m \in Messages : Stored(m) => m.effect.update = callOf(m)
  BY DEF Stored, callOf
<1>2. /\ \A k \in DOMAIN mailbox : mailbox[k] \in Messages
      /\ \A k \in DOMAIN mailbox' : mailbox'[k] \in Messages
  BY DEF TypeOK
<1>3. \A u \in Updates : written(u) <=> Done(mailbox, stepping, u)
  BY <1>2 DEF written, Range, Done, StoredCall, Stored, callOf
<1>4. \A u \in Updates : written(u)' <=> Done(mailbox', stepping', u)
  BY <1>2 DEF written, Range, Done, StoredCall, Stored, callOf
<1> QED
  BY <1>3, <1>4 DEF outcome

LEMMA OutcomeSame ==
    ASSUME TypeOK, TypeOK', UNCHANGED reply,
           \A v \in Updates : Done(mailbox', stepping', v) <=> Done(mailbox, stepping, v)
    PROVE  outcome' = outcome
<1>1. \A v \in Updates : outcome'[v] = outcome[v]
  BY Outcomes
<1>2. outcome = [v \in Updates |-> outcome[v]] /\ outcome' = [v \in Updates |-> outcome'[v]]
  BY DEF outcome
<1> QED
  BY <1>1, <1>2

(* The outcome of one call changes.                                        *)
LEMMA OutcomeOf ==
    ASSUME TypeOK, TypeOK', NEW u \in Updates, NEW o, outcome'[u] = o,
           \A v \in Updates \ {u} :
              /\ reply'[v] = reply[v]
              /\ Done(mailbox', stepping', v) <=> Done(mailbox, stepping, v)
    PROVE  outcome' = [outcome EXCEPT ![u] = o]
<1>1. \A v \in Updates \ {u} : outcome'[v] = outcome[v]
  BY Outcomes
<1>2. outcome = [v \in Updates |-> outcome[v]] /\ outcome' = [v \in Updates |-> outcome'[v]]
  BY DEF outcome
<1> QED
  BY <1>1, <1>2

(* Nothing else of what a call does can be seen.                           *)
LEMMA NotDone ==
    ASSUME AskMayTimeOut = FALSE, TypeInv, PlacesOK, NEW u \in Updates, asked[appOf(u)] /= u
    PROVE  ~ Done(mailbox, stepping, u)
<1>1. Idle(mailbox, writes, stepping, u)
  BY IdleUnlessCalled DEF PlacesOK, underWay
<1> QED
  BY <1>1 DEF Idle, Done, StoredCall

LEMMA DoneAppended ==
    ASSUME NEW box \in Seq(Messages), NEW m \in Messages, NEW ss, ~ Stored(m)
    PROVE  \A u : Done(Append(box, m), ss, u) <=> Done(box, ss, u)
  BY StoredAppended DEF Done

LEMMA DoneRemoved ==
    ASSUME NEW box \in Seq(Messages), box /= <<>>, NEW ss, ~ Stored(Head(box))
    PROVE  \A u : Done(Tail(box), ss, u) <=> Done(box, ss, u)
  BY StoredRemoved DEF Done

(* A call that an unstored message is about has had no effect.             *)
LEMMA FirstNotDone ==
    ASSUME TypeInv, PlacesOK, mailbox /= <<>>, ~ Stored(Head(mailbox))
    PROVE  ~ Done(mailbox, stepping, callOf(Head(mailbox)))
<1>1. mailbox \in Seq(Messages) /\ Working(mailbox, writes, stepping, underWay)
  BY DEF TypeInv, TypeOK, PlacesOK
<1>2. Head(mailbox) = mailbox[1] /\ 1 \in DOMAIN mailbox
  BY <1>1, Removed
<1>3. \A k \in DOMAIN mailbox : callOf(mailbox[k]) = callOf(mailbox[1]) => k = 1
  BY <1>1, <1>2 DEF Working
<1>4. \A e \in stepping : e.update /= callOf(mailbox[1])
  BY <1>1, <1>2 DEF Working
<1> QED
  BY <1>2, <1>3, <1>4 DEF Done, StoredCall

(* An answered call is the only one whose outcome changes.                 *)
LEMMA OutcomeAnswered ==
    ASSUME TypeInv, TypeInv', PlacesOK, NEW u \in Updates, NEW r \in {"ok", "failed"},
           asked[appOf(u)] = u, Answer(u, r),
           \A v \in Updates \ {u} : Done(mailbox', stepping', v) <=> Done(mailbox, stepping, v)
    PROVE  /\ outcome[u] = IF Done(mailbox, stepping, u) THEN "applied" ELSE "open"
           /\ outcome' = [outcome EXCEPT ![u] = r]
<1>1. TypeOK /\ TypeOK' /\ reply' = [reply EXCEPT ![u] = r] /\ DOMAIN reply = Updates /\ AskedOK
  BY DEF TypeInv, TypeOK, Answer, PlacesOK
<1>2. outcome'[u] = r
  BY <1>1, Outcomes
<1>3. \A v \in Updates \ {u} : reply'[v] = reply[v]
  BY <1>1
<1>4. outcome' = [outcome EXCEPT ![u] = r]
  BY <1>1, <1>2, <1>3, OutcomeOf
<1>5. reply[u] = "pending"
  BY <1>1, TrackerAssumption, appOfType DEF AskedOK, TrackerAssumption
<1> QED
  BY <1>1, <1>4, <1>5, Outcomes

(* The steps of AtomicUpdates.                                             *)
LEMMA Stutters ==
    ASSUME UNCHANGED <<repo, result>>, outcome' = outcome
    PROVE  [Promise!Next]_(Promise!vars)
  BY DEF Promise!vars, outcome

LEMMA Calls ==
    ASSUME NEW u \in Updates, outcome[u] = "none", outcome' = [outcome EXCEPT ![u] = "open"],
           UNCHANGED <<repo, result>>
    PROVE  Promise!Next
<1>1. Promise!Call(u)
  BY DEF Promise!Call, outcome
<1> QED
  BY <1>1 DEF Promise!Next

LEMMA TakesEffect ==
    ASSUME NEW u \in Updates, outcome[u] = "open", Promise!accepts(repo[InstanceOf[u]], u),
           repo' = [repo EXCEPT ![InstanceOf[u]] = Promise!after(repo[InstanceOf[u]], u)],
           outcome' = [outcome EXCEPT ![u] = "applied"], UNCHANGED result
    PROVE  Promise!Next
<1>1. Promise!TakeEffect(u)
  BY DEF Promise!TakeEffect, outcome
<1> QED
  BY <1>1 DEF Promise!Next

LEMMA Acknowledges ==
    ASSUME NEW u \in Updates,
           outcome[u] = "applied" \/ (outcome[u] = "open" /\ Promise!ignores(repo[InstanceOf[u]], u)),
           outcome' = [outcome EXCEPT ![u] = "ok"], UNCHANGED <<repo, result>>
    PROVE  Promise!Next
<1>1. Promise!Acknowledge(u)
  BY DEF Promise!Acknowledge, outcome
<1> QED
  BY <1>1 DEF Promise!Next

LEMMA Reads ==
    ASSUME NEW u \in Updates, KindOf[u] = "Query", outcome[u] = "open",
           outcome' = [outcome EXCEPT ![u] = "ok"],
           result' = [result EXCEPT ![u] = Promise!specInstances(repo, AppOf[InstanceOf[u]])],
           UNCHANGED repo
    PROVE  Promise!Next
<1>1. Promise!Read(u)
  BY DEF Promise!Read, outcome
<1> QED
  BY <1>1 DEF Promise!Next

LEMMA Refuses ==
    ASSUME NEW u \in Updates, outcome[u] \in {"none", "open"},
           outcome' = [outcome EXCEPT ![u] = "failed"], UNCHANGED <<repo, result>>
    PROVE  Promise!Next
<1>1. Promise!Refuse(u)
  BY DEF Promise!Refuse, outcome
<1> QED
  BY <1>1 DEF Promise!Next

LEMMA LosesLeader ==
    ASSUME NEW landed \in SUBSET Updates,
           \A u \in landed : outcome[u] = "open" /\ Promise!accepts(repo[InstanceOf[u]], u),
           \A u, v \in landed : InstanceOf[u] = InstanceOf[v] => u = v,
           repo' = [i \in Instances |->
                       IF \E u \in landed : InstanceOf[u] = i
                       THEN Promise!after(repo[i], CHOOSE u \in landed : InstanceOf[u] = i)
                       ELSE repo[i]],
           outcome' = [u \in Updates |-> IF outcome[u] \in {"open", "applied"} THEN "lost" ELSE outcome[u]],
           UNCHANGED result
    PROVE  Promise!Next
<1>1. Promise!LoseLeader(landed)
  BY DEF Promise!LoseLeader, outcome
<1> QED
  BY <1>1 DEF Promise!Next

LEMMA CrashImplements ==
    ASSUME AskMayTimeOut = FALSE, OrderInv, OrderInv', Crash
    PROVE  Promise!Next
<1>1. /\ TypeInv /\ PlacesOK /\ TypeOK /\ TypeOK' /\ Working(mailbox, writes, stepping, underWay)
      /\ AskedOK /\ EffectsOK /\ writes \subseteq Effects
      /\ reply \in [Updates -> {"none", "pending", "ok", "failed", "lost"}]
  BY DEF OrderInv, CallsInv, ViewInv, TypeInv, TypeOK, PlacesOK
<1>2. PICK landed \in SUBSET writes :
        /\ \A d, e \in landed : InstanceOf[d.update] = InstanceOf[e.update] => d = e
        /\ repo' = [i \in Instances |->
                       IF \E e \in landed : InstanceOf[e.update] = i
                       THEN (CHOOSE e \in landed : InstanceOf[e.update] = i).instance
                       ELSE repo[i]]
  BY DEF Crash
<1> DEFINE calls == {e.update : e \in landed}
           called(i) == \E u \in calls : InstanceOf[u] = i
           the(i) == CHOOSE u \in calls : InstanceOf[u] = i
           written1(i) == \E e \in landed : InstanceOf[e.update] = i
           that(i) == CHOOSE e \in landed : InstanceOf[e.update] = i
<1>3. \A e \in landed : e \in writes /\ e.update \in Updates /\ asked[appOf(e.update)] = e.update
  BY <1>1, OneCall
<1>4. calls \in SUBSET Updates
  BY <1>3
<1>5. \A u, v \in calls : InstanceOf[u] = InstanceOf[v] => u = v
  BY <1>2
<1>6. ASSUME NEW u \in calls
      PROVE  outcome[u] = "open" /\ Promise!accepts(repo[InstanceOf[u]], u)
  <2>1. PICK e \in landed : u = e.update
    OBVIOUS
  <2>2. WriteOK(e, repo)
    BY <1>1, <1>3, <2>1 DEF EffectsOK
  <2>3. reply[u] = "pending"
    BY <1>1, <1>3, <2>1, TrackerAssumption, appOfType DEF AskedOK, TrackerAssumption
  <2>4. ~ Done(mailbox, stepping, u)
    BY <1>1, <1>3, <2>1 DEF Working, Done, StoredCall
  <2> QED BY <1>1, <1>3, <2>1, <2>2, <2>3, <2>4, Outcomes DEF WriteOK
<1>7. \A i \in Instances : called(i) <=> written1(i)
  OBVIOUS
<1>8. ASSUME NEW i \in Instances, written1(i)
      PROVE  that(i).instance = Promise!after(repo[i], the(i))
  <2>1. PICK e \in landed : InstanceOf[e.update] = i
    BY <1>8
  <2>2. that(i) = e
    <3>1. \A d \in landed : InstanceOf[d.update] = i => d = e
      BY <1>2, <2>1
    <3> QED BY <2>1, <3>1
  <2>3. the(i) = e.update
    <3>1. e.update \in calls /\ \A u \in calls : InstanceOf[u] = i => u = e.update
      BY <1>5, <2>1
    <3> QED BY <2>1, <3>1
  <2>4. e.instance = Promise!after(repo[i], e.update)
    BY <1>1, <1>3, <2>1 DEF EffectsOK, WriteOK
  <2> HIDE DEF that, the
  <2> QED BY <2>2, <2>3, <2>4
<1>9. repo' = [i \in Instances |-> IF written1(i) THEN that(i).instance ELSE repo[i]]
  BY <1>2
<1> HIDE DEF that, the, called, written1
<1>10. repo' = [i \in Instances |-> IF called(i) THEN Promise!after(repo[i], the(i)) ELSE repo[i]]
  BY <1>7, <1>8, <1>9
<1> HIDE DEF calls
<1>11. repo' = [i \in Instances |->
                   IF \E u \in calls : InstanceOf[u] = i
                   THEN Promise!after(repo[i], CHOOSE u \in calls : InstanceOf[u] = i)
                   ELSE repo[i]]
  BY <1>10 DEF called, the
<1>12. outcome' = [u \in Updates |-> IF outcome[u] \in {"open", "applied"} THEN "lost" ELSE outcome[u]]
  <2>1. reply' = [u \in Updates |-> IF reply[u] = "pending" THEN "lost" ELSE reply[u]]
    BY DEF Crash
  <2>2. \A u \in Updates : outcome'[u] = IF outcome[u] \in {"open", "applied"} THEN "lost" ELSE outcome[u]
    BY <1>1, <2>1, Outcomes
  <2>3. outcome' = [u \in Updates |-> outcome'[u]]
    BY DEF outcome
  <2> QED BY <2>2, <2>3
<1>13. UNCHANGED result
  BY DEF Crash
<1> QED
  BY <1>4, <1>5, <1>6, <1>11, <1>12, <1>13, LosesLeader

LEMMA RefinementStep ==
    ASSUME AskMayTimeOut = FALSE, FailuresAmbiguous = FALSE, OrderInv, OrderInv', [Next]_vars
    PROVE  [Promise!Next]_(Promise!vars)
<1>1. /\ TypeInv /\ TypeInv' /\ PlacesOK /\ TypeOK /\ TypeOK' /\ KindsOK /\ AskedOK /\ QueueOK /\ EffectsOK
      /\ Working(mailbox, writes, stepping, underWay) /\ mailbox \in Seq(Messages)
      /\ DOMAIN reply = Updates /\ DOMAIN result = Updates /\ None \notin Updates
      /\ reply \in [Updates -> {"none", "pending", "ok", "failed", "lost"}]
  BY TrackerAssumption
  DEF OrderInv, CallsInv, ViewInv, TypeInv, TypeOK, PlacesOK, TrackerAssumption
<1>2. ASSUME UNCHANGED <<repo, result, reply, mailbox, stepping>>
      PROVE  [Promise!Next]_(Promise!vars)
  BY <1>1, <1>2, OutcomeSame, Stutters
<1>3. ASSUME NEW u \in Updates, Process(u) PROVE [Promise!Next]_(Promise!vars)
  <2>1. /\ reply[u] = "none" /\ UNCHANGED <<repo, result, mailbox, stepping>>
        /\ reply' = [reply EXCEPT ![u] = "pending"] \/ reply' = [reply EXCEPT ![u] = "failed"]
    BY <1>3 DEF Process
  <2>2. asked[appOf(u)] /= u
    BY <1>1, <2>1, TrackerAssumption, appOfType DEF AskedOK
  <2>3. ~ Done(mailbox, stepping, u)
    BY <1>1, <2>2, NotDone
  <2>4. outcome[u] = "none"
    BY <1>1, <2>1, Outcomes
  <2>5. CASE reply' = [reply EXCEPT ![u] = "pending"]
    <3>1. outcome'[u] = "open"
      BY <1>1, <2>1, <2>3, <2>5, Outcomes
    <3>2. outcome' = [outcome EXCEPT ![u] = "open"]
      BY <1>1, <2>1, <2>5, <3>1, OutcomeOf
    <3> QED BY <2>1, <2>4, <3>2, Calls
  <2>6. CASE reply' = [reply EXCEPT ![u] = "failed"]
    <3>1. outcome'[u] = "failed"
      BY <1>1, <2>1, <2>6, Outcomes
    <3>2. outcome' = [outcome EXCEPT ![u] = "failed"]
      BY <1>1, <2>1, <2>6, <3>1, OutcomeOf
    <3> QED BY <2>1, <2>4, <3>2, Refuses
  <2> QED BY <2>1, <2>5, <2>6
<1>4. ASSUME NEW u \in Updates, Expire(u) PROVE [Promise!Next]_(Promise!vars)
  BY <1>2, <1>4 DEF Expire
<1>5. ASSUME NEW u \in Updates, AskTimeout(u) PROVE FALSE
  BY <1>5 DEF AskTimeout
<1>6. ASSUME Dispatch PROVE [Promise!Next]_(Promise!vars)
  <2> DEFINE u == Head(queue)
             m == [type |-> IF KindOf[u] = "Query" THEN "ListBySpec" ELSE "UpdateContext", update |-> u]
  <2>1. mailbox' = Append(mailbox, m) /\ UNCHANGED <<repo, result, reply, stepping>> /\ u \in Updates
    BY <1>1, <1>6, Removed DEF Dispatch, TypeOK
  <2>2. m \in Messages /\ ~ Stored(m)
    BY <2>1 DEF Messages, Stored
  <2> HIDE DEF u, m
  <2>3. \A v : Done(mailbox', stepping', v) <=> Done(mailbox, stepping, v)
    BY <1>1, <2>1, <2>2, DoneAppended
  <2> QED BY <1>1, <2>1, <2>3, OutcomeSame, Stutters
<1>7. ASSUME Load \/ Subscribe \/ Unsubscribe \/ Receive PROVE [Promise!Next]_(Promise!vars)
  BY <1>2, <1>7 DEF Load, Subscribe, Unsubscribe, Receive, delegate
<1>8. ASSUME mailbox /= <<>>
      PROVE  /\ Head(mailbox) \in Messages /\ callOf(Head(mailbox)) \in Updates
             /\ Tail(mailbox) \in Seq(Messages)
             /\ asked[appOf(callOf(Head(mailbox)))] = callOf(Head(mailbox))
             /\ MessageOK(Head(mailbox), repo)
  <2>1. Head(mailbox) = mailbox[1] /\ 1 \in DOMAIN mailbox /\ Tail(mailbox) \in Seq(Messages)
    BY <1>1, <1>8, Removed
  <2> QED BY <1>1, <2>1, OneCall DEF EffectsOK
(* The first message has not been written, and is dropped or answered.     *)
<1>9. ASSUME mailbox /= <<>>, mailbox' = Tail(mailbox), ~ Stored(Head(mailbox)), UNCHANGED stepping
      PROVE  \A v : Done(mailbox', stepping', v) <=> Done(mailbox, stepping, v)
  BY <1>1, <1>9, DoneRemoved
<1>10. ASSUME NEW u \in Updates, NEW r \in {"ok", "failed"}, mailbox /= <<>>, mailbox' = Tail(mailbox),
              u = callOf(Head(mailbox)), ~ Stored(Head(mailbox)), UNCHANGED stepping, Answer(u, r)
       PROVE  outcome[u] = "open" /\ outcome' = [outcome EXCEPT ![u] = r]
  <2>1. \A v : Done(mailbox', stepping', v) <=> Done(mailbox, stepping, v)
    BY <1>9, <1>10
  <2>2. asked[appOf(u)] = u
    BY <1>8, <1>10
  <2>3. ~ Done(mailbox, stepping, u)
    BY <1>1, <1>10, FirstNotDone
  <2> QED BY <1>1, <1>10, <2>1, <2>2, <2>3, OutcomeAnswered
<1>11. ASSUME HandleUpdate PROVE [Promise!Next]_(Promise!vars)
  <2> DEFINE u == Head(mailbox).update
  <2>1. /\ u = callOf(Head(mailbox)) /\ mailbox /= <<>> /\ KindOf[u] /= "Query"
        /\ ~ Stored(Head(mailbox)) /\ UNCHANGED <<repo, result, stepping>>
    BY <1>1, <1>11, FirstMessage DEF HandleUpdate, callOf, Stored
  <2>2. PICK e \in resolveUpdateEffect(u) :
          \/ /\ mailbox' = Tail(mailbox)
             /\ UNCHANGED reply
          \/ /\ e.effect = "Noop"
             /\ mailbox' = Append(Tail(mailbox), [type |-> "RepositoryStateUpdated", effect |-> e])
             /\ UNCHANGED reply
          \/ /\ mailbox' = Tail(mailbox)
             /\ Answer(e.update, "failed")
    BY <1>11 DEF HandleUpdate
  <2> HIDE DEF u
  <2>3. u \in Updates
    BY <1>8, <2>1
  <2>4. e.update = u /\ (e \in Effects \/ e.effect = "Failure")
    BY <1>1, <2>1, <2>3, Resolved, TrackerAssumption
  <2>5. CASE mailbox' = Tail(mailbox) /\ UNCHANGED reply
    <3>1. \A v : Done(mailbox', stepping', v) <=> Done(mailbox, stepping, v)
      BY <1>9, <2>1, <2>5
    <3> QED BY <1>1, <2>1, <2>5, <3>1, OutcomeSame, Stutters
  <2>6. CASE /\ e.effect = "Noop"
             /\ mailbox' = Append(Tail(mailbox), [type |-> "RepositoryStateUpdated", effect |-> e])
             /\ UNCHANGED reply
    <3> DEFINE m == [type |-> "RepositoryStateUpdated", effect |-> e]
    <3>1. m \in Messages /\ ~ Stored(m)
      BY <2>4, <2>6, StoredMessage DEF Stored
    <3>2. mailbox' = Append(Tail(mailbox), m)
      BY <2>6
    <3> HIDE DEF m
    <3>3. \A v : Done(mailbox', stepping, v) <=> Done(Tail(mailbox), stepping, v)
      BY <1>8, <2>1, <3>1, <3>2, DoneAppended
    <3>4. \A v : Done(Tail(mailbox), stepping, v) <=> Done(mailbox, stepping, v)
      BY <1>1, <2>1, DoneRemoved
    <3> QED BY <1>1, <2>1, <2>6, <3>3, <3>4, OutcomeSame, Stutters
  <2>7. CASE mailbox' = Tail(mailbox) /\ Answer(u, "failed")
    <3>1. outcome[u] = "open" /\ outcome' = [outcome EXCEPT ![u] = "failed"]
      BY <1>10, <2>1, <2>3, <2>7
    <3> QED BY <2>1, <2>3, <3>1, Refuses
  <2> QED BY <2>2, <2>4, <2>5, <2>6, <2>7
<1>12. ASSUME HandleQuery PROVE [Promise!Next]_(Promise!vars)
  <2> DEFINE u == Head(mailbox).update
  <2>1. /\ u = callOf(Head(mailbox)) /\ mailbox /= <<>> /\ mailbox' = Tail(mailbox)
        /\ Head(mailbox).type = "ListBySpec" /\ ~ Stored(Head(mailbox))
        /\ Answer(u, "ok") /\ UNCHANGED <<repo, stepping>>
        /\ result' = IF asked[appOf(u)] = u THEN [result EXCEPT ![u] = specInstances(appOf(u))] ELSE result
    BY <1>12 DEF HandleQuery, callOf, Stored
  <2>2. KindOf[u] = "Query"
    BY <1>1, <2>1, FirstMessage
  <2> HIDE DEF u
  <2>3. u \in Updates
    BY <1>8, <2>1
  <2>4. /\ asked[appOf(u)] = u
        /\ \A i \in Instances : AppOf[i] = appOf(u) => memory[i] = repo[i]
    BY <1>12, <2>1, <2>3, QueryAnswered
  <2>5. specInstances(appOf(u)) = Promise!specInstances(repo, AppOf[InstanceOf[u]])
    BY <2>4 DEF specInstances, Promise!specInstances, appOf
  <2>6. outcome[u] = "open" /\ outcome' = [outcome EXCEPT ![u] = "ok"]
    BY <1>10, <2>1, <2>3
  <2> QED BY <2>1, <2>2, <2>3, <2>4, <2>5, <2>6, Reads
<1>13. ASSUME HandleRepositoryStateUpdated PROVE [Promise!Next]_(Promise!vars)
  <2> DEFINE m == Head(mailbox)
             e == m.effect
             u == e.update
  <2>1. /\ mailbox' = Tail(mailbox) /\ mailbox /= <<>> /\ UNCHANGED <<repo, result>>
        /\ m.type = "RepositoryStateUpdated" /\ u = callOf(m)
        /\ \/ e.effect = "Noop" /\ Answer(u, "ok") /\ UNCHANGED stepping
           \/ e.effect /= "Noop" /\ stepping' = stepping \cup {e} /\ UNCHANGED reply
    BY <1>13 DEF HandleRepositoryStateUpdated, callOf
  <2>2. u \in Updates /\ MessageOK(m, repo)
    BY <1>8, <2>1
  <2>3. CASE e.effect = "Noop" /\ Answer(u, "ok") /\ UNCHANGED stepping
    <3>1. ~ Stored(m) /\ Promise!ignores(repo[InstanceOf[u]], u)
      BY <2>1, <2>2, <2>3 DEF Stored, MessageOK
    <3>2. outcome[u] = "open" /\ outcome' = [outcome EXCEPT ![u] = "ok"]
      BY <1>10, <2>1, <2>2, <2>3, <3>1
    <3> QED BY <2>1, <2>2, <3>1, <3>2, Acknowledges
  <2>4. CASE e.effect /= "Noop" /\ stepping' = stepping \cup {e} /\ UNCHANGED reply
    <3>1. \A v : StoredCall(mailbox, v) <=> StoredCall(mailbox', v) \/ (Stored(m) /\ callOf(m) = v)
      BY <1>1, <2>1, StoredRemoved
    <3>2. Stored(m) /\ callOf(m) = e.update
      BY <2>1, <2>4 DEF Stored
    <3> HIDE DEF m
    <3>3. \A v : Done(mailbox', stepping', v) <=> Done(mailbox, stepping, v)
      BY <2>4, <3>1, <3>2 DEF Done
    <3> QED BY <1>1, <2>1, <2>4, <3>3, OutcomeSame, Stutters
  <2> QED BY <2>1, <2>3, <2>4
<1>14. ASSUME NEW e \in writes, WriteSucceeds(e) PROVE [Promise!Next]_(Promise!vars)
  <2> DEFINE m == [type |-> "RepositoryStateUpdated", effect |-> e]
             u == e.update
             i == InstanceOf[u]
  <2>1. /\ mailbox' = Append(mailbox, m) /\ repo' = persisted(e)
        /\ UNCHANGED <<reply, result, stepping>>
    BY <1>14 DEF WriteSucceeds, delegate
  <2>2. e \in Effects /\ u \in Updates /\ WriteOK(e, repo) /\ asked[appOf(u)] = u
    BY <1>1, OneCall DEF EffectsOK
  <2>3. m \in Messages /\ m.type = "RepositoryStateUpdated" /\ m.effect = e /\ callOf(m) = u
    BY <2>2, StoredMessage
  <2> HIDE DEF m
  <2>4. \A v : Done(mailbox', stepping', v) <=> Done(mailbox, stepping, v) \/ v = u
    BY <1>1, <2>1, <2>2, <2>3, StoredAppended DEF Done, Stored, WriteOK
  <2>5. ~ Done(mailbox, stepping, u)
    BY <1>1 DEF Working, Done, StoredCall
  <2>6. reply[u] = "pending"
    BY <1>1, <2>2, TrackerAssumption, appOfType DEF AskedOK
  <2>7. outcome[u] = "open" /\ outcome'[u] = "applied"
    BY <1>1, <2>1, <2>2, <2>4, <2>5, <2>6, Outcomes
  <2>8. outcome' = [outcome EXCEPT ![u] = "applied"]
    BY <1>1, <2>1, <2>2, <2>4, <2>7, OutcomeOf
  <2>9. /\ Promise!accepts(repo[i], u)
        /\ repo' = [repo EXCEPT ![i] = Promise!after(repo[i], u)]
    BY <2>1, <2>2 DEF WriteOK, persisted
  <2> QED BY <2>1, <2>2, <2>7, <2>8, <2>9, TakesEffect
<1>15. ASSUME NEW e \in writes, WriteFails(e) PROVE [Promise!Next]_(Promise!vars)
  <2>1. Answer(e.update, "failed") /\ UNCHANGED <<repo, result, mailbox, stepping>>
    BY <1>15 DEF WriteFails
  <2>2. e.update \in Updates /\ asked[appOf(e.update)] = e.update
    BY <1>1, OneCall
  <2>3. ~ Done(mailbox, stepping, e.update)
    BY <1>1 DEF Working, Done, StoredCall
  <2>4. outcome[e.update] = "open" /\ outcome' = [outcome EXCEPT ![e.update] = "failed"]
    BY <1>1, <2>1, <2>2, <2>3, OutcomeAnswered
  <2> QED BY <2>1, <2>2, <2>4, Refuses
<1>16. ASSUME NEW e \in stepping, StepsDone(e) PROVE [Promise!Next]_(Promise!vars)
  <2>1. stepping' = stepping \ {e} /\ Answer(e.update, "ok") /\ UNCHANGED <<repo, result, mailbox>>
    BY <1>16 DEF StepsDone
  <2>2. e.update \in Updates /\ asked[appOf(e.update)] = e.update
    BY <1>1, OneCall
  <2>3. Done(mailbox, stepping, e.update)
    BY DEF Done
  <2>4. \A v \in Updates \ {e.update} : Done(mailbox', stepping', v) <=> Done(mailbox, stepping, v)
    BY <2>1 DEF Done
  <2>5. outcome[e.update] = "applied" /\ outcome' = [outcome EXCEPT ![e.update] = "ok"]
    BY <1>1, <2>1, <2>2, <2>3, <2>4, OutcomeAnswered
  <2> QED BY <2>1, <2>2, <2>5, Acknowledges
<1>17. ASSUME Crash PROVE [Promise!Next]_(Promise!vars)
  BY <1>17, CrashImplements
<1>18. CASE UNCHANGED vars
  BY <1>2, <1>18 DEF vars
<1> QED
  BY <1>3, <1>4, <1>5, <1>6, <1>7, <1>11, <1>12, <1>13, <1>14, <1>15, <1>16, <1>17, <1>18 DEF Next, Actor

LEMMA RefinementInit == Init => Promise!Init
<1> SUFFICES ASSUME Init PROVE Promise!Init
  OBVIOUS
<1>1. \A u \in Updates : outcome[u] = "none"
  BY DEF Init, outcome
<1>2. outcome = [u \in Updates |-> "none"]
  BY <1>1 DEF outcome
<1> QED
  BY <1>2 DEF Init, Promise!Init, outcome, Absent, Promise!Absent

(* InstanceTracker.process and specInstances keep what AtomicUpdates       *)
(* promises, as long as the tracker answers in time and a failed write has *)
(* not been made: an update takes effect at one moment between the call    *)
(* and its answer, or not at all.                                          *)
THEOREM AtomicCorrect ==
    ASSUME AskMayTimeOut = FALSE, FailuresAmbiguous = FALSE PROVE Spec => AtomicCalls
<1>1. Init => Promise!Init
  BY RefinementInit
<1>2. OrderInv /\ OrderInv' /\ [Next]_vars => [Promise!Next]_(Promise!vars)
  BY RefinementStep
<1> QED
  BY <1>1, <1>2, OrderAlways, PTL DEF Spec, AtomicCalls, Promise!Spec
==============================================================================
